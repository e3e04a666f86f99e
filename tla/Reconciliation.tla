--------------------------- MODULE Reconciliation ---------------------------
(***************************************************************************)
(* What controllers may do to a cluster, however many of them run and      *)
(* however they fail.  There are no caches, no workqueue and no passes     *)
(* here: there is the cluster, and every version of it there ever was.     *)
(*                                                                         *)
(* A controller's write is one of two things.  Either it merges a child    *)
(* that some version of a ModelService wants on some version of the base   *)
(* into what the cluster holds at that very moment, or it reports in a     *)
(* status what versions of the children showed.                            *)
(*                                                                         *)
(* What a child becomes, what a status may say and what others may do are  *)
(* parameters.                                                             *)
(***************************************************************************)
EXTENDS Naturals

CONSTANTS
    Services, Children,     \* names of ModelServices and of child objects
    Absent,                 \* a child that does not exist
    Asks(_, _),             \* slots a ModelService asks for on a base
    NameOf(_, _),           \* the child a ModelService's slot is called
    Become(_, _, _, _, _),  \* what a child becomes when it is reconciled
    MayReport(_, _, _, _, _), \* statuses a version of a ModelService may get
    MayChange(_, _),        \* what others make of a ModelService
    MayChangeChild(_, _),   \* what others make of a child
    Leaves(_, _),           \* a deletion that a finalizer held up ends
    Orphaned(_, _)          \* a child the garbage collector removes

VARIABLES
    service, child, config,         \* the cluster
    services, children, configs,    \* every version of it so far
    others                          \* how much others did

vars == <<service, child, config, services, children, configs, others>>

Init ==
    /\ services = [m \in Services |-> {service[m]}]
    /\ children = [o \in Children |-> {child[o]}]
    /\ configs = {config}
    /\ others = 0

\* A controller creates or updates a child, in place.
Apply(m) ==
    /\ child' # child
    /\ \E version \in services[m], base \in configs : \E s \in Asks(version, base) :
         child' = [child EXCEPT ![NameOf(m, s)] = Become(@, m, version, base, s)]
    /\ UNCHANGED <<service, config>>

\* A controller writes a status, and nothing else of a ModelService.
ReportStatus(m) ==
    /\ service' # service
    /\ \E version \in services[m], base \in configs :
         MayReport(service'[m].status, m, version, base, children)
    /\ service' = [service EXCEPT ![m].status = service'[m].status]
    /\ UNCHANGED <<child, config>>

\* A controller's write whose answer is lost counts among what others do.
Controller ==
    /\ \E m \in Services : Apply(m) \/ ReportStatus(m)
    /\ others' \in {others, others + 1}

\* Users, autoscalers and other controllers.
Disturbance ==
    /\ \/ /\ \E m \in Services :
               /\ MayChange(service[m], service'[m])
               /\ service' = [service EXCEPT ![m] = service'[m]]
          /\ UNCHANGED <<child, config>>
       \/ /\ \E o \in Children :
               /\ MayChangeChild(child[o], child'[o])
               /\ child' = [child EXCEPT ![o] = child'[o]]
          /\ UNCHANGED <<service, config>>
       \/ UNCHANGED <<service, child>>
    /\ others' = others + 1

\* What the API server tidies up.
Collection ==
    /\ \/ /\ \E m \in Services :
               /\ Leaves(service[m], service'[m])
               /\ service' = [service EXCEPT ![m] = service'[m]]
          /\ UNCHANGED child
       \/ /\ \E o \in Children :
               /\ Orphaned(service, child[o])
               /\ child' = [child EXCEPT ![o] = Absent]
          /\ UNCHANGED service
    /\ UNCHANGED <<config, others>>

\* Nothing the cluster held is forgotten.
Remember ==
    /\ services' = [m \in Services |-> services[m] \cup {service'[m]}]
    /\ children' = [o \in Children |-> children[o] \cup {child'[o]}]
    /\ configs' = configs \cup {config'}

Next == (Controller \/ Disturbance \/ Collection) /\ Remember

Spec == Init /\ [][Next]_vars
=============================================================================
