------------------------- MODULE ModelServiceHistory -------------------------
(***************************************************************************)
(* The reconcile loop with a record of every version of the ModelServices, *)
(* the children and the base the API server has held, and the refinement   *)
(* it is there for: ModelServiceController implements Reconciliation.      *)
(***************************************************************************)
EXTENDS ModelServiceProperties

VARIABLES
    pastMsvc,   \* versions of each ModelService (history)
    pastObjs,   \* versions of each child object (history)
    pastBase    \* versions of the base ConfigMap (history)

history == <<pastMsvc, pastObjs, pastBase>>

HistoryInit ==
    /\ Init
    /\ pastMsvc = [m \in ModelServices |-> {msvc[m]}]
    /\ pastObjs = [o \in Objects |-> {objs[o]}]
    /\ pastBase = {base}

HistoryNext ==
    /\ Next
    /\ pastMsvc' = [m \in ModelServices |-> pastMsvc[m] \cup {msvc'[m]}]
    /\ pastObjs' = [o \in Objects |-> pastObjs[o] \cup {objs'[o]}]
    /\ pastBase' = pastBase \cup {base'}

HistorySpec == HistoryInit /\ [][HistoryNext]_<<vars, history>>

-----------------------------------------------------------------------------
(* The parameters of Reconciliation *)

AskedFor(ms, b) ==
    {s \in Slots :
        /\ ms.phase = "live"
        /\ Renderable(ms.spec, b, NoBase)
        /\ Wanted(ms.spec, b)[s] # NoChild}

ChildName(m, s) == ObjectOf[m][s]

Reconciled(x, m, ms, b, s) ==
    LET p == PassOn(m, ms, b) IN
    IF x = NoObject THEN Created(p, s) ELSE MergeInto(x, p, s)

\* `status` mirrors, for each deployment this version of a ModelService has, a
\* version of that deployment; whatever else it reports is not new.
StatusOf(status, m, ms, b, past) ==
    /\ ms.phase = "live"
    /\ Renderable(ms.spec, b, NoBase)
    /\ \A d \in Mirrored(ms.spec, b) : \E x \in past[ObjectOf[m][d]] :
         /\ status.report[d] = ReportOf(ms.status.report[d], x)
         /\ d \in status.missing <=> x = NoObject
    /\ \A d \in Deployments \ Mirrored(ms.spec, b) :
         status.report[d] = ms.status.report[d] /\ d \notin status.missing
    /\ status.refs = NamedRefs(ms.status.refs, Mirrored(ms.spec, b))

Deleted(ms, new) ==
    new = [phase |-> "absent", uid |-> ms.uid, spec |-> NoSpec, status |-> EmptyStatus]

UserMay(ms, new) ==
    \/ /\ ms.phase = "absent" /\ new.phase = "live"
       /\ new.uid = ms.uid + 1 /\ new.status = EmptyStatus
    \/ ms.phase = "live" /\ new.phase = "live" /\ new = [ms EXCEPT !.spec = new.spec]
    \/ ms.phase = "live" /\ new = [ms EXCEPT !.phase = "deleting"]
    \/ ms.phase = "live" /\ Deleted(ms, new)

OthersMay(x, new) ==
    /\ x # NoObject
    /\ \/ new = NoObject
       \/ \E edit \in ForeignEdits : new = [x EXCEPT !.data[edit[1]] = edit[2]]
       \/ new = [x EXCEPT !.ready = new.ready]

FinalizerDone(ms, new) == ms.phase = "deleting" /\ Deleted(ms, new)

OwnerGone(table, x) ==
    /\ x # NoObject /\ x.owner # NoOwner
    /\ \/ table[x.owner.name].phase = "absent"
       \/ table[x.owner.name].uid # x.owner.uid

Promise == INSTANCE Reconciliation WITH
    Services <- ModelServices, Children <- Objects, Absent <- NoObject,
    Asks <- AskedFor, NameOf <- ChildName, Become <- Reconciled,
    MayReport <- StatusOf, MayChange <- UserMay, MayChangeChild <- OthersMay,
    Leaves <- FinalizerDone, Orphaned <- OwnerGone,
    service <- msvc, child <- objs, config <- base,
    services <- pastMsvc, children <- pastObjs, configs <- pastBase,
    others <- disturbances

\* A stale cache, a second controller process, a crash, a fault or a lost answer
\* never shows in the cluster: every write of a controller merges a child some
\* version of its ModelService wants into what the API server holds at that moment,
\* or reports what versions of the deployments showed (genericCreateOrUpdate and
\* populateStatus).
ReconciliationImplemented == Promise!Spec
=============================================================================
