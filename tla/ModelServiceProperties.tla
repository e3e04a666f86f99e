----------------------- MODULE ModelServiceProperties -----------------------
(***************************************************************************)
(* What the reconcile loop of ModelServiceController promises.             *)
(***************************************************************************)
EXTENDS ModelServiceController

MsvcOK(table) ==
    /\ table \in [ModelServices -> ModelService]
    /\ \A m \in ModelServices : table[m].spec = NoSpec <=> table[m].phase = "absent"

ServerOK ==
    /\ MsvcOK(msvc)
    /\ objs \in [Objects -> Object \cup {NoObject}]
    /\ base \in Bases

CachesOK ==
    /\ seenMsvc \in [Controllers -> [ModelServices -> ModelService]]
    /\ \A c \in Controllers : MsvcOK(seenMsvc[c])
    /\ seenObjs \in [Controllers -> [Objects -> Object \cup {NoObject}]]
    /\ seenBase \in [Controllers -> Bases]

PassesOK ==
    /\ pass \in [Controllers -> Pass \cup {Idle}]
    /\ \A c \in Controllers :
         pass[c] # Idle => pass[c].left \subseteq SlotsOf(pass[c].want)
    /\ usedBase \in [Controllers -> [ModelServices -> Bases]]

QueuesOK ==
    /\ unseen \in [Controllers -> SUBSET ModelServices]
    /\ news \in [Controllers -> [Objects -> SUBSET ModelServices]]
    /\ queue \in [Controllers -> SUBSET ModelServices]
    /\ backoff \in [Controllers -> SUBSET ModelServices]
    /\ disturbances \in 0..MaxDisturbances

\* Every variable holds a value of the kind the code keeps there; a pass has only
\* children left to do that it wants, and only an absent ModelService has no spec.
TypeOK == ServerOK /\ CachesOK /\ PassesOK /\ QueuesOK

-----------------------------------------------------------------------------
(* Settled: a controller has nothing left to do for a live ModelService.  *)

Busy(c, m) == pass[c] # Idle /\ pass[c].key = m

Settled(c, m) ==
    /\ msvc[m].phase = "live"
    /\ m \notin unseen[c]
    /\ m \notin queue[c] \cup backoff[c]
    /\ ~Busy(c, m)
    /\ \A o \in Objects : m \notin news[c][o]

\* The pass a controller would run for a ModelService `ms` on a given base.
PassOn(m, ms, b) ==
    [key |-> m, uid |-> ms.uid, spec |-> ms.spec, base |-> b,
     want |-> Wanted(ms.spec, b)]

\* Reconciling the object x once more changes nothing in it.
Applied(x, p, s) == x # NoObject /\ MergeInto(x, p, s) = x

AllApplied(m, b, slots) ==
    /\ Renderable(msvc[m].spec, b, NoBase)
    /\ LET p == PassOn(m, msvc[m], b) IN
       \A s \in SlotsOf(p.want) \cap slots :
          Owned(p.spec, b, s) => Applied(objs[ObjectOf[m][s]], p, s)

\* When a controller has nothing left to do for a ModelService, the API server
\* holds every child it wants, as it wants it.  No event that mattered was lost:
\* one that came while a pass was reading, a failed call or a restart included.
\* (Reconcile, SetupWithManager and the map functions.)
NoLostWakeup ==
    \A c \in Controllers, m \in ModelServices :
        Settled(c, m) => AllApplied(m, usedBase[c][m], Slots)

\* What a status says of the deployment d is what the object x shows.
Reported(status, d, x) ==
    /\ d \in status.refs \ status.missing
    /\ status.report[d] = [ready |-> x.ready, replicas |-> x.data.replicas]

\* When a controller has nothing left to do, the status mirrors what the API
\* server holds of the prefill and decode deployments, though it was computed from
\* a cache and written over whatever status was there (populateStatus).
StatusSettled ==
    \A c \in Controllers, m \in ModelServices :
        Settled(c, m) =>
            \A d \in PDDeployments : d \in Mirrored(msvc[m].spec, usedBase[c][m]) =>
                Reported(msvc[m].status, d, objs[ObjectOf[m][d]])

-----------------------------------------------------------------------------
(* Why no wakeup is lost: the inductive invariant behind NoLostWakeup.     *)

\* An event the informer has not delivered maps to the owners of both objects.
EventsKnown(c) ==
    \A o \in Objects : seenObjs[c][o] # objs[o] =>
        OwnersOf(objs[o]) \cup OwnersOf(seenObjs[c][o]) \subseteq news[c][o]

\* The cache holds a ModelService as it is unless an event about it is on its way.
MsvcKnown(c) ==
    \A m \in ModelServices \ unseen[c] : seenMsvc[c][m] = msvc[m]

\* Every one of these children is as wanted, unless the key is going to be taken again.
Watched(c, p, slots) ==
    \A s \in slots : Owned(p.spec, p.base, s) =>
        LET o == ObjectOf[p.key][s] IN
        Applied(objs[o], p, s) \/ p.key \in news[c][o] \/ p.key \in queue[c]

\* A pass renders the spec in the cache, and what it did so far still holds.
PassKnown(c) ==
    pass[c] # Idle =>
        LET p == pass[c] IN
        /\ p.want = Wanted(p.spec, p.base)
        /\ p.base = usedBase[c][p.key]
        /\ Renderable(p.spec, p.base, NoBase)
        /\ \/ p.key \in queue[c]
           \/ seenMsvc[c][p.key].spec = p.spec /\ seenMsvc[c][p.key].uid = p.uid
        /\ ~p.failed => Watched(c, p, SlotsOf(p.want) \ p.left)

\* What the latest pass did for a ModelService nobody is working on still holds.
QuietKnown(c, m) ==
    seenMsvc[c][m].phase = "live" /\ m \notin queue[c] \cup backoff[c] /\ ~Busy(c, m) =>
        LET p == PassOn(m, seenMsvc[c][m], usedBase[c][m]) IN
        /\ Renderable(p.spec, p.base, NoBase)
        /\ Watched(c, p, SlotsOf(p.want))

Known(c) ==
    /\ EventsKnown(c)
    /\ PassKnown(c)
    /\ \A m \in ModelServices : QuietKnown(c, m)

NothingForgotten == TypeOK /\ \A c \in Controllers : MsvcKnown(c) /\ Known(c)

-----------------------------------------------------------------------------
(* Why the status settles: the inductive invariant behind StatusSettled.   *)

\* A pass starts from the status in the cache.
PassStatusKnown(c) ==
    pass[c] # Idle =>
        \/ pass[c].key \in queue[c]
        \/ pass[c].status = seenMsvc[c][pass[c].key].status

\* The latest pass over a ModelService nobody is working on found its status to mirror
\* the deployments in the cache, and it still does.
QuietStatus(c, m) ==
    LET ms == seenMsvc[c][m] IN
    ms.phase = "live" /\ m \notin queue[c] \cup backoff[c] \cup unseen[c] /\ ~Busy(c, m) =>
        \A d \in PDDeployments : d \in Mirrored(ms.spec, usedBase[c][m]) =>
            LET o == ObjectOf[m][d] IN
            \/ seenObjs[c][o] # NoObject /\ Reported(ms.status, d, seenObjs[c][o])
            \/ m \in news[c][o]

StatusKnown(c) ==
    /\ PassStatusKnown(c)
    /\ \A m \in ModelServices : QuietStatus(c, m)

StatusTraced == NothingForgotten /\ \A c \in Controllers : StatusKnown(c)

-----------------------------------------------------------------------------
(* What a pass may do to an object *)

\* The children a pass attempts in this step.
Attempted(c) ==
    IF pass[c] = Idle \/ pass'[c] = Idle THEN {} ELSE pass[c].left \ pass'[c].left

KeepForeignFields ==
    \A c \in Controllers : \A s \in Attempted(c) :
        LET o == ObjectOf[pass[c].key][s] IN
        objs[o] # NoObject =>
            /\ objs'[o] # NoObject
            /\ objs'[o].ready = objs[o].ready
            /\ \A f \in Fields :
                 pass[c].want[s][f] = Unset => objs'[o].data[f] = objs[o].data[f]

\* An attempt that changes an object keeps what the desired child does not mention:
\* an annotation, a replica count it was not given, the reported status; however old
\* the copy it merged into (genericCreateOrUpdate).
ForeignFieldsKept == [][KeepForeignFields]_vars

PreserveScale ==
    \A c \in Controllers : \A s \in Attempted(c) \cap PDDeployments :
        LET o == ObjectOf[pass[c].key][s] IN
        pass[c].spec.decoupleScaling /\ objs[o] # NoObject =>
            objs'[o] # NoObject /\ objs'[o].data.replicas = objs[o].data.replicas

\* With decoupleScaling, no attempt changes the replica count of a prefill or decode
\* deployment that exists: the autoscaler owns it from the moment of creation
\* (createOrUpdatePDDeploymentInCluster).
ScalePreserved == [][PreserveScale]_vars

\* A pass does not take an object away from a ModelService that is still there:
\* not from another one, and not from a later incarnation of its own.
OwnerKept ==
    [][\A c \in Controllers : pass'[c] # pass[c] =>
         \A o \in Objects :
           objs[o] # NoObject /\ objs[o].owner # NoOwner /\ Alive(objs[o].owner) =>
             objs'[o] # NoObject /\ objs'[o].owner = objs[o].owner]_vars

\* Why owners are kept: the inductive invariant behind OwnerKept, where one process runs
\* and ModelServices share no names.  An owner reference is to a ModelService that has
\* the object, and no process knows an earlier incarnation than it names.
OwnersTraced ==
    LET owned == {o \in Objects : objs[o] # NoObject /\ objs[o].owner # NoOwner} IN
    /\ \A o \in owned : \E s \in Slots : o = ObjectOf[objs[o].owner.name][s]
    /\ \A c \in Controllers :
         /\ \A m \in ModelServices : seenMsvc[c][m].uid <= msvc[m].uid
         /\ \A o \in owned : objs[o].owner.uid <= seenMsvc[c][objs[o].owner.name].uid
         /\ pass[c] # Idle =>
              /\ pass[c].uid <= seenMsvc[c][pass[c].key].uid
              /\ \A o \in owned :
                   objs[o].owner.name = pass[c].key => objs[o].owner.uid <= pass[c].uid

-----------------------------------------------------------------------------
(* Progress *)

\* Once the environment leaves the system alone every live ModelService that can
\* be rendered gets all its children, except those the API server refuses: one
\* refused child does not hold up the others (invokeCreateOrUpdate).
Converges ==
    \A c \in Controllers, m \in ModelServices :
        <>[](msvc[m].phase = "live" /\ Renderable(msvc[m].spec, base, NoBase)
               => AllApplied(m, usedBase[c][m], Slots \ Rejected))

\* The controller stops writing: updates are idempotent, its own status writes do
\* not set it off for ever, and two passes never undo each other's work.
Quiesces == <>[][FALSE]_server

\* Objects of a ModelService that is gone go too, those a pass that was under way
\* created after the deletion included.
GarbageCollected ==
    <>[](\A o \in Objects :
           objs[o] # NoObject /\ objs[o].owner # NoOwner => Alive(objs[o].owner))

\* A change of the base ConfigMap reaches the children, if only with the resync.
BaseReachesChildren ==
    \A m \in ModelServices :
        <>[](msvc[m].phase = "live" /\ Renderable(msvc[m].spec, base, NoBase)
               => AllApplied(m, base, Slots))

-----------------------------------------------------------------------------
(* What the API documentation says of the status and the code does not do *)

\* modelservice_types.go:46: with decoupleScaling off the controller manages the
\* replica count of the deployments from the ModelService.
ReplicasManaged ==
    \A c \in Controllers, m \in ModelServices :
        LET spec == msvc[m].spec IN
        Settled(c, m) /\ ~spec.decoupleScaling /\ spec.prefill # NoChild
            => objs[ObjectOf[m]["prefillDeployment"]].data.replicas
                 = spec.prefill.replicas

\* modelservice_types.go:383: PDServiceAccountRef identifies the service account
\* for prefill and decode.
PDServiceAccountRefNamesPD ==
    \A m \in ModelServices :
        msvc[m].status.serviceAccount \in {"pdServiceAccount", NotReported}

\* modelservice_types.go:352-399: a reference in the status is nil while its object
\* is yet to be created, and without its stanza.
RefsNameObjects ==
    \A c \in Controllers, m \in ModelServices :
        Settled(c, m) =>
            msvc[m].status.refs \subseteq SlotsOf(PassOn(m, msvc[m], usedBase[c][m]).want)
=============================================================================
