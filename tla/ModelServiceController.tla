----------------------- MODULE ModelServiceController -----------------------
(***************************************************************************)
(* The reconcile loop of internal/controller/modelservice_controller.go    *)
(* together with the API server it talks to.                               *)
(*                                                                         *)
(* Every controller process reads through an informer cache that trails    *)
(* the API server, takes one ModelService at a time from its workqueue and *)
(* creates or updates that ModelService's children one API call at a time, *)
(* then writes the status.  Users, autoscalers, other controllers and the  *)
(* garbage collector change the same objects in between.                   *)
(*                                                                         *)
(* The informers, the workqueue, controllerutil.CreateOrUpdate and the API *)
(* server are external: they are modelled as the code relies on them.      *)
(***************************************************************************)
EXTENDS ChildResources, FiniteSets

CONSTANTS
    ModelServices,  \* names of ModelServices, in one namespace
    Controllers,    \* running controller processes
    Objects,        \* names of child objects in the API server
    ObjectOf,       \* the object a ModelService's slot is named after
    Specs,          \* specs users write
    Bases,          \* contents the base ConfigMap takes, NoBase maybe among them
    NoBase,         \* the base ConfigMap does not exist
    NoSpec,         \* the spec of a ModelService that does not exist
    NoObject,       \* an object that does not exist
    NoOwner,        \* an object without a ModelService among its owners
    Idle,           \* a worker that is processing nothing
    NotReported,    \* a status field that was never set
    Readiness,      \* ready replica counts a Deployment reports
    NoneReady,      \* the count a new Deployment starts with
    DefaultReplicas,\* what the API server makes of an absent replica count
    Rejected,       \* slots whose object the API server refuses to store
    ForeignEdits,   \* <<field, value>> edits others make to children
    MaxUid,         \* bound on the incarnations of a ModelService
    MaxDisturbances \* bound on what the environment does to the system

ASSUME ConstantsAssumption ==
    /\ ObjectOf \in [ModelServices -> [Slots -> Objects]]
    /\ Specs \subseteq SpecType /\ NoSpec \notin SpecType
    /\ Bases \subseteq BaseType \cup {NoBase} /\ NoBase \notin BaseType
    /\ NoneReady \in Readiness
    /\ DefaultReplicas \in Values \ {Unset}
    /\ Rejected \subseteq Slots
    /\ ForeignEdits \subseteq Fields \X (Values \ {Unset})
    /\ MaxUid \in Nat /\ MaxDisturbances \in Nat

Owner == [name: ModelServices, uid: 0..MaxUid]

Object == [owner: Owner \cup {NoOwner}, data: Child, ready: Readiness]

Report == [ready: Readiness, replicas: Values]

\* refs: slots whose reference field in the status is set.
\* serviceAccount: the slot PDServiceAccountRef names.
\* missing: deployments reported by a GetFailed condition.
StatusType ==
    [refs: SUBSET Slots, serviceAccount: Slots \cup {NotReported},
     report: [Deployments -> Report \cup {NotReported}],
     missing: SUBSET Deployments, configMaps: BOOLEAN]

EmptyStatus ==
    [refs |-> {}, serviceAccount |-> NotReported,
     report |-> [d \in Deployments |-> NotReported],
     missing |-> {}, configMaps |-> FALSE]

Phases == {"absent", "live", "deleting"}

ModelService ==
    [phase: Phases, uid: 0..MaxUid, spec: Specs \cup {NoSpec}, status: StatusType]

Pass ==
    [key: ModelServices, uid: 0..MaxUid, spec: Specs, status: StatusType,
     base: Bases, want: [Slots -> Child \cup {NoChild}], left: SUBSET Slots,
     failed: BOOLEAN]

ASSUME NullsAssumption ==
    /\ NoObject \notin Object /\ NoOwner \notin Owner
    /\ Idle \notin Pass /\ NotReported \notin Report

VARIABLES
    msvc,       \* API server: ModelServices
    objs,       \* API server: child objects
    base,       \* API server: the base ConfigMap
    seenMsvc,   \* per controller: the cached ModelServices
    seenObjs,   \* per controller: the cached child objects
    seenBase,   \* per controller: the cached base ConfigMap
    unseen,     \* per controller: ModelServices with an undelivered event
    news,       \* per controller and object: owners its undelivered events map to
    queue,      \* per controller: the workqueue
    backoff,    \* per controller: keys waiting for a rate-limited retry
    pass,       \* per controller: the Reconcile call in progress
    usedBase,   \* per controller and key: base the latest pass rendered (history)
    disturbances\* what the environment did so far (bound)

server == <<msvc, objs, base>>
copies == <<seenMsvc, seenObjs, seenBase>>
caches == <<copies, unseen>>
vars == <<server, caches, news, queue, backoff, pass, usedBase, disturbances>>

-----------------------------------------------------------------------------
(* The API server *)

\* The map functions: the first owner that is a ModelService is requeued.
OwnersOf(x) == IF x = NoObject \/ x.owner = NoOwner THEN {} ELSE {x.owner.name}

\* Mutant: only the new object of an event is mapped.
WriteMappingNew(o, x) ==
    /\ objs' = [objs EXCEPT ![o] = x]
    /\ news' = [c \in Controllers |-> [news[c] EXCEPT ![o] = @ \cup OwnersOf(x)]]

\* Mutant: a predicate filters events that change only a child's status.
WriteIgnoringStatus(o, x) ==
    LET old == objs[o]
        quiet == old # NoObject /\ x # NoObject /\ old.data = x.data
    IN  /\ objs' = [objs EXCEPT ![o] = x]
        /\ news' = [c \in Controllers |->
                      [news[c] EXCEPT ![o] =
                         IF quiet THEN @ ELSE @ \cup OwnersOf(old) \cup OwnersOf(x)]]

\* EnqueueRequestsFromMapFunc maps the old and the new object of an event.
Write(o, x) ==
    /\ objs' = [objs EXCEPT ![o] = x]
    /\ news' = [c \in Controllers |->
                  [news[c] EXCEPT ![o] = @ \cup OwnersOf(objs[o]) \cup OwnersOf(x)]]

\* Every write of a ModelService is an event, one that restores an earlier value too.
WriteMsvc(m, x) ==
    /\ msvc' = [msvc EXCEPT ![m] = x]
    /\ unseen' = [c \in Controllers |-> unseen[c] \cup {m}]

Alive(owner) ==
    /\ msvc[owner.name].phase # "absent"
    /\ msvc[owner.name].uid = owner.uid

Disturb ==
    /\ disturbances < MaxDisturbances
    /\ disturbances' = disturbances + 1

-----------------------------------------------------------------------------
(* Desired objects, and what a create or an update makes of them *)

\* Mutant: the owner reference is that of the first incarnation.
DesiredForFirst(p, s) ==
    [owner |-> [name |-> p.key, uid |-> 0], data |-> p.want[s]]

\* Mutant: the ModelService is looked up again, by its name, when a child is written.
DesiredForLatest(p, s) ==
    [owner |-> [name |-> p.key, uid |-> msvc[p.key].uid], data |-> p.want[s]]

Desired(p, s) ==
    [owner |-> IF Owned(p.spec, p.base, s) THEN [name |-> p.key, uid |-> p.uid]
                                           ELSE NoOwner,
     data |-> p.want[s]]

\* mergo.Merge of the desired state into what the cache holds.  A nonempty list
\* of owner references replaces the one in the cluster; an empty one does not.
MergeInto(x, p, s) ==
    LET d == Desired(p, s) IN
    [owner |-> IF d.owner = NoOwner THEN x.owner ELSE d.owner,
     data |-> WithOverride(x.data, ForUpdate(p.spec, s, d.data)),
     ready |-> x.ready]

\* The API server fills in the replica count of a Deployment that has none.
Defaulted(s, data) ==
    IF s \in Deployments /\ data.replicas = Unset
    THEN [data EXCEPT !.replicas = DefaultReplicas]
    ELSE data

Created(p, s) ==
    LET d == Desired(p, s) IN
    [owner |-> d.owner,
     data |-> Defaulted(s, WithOverride(EmptyChild, d.data)),
     ready |-> NoneReady]

-----------------------------------------------------------------------------
(* Init: controllers start on a cluster in which some ModelServices exist and
   have no children yet; the initial list puts them in the workqueue. *)

Init ==
    /\ \E spec \in [ModelServices -> Specs \cup {NoSpec}] :
         /\ msvc = [m \in ModelServices |->
              [phase |-> IF spec[m] = NoSpec THEN "absent" ELSE "live",
               uid |-> 0, spec |-> spec[m], status |-> EmptyStatus]]
         /\ queue = [c \in Controllers |-> {m \in ModelServices : spec[m] # NoSpec}]
    /\ objs = [o \in Objects |-> NoObject]
    /\ base \in Bases
    /\ seenMsvc = [c \in Controllers |-> msvc]
    /\ seenObjs = [c \in Controllers |-> objs]
    /\ seenBase = [c \in Controllers |-> base]
    /\ unseen = [c \in Controllers |-> {}]
    /\ news = [c \in Controllers |-> [o \in Objects |-> {}]]
    /\ backoff = [c \in Controllers |-> {}]
    /\ pass = [c \in Controllers |-> Idle]
    /\ usedBase = [c \in Controllers |-> [m \in ModelServices |-> base]]
    /\ disturbances = 0

-----------------------------------------------------------------------------
(* Reconcile: take a key from the workqueue *)

Take(c, m) ==
    /\ pass[c] = Idle
    /\ m \in queue[c]
    /\ queue' = [queue EXCEPT ![c] = @ \ {m}]

\* Not found, or marked for deletion: return without an error.
Skip(c, m) ==
    /\ Take(c, m)
    /\ seenMsvc[c][m].phase # "live"
    /\ UNCHANGED <<server, caches, news, backoff, pass, usedBase, disturbances>>

\* Mutant: the error is logged and not returned.
FailRenderSilently(c, m) ==
    /\ Take(c, m)
    /\ seenMsvc[c][m].phase = "live"
    /\ ~Renderable(seenMsvc[c][m].spec, seenBase[c], NoBase)
    /\ UNCHANGED <<server, caches, news, backoff, pass, usedBase, disturbances>>

\* The spec or its BaseConfig cannot be rendered: return the error.
FailRender(c, m) ==
    /\ Take(c, m)
    /\ seenMsvc[c][m].phase = "live"
    /\ ~Renderable(seenMsvc[c][m].spec, seenBase[c], NoBase)
    /\ backoff' = [backoff EXCEPT ![c] = @ \cup {m}]
    /\ UNCHANGED <<server, caches, news, pass, usedBase, disturbances>>

\* Mutant: invokeCreateOrUpdate does not look which children there are.
BeginWithEverySlot(c, m) ==
    LET ms == seenMsvc[c][m]
        want == Wanted(ms.spec, seenBase[c])
    IN
    /\ Take(c, m)
    /\ ms.phase = "live"
    /\ Renderable(ms.spec, seenBase[c], NoBase)
    /\ pass' = [pass EXCEPT ![c] =
         [key |-> m, uid |-> ms.uid, spec |-> ms.spec, status |-> ms.status,
          base |-> seenBase[c], want |-> want, left |-> Slots,
          failed |-> FALSE]]
    /\ usedBase' = [usedBase EXCEPT ![c][m] = seenBase[c]]
    /\ UNCHANGED <<server, caches, news, backoff, disturbances>>

\* Mutant: owner references are remembered under the ModelService's name.
BeginRemembering(c, m) ==
    LET ms == seenMsvc[c][m]
        want == Wanted(ms.spec, seenBase[c])
    IN
    /\ Take(c, m)
    /\ ms.phase = "live"
    /\ Renderable(ms.spec, seenBase[c], NoBase)
    /\ \E uid \in 0..ms.uid : pass' = [pass EXCEPT ![c] =
         [key |-> m, uid |-> uid, spec |-> ms.spec, status |-> ms.status,
          base |-> seenBase[c], want |-> want, left |-> SlotsOf(want),
          failed |-> FALSE]]
    /\ usedBase' = [usedBase EXCEPT ![c][m] = seenBase[c]]
    /\ UNCHANGED <<server, caches, news, backoff, disturbances>>

\* Render and merge; invokeCreateOrUpdate starts with every wanted child to do.
Begin(c, m) ==
    LET ms == seenMsvc[c][m]
        want == Wanted(ms.spec, seenBase[c])
    IN
    /\ Take(c, m)
    /\ ms.phase = "live"
    /\ Renderable(ms.spec, seenBase[c], NoBase)
    /\ pass' = [pass EXCEPT ![c] =
         [key |-> m, uid |-> ms.uid, spec |-> ms.spec, status |-> ms.status,
          base |-> seenBase[c], want |-> want, left |-> SlotsOf(want),
          failed |-> FALSE]]
    /\ usedBase' = [usedBase EXCEPT ![c][m] = seenBase[c]]
    /\ UNCHANGED <<server, caches, news, backoff, disturbances>>

-----------------------------------------------------------------------------
(* invokeCreateOrUpdate: one child after another, whatever became of the
   earlier ones *)

\* Mutant: the first failure ends the loop over the children.
AttemptUntilFailure(c, s, ok) ==
    /\ pass[c] # Idle
    /\ IsNext(s, pass[c].left)
    /\ pass' = [pass EXCEPT ![c].left = IF ok THEN @ \ {s} ELSE {},
                           ![c].failed = @ \/ ~ok]
    /\ UNCHANGED <<msvc, base, caches, queue, backoff, usedBase>>

Attempt(c, s, ok) ==
    /\ pass[c] # Idle
    /\ IsNext(s, pass[c].left)
    /\ pass' = [pass EXCEPT ![c].left = @ \ {s}, ![c].failed = @ \/ ~ok]
    /\ UNCHANGED <<msvc, base, caches, queue, backoff, usedBase>>

Target(c, s) == ObjectOf[pass[c].key][s]

\* Mutant: the desired object replaces the cached one and is not merged into it.
ResultReplaced(c, s) == Created(pass[c], s)

\* What the API server holds after a call that succeeds.
Result(c, s) ==
    LET cached == seenObjs[c][Target(c, s)] IN
    IF cached = NoObject THEN Created(pass[c], s) ELSE MergeInto(cached, pass[c], s)

\* The call is accepted if the cache is not behind.  Otherwise the object exists
\* already (AlreadyExists), or it changed or went away since (Conflict).
Current(c, s) == objs[Target(c, s)] = seenObjs[c][Target(c, s)]

Call(c, s) ==
    /\ pass[c] # Idle /\ s \in pass[c].left \ Rejected
    /\ Attempt(c, s, Current(c, s))
    /\ IF Current(c, s) THEN Write(Target(c, s), Result(c, s))
                        ELSE UNCHANGED <<objs, news>>
    /\ UNCHANGED disturbances

Create(c, s) ==
    /\ Call(c, s)
    /\ seenObjs[c][Target(c, s)] = NoObject

\* The merge changes nothing: no call is made.
Keep(c, s) ==
    /\ pass[c] # Idle /\ s \in pass[c].left
    /\ seenObjs[c][Target(c, s)] # NoObject
    /\ Result(c, s) = seenObjs[c][Target(c, s)]
    /\ Attempt(c, s, TRUE)
    /\ UNCHANGED <<objs, news, disturbances>>

\* The merged object goes back with the resource version the cache holds.
Update(c, s) ==
    /\ Call(c, s)
    /\ seenObjs[c][Target(c, s)] # NoObject
    /\ Result(c, s) # seenObjs[c][Target(c, s)]

\* The API server refuses the object for what it is: no name, invalid, immutable.
Refuse(c, s) ==
    /\ pass[c] # Idle /\ s \in pass[c].left \cap Rejected
    /\ Result(c, s) # seenObjs[c][Target(c, s)]
    /\ Attempt(c, s, FALSE)
    /\ UNCHANGED <<objs, news, disturbances>>

\* A call fails without an effect: the API server is away, the call times out.
Fault(c, s) ==
    /\ Attempt(c, s, FALSE)
    /\ Disturb
    /\ UNCHANGED <<objs, news>>

\* A call takes effect and its answer is lost.
LostReply(c, s) ==
    /\ Attempt(c, s, FALSE)
    /\ Disturb
    /\ s \notin Rejected
    /\ Current(c, s)
    /\ Result(c, s) # objs[Target(c, s)]
    /\ Write(Target(c, s), Result(c, s))

CreateOrUpdate(c) ==
    \E s \in Slots : Create(c, s) \/ Keep(c, s) \/ Update(c, s) \/ Refuse(c, s)

-----------------------------------------------------------------------------
(* populateStatus *)

\* The references the status names whether or not the objects exist.
AlwaysNamed == {"httpRoute", "inferenceModel", "inferencePool", "eppRoleBinding"}

\* The deployments whose state is mirrored.
Mirrored(spec, b) ==
    {d \in Deployments :
        CASE d = "prefillDeployment" -> spec.prefill # NoChild
          [] d = "decodeDeployment" -> spec.decode # NoChild
          [] d = "eppDeployment" -> BaseConfigFor(spec, b).has[d] # NoChild}

\* Mutant: only references that were not there before are set.
NewlyNamedRefs(refs, mirrored) == (AlwaysNamed \cup mirrored) \ refs

\* A reference once set is never cleared: Reconcile starts from the old status.
NamedRefs(refs, mirrored) == refs \cup AlwaysNamed \cup mirrored

\* Mutant: a report once made is kept.
FirstReport(old, x) ==
    IF old # NotReported \/ x = NoObject THEN old
    ELSE [ready |-> x.ready, replicas |-> x.data.replicas]

\* "ready/expected" replaces the old report of a deployment that was read; it
\* stays where there is none to read (NoObject).
ReportOf(old, x) ==
    IF x = NoObject THEN old ELSE [ready |-> x.ready, replicas |-> x.data.replicas]

\* The status computed from the one Reconcile started with: fields whose section
\* is gone keep their old value, conditions are made anew.
PopulatedStatus(status, spec, b, m, seen) ==
    LET mirrored == Mirrored(spec, b)
        DeploymentOf(d) == seen[ObjectOf[m][d]]
    IN  [refs |-> NamedRefs(status.refs, mirrored),
         serviceAccount |-> "eppServiceAccount",
         report |-> [d \in Deployments |->
                       IF d \in mirrored THEN ReportOf(status.report[d], DeploymentOf(d))
                                         ELSE status.report[d]],
         missing |-> {d \in mirrored : DeploymentOf(d) = NoObject},
         configMaps |-> BaseConfigFor(spec, b).has["configMap"] # NoChild]

NewStatus(c) ==
    PopulatedStatus(pass[c].status, pass[c].spec, seenBase[c], pass[c].key, seenObjs[c])

\* Every child was attempted and none failed.
AtStatus(c) ==
    /\ pass[c] # Idle
    /\ pass[c].left = {}
    /\ ~pass[c].failed

\* Mutant: the error is dropped.
ReturnNil(c, err) ==
    /\ pass' = [pass EXCEPT ![c] = Idle]
    /\ UNCHANGED <<objs, base, copies, news, queue, backoff, usedBase>>

Return(c, err) ==
    /\ pass' = [pass EXCEPT ![c] = Idle]
    /\ backoff' = [backoff EXCEPT ![c] = IF err THEN @ \cup {pass[c].key} ELSE @]
    /\ UNCHANGED <<objs, base, copies, news, queue, usedBase>>

\* A child failed: Reconcile returns its error and leaves the status alone.
FailPass(c) ==
    /\ pass[c] # Idle
    /\ pass[c].left = {}
    /\ pass[c].failed
    /\ Return(c, TRUE)
    /\ UNCHANGED <<msvc, unseen, disturbances>>

\* The second read of the BaseConfig fails.
StatusBaseError(c) ==
    /\ AtStatus(c)
    /\ ~Renderable(pass[c].spec, seenBase[c], NoBase)
    /\ Return(c, TRUE)
    /\ UNCHANGED <<msvc, unseen, disturbances>>

\* The ModelService left the cache, or its status would not change.  A GetFailed
\* condition carries the current time, so such a status always differs.
StatusUnchanged(c) ==
    /\ AtStatus(c)
    /\ Renderable(pass[c].spec, seenBase[c], NoBase)
    /\ \/ seenMsvc[c][pass[c].key].phase = "absent"
       \/ NewStatus(c) = pass[c].status /\ NewStatus(c).missing = {}
    /\ Return(c, FALSE)
    /\ UNCHANGED <<msvc, unseen, disturbances>>

\* Status().Update with the version of the cached ModelService: NotFound is
\* ignored, Conflict is returned.  A status that is there already is not written.
StatusUpdate(c) ==
    LET m == pass[c].key
        current == m \notin unseen[c]
        written == current /\ (NewStatus(c) # msvc[m].status \/ NewStatus(c).missing # {})
    IN
    /\ AtStatus(c)
    /\ Renderable(pass[c].spec, seenBase[c], NoBase)
    /\ seenMsvc[c][m].phase # "absent"
    /\ NewStatus(c) # pass[c].status \/ NewStatus(c).missing # {}
    /\ Return(c, ~current /\ msvc[m].phase # "absent")
    /\ IF written THEN WriteMsvc(m, [msvc[m] EXCEPT !.status = NewStatus(c)])
                  ELSE UNCHANGED <<msvc, unseen>>
    /\ UNCHANGED disturbances

FinishPass(c) ==
    FailPass(c) \/ StatusBaseError(c) \/ StatusUnchanged(c) \/ StatusUpdate(c)

-----------------------------------------------------------------------------
(* Informers and workqueue *)

Enqueue(c, keys) == queue' = [queue EXCEPT ![c] = @ \cup keys]

\* For(&ModelService{}): any change of a ModelService, its status included.
DeliverMsvc(c, m) ==
    /\ m \in unseen[c]
    /\ unseen' = [unseen EXCEPT ![c] = @ \ {m}]
    /\ seenMsvc' = [seenMsvc EXCEPT ![c][m] = msvc[m]]
    /\ Enqueue(c, {m})
    /\ UNCHANGED <<server, seenObjs, seenBase, news, backoff, pass, usedBase,
                   disturbances>>

\* Watches(child, mapFunc).
DeliverObj(c, o) ==
    /\ seenObjs[c][o] # objs[o] \/ news[c][o] # {}
    /\ seenObjs' = [seenObjs EXCEPT ![c][o] = objs[o]]
    /\ Enqueue(c, news[c][o])
    /\ news' = [news EXCEPT ![c][o] = {}]
    /\ UNCHANGED <<server, seenMsvc, seenBase, unseen, backoff, pass, usedBase,
                   disturbances>>

\* Mutant: the BaseConfig is read once and kept.
DeliverBaseOnce(c) ==
    /\ seenBase[c] = NoBase /\ base # NoBase
    /\ seenBase' = [seenBase EXCEPT ![c] = base]
    /\ UNCHANGED <<server, seenMsvc, seenObjs, unseen, news, queue, backoff, pass,
                   usedBase, disturbances>>

\* The base ConfigMap has no ModelService among its owners: nothing is enqueued.
DeliverBase(c) ==
    /\ seenBase[c] # base
    /\ seenBase' = [seenBase EXCEPT ![c] = base]
    /\ UNCHANGED <<server, seenMsvc, seenObjs, unseen, news, queue, backoff, pass,
                   usedBase, disturbances>>

BackoffExpires(c, m) ==
    /\ m \in backoff[c]
    /\ backoff' = [backoff EXCEPT ![c] = @ \ {m}]
    /\ Enqueue(c, {m})
    /\ UNCHANGED <<server, caches, news, pass, usedBase, disturbances>>

\* The informers' periodic resync (10 hours) hands every cached object to the
\* event handlers again.
Resync(c) ==
    /\ Enqueue(c, {m \in ModelServices : seenMsvc[c][m].phase # "absent"})
    /\ queue' # queue
    /\ UNCHANGED <<server, caches, news, backoff, pass, usedBase>>

\* Mutant: the new process waits for events and lists nothing.
RestartWithoutList(c) ==
    /\ Disturb
    /\ pass' = [pass EXCEPT ![c] = Idle]
    /\ queue' = [queue EXCEPT ![c] = {}]
    /\ backoff' = [backoff EXCEPT ![c] = {}]
    /\ news' = [news EXCEPT ![c] = [o \in Objects |-> {}]]
    /\ unseen' = [unseen EXCEPT ![c] = {}]
    /\ seenMsvc' = [seenMsvc EXCEPT ![c] = msvc]
    /\ seenObjs' = [seenObjs EXCEPT ![c] = objs]
    /\ seenBase' = [seenBase EXCEPT ![c] = base]
    /\ UNCHANGED <<server, usedBase>>

\* The process dies at any point and starts over from a fresh list.
Restart(c) ==
    /\ Disturb
    /\ pass' = [pass EXCEPT ![c] = Idle]
    /\ queue' = [queue EXCEPT ![c] =
         {m \in ModelServices : msvc[m].phase # "absent"}
           \cup UNION {OwnersOf(objs[o]) : o \in Objects}]
    /\ backoff' = [backoff EXCEPT ![c] = {}]
    /\ news' = [news EXCEPT ![c] = [o \in Objects |-> {}]]
    /\ unseen' = [unseen EXCEPT ![c] = {}]
    /\ seenMsvc' = [seenMsvc EXCEPT ![c] = msvc]
    /\ seenObjs' = [seenObjs EXCEPT ![c] = objs]
    /\ seenBase' = [seenBase EXCEPT ![c] = base]
    /\ UNCHANGED <<server, usedBase>>

-----------------------------------------------------------------------------
(* Everybody else *)

SetMsvc(m, x) ==
    /\ WriteMsvc(m, x)
    /\ UNCHANGED <<objs, base, copies, news, queue, backoff, pass, usedBase>>

SetObj(o, x) ==
    /\ Write(o, x)
    /\ UNCHANGED <<msvc, base, caches, queue, backoff, pass, usedBase>>

CreateModelService(m) ==
    /\ Disturb
    /\ msvc[m].phase = "absent" /\ msvc[m].uid < MaxUid
    /\ \E spec \in Specs :
         SetMsvc(m, [phase |-> "live", uid |-> msvc[m].uid + 1, spec |-> spec,
                     status |-> EmptyStatus])

EditSpec(m) ==
    /\ Disturb
    /\ msvc[m].phase = "live"
    /\ \E spec \in Specs \ {msvc[m].spec} : SetMsvc(m, [msvc[m] EXCEPT !.spec = spec])

Gone(m) == [phase |-> "absent", uid |-> msvc[m].uid, spec |-> NoSpec,
            status |-> EmptyStatus]

\* The controller adds no finalizer: a ModelService goes at once, unless
\* somebody else's finalizer holds it.
DeleteModelService(m) ==
    /\ Disturb
    /\ msvc[m].phase = "live"
    /\ SetMsvc(m, Gone(m))

MarkForDeletion(m) ==
    /\ Disturb
    /\ msvc[m].phase = "live"
    /\ SetMsvc(m, [msvc[m] EXCEPT !.phase = "deleting"])

FinishDeletion(m) ==
    /\ msvc[m].phase = "deleting"
    /\ SetMsvc(m, Gone(m))
    /\ UNCHANGED disturbances

DeleteChild(o) ==
    /\ Disturb
    /\ objs[o] # NoObject
    /\ SetObj(o, NoObject)

\* An annotation, a manual change, an autoscaler's scale.
EditChild(o) ==
    /\ Disturb
    /\ objs[o] # NoObject
    /\ \E edit \in ForeignEdits :
         /\ objs[o].data[edit[1]] # edit[2]
         /\ SetObj(o, [objs[o] EXCEPT !.data[edit[1]] = edit[2]])

\* The deployment controller reports ready replicas.
ReportReady(o) ==
    /\ Disturb
    /\ objs[o] # NoObject
    /\ \E n \in Readiness \ {objs[o].ready} : SetObj(o, [objs[o] EXCEPT !.ready = n])

\* The garbage collector removes an object whose owner is gone.
CollectGarbage(o) ==
    /\ objs[o] # NoObject
    /\ objs[o].owner # NoOwner
    /\ ~Alive(objs[o].owner)
    /\ SetObj(o, NoObject)
    /\ UNCHANGED disturbances

EditBase ==
    /\ Disturb
    /\ base' \in Bases \ {base}
    /\ UNCHANGED <<msvc, objs, caches, news, queue, backoff, pass, usedBase>>

-----------------------------------------------------------------------------

Controller(c) ==
    \/ \E m \in ModelServices : Skip(c, m) \/ FailRender(c, m) \/ Begin(c, m)
    \/ CreateOrUpdate(c)
    \/ \E s \in Slots : Fault(c, s) \/ LostReply(c, s)
    \/ FinishPass(c)
    \/ \E m \in ModelServices : DeliverMsvc(c, m) \/ BackoffExpires(c, m)
    \/ \E o \in Objects : DeliverObj(c, o)
    \/ DeliverBase(c)
    \/ Resync(c) /\ Disturb
    \/ Restart(c)

Environment ==
    \/ \E m \in ModelServices :
         \/ CreateModelService(m) \/ EditSpec(m) \/ DeleteModelService(m)
         \/ MarkForDeletion(m) \/ FinishDeletion(m)
    \/ \E o \in Objects :
         DeleteChild(o) \/ EditChild(o) \/ ReportReady(o) \/ CollectGarbage(o)
    \/ EditBase

Next == (\E c \in Controllers : Controller(c)) \/ Environment

Spec == Init /\ [][Next]_vars

(***************************************************************************)
(* Fairness.  Informers deliver, the worker goroutine keeps running, a     *)
(* rate-limited key comes back, the garbage collector and foreign          *)
(* finalizers finish.  The workqueue is first in first out, so no waiting  *)
(* key is overtaken for ever (SF).  Nothing is assumed of users, faults,   *)
(* restarts or the resync.                                                 *)
(***************************************************************************)
Fairness ==
    /\ \A c \in Controllers :
         /\ \A m \in ModelServices :
              /\ WF_vars(DeliverMsvc(c, m))
              /\ WF_vars(BackoffExpires(c, m))
              /\ SF_vars(Skip(c, m) \/ FailRender(c, m) \/ Begin(c, m))
         /\ \A o \in Objects : WF_vars(DeliverObj(c, o))
         /\ WF_vars(DeliverBase(c))
         /\ WF_vars(CreateOrUpdate(c) \/ FinishPass(c))
    /\ \A o \in Objects : WF_vars(CollectGarbage(o))
    /\ \A m \in ModelServices : WF_vars(FinishDeletion(m))

FairSpec == Spec /\ Fairness

\* The resync is periodic: the manager's cache leaves SyncPeriod at its default of
\* ten hours.
PeriodicResync(c) == Resync(c) /\ UNCHANGED disturbances

ResyncSpec ==
    /\ Init /\ [][Next \/ \E c \in Controllers : PeriodicResync(c)]_vars
    /\ Fairness
    /\ \A c \in Controllers : WF_vars(PeriodicResync(c))
=============================================================================
