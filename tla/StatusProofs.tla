---------------------------- MODULE StatusProofs ----------------------------
(***************************************************************************)
(* The status of a ModelService settles on what the API server holds of    *)
(* its deployments, for any number of ModelServices and controller         *)
(* processes, though processes overwrite each other's statuses and compute *)
(* them from caches: StatusSettled follows from StatusTraced.              *)
(***************************************************************************)
EXTENDS WakeupProofs

-----------------------------------------------------------------------------
(* The deployments a status mirrors *)

\* A prefill or decode deployment that is mirrored is one of the children.
LEMMA MirroredWanted ==
    ASSUME NEW spec \in SpecType, NEW b, BaseConfigFor(spec, b) \in BaseType,
           NEW d \in PDDeployments, d \in Mirrored(spec, b)
    PROVE  d \in SlotsOf(Wanted(spec, b)) /\ Owned(spec, b, d)
<1> DEFINE has == BaseConfigFor(spec, b).has
<1>1. d = "prefillDeployment" \/ d = "decodeDeployment"
  BY DEF PDDeployments
<1>2. has["prefillDeployment"] \in Child \cup {NoChild}
        /\ has["decodeDeployment"] \in Child \cup {NoChild}
  BY DEF BaseType, BaseSections, Slots
<1>3. ASSUME NEW section \in Child, NEW dest \in Child \cup {NoChild}
      PROVE  MergePDDeployment(section, dest) # NoChild
  <2>1. OrEmpty(dest) \in Child /\ FromSpec(section) \in Child
    BY StampedType, ValuesAssumption, NoChildAssumption DEF OrEmpty, FromSpec, Child
  <2> QED BY <2>1, OverrideType, NoChildAssumption DEF MergePDDeployment
<1>4. CASE d = "prefillDeployment"
  <2>1. spec.prefill \in Child
    BY <1>4 DEF Mirrored, SpecType
  <2> QED BY <1>2, <1>3, <1>4, <2>1 DEF SlotsOf, Wanted, ShouldCreate, DeploymentFor,
                                        MergeChildResources, Slots, Owned
<1>5. CASE d = "decodeDeployment"
  <2>1. spec.decode \in Child
    BY <1>5 DEF Mirrored, SpecType
  <2> QED BY <1>2, <1>3, <1>5, <2>1 DEF SlotsOf, Wanted, ShouldCreate, DeploymentFor,
                                        MergeChildResources, Slots, Owned
<1> QED BY <1>1, <1>4, <1>5

\* Whether a prefill or decode deployment is mirrored does not depend on the base.
LEMMA MirroredOnAnyBase ==
    ASSUME NEW spec, NEW b1, NEW b2, NEW d \in PDDeployments
    PROVE  d \in Mirrored(spec, b1) <=> d \in Mirrored(spec, b2)
<1>1. d = "prefillDeployment" \/ d = "decodeDeployment"
  BY DEF PDDeployments
<1> QED BY <1>1 DEF Mirrored

\* The status a pass computes shows every deployment it mirrors as the cache has it,
\* if it finds them all (populateStatus).
LEMMA NewStatusReports ==
    ASSUME TypeOK, NEW c \in Controllers, pass[c] # Idle, NewStatus(c).missing = {},
           NEW d \in PDDeployments, d \in Mirrored(pass[c].spec, seenBase[c])
    PROVE  LET x == seenObjs[c][ObjectOf[pass[c].key][d]] IN
           x # NoObject /\ Reported(NewStatus(c), d, x)
<1> DEFINE x == seenObjs[c][ObjectOf[pass[c].key][d]]
           mirrored == Mirrored(pass[c].spec, seenBase[c])
<1>1. d \in Deployments
  BY DEF Deployments
<1>2. x # NoObject
  BY DEF NewStatus, PopulatedStatus
<1>3. NewStatus(c).report[d] = ReportOf(pass[c].status.report[d], x)
  BY <1>1 DEF NewStatus, PopulatedStatus
<1>4. d \in NewStatus(c).refs
  BY DEF NewStatus, PopulatedStatus, NamedRefs
<1> QED BY <1>2, <1>3, <1>4 DEF Reported, ReportOf

-----------------------------------------------------------------------------
(* StatusKnown, step by step *)

\* What others do adds events, and so does most of what a controller does itself.
LEMMA QuietStatusKept ==
    ASSUME TypeOK, NEW c \in Controllers, NEW m \in ModelServices, QuietStatus(c, m),
           UNCHANGED <<seenMsvc[c][m], seenObjs[c], usedBase[c][m]>>,
           m \in queue[c] \cup backoff[c] \cup unseen[c] =>
             m \in queue'[c] \cup backoff'[c] \cup unseen'[c],
           Busy(c, m) => Busy(c, m)',
           \A o \in Objects : news[c][o] \subseteq news'[c][o]
    PROVE  QuietStatus(c, m)'
<1> SUFFICES ASSUME seenMsvc[c][m].phase = "live",
                    m \notin queue'[c] \cup backoff'[c] \cup unseen'[c], ~Busy(c, m)',
                    NEW d \in PDDeployments,
                    d \in Mirrored(seenMsvc[c][m].spec, usedBase[c][m])
             PROVE  LET o == ObjectOf[m][d] IN
                    \/ /\ seenObjs[c][o] # NoObject
                       /\ Reported(seenMsvc[c][m].status, d, seenObjs[c][o])
                    \/ m \in news'[c][o]
  BY DEF QuietStatus, Reported
<1>1. ObjectOf[m][d] \in Objects
  BY ConstantsAssumption DEF PDDeployments, Slots
<1> QED BY <1>1 DEF QuietStatus

\* Writing an object takes no event away.
LEMMA NewsGrow ==
    ASSUME TypeOK, NEW c \in Controllers, Written(c), NEW o \in Objects
    PROVE  news[c][o] \subseteq news'[c][o]
BY DEF Written, Write, TypeOK, QueuesOK

\* A controller that takes no part in a step.
LEMMA StatusLeftAlone ==
    ASSUME TypeOK, NEW c \in Controllers, StatusKnown(c), LeftAlone(c)
    PROVE  StatusKnown(c)'
<1>1. PassStatusKnown(c)'
  BY DEF StatusKnown, PassStatusKnown, LeftAlone
<1>2. ASSUME NEW m \in ModelServices
      PROVE  QuietStatus(c, m)'
  BY NewsGrow, QuietStatusKept DEF StatusKnown, LeftAlone, Busy
<1> QED BY <1>1, <1>2 DEF StatusKnown

\* Taking a key, and a new pass starts from the status in the cache.
LEMMA StatusTake ==
    ASSUME TypeOK, NEW c \in Controllers, StatusKnown(c), NEW m \in ModelServices,
           Skip(c, m) \/ FailRender(c, m) \/ Begin(c, m)
    PROVE  StatusKnown(c)'
<1>1. /\ pass[c] = Idle /\ queue'[c] = queue[c] \ {m}
      /\ UNCHANGED <<seenMsvc, seenObjs, news, unseen>>
  BY DEF Skip, FailRender, Begin, Take, caches, copies, TypeOK, QueuesOK
<1>2. ASSUME NEW n \in ModelServices, n # m
      PROVE  QuietStatus(c, n)'
  <2>1. backoff[c] \subseteq backoff'[c] /\ usedBase'[c][n] = usedBase[c][n]
    BY <1>2 DEF Skip, FailRender, Begin, TypeOK, QueuesOK, PassesOK
  <2>2. ~Busy(c, n)
    BY <1>1 DEF Busy
  <2> QED BY <1>1, <1>2, <2>1, <2>2, QuietStatusKept DEF StatusKnown
<1>3. CASE Skip(c, m) \/ FailRender(c, m)
  <2>1. pass'[c] = Idle
    BY <1>1, <1>3 DEF Skip, FailRender
  <2>2. seenMsvc'[c][m].phase # "live" \/ m \in backoff'[c]
    BY <1>1, <1>3 DEF Skip, FailRender, TypeOK, QueuesOK
  <2>3. QuietStatus(c, m)'
    BY <2>2 DEF QuietStatus
  <2> QED BY <1>2, <2>1, <2>3 DEF StatusKnown, PassStatusKnown
<1>4. CASE Begin(c, m)
  <2>1. pass'[c].key = m /\ pass'[c].status = seenMsvc[c][m].status
    BY <1>4 DEF Begin, TypeOK, PassesOK
  <2>2. pass'[c] # Idle => QuietStatus(c, m)'
    BY <2>1 DEF QuietStatus, Busy
  <2>3. pass'[c] # Idle
    <3> DEFINE ms == seenMsvc[c][m]
               want == Wanted(ms.spec, seenBase[c])
               p == [key |-> m, uid |-> ms.uid, spec |-> ms.spec, status |-> ms.status,
                     base |-> seenBase[c], want |-> want, left |-> SlotsOf(want),
                     failed |-> FALSE]
    <3>1. ms \in ModelService /\ ms.spec \in Specs /\ seenBase[c] \in Bases
      BY <1>4 DEF TypeOK, CachesOK, MsvcOK, Begin, ModelService
    <3>2. want \in [Slots -> Child \cup {NoChild}]
      BY <1>4, <3>1, RenderedBaseType, WantedType DEF Begin
    <3>3. p \in Pass
      BY <3>1, <3>2 DEF Pass, ModelService, SlotsOf
    <3>4. pass'[c] = p
      BY <1>4 DEF Begin, TypeOK, PassesOK
    <3> QED BY <3>3, <3>4, NullsAssumption
  <2> QED BY <1>1, <1>2, <2>1, <2>2, <2>3 DEF StatusKnown, PassStatusKnown
<1> QED BY <1>3, <1>4

\* Attempting a child leaves the statuses alone.
LEMMA StatusChildren ==
    ASSUME TypeOK, NEW c \in Controllers, StatusKnown(c), NEW s \in Slots, ChildStep(c, s)
    PROVE  StatusKnown(c)'
<1>1. PICK ok \in BOOLEAN : Attempt(c, s, ok)
  BY DEF ChildStep, Create, Keep, Update, Call, Refuse, Fault, LostReply, Current
<1>2. UNCHANGED <<queue, backoff, unseen, usedBase, seenMsvc, seenObjs>>
  BY <1>1 DEF Attempt, caches, copies
<1>3. /\ pass[c] # Idle /\ pass'[c] # Idle /\ s \in pass[c].left
      /\ pass'[c].key = pass[c].key
  BY <1>1, AttemptPass
<1>4. pass'[c].status = pass[c].status
  <2>1. pass[c] \in Pass
    BY <1>3, PassType
  <2> QED BY <1>1, <2>1 DEF Attempt, Pass, TypeOK, PassesOK
<1>5. Written(c)
  <2>1. Target(c, s) \in Objects /\ Result(c, s) \in Object
    BY <1>3, ResultType
  <2> QED BY <2>1 DEF Written, ChildStep, Create, Keep, Update, Call, Refuse, Fault,
                      LostReply
<1>6. PassStatusKnown(c)'
  BY <1>2, <1>3, <1>4 DEF StatusKnown, PassStatusKnown
<1>7. ASSUME NEW m \in ModelServices
      PROVE  QuietStatus(c, m)'
  BY <1>2, <1>3, <1>5, NewsGrow, QuietStatusKept DEF StatusKnown, Busy
<1> QED BY <1>6, <1>7 DEF StatusKnown

\* A pass that ends without an error, and without a write whose event is still to come,
\* found the status in the cache to be what it computed itself.
LEMMA FinishedStatus ==
    ASSUME TypeOK, NEW c \in Controllers, MsvcKnown(c), PassStatusKnown(c), FinishPass(c),
           pass[c].key \notin queue[c] \cup backoff'[c] \cup unseen'[c],
           seenMsvc[c][pass[c].key].phase = "live"
    PROVE  /\ seenMsvc[c][pass[c].key].status = NewStatus(c)
           /\ NewStatus(c).missing = {}
<1> DEFINE m == pass[c].key
<1>1. pass[c] # Idle
  BY DEF FinishPass, FailPass, StatusBaseError, StatusUnchanged, StatusUpdate, AtStatus
<1>2. m \in ModelServices
  BY <1>1, PassType
<1>3. pass[c].status = seenMsvc[c][m].status
  BY <1>1 DEF PassStatusKnown
<1>4. ~Return(c, TRUE)
  BY <1>2 DEF Return, TypeOK, QueuesOK
<1>5. CASE StatusUnchanged(c)
  BY <1>3, <1>5 DEF StatusUnchanged
<1>6. CASE StatusUpdate(c)
  <2>1. m \notin unseen[c]
    <3>1. unseen[c] \subseteq unseen'[c]
      BY <1>6 DEF StatusUpdate, WriteMsvc, TypeOK, QueuesOK
    <3> QED BY <3>1
  <2>2. seenMsvc[c][m] = msvc[m]
    BY <1>2, <2>1 DEF MsvcKnown
  <2>3. \A x : ~WriteMsvc(m, x)
    BY <1>2 DEF WriteMsvc
  <2>4. NewStatus(c) = msvc[m].status /\ NewStatus(c).missing = {}
    BY <1>6, <2>1, <2>3 DEF StatusUpdate
  <2> QED BY <2>2, <2>4
<1> QED BY <1>4, <1>5, <1>6 DEF FinishPass, FailPass, StatusBaseError

\* The end of a pass.
LEMMA StatusFinish ==
    ASSUME TypeOK, NEW c \in Controllers, MsvcKnown(c), Known(c), StatusKnown(c),
           FinishPass(c)
    PROVE  StatusKnown(c)'
<1>0. PICK m : m = pass[c].key
  OBVIOUS
<1>1. PICK err \in BOOLEAN : Return(c, err)
  BY DEF FinishPass, FailPass, StatusBaseError, StatusUnchanged, StatusUpdate
<1>2. pass[c] # Idle
  BY DEF FinishPass, FailPass, StatusBaseError, StatusUnchanged, StatusUpdate, AtStatus
<1>3. m \in ModelServices
  BY <1>0, <1>2, PassType
<1>4. /\ pass'[c] = Idle /\ UNCHANGED <<objs, news, queue, usedBase, seenMsvc, seenObjs>>
      /\ backoff[c] \subseteq backoff'[c]
  BY <1>1 DEF Return, TypeOK, PassesOK, QueuesOK, copies
<1>5. unseen[c] \subseteq unseen'[c]
  BY DEF FinishPass, FailPass, StatusBaseError, StatusUnchanged, StatusUpdate, WriteMsvc,
         TypeOK, QueuesOK
<1>6. ASSUME NEW n \in ModelServices, n # m
      PROVE  QuietStatus(c, n)'
  <2>1. ~Busy(c, n)
    BY <1>0, <1>6 DEF Busy
  <2> QED BY <1>4, <1>5, <2>1, QuietStatusKept DEF StatusKnown
<1>7. QuietStatus(c, m)'
  <2> SUFFICES ASSUME seenMsvc[c][m].phase = "live",
                      m \notin queue[c] \cup backoff'[c] \cup unseen'[c],
                      NEW d \in PDDeployments,
                      d \in Mirrored(seenMsvc[c][m].spec, usedBase[c][m])
               PROVE  LET o == ObjectOf[m][d] IN
                      /\ seenObjs[c][o] # NoObject
                      /\ Reported(seenMsvc[c][m].status, d, seenObjs[c][o])
    BY <1>4 DEF QuietStatus, Reported
  <2>1. seenMsvc[c][m].status = NewStatus(c) /\ NewStatus(c).missing = {}
    BY <1>0, FinishedStatus DEF StatusKnown
  <2>2. seenMsvc[c][m].spec = pass[c].spec
    BY <1>0, <1>2 DEF Known, PassKnown
  <2>3. d \in Mirrored(pass[c].spec, seenBase[c])
    BY <2>2, MirroredOnAnyBase
  <2> QED BY <1>0, <1>2, <2>1, <2>3, NewStatusReports
<1> QED BY <1>3, <1>4, <1>6, <1>7 DEF StatusKnown, PassStatusKnown

\* A new copy of a deployment: the event behind it requeues whose status it outdates.
LEMMA StatusDeliverObj ==
    ASSUME TypeOK, NEW c \in Controllers, Known(c), StatusKnown(c), NEW o \in Objects,
           DeliverObj(c, o)
    PROVE  StatusKnown(c)'
<1>1. /\ UNCHANGED <<objs, seenMsvc, pass, backoff, usedBase, unseen>>
      /\ queue'[c] = queue[c] \cup news[c][o]
      /\ news'[c] = [news[c] EXCEPT ![o] = {}]
      /\ seenObjs'[c] = [seenObjs[c] EXCEPT ![o] = objs[o]]
  BY DEF DeliverObj, Enqueue, server, TypeOK, QueuesOK, CachesOK
<1>2. PassStatusKnown(c)'
  BY <1>1 DEF StatusKnown, PassStatusKnown
<1>3. ASSUME NEW m \in ModelServices
      PROVE  QuietStatus(c, m)'
  <2> DEFINE ms == seenMsvc[c][m]
             p == PassOn(m, ms, usedBase[c][m])
  <2> SUFFICES ASSUME ms.phase = "live", ~Busy(c, m),
                      m \notin queue[c] \cup news[c][o] \cup backoff[c] \cup unseen[c],
                      NEW d \in PDDeployments, d \in Mirrored(ms.spec, usedBase[c][m])
               PROVE  LET w == ObjectOf[m][d] IN
                      \/ /\ seenObjs'[c][w] # NoObject
                         /\ Reported(ms.status, d, seenObjs'[c][w])
                      \/ m \in news'[c][w]
    BY <1>1 DEF QuietStatus, Reported, Busy
  <2> DEFINE w == ObjectOf[m][d]
  <2>1. w \in Objects
    BY ConstantsAssumption DEF PDDeployments, Slots
  <2>2. \/ seenObjs[c][w] # NoObject /\ Reported(ms.status, d, seenObjs[c][w])
        \/ m \in news[c][w]
    BY DEF StatusKnown, QuietStatus
  <2>3. CASE w # o
    BY <1>1, <2>1, <2>2, <2>3 DEF TypeOK, QueuesOK, CachesOK
  <2>4. CASE w = o
    <3>1. Renderable(p.spec, p.base, NoBase) /\ Watched(c, p, SlotsOf(p.want))
      BY DEF Known, QuietKnown
    <3>2. /\ p.key = m /\ p.uid \in 0..MaxUid /\ p.spec = ms.spec
          /\ p.base = usedBase[c][m] /\ p.want = Wanted(p.spec, p.base)
      BY SeenType DEF PassOn
    <3>3. p.spec \in Specs /\ p.base \in Bases
      BY <3>2 DEF TypeOK, CachesOK, PassesOK, MsvcOK, ModelService
    <3> HIDE DEF p
    <3>4. d \in SlotsOf(p.want) /\ Owned(p.spec, p.base, d)
      BY <3>1, <3>2, <3>3, RenderedBaseType, MirroredWanted
    <3>5. Applied(objs[w], p, d)
      BY <2>4, <3>1, <3>2, <3>4 DEF Watched
    <3>6. m \in OwnersOf(objs[w])
      BY <3>2, <3>4, <3>5, AppliedNamesOwner
    <3>7. seenObjs[c][w] = objs[w]
      BY <2>1, <2>4, <3>6 DEF Known, EventsKnown
    <3>8. seenObjs'[c][w] = seenObjs[c][w]
      BY <1>1, <2>1, <2>4, <3>7 DEF TypeOK, CachesOK
    <3> QED BY <2>2, <2>4, <3>8
  <2> QED BY <2>3, <2>4
<1> QED BY <1>2, <1>3 DEF StatusKnown

\* The informers' other events, the retries, the resync and a restart.
LEMMA StatusInformers ==
    ASSUME TypeOK, NEW c \in Controllers, StatusKnown(c),
           \/ \E m \in ModelServices : DeliverMsvc(c, m) \/ BackoffExpires(c, m)
           \/ DeliverBase(c)
           \/ Resync(c)
           \/ Restart(c)
    PROVE  StatusKnown(c)'
<1>1. ASSUME queue[c] \subseteq queue'[c],
             UNCHANGED <<seenObjs[c], pass[c], usedBase[c], news[c]>>,
             backoff[c] \cup unseen[c] \subseteq backoff'[c] \cup unseen'[c] \cup queue'[c],
             \A m \in ModelServices \ queue'[c] : UNCHANGED seenMsvc[c][m]
      PROVE  StatusKnown(c)'
  <2>1. PassStatusKnown(c)'
    <3>1. pass[c] # Idle => pass[c].key \in ModelServices
      BY PassType
    <3> QED BY <1>1, <3>1 DEF StatusKnown, PassStatusKnown
  <2>2. ASSUME NEW m \in ModelServices
        PROVE  QuietStatus(c, m)'
    <3>1. CASE m \in queue'[c]
      BY <3>1 DEF QuietStatus
    <3>2. CASE m \notin queue'[c]
      BY <1>1, <3>2, QuietStatusKept DEF StatusKnown, Busy
    <3> QED BY <3>1, <3>2
  <2> QED BY <2>1, <2>2 DEF StatusKnown
<1>2. ASSUME NEW m \in ModelServices, DeliverMsvc(c, m)
      PROVE  StatusKnown(c)'
  <2>1. UNCHANGED <<seenObjs, pass, usedBase, news, backoff>>
    BY <1>2 DEF DeliverMsvc
  <2>2. /\ queue'[c] = queue[c] \cup {m} /\ unseen'[c] = unseen[c] \ {m}
        /\ \A n \in ModelServices \ {m} : seenMsvc'[c][n] = seenMsvc[c][n]
    BY <1>2 DEF DeliverMsvc, Enqueue, TypeOK, CachesOK, QueuesOK
  <2> QED BY <1>1, <2>1, <2>2
<1>3. ASSUME NEW m \in ModelServices, BackoffExpires(c, m)
      PROVE  StatusKnown(c)'
  <2>1. UNCHANGED <<seenObjs, seenMsvc, unseen, pass, usedBase, news>>
    BY <1>3 DEF BackoffExpires, caches, copies
  <2>2. queue'[c] = queue[c] \cup {m} /\ backoff'[c] = backoff[c] \ {m}
    BY <1>3 DEF BackoffExpires, Enqueue, TypeOK, QueuesOK
  <2> QED BY <1>1, <2>1, <2>2
<1>4. CASE DeliverBase(c)
  BY <1>1, <1>4 DEF DeliverBase
<1>5. CASE Resync(c)
  <2>1. queue[c] \subseteq queue'[c]
    BY <1>5 DEF Resync, Enqueue, TypeOK, QueuesOK
  <2> QED BY <1>1, <1>5, <2>1 DEF Resync, caches, copies
<1>6. CASE Restart(c)
  <2>1. /\ pass'[c] = Idle /\ UNCHANGED msvc /\ seenMsvc'[c] = msvc
        /\ {m \in ModelServices : msvc[m].phase # "absent"} \subseteq queue'[c]
    BY <1>6 DEF Restart, server, TypeOK, CachesOK, PassesOK, QueuesOK
  <2> QED BY <2>1 DEF StatusKnown, PassStatusKnown, QuietStatus
<1> QED BY <1>2, <1>3, <1>4, <1>5, <1>6

\* Every step.
LEMMA StatusStep ==
    ASSUME TypeOK, NEW c \in Controllers, MsvcKnown(c), Known(c), StatusKnown(c),
           [Next]_vars
    PROVE  StatusKnown(c)'
<1>1. CASE UNCHANGED vars
  BY <1>1, StatusLeftAlone DEF LeftAlone, vars, server, caches, copies, Written
<1>2. CASE Controller(c)
  BY <1>2, StatusTake, StatusChildren, StatusFinish, StatusDeliverObj, StatusInformers
  DEF Controller, CreateOrUpdate, ChildStep
<1> QED BY <1>1, <1>2, StatusLeftAlone, OthersStep, EnvironmentLeaves DEF Next

\* At first every ModelService there is waits for its first pass.
LEMMA StatusInit == ASSUME Init, NEW c \in Controllers PROVE StatusKnown(c)
<1>1. PICK spec \in [ModelServices -> Specs \cup {NoSpec}] :
        /\ msvc = [m \in ModelServices |->
             [phase |-> IF spec[m] = NoSpec THEN "absent" ELSE "live",
              uid |-> 0, spec |-> spec[m], status |-> EmptyStatus]]
        /\ queue = [d \in Controllers |-> {m \in ModelServices : spec[m] # NoSpec}]
  BY DEF Init
<1>2. \A m \in ModelServices : seenMsvc[c][m].phase = "live" => m \in queue[c]
  BY <1>1 DEF Init
<1>3. pass[c] = Idle
  BY DEF Init
<1> QED BY <1>2, <1>3 DEF StatusKnown, PassStatusKnown, QuietStatus

-----------------------------------------------------------------------------

\* The status of a ModelService nobody works on mirrors the deployments in the cache,
\* or an event about them is on its way: StatusTraced, for all constants.
THEOREM StatusTracedHolds == Spec => []StatusTraced
<1>1. Init => StatusTraced
  <2>1. Init => NothingForgotten
    BY InitForgetsNothing
  <2> QED BY <2>1, StatusInit DEF StatusTraced
<1>2. StatusTraced /\ [Next]_vars => StatusTraced'
  BY StepForgetsNothing, StatusStep DEF StatusTraced, NothingForgotten
<1> QED BY <1>1, <1>2, PTL DEF Spec

\* A status that nobody is going to touch mirrors what the API server holds of the
\* prefill and decode deployments (StatusSettled), for all constants.
THEOREM StatusSettles == Spec => []StatusSettled
<1>1. ASSUME StatusTraced PROVE StatusSettled
  <2> SUFFICES ASSUME NEW c \in Controllers, NEW m \in ModelServices, Settled(c, m),
                      NEW d \in PDDeployments, d \in Mirrored(msvc[m].spec, usedBase[c][m])
               PROVE  Reported(msvc[m].status, d, objs[ObjectOf[m][d]])
    BY DEF StatusSettled
  <2> DEFINE o == ObjectOf[m][d]
             p == PassOn(m, msvc[m], usedBase[c][m])
  <2>1. TypeOK /\ MsvcKnown(c) /\ Known(c) /\ StatusKnown(c)
    BY <1>1 DEF StatusTraced, NothingForgotten
  <2>2. seenMsvc[c][m] = msvc[m] /\ msvc[m].phase = "live" /\ m \notin queue[c] \cup backoff[c]
          /\ m \notin unseen[c] /\ ~Busy(c, m)
    BY <2>1 DEF Settled, MsvcKnown
  <2>3. o \in Objects /\ m \notin news[c][o]
    BY ConstantsAssumption DEF PDDeployments, Slots, Settled
  <2>4. Reported(msvc[m].status, d, seenObjs[c][o])
    BY <2>1, <2>2, <2>3 DEF StatusKnown, QuietStatus
  <2>5. Renderable(p.spec, p.base, NoBase) /\ Watched(c, p, SlotsOf(p.want))
    BY <2>1, <2>2 DEF Known, QuietKnown
  <2>6. /\ p.key = m /\ p.uid \in 0..MaxUid /\ p.spec = msvc[m].spec
        /\ p.base = usedBase[c][m] /\ p.want = Wanted(p.spec, p.base)
    BY <2>1, <2>2, SeenType DEF PassOn
  <2>7. p.spec \in Specs /\ p.base \in Bases
    BY <2>1, <2>2, <2>6 DEF TypeOK, ServerOK, PassesOK, MsvcOK, ModelService
  <2> HIDE DEF p
  <2>8. d \in SlotsOf(p.want) /\ Owned(p.spec, p.base, d)
    BY <2>5, <2>6, <2>7, RenderedBaseType, MirroredWanted
  <2>9. Applied(objs[o], p, d)
    BY <2>2, <2>3, <2>5, <2>6, <2>8 DEF Watched
  <2>10. m \in OwnersOf(objs[o])
    BY <2>6, <2>8, <2>9, AppliedNamesOwner
  <2>11. seenObjs[c][o] = objs[o]
    BY <2>1, <2>3, <2>10 DEF Known, EventsKnown
  <2> QED BY <2>4, <2>11
<1> QED BY <1>1, StatusTracedHolds, PTL
=============================================================================
