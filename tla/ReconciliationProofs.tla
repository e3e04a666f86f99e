------------------------ MODULE ReconciliationProofs ------------------------
(***************************************************************************)
(* ModelServiceController implements Reconciliation, for any number of     *)
(* ModelServices and controller processes.                                 *)
(***************************************************************************)
EXTENDS ModelServiceHistory, ModelServiceProofs

-----------------------------------------------------------------------------
(* What a controller knows was true of the cluster once.                   *)

\* Caches hold versions the API server held.
CachesRemembered ==
    \A c \in Controllers :
        /\ \A m \in ModelServices : seenMsvc[c][m] \in pastMsvc[m]
        /\ \A o \in Objects : seenObjs[c][o] \in pastObjs[o]
        /\ seenBase[c] \in pastBase

\* A pass works on a version of its ModelService and a version of the base.
PassesRemembered ==
    \A c \in Controllers : pass[c] # Idle =>
        \E ms \in pastMsvc[pass[c].key], b \in pastBase :
            /\ ms.phase = "live" /\ Renderable(ms.spec, b, NoBase)
            /\ pass[c].uid = ms.uid /\ pass[c].spec = ms.spec
            /\ pass[c].status = ms.status
            /\ pass[c].base = b /\ pass[c].want = Wanted(ms.spec, b)

ServerRemembered ==
    /\ pastMsvc = [m \in ModelServices |-> pastMsvc[m] \cup {msvc[m]}]
    /\ pastObjs = [o \in Objects |-> pastObjs[o] \cup {objs[o]}]
    /\ pastBase = pastBase \cup {base}

Remembered == ServerRemembered /\ CachesRemembered /\ PassesRemembered

-----------------------------------------------------------------------------
(* Steps *)

\* The record grows with every step.
LEMMA RecordStep ==
    ASSUME ServerRemembered, HistoryNext
    PROVE  /\ ServerRemembered'
           /\ \A m \in ModelServices : pastMsvc[m] \cup {msvc[m], msvc'[m]} \subseteq pastMsvc'[m]
           /\ \A o \in Objects : pastObjs[o] \cup {objs[o], objs'[o]} \subseteq pastObjs'[o]
           /\ pastBase \cup {base, base'} \subseteq pastBase'
BY DEF ServerRemembered, HistoryNext

\* At first only one version of everything is known.
LEMMA RememberedInit == HistoryInit => Remembered
BY DEF HistoryInit, Init, Remembered, ServerRemembered, CachesRemembered,
       PassesRemembered

\* Nobody ever knows what the cluster did not hold.
LEMMA RememberedStep ==
    ASSUME TypeOK, Remembered, [HistoryNext]_<<vars, history>>
    PROVE  Remembered'
<1>1. CASE HistoryNext
  <2>1. Next
    BY <1>1 DEF HistoryNext
  <2>2. ServerRemembered'
    BY <1>1, RecordStep DEF Remembered
  <2>3. CachesRemembered'
    BY <1>1, <2>1, CacheStep, RecordStep DEF Remembered, CachesRemembered
  <2>4. PassesRemembered'
    <3> SUFFICES ASSUME NEW c \in Controllers, pass'[c] # Idle
                 PROVE  \E ms \in pastMsvc'[pass'[c].key], b \in pastBase' :
                          /\ ms.phase = "live" /\ Renderable(ms.spec, b, NoBase)
                          /\ pass'[c].uid = ms.uid /\ pass'[c].spec = ms.spec
                          /\ pass'[c].status = ms.status
                          /\ pass'[c].base = b /\ pass'[c].want = Wanted(ms.spec, b)
      BY DEF PassesRemembered
    <3>1. CASE \E m \in ModelServices : Begin(c, m)
      <4>1. PICK m \in ModelServices : Begin(c, m)
        BY <3>1
      <4>2. seenMsvc[c][m] \in pastMsvc'[m] /\ seenBase[c] \in pastBase'
        BY <1>1, RecordStep DEF Remembered, CachesRemembered
      <4> QED BY <4>1, <4>2 DEF Begin, TypeOK, PassesOK
    <3>2. CASE /\ pass[c] # Idle
               /\ \A f \in {"key", "uid", "spec", "status", "base", "want"} :
                    pass'[c][f] = pass[c][f]
      <4>1. pass[c].key \in ModelServices
        BY <3>2 DEF TypeOK, PassesOK, Pass
      <4>2. PICK ms \in pastMsvc[pass[c].key], b \in pastBase :
              /\ ms.phase = "live" /\ Renderable(ms.spec, b, NoBase)
              /\ pass[c].uid = ms.uid /\ pass[c].spec = ms.spec
              /\ pass[c].status = ms.status
              /\ pass[c].base = b /\ pass[c].want = Wanted(ms.spec, b)
        BY <3>2 DEF Remembered, PassesRemembered
      <4>3. ms \in pastMsvc'[pass[c].key] /\ b \in pastBase'
        BY <1>1, <4>1, RecordStep DEF Remembered
      <4> QED BY <3>2, <4>2, <4>3
    <3> QED BY <2>1, <3>1, <3>2, PassStep
  <2> QED BY <2>2, <2>3, <2>4 DEF Remembered
<1>2. CASE UNCHANGED <<vars, history>>
  BY <1>2 DEF vars, server, caches, copies, history, Remembered, ServerRemembered,
              CachesRemembered, PassesRemembered
<1> QED BY <1>1, <1>2

-----------------------------------------------------------------------------
(* Every step is one of Reconciliation *)

\* A step that leaves the cluster alone is at most somebody else's step.
LEMMA QuietStep ==
    ASSUME ServerRemembered, HistoryNext, UNCHANGED <<msvc, objs, base>>,
           disturbances' \in {disturbances, disturbances + 1}
    PROVE  [Promise!Next]_(Promise!vars)
<1>1. Promise!Remember
  BY DEF HistoryNext, Promise!Remember
<1>2. CASE UNCHANGED disturbances
  BY <1>2 DEF HistoryNext, ServerRemembered, Promise!vars
<1>3. CASE disturbances' = disturbances + 1
  BY <1>1, <1>3 DEF Promise!Next, Promise!Disturbance
<1> QED BY <1>2, <1>3

\* A create or an update that takes effect is an Apply.
LEMMA WriteStep ==
    ASSUME TypeOK, Remembered, HistoryNext, NEW c \in Controllers, NEW s \in Slots,
           pass[c] # Idle, s \in pass[c].left, Current(c, s),
           Write(Target(c, s), Result(c, s)), UNCHANGED <<msvc, base>>,
           disturbances' \in {disturbances, disturbances + 1}
    PROVE  [Promise!Next]_(Promise!vars)
<1> DEFINE m == pass[c].key
<1>1. m \in ModelServices /\ s \in SlotsOf(pass[c].want)
  BY DEF TypeOK, PassesOK, Pass
<1>2. PICK ms \in pastMsvc[m], b \in pastBase :
        /\ ms.phase = "live" /\ Renderable(ms.spec, b, NoBase)
        /\ pass[c].uid = ms.uid /\ pass[c].spec = ms.spec
        /\ pass[c].base = b /\ pass[c].want = Wanted(ms.spec, b)
  BY DEF Remembered, PassesRemembered
<1>3. s \in AskedFor(ms, b)
  BY <1>1, <1>2 DEF AskedFor, SlotsOf
<1>4. Result(c, s) = Reconciled(objs[ChildName(m, s)], m, ms, b, s)
  <2> DEFINE p == PassOn(m, ms, b)
  <2>1. Desired(pass[c], s) = Desired(p, s) /\ pass[c].spec = p.spec
    BY <1>2 DEF Desired, PassOn
  <2>2. \A x : MergeInto(x, pass[c], s) = MergeInto(x, p, s)
    BY <2>1 DEF MergeInto
  <2>3. Created(pass[c], s) = Created(p, s)
    BY <2>1 DEF Created
  <2> QED BY <2>2, <2>3 DEF Result, Reconciled, Current, Target, ChildName
<1>5. objs' = [objs EXCEPT ![ChildName(m, s)] =
                 Reconciled(objs[ChildName(m, s)], m, ms, b, s)]
  BY <1>4 DEF Write, Target, ChildName
<1>6. Promise!Remember
  BY DEF HistoryNext, Promise!Remember
<1>7. CASE UNCHANGED objs
  BY <1>7, QuietStep DEF Remembered
<1>8. CASE objs' # objs
  <2>1. Promise!Apply(m)
    BY <1>2, <1>3, <1>5, <1>8 DEF Promise!Apply
  <2> QED BY <1>1, <1>6, <2>1 DEF Promise!Next, Promise!Controller
<1> QED BY <1>7, <1>8

\* Create, Keep, Update, Refuse, Fault, LostReply: a write, or nothing.
LEMMA ChildrenStep ==
    ASSUME TypeOK, Remembered, HistoryNext, NEW c \in Controllers, NEW s \in Slots,
           \/ Create(c, s) \/ Keep(c, s) \/ Update(c, s) \/ Refuse(c, s)
           \/ Fault(c, s) \/ LostReply(c, s)
    PROVE  [Promise!Next]_(Promise!vars)
<1>1. UNCHANGED <<msvc, base>> /\ pass[c] # Idle /\ s \in pass[c].left
  BY DEF Create, Keep, Update, Call, Refuse, Fault, LostReply, Attempt, IsNext
<1>2. disturbances' \in {disturbances, disturbances + 1}
  BY DEF Create, Keep, Update, Call, Refuse, Fault, LostReply, Disturb
<1>3. UNCHANGED objs \/ (Current(c, s) /\ Write(Target(c, s), Result(c, s)))
  BY DEF Create, Keep, Update, Call, Refuse, Fault, LostReply
<1> QED BY <1>1, <1>2, <1>3, QuietStep, WriteStep DEF Remembered

\* StatusUpdate is a ReportStatus.
LEMMA StatusStep ==
    ASSUME TypeOK, Remembered, HistoryNext, NEW c \in Controllers, StatusUpdate(c)
    PROVE  [Promise!Next]_(Promise!vars)
<1> DEFINE m == pass[c].key
           b == seenBase[c]
           status == NewStatus(c)
<1>1. pass[c] # Idle /\ pass[c] \in Pass /\ m \in ModelServices
  BY DEF StatusUpdate, AtStatus, TypeOK, PassesOK, Pass
<1>2. UNCHANGED <<objs, base, disturbances>>
  BY DEF StatusUpdate, Return
<1>3. CASE UNCHANGED msvc
  BY <1>2, <1>3, QuietStep DEF Remembered
<1>4. CASE msvc' # msvc
  <2>1. msvc' = [msvc EXCEPT ![m].status = status]
    BY <1>4 DEF StatusUpdate, WriteMsvc
  <2>2. msvc'[m].status = status
    BY <1>1, <2>1 DEF TypeOK, ServerOK, MsvcOK, ModelService
  <2>3. PICK ms \in pastMsvc[m] :
          ms.phase = "live" /\ pass[c].spec = ms.spec /\ pass[c].status = ms.status
    BY <1>1 DEF Remembered, PassesRemembered
  <2>4. b \in pastBase /\ Renderable(ms.spec, b, NoBase)
    BY <2>3 DEF StatusUpdate, Remembered, CachesRemembered
  <2>5. \A d \in Deployments : seenObjs[c][ObjectOf[m][d]] \in pastObjs[ObjectOf[m][d]]
    <3>1. \A d \in Deployments : ObjectOf[m][d] \in Objects
      BY <1>1, ConstantsAssumption DEF Deployments, PDDeployments, Slots
    <3> QED BY <3>1 DEF Remembered, CachesRemembered
  <2>6. StatusOf(status, m, ms, b, pastObjs)
    <3>1. Mirrored(ms.spec, b) \subseteq Deployments
      BY DEF Mirrored
    <3> QED BY <2>3, <2>4, <2>5, <3>1 DEF StatusOf, NewStatus, PopulatedStatus
  <2>7. Promise!ReportStatus(m)
    BY <1>2, <1>4, <2>1, <2>2, <2>3, <2>4, <2>6 DEF Promise!ReportStatus
  <2>8. Promise!Remember
    BY DEF HistoryNext, Promise!Remember
  <2> QED BY <1>1, <1>2, <2>7, <2>8 DEF Promise!Next, Promise!Controller
<1> QED BY <1>3, <1>4

\* Whatever a controller does.
LEMMA ControllerStep ==
    ASSUME TypeOK, Remembered, HistoryNext, NEW c \in Controllers, Controller(c)
    PROVE  [Promise!Next]_(Promise!vars)
<1> DEFINE Goal == [Promise!Next]_(Promise!vars)
           Quiet == /\ UNCHANGED <<msvc, objs, base>>
                    /\ disturbances' \in {disturbances, disturbances + 1}
<1>1. Quiet => Goal
  BY QuietStep DEF Remembered
<1> HIDE DEF Goal
<1>2. ASSUME NEW m \in ModelServices,
             \/ Skip(c, m) \/ FailRender(c, m) \/ Begin(c, m)
             \/ DeliverMsvc(c, m) \/ BackoffExpires(c, m)
      PROVE  Goal
  BY <1>1, <1>2 DEF Skip, FailRender, Begin, DeliverMsvc, BackoffExpires, server
<1>3. ASSUME NEW o \in Objects, DeliverObj(c, o)
      PROVE  Goal
  BY <1>1, <1>3 DEF DeliverObj, server
<1>4. DeliverBase(c) => Goal
  BY <1>1 DEF DeliverBase, server
<1>5. Resync(c) /\ Disturb => Goal
  BY <1>1 DEF Resync, Disturb, server
<1>6. Restart(c) => Goal
  BY <1>1 DEF Restart, Disturb, server
<1>7. FinishPass(c) => Goal
  <2>1. FailPass(c) \/ StatusBaseError(c) \/ StatusUnchanged(c) => Goal
    BY <1>1 DEF FailPass, StatusBaseError, StatusUnchanged, Return
  <2> QED BY <2>1, StatusStep DEF FinishPass, Goal
<1>8. ASSUME NEW s \in Slots,
             \/ Create(c, s) \/ Keep(c, s) \/ Update(c, s) \/ Refuse(c, s)
             \/ Fault(c, s) \/ LostReply(c, s)
      PROVE  Goal
  BY <1>8, ChildrenStep DEF Goal
<1>9. Goal
  BY <1>2, <1>3, <1>4, <1>5, <1>6, <1>7, <1>8 DEF Controller, CreateOrUpdate
<1> QED BY <1>9 DEF Goal

\* Whatever others do.
LEMMA EnvironmentStep ==
    ASSUME TypeOK, Remembered, HistoryNext, Environment
    PROVE  [Promise!Next]_(Promise!vars)
<1>1. Promise!Remember
  BY DEF HistoryNext, Promise!Remember
<1>2. ASSUME NEW m \in ModelServices, NEW x \in ModelService, SetMsvc(m, x), Disturb,
             UserMay(msvc[m], x)
      PROVE  Promise!Disturbance
  <2>1. msvc'[m] = x /\ msvc' = [msvc EXCEPT ![m] = x]
    BY <1>2 DEF SetMsvc, WriteMsvc, TypeOK, ServerOK, MsvcOK
  <2> QED BY <1>2, <2>1 DEF Promise!Disturbance, SetMsvc, Disturb
<1>3. ASSUME NEW o \in Objects, NEW x, SetObj(o, x), Disturb, OthersMay(objs[o], x)
      PROVE  Promise!Disturbance
  <2>1. objs'[o] = x /\ objs' = [objs EXCEPT ![o] = x]
    BY <1>3 DEF SetObj, Write, TypeOK, ServerOK
  <2> QED BY <1>3, <2>1 DEF Promise!Disturbance, SetObj, Disturb
<1>4. ASSUME NEW m \in ModelServices
      PROVE  /\ msvc[m] \in ModelService /\ Gone(m) \in ModelService
             /\ Deleted(msvc[m], Gone(m))
  BY ModelServiceType DEF Deleted, Gone
<1>5. ASSUME NEW m \in ModelServices, CreateModelService(m)
      PROVE  Promise!Disturbance
  <2>1. PICK spec \in Specs :
          SetMsvc(m, [phase |-> "live", uid |-> msvc[m].uid + 1, spec |-> spec,
                      status |-> EmptyStatus])
    BY <1>5 DEF CreateModelService
  <2> DEFINE x == [phase |-> "live", uid |-> msvc[m].uid + 1, spec |-> spec,
                   status |-> EmptyStatus]
  <2>2. x \in ModelService
    BY <1>4, <1>5, EmptyStatusType, ConstantsAssumption
    DEF CreateModelService, ModelService, Phases
  <2> QED BY <1>2, <1>5, <2>1, <2>2 DEF CreateModelService, UserMay
<1>6. ASSUME NEW m \in ModelServices, EditSpec(m)
      PROVE  Promise!Disturbance
  <2>1. PICK spec \in Specs : SetMsvc(m, [msvc[m] EXCEPT !.spec = spec])
    BY <1>6 DEF EditSpec
  <2> DEFINE x == [msvc[m] EXCEPT !.spec = spec]
  <2>2. x \in ModelService /\ x.phase = "live" /\ x.spec = spec
    BY <1>4, <1>6 DEF EditSpec, ModelService
  <2> QED BY <1>2, <1>6, <2>1, <2>2 DEF EditSpec, UserMay
<1>7. ASSUME NEW m \in ModelServices, DeleteModelService(m)
      PROVE  Promise!Disturbance
  BY <1>2, <1>4, <1>7 DEF DeleteModelService, UserMay
<1>8. ASSUME NEW m \in ModelServices, MarkForDeletion(m)
      PROVE  Promise!Disturbance
  <2>1. [msvc[m] EXCEPT !.phase = "deleting"] \in ModelService
    BY <1>4 DEF ModelService, Phases
  <2> QED BY <1>2, <1>8, <2>1 DEF MarkForDeletion, UserMay
<1>9. ASSUME NEW m \in ModelServices, FinishDeletion(m)
      PROVE  Promise!Collection
  <2>1. msvc'[m] = Gone(m) /\ msvc' = [msvc EXCEPT ![m] = Gone(m)]
    BY <1>9 DEF FinishDeletion, SetMsvc, WriteMsvc, TypeOK, ServerOK, MsvcOK
  <2> QED BY <1>4, <1>9, <2>1 DEF Promise!Collection, FinishDeletion, SetMsvc, FinalizerDone
<1>10. ASSUME NEW o \in Objects, DeleteChild(o)
       PROVE  Promise!Disturbance
  BY <1>3, <1>10 DEF DeleteChild, OthersMay
<1>11. ASSUME NEW o \in Objects, EditChild(o)
       PROVE  Promise!Disturbance
  <2>1. PICK edit \in ForeignEdits :
          SetObj(o, [objs[o] EXCEPT !.data[edit[1]] = edit[2]])
    BY <1>11 DEF EditChild
  <2> QED BY <1>3, <1>11, <2>1 DEF EditChild, OthersMay
<1>12. ASSUME NEW o \in Objects, ReportReady(o)
       PROVE  Promise!Disturbance
  <2>1. PICK n \in Readiness : SetObj(o, [objs[o] EXCEPT !.ready = n])
    BY <1>12 DEF ReportReady
  <2>2. objs[o] \in Object
    BY <1>12 DEF ReportReady, TypeOK, ServerOK
  <2>3. [objs[o] EXCEPT !.ready = n].ready = n
    BY <2>2 DEF Object
  <2> QED BY <1>3, <1>12, <2>1, <2>3 DEF ReportReady, OthersMay
<1>13. ASSUME NEW o \in Objects, CollectGarbage(o)
       PROVE  Promise!Collection
  BY <1>13 DEF CollectGarbage, SetObj, Write, Alive, Promise!Collection, OwnerGone
<1>14. ASSUME EditBase
       PROVE  Promise!Disturbance
  BY <1>14 DEF EditBase, Disturb, Promise!Disturbance
<1>15. Promise!Disturbance \/ Promise!Collection
  BY <1>5, <1>6, <1>7, <1>8, <1>9, <1>10, <1>11, <1>12, <1>13, <1>14 DEF Environment
<1> QED BY <1>1, <1>15 DEF Promise!Next

\* Every step of the controllers and of everybody else, seen from the API server, is
\* a step of Reconciliation or none: ReconciliationImplemented.
THEOREM ImplementsReconciliation == HistorySpec => ReconciliationImplemented
<1>1. HistoryInit => TypeOK /\ Remembered /\ Promise!Init
  BY TypeInit, RememberedInit DEF HistoryInit, Init, Promise!Init
<1>2. TypeOK /\ Remembered /\ [HistoryNext]_<<vars, history>> => TypeOK' /\ Remembered'
  <2> SUFFICES ASSUME TypeOK, Remembered, [HistoryNext]_<<vars, history>>
               PROVE  TypeOK'
    BY RememberedStep
  <2>1. [Next]_vars
    BY DEF HistoryNext
  <2> QED BY <2>1, TypeStep
<1>3. TypeOK /\ Remembered /\ [HistoryNext]_<<vars, history>> => [Promise!Next]_(Promise!vars)
  <2> SUFFICES ASSUME TypeOK, Remembered, [HistoryNext]_<<vars, history>>
               PROVE  [Promise!Next]_(Promise!vars)
    OBVIOUS
  <2>1. CASE HistoryNext
    BY <2>1, ControllerStep, EnvironmentStep DEF HistoryNext, Next
  <2>2. CASE UNCHANGED <<vars, history>>
    BY <2>2 DEF vars, server, history, Promise!vars
  <2> QED BY <2>1, <2>2
<1> QED BY <1>1, <1>2, <1>3, PTL DEF HistorySpec, ReconciliationImplemented, Promise!Spec
=============================================================================
