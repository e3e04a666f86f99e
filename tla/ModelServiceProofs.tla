------------------------- MODULE ModelServiceProofs -------------------------
(***************************************************************************)
(* Proofs about ModelServiceController for any number of ModelServices,    *)
(* controller processes, specs and bases, and any bounds.                  *)
(***************************************************************************)
EXTENDS ModelServiceProperties, TLAPS

-----------------------------------------------------------------------------
(* The merge *)

\* WithOverride (mergo.Merge) yields a child.
LEMMA OverrideType ==
    ASSUME NEW dst \in Child, NEW src \in Child
    PROVE  WithOverride(dst, src) \in Child
BY DEF Child, WithOverride, MergeField

\* Merging the same source a second time changes nothing: why a reconcile of an
\* object that is as desired makes no call (genericCreateOrUpdate).
LEMMA OverrideIdempotent ==
    ASSUME NEW dst \in Child, NEW src \in Child
    PROVE  WithOverride(WithOverride(dst, src), src) = WithOverride(dst, src)
BY DEF Child, WithOverride, MergeField

\* The EmptyChild, and what the controller stamps, are children.
LEMMA StampedType == EmptyChild \in Child /\ Stamped \in Child
BY ValuesAssumption DEF EmptyChild, Stamped, Child

\* Every merged child is a child (MergeChildResources).
LEMMA MergedType ==
    ASSUME NEW spec \in SpecType, NEW b, BaseConfigFor(spec, b) \in BaseType
    PROVE  MergeChildResources(spec, b) \in [Slots -> Child \cup {NoChild}]
<1> DEFINE has == BaseConfigFor(spec, b).has
<1>1. has \in [BaseSections -> Child \cup {NoChild}]
  BY DEF BaseType
<1>2. /\ spec.prefill \in Child \cup {NoChild} /\ spec.decode \in Child \cup {NoChild}
      /\ spec.endpointPicker \in Child \cup {NoChild} /\ spec.gatewayRefs \in Values
  BY DEF SpecType
<1>3. \A x \in Child \cup {NoChild} : OrEmpty(x) \in Child
  BY StampedType DEF OrEmpty
<1>4. \A x \in Child \cup {NoChild} : FromSpec(x) \in Child
  BY <1>3, ValuesAssumption DEF FromSpec, Child
<1>5. \A x \in Child \cup {NoChild} : StampSection(x) \in Child \cup {NoChild}
  BY ValuesAssumption DEF StampSection, Child
<1>6. \A x, y \in Child \cup {NoChild} : MergePDDeployment(x, y) \in Child \cup {NoChild}
  BY <1>3, <1>4, OverrideType DEF MergePDDeployment
<1>7. \A x, y \in Child \cup {NoChild} : MergeEppDeployment(x, y) \in Child \cup {NoChild}
  BY <1>4, OverrideType DEF MergeEppDeployment
<1>8. \A g \in Values, y \in Child \cup {NoChild} :
        MergeHTTPRoute(g, y) \in Child \cup {NoChild}
  <2> TAKE g \in Values, y \in Child \cup {NoChild}
  <2>1. [Stamped EXCEPT !.template = g] \in Child
    BY StampedType DEF Child
  <2> QED BY <2>1, <1>3, OverrideType DEF MergeHTTPRoute
<1>9. ASSUME NEW s \in Slots
      PROVE  MergeChildResources(spec, b)[s] \in Child \cup {NoChild}
  <2> DEFINE prefill == MergePDDeployment(spec.prefill, has["prefillDeployment"])
             decode == MergePDDeployment(spec.decode, has["decodeDeployment"])
             epp == MergeEppDeployment(spec.endpointPicker, has["eppDeployment"])
  <2>1. \A x \in BaseSections : has[x] \in Child \cup {NoChild}
    BY <1>1
  <2>2. prefill \in Child \cup {NoChild} /\ decode \in Child \cup {NoChild}
          /\ epp \in Child \cup {NoChild}
    BY <2>1, <1>2, <1>6, <1>7 DEF BaseSections, Slots
  <2>3. MergeHTTPRoute(spec.gatewayRefs, has["httpRoute"]) \in Child \cup {NoChild}
    BY <2>1, <1>2, <1>8 DEF BaseSections, Slots
  <2>4. \A x \in BaseSections : StampSection(has[x]) \in Child \cup {NoChild}
    BY <2>1, <1>5
  <2>5. \A x \in {"prefillService", "decodeService", "eppService", "inferencePool",
                  "inferenceModel", "configMap"} : x \in BaseSections
    BY DEF BaseSections, Slots
  <2> HIDE DEF prefill, decode, epp, has
  <2> QED
    BY <2>1, <2>2, <2>3, <2>4, <2>5, StampedType
    DEF MergeChildResources, Slots, prefill, decode, epp, has, MergePDService,
        MergeEppService, MergeInferencePool, MergeInferenceModel,
        SetPDServiceAccount, SetEPPServiceAccount, SetEPPRoleBinding
<1> QED BY <1>9 DEF MergeChildResources, Slots

LEMMA WantedType ==
    ASSUME NEW spec \in SpecType, NEW b, BaseConfigFor(spec, b) \in BaseType
    PROVE  Wanted(spec, b) \in [Slots -> Child \cup {NoChild}]
BY MergedType DEF Wanted

\* What a pass renders from is a BaseConfig.
LEMMA RenderedBaseType ==
    ASSUME NEW spec \in Specs, NEW b \in Bases, Renderable(spec, b, NoBase)
    PROVE  spec \in SpecType /\ BaseConfigFor(spec, b) \in BaseType
<1>1. EmptyBase \in BaseType
  BY DEF EmptyBase, BaseType
<1> QED BY <1>1, ConstantsAssumption DEF Renderable, BaseConfigFor

-----------------------------------------------------------------------------
(* Types of what the actions store *)

\* The map functions name ModelServices.
LEMMA OwnersOfType ==
    ASSUME NEW x \in Object \cup {NoObject}
    PROVE  OwnersOf(x) \subseteq ModelServices
BY DEF OwnersOf, Object, Owner

\* What create-or-update makes of a child is an object.
LEMMA ResultType ==
    ASSUME TypeOK, NEW c \in Controllers, pass[c] # Idle, NEW s \in pass[c].left
    PROVE  s \in Slots /\ Target(c, s) \in Objects /\ Result(c, s) \in Object
<1> DEFINE p == pass[c]
<1>1. p \in Pass /\ s \in SlotsOf(p.want)
  BY DEF TypeOK, PassesOK
<1>2. s \in Slots /\ p.want[s] \in Child
  BY <1>1 DEF Pass, SlotsOf
<1>3. Target(c, s) \in Objects
  BY <1>1, <1>2, ConstantsAssumption DEF Target, Pass
<1>4. Desired(p, s).owner \in Owner \cup {NoOwner} /\ Desired(p, s).data \in Child
  BY <1>1, <1>2 DEF Desired, Pass, Owner
<1>5. \A x \in Child : ForUpdate(p.spec, s, x) \in Child /\ Defaulted(s, x) \in Child
  BY ValuesAssumption, ConstantsAssumption DEF ForUpdate, Defaulted, Child
<1>6. Created(p, s) \in Object
  BY <1>4, <1>5, StampedType, OverrideType, ConstantsAssumption DEF Created, Object
<1>7. ASSUME NEW x \in Object
      PROVE  MergeInto(x, p, s) \in Object
  <2>1. WithOverride(x.data, ForUpdate(p.spec, s, Desired(p, s).data)) \in Child
    BY <1>4, <1>5, OverrideType DEF Object
  <2> QED BY <2>1, <1>4 DEF MergeInto, Object
<1>8. seenObjs[c][Target(c, s)] \in Object \cup {NoObject}
  BY <1>3 DEF TypeOK, CachesOK
<1> QED BY <1>2, <1>3, <1>6, <1>7, <1>8 DEF Result

\* What populateStatus computes is a status.
LEMMA NewStatusType ==
    ASSUME TypeOK, NEW c \in Controllers, pass[c] # Idle
    PROVE  NewStatus(c) \in StatusType
<1> DEFINE p == pass[c]
           mirrored == Mirrored(p.spec, seenBase[c])
           DeploymentOf(d) == seenObjs[c][ObjectOf[p.key][d]]
<1>1. p \in Pass
  BY DEF TypeOK, PassesOK
<1>2. p.status \in StatusType /\ p.key \in ModelServices
  BY <1>1 DEF Pass
<1>3. mirrored \subseteq Deployments
  BY DEF Mirrored
<1>4. Deployments \subseteq Slots /\ AlwaysNamed \subseteq Slots
        /\ "eppServiceAccount" \in Slots
  BY DEF Deployments, PDDeployments, Slots, AlwaysNamed
<1>5. \A d \in Deployments : DeploymentOf(d) \in Object \cup {NoObject}
  BY <1>2, <1>4, ConstantsAssumption DEF TypeOK, CachesOK
<1>6. \A old \in Report \cup {NotReported}, x \in Object \cup {NoObject} :
        ReportOf(old, x) \in Report \cup {NotReported}
  BY DEF ReportOf, Report, Object, Child
<1> HIDE DEF mirrored, DeploymentOf, p
<1>7. [d \in Deployments |->
         IF d \in mirrored THEN ReportOf(p.status.report[d], DeploymentOf(d))
                           ELSE p.status.report[d]]
        \in [Deployments -> Report \cup {NotReported}]
  <2>1. \A d \in Deployments : p.status.report[d] \in Report \cup {NotReported}
    BY <1>2 DEF StatusType
  <2> QED BY <2>1, <1>5, <1>6
<1>8. NamedRefs(p.status.refs, mirrored) \in SUBSET Slots
  BY <1>2, <1>3, <1>4 DEF NamedRefs, StatusType
<1>9. NewStatus(c) =
        [refs |-> NamedRefs(p.status.refs, mirrored),
         serviceAccount |-> "eppServiceAccount",
         report |-> [d \in Deployments |->
            IF d \in mirrored THEN ReportOf(p.status.report[d], DeploymentOf(d))
                              ELSE p.status.report[d]],
         missing |-> {d \in mirrored : DeploymentOf(d) = NoObject},
         configMaps |-> BaseConfigFor(p.spec, seenBase[c]).has["configMap"] # NoChild]
  BY DEF NewStatus, PopulatedStatus, p, mirrored, DeploymentOf
<1>10. {d \in mirrored : DeploymentOf(d) = NoObject} \in SUBSET Deployments
  BY <1>3
<1> QED BY <1>4, <1>7, <1>8, <1>9, <1>10 DEF StatusType

\* Storing an object keeps the types of objects and events.
LEMMA WriteType ==
    ASSUME TypeOK, NEW o \in Objects, NEW x \in Object \cup {NoObject}, Write(o, x)
    PROVE  /\ objs' \in [Objects -> Object \cup {NoObject}]
           /\ news' \in [Controllers -> [Objects -> SUBSET ModelServices]]
<1>1. objs[o] \in Object \cup {NoObject}
  BY DEF TypeOK, ServerOK
<1>2. OwnersOf(objs[o]) \subseteq ModelServices /\ OwnersOf(x) \subseteq ModelServices
  BY <1>1, OwnersOfType
<1> QED BY <1>2 DEF TypeOK, ServerOK, QueuesOK, Write

\* An attempt keeps the types of the pass.
LEMMA AttemptType ==
    ASSUME TypeOK, NEW c \in Controllers, NEW s \in Slots, NEW ok \in BOOLEAN,
           Attempt(c, s, ok)
    PROVE  PassesOK'
<1>1. pass[c] \in Pass /\ pass[c].left \subseteq SlotsOf(pass[c].want)
  BY DEF TypeOK, PassesOK, Attempt
<1>2. pass' = [pass EXCEPT ![c] = [pass[c] EXCEPT !.left = @ \ {s},
                                                  !.failed = @ \/ ~ok]]
  BY <1>1 DEF Attempt, TypeOK, PassesOK
<1>3. pass'[c] \in Pass /\ pass'[c].left \subseteq SlotsOf(pass'[c].want)
  BY <1>1, <1>2 DEF Pass, TypeOK, PassesOK
<1>4. \A d \in Controllers \ {c} : pass'[d] = pass[d]
  BY <1>2 DEF TypeOK, PassesOK
<1>5. pass' \in [Controllers -> Pass \cup {Idle}]
  BY <1>2, <1>3, <1>4 DEF TypeOK, PassesOK
<1> QED BY <1>3, <1>4, <1>5 DEF TypeOK, PassesOK, Attempt

-----------------------------------------------------------------------------
(* TypeOK *)

\* A new ModelService has an empty status.
LEMMA EmptyStatusType == EmptyStatus \in StatusType
BY DEF EmptyStatus, StatusType

\* What a deletion leaves behind is typed (DeleteModelService).
LEMMA ModelServiceType ==
    ASSUME TypeOK, NEW m \in ModelServices
    PROVE  /\ msvc[m] \in ModelService
           /\ Gone(m) \in ModelService
           /\ Gone(m).spec = NoSpec /\ Gone(m).phase = "absent"
<1>1. msvc[m] \in ModelService
  BY DEF TypeOK, ServerOK, MsvcOK
<1> QED BY <1>1, EmptyStatusType DEF Gone, ModelService, Phases

\* The initial states are typed.
LEMMA TypeInit == Init => TypeOK
<1> SUFFICES ASSUME Init PROVE TypeOK
  OBVIOUS
<1>1. PICK spec \in [ModelServices -> Specs \cup {NoSpec}] :
        /\ msvc = [m \in ModelServices |->
             [phase |-> IF spec[m] = NoSpec THEN "absent" ELSE "live",
              uid |-> 0, spec |-> spec[m], status |-> EmptyStatus]]
        /\ queue = [c \in Controllers |-> {m \in ModelServices : spec[m] # NoSpec}]
  BY DEF Init
<1>2. MsvcOK(msvc)
  BY <1>1, EmptyStatusType, ConstantsAssumption DEF MsvcOK, ModelService, Phases
<1>3. ServerOK
  BY <1>2 DEF ServerOK, Init
<1>4. CachesOK
  BY <1>2, <1>3 DEF CachesOK, ServerOK, MsvcOK, Init
<1>5. PassesOK
  BY <1>3 DEF PassesOK, ServerOK, Init
<1>6. QueuesOK
  BY <1>1, ConstantsAssumption DEF QueuesOK, Init
<1> QED BY <1>3, <1>4, <1>5, <1>6 DEF TypeOK

\* Taking a key: Skip, FailRender and Begin.
LEMMA TypeTake ==
    ASSUME TypeOK, NEW c \in Controllers, NEW m \in ModelServices,
           Skip(c, m) \/ FailRender(c, m) \/ Begin(c, m)
    PROVE  TypeOK'
<1>1. QueuesOK'
  <2>1. QueuesOK
    BY DEF TypeOK
  <2>2. CASE Skip(c, m)
    BY <2>1, <2>2 DEF QueuesOK, Skip, Take, caches
  <2>3. CASE FailRender(c, m)
    BY <2>1, <2>3 DEF QueuesOK, FailRender, Take, caches
  <2>4. CASE Begin(c, m)
    BY <2>1, <2>4 DEF QueuesOK, Begin, Take, caches
  <2> QED
    BY <2>2, <2>3, <2>4
<1>2. ServerOK' /\ CachesOK'
  BY DEF TypeOK, ServerOK, CachesOK, MsvcOK, Skip, FailRender, Begin, server, caches, copies
<1>3. CASE Begin(c, m)
  <2> DEFINE ms == seenMsvc[c][m]
             want == Wanted(ms.spec, seenBase[c])
             p == [key |-> m, uid |-> ms.uid, spec |-> ms.spec, status |-> ms.status,
                   base |-> seenBase[c], want |-> want, left |-> SlotsOf(want),
                   failed |-> FALSE]
  <2>1. ms \in ModelService /\ ms.spec \in Specs /\ seenBase[c] \in Bases
    BY <1>3 DEF TypeOK, CachesOK, MsvcOK, Begin, ModelService
  <2>2. want \in [Slots -> Child \cup {NoChild}]
    BY <1>3, <2>1, RenderedBaseType, WantedType DEF Begin
  <2>3. p \in Pass /\ p.left \subseteq SlotsOf(p.want)
    BY <2>1, <2>2 DEF Pass, ModelService, SlotsOf
  <2>4. pass' = [pass EXCEPT ![c] = p] /\ usedBase' = [usedBase EXCEPT ![c][m] = seenBase[c]]
    BY <1>3 DEF Begin
  <2> HIDE DEF p
  <2> QED BY <1>1, <1>2, <2>1, <2>3, <2>4 DEF TypeOK, PassesOK
<1>4. CASE Skip(c, m) \/ FailRender(c, m)
  BY <1>1, <1>2, <1>4 DEF TypeOK, PassesOK, Skip, FailRender
<1> QED BY <1>3, <1>4

\* The children: Create, Keep, Update, Refuse, Fault and LostReply.
LEMMA TypeChildren ==
    ASSUME TypeOK, NEW c \in Controllers, NEW s \in Slots,
           \/ Create(c, s) \/ Keep(c, s) \/ Update(c, s) \/ Refuse(c, s)
           \/ Fault(c, s) \/ LostReply(c, s)
    PROVE  TypeOK'
<1> DEFINE Quiet == UNCHANGED <<objs, news>>
           Stored == Write(Target(c, s), Result(c, s))
<1>1. PICK ok \in BOOLEAN : Attempt(c, s, ok)
  BY DEF Create, Keep, Update, Call, Refuse, Fault, LostReply, Current
<1>2. PassesOK'
  BY <1>1, AttemptType
<1>3. Quiet \/ Stored
  BY DEF Create, Keep, Update, Call, Refuse, Fault, LostReply
<1>4. disturbances' \in 0..MaxDisturbances
  <2>1. Disturb \/ UNCHANGED disturbances
    BY DEF Create, Keep, Update, Call, Refuse, Fault, LostReply
  <2> QED BY <2>1, ConstantsAssumption DEF TypeOK, QueuesOK, Disturb
<1>5. /\ objs' \in [Objects -> Object \cup {NoObject}]
      /\ news' \in [Controllers -> [Objects -> SUBSET ModelServices]]
  <2>1. CASE Quiet
    BY <2>1 DEF TypeOK, ServerOK, QueuesOK
  <2>2. CASE Stored
    <3>1. pass[c] # Idle /\ s \in pass[c].left
      BY <1>1 DEF Attempt, IsNext
    <3> QED BY <2>2, <3>1, ResultType, WriteType
  <2> QED BY <1>3, <2>1, <2>2
<1> QED
  BY <1>1, <1>2, <1>4, <1>5
  DEF TypeOK, ServerOK, CachesOK, MsvcOK, QueuesOK, Attempt, caches, copies

\* The end of a pass: FailPass, StatusBaseError, StatusUnchanged, StatusUpdate.
LEMMA TypeFinish ==
    ASSUME TypeOK, NEW c \in Controllers, FinishPass(c)
    PROVE  TypeOK'
<1>1. PICK err \in BOOLEAN : Return(c, err)
  BY DEF FinishPass, FailPass, StatusBaseError, StatusUnchanged, StatusUpdate
<1>2. pass[c] # Idle
  BY DEF FinishPass, FailPass, StatusBaseError, StatusUnchanged, StatusUpdate, AtStatus
<1>3. pass[c] \in Pass
  BY <1>2 DEF TypeOK, PassesOK
<1>4. pass[c].key \in ModelServices
  BY <1>3 DEF Pass
<1>5. /\ PassesOK'
      /\ backoff' \in [Controllers -> SUBSET ModelServices]
      /\ UNCHANGED disturbances
  <2>1. UNCHANGED disturbances
    BY DEF FinishPass, FailPass, StatusBaseError, StatusUnchanged, StatusUpdate
  <2> QED BY <1>1, <1>4, <2>1 DEF TypeOK, PassesOK, QueuesOK, Return
<1>6. MsvcOK(msvc') /\ unseen' \in [Controllers -> SUBSET ModelServices]
  <2>1. CASE UNCHANGED <<msvc, unseen>>
    BY <2>1 DEF TypeOK, ServerOK, QueuesOK
  <2>2. CASE StatusUpdate(c) /\ WriteMsvc(pass[c].key, [msvc[pass[c].key] EXCEPT
                                                          !.status = NewStatus(c)])
    <3> DEFINE m == pass[c].key
               x == [msvc[m] EXCEPT !.status = NewStatus(c)]
    <3>1. x \in ModelService /\ x.spec = msvc[m].spec /\ x.phase = msvc[m].phase
      BY <1>2, <1>4, NewStatusType, ModelServiceType DEF ModelService
    <3>2. msvc' = [msvc EXCEPT ![m] = x]
            /\ unseen' = [d \in Controllers |-> unseen[d] \cup {m}]
      BY <2>2 DEF WriteMsvc
    <3> QED BY <1>4, <3>1, <3>2 DEF TypeOK, ServerOK, MsvcOK, QueuesOK
  <2> QED BY <2>1, <2>2 DEF FinishPass, FailPass, StatusBaseError, StatusUnchanged,
                            StatusUpdate
<1> QED BY <1>1, <1>5, <1>6
        DEF TypeOK, ServerOK, CachesOK, MsvcOK, QueuesOK, Return, copies

\* Informers and workqueue.
LEMMA TypeInformers ==
    ASSUME TypeOK, NEW c \in Controllers,
           \/ \E m \in ModelServices : DeliverMsvc(c, m) \/ BackoffExpires(c, m)
           \/ \E o \in Objects : DeliverObj(c, o)
           \/ DeliverBase(c)
           \/ Resync(c) /\ Disturb
           \/ Restart(c)
    PROVE  TypeOK'
<1>1. ASSUME NEW m \in ModelServices, DeliverMsvc(c, m)
      PROVE  TypeOK'
  BY <1>1 DEF TypeOK, ServerOK, CachesOK, PassesOK, QueuesOK, MsvcOK, DeliverMsvc,
              Enqueue, server
<1>2. ASSUME NEW m \in ModelServices, BackoffExpires(c, m)
      PROVE  TypeOK'
  BY <1>2 DEF TypeOK, ServerOK, CachesOK, PassesOK, QueuesOK, MsvcOK, BackoffExpires,
              Enqueue, server, caches, copies
<1>3. ASSUME NEW o \in Objects, DeliverObj(c, o)
      PROVE  TypeOK'
  BY <1>3 DEF TypeOK, ServerOK, CachesOK, PassesOK, QueuesOK, MsvcOK, DeliverObj,
              Enqueue, server
<1>4. CASE DeliverBase(c)
  BY <1>4 DEF TypeOK, ServerOK, CachesOK, PassesOK, QueuesOK, MsvcOK, DeliverBase, server
<1>5. CASE Resync(c) /\ Disturb
  BY <1>5, ConstantsAssumption
  DEF TypeOK, ServerOK, CachesOK, PassesOK, QueuesOK, MsvcOK, Resync, Disturb, Enqueue,
      server, caches, copies
<1>6. CASE Restart(c)
  <2>1. \A o \in Objects : OwnersOf(objs[o]) \subseteq ModelServices
    BY OwnersOfType DEF TypeOK, ServerOK
  <2>2. QueuesOK'
    BY <1>6, <2>1, ConstantsAssumption DEF TypeOK, QueuesOK, Restart, Disturb
  <2>3. ServerOK' /\ CachesOK'
    BY <1>6 DEF TypeOK, ServerOK, CachesOK, MsvcOK, Restart, server
  <2>4. PassesOK'
    BY <1>6 DEF TypeOK, PassesOK, Restart
  <2> QED BY <2>2, <2>3, <2>4 DEF TypeOK
<1> QED BY <1>1, <1>2, <1>3, <1>4, <1>5, <1>6

\* Everybody else.
LEMMA TypeEnvironment ==
    ASSUME TypeOK, Environment
    PROVE  TypeOK'
<1>1. ASSUME Disturb \/ UNCHANGED disturbances
      PROVE  disturbances' \in 0..MaxDisturbances
  BY <1>1, ConstantsAssumption DEF TypeOK, QueuesOK, Disturb
<1>2. ASSUME NEW m \in ModelServices, NEW x \in ModelService, SetMsvc(m, x),
             x.spec = NoSpec <=> x.phase = "absent", Disturb \/ UNCHANGED disturbances
      PROVE  TypeOK'
  BY <1>1, <1>2
  DEF TypeOK, ServerOK, CachesOK, PassesOK, QueuesOK, MsvcOK, SetMsvc, WriteMsvc,
      copies
<1>3. ASSUME NEW o \in Objects, NEW x \in Object \cup {NoObject}, SetObj(o, x),
             Disturb \/ UNCHANGED disturbances
      PROVE  TypeOK'
  <2>1. /\ objs' \in [Objects -> Object \cup {NoObject}]
        /\ news' \in [Controllers -> [Objects -> SUBSET ModelServices]]
    BY <1>3, WriteType DEF SetObj
  <2> QED BY <1>1, <1>3, <2>1
          DEF TypeOK, ServerOK, CachesOK, PassesOK, QueuesOK, MsvcOK, SetObj, caches, copies
<1>4. ASSUME NEW m \in ModelServices, CreateModelService(m)
      PROVE  TypeOK'
  <2>1. PICK spec \in Specs :
          SetMsvc(m, [phase |-> "live", uid |-> msvc[m].uid + 1, spec |-> spec,
                      status |-> EmptyStatus])
    BY <1>4 DEF CreateModelService
  <2> DEFINE x == [phase |-> "live", uid |-> msvc[m].uid + 1, spec |-> spec,
                   status |-> EmptyStatus]
  <2>2. x \in ModelService /\ spec # NoSpec
    BY <1>4, ModelServiceType, EmptyStatusType, ConstantsAssumption
    DEF CreateModelService, ModelService, Phases
  <2> QED BY <1>2, <1>4, <2>1, <2>2 DEF CreateModelService
<1>5. ASSUME NEW m \in ModelServices, EditSpec(m)
      PROVE  TypeOK'
  <2>1. PICK spec \in Specs : SetMsvc(m, [msvc[m] EXCEPT !.spec = spec])
    BY <1>5 DEF EditSpec
  <2>2. [msvc[m] EXCEPT !.spec = spec] \in ModelService /\ spec # NoSpec
    BY ModelServiceType, ConstantsAssumption DEF ModelService
  <2>3. [msvc[m] EXCEPT !.spec = spec].phase = "live"
          /\ [msvc[m] EXCEPT !.spec = spec].spec = spec
    BY <1>5, ModelServiceType DEF EditSpec, ModelService
  <2> QED BY <1>2, <1>5, <2>1, <2>2, <2>3 DEF EditSpec
<1>6. ASSUME NEW m \in ModelServices, DeleteModelService(m) \/ FinishDeletion(m)
      PROVE  TypeOK'
  BY <1>2, <1>6, ModelServiceType DEF DeleteModelService, FinishDeletion
<1>7. ASSUME NEW m \in ModelServices, MarkForDeletion(m)
      PROVE  TypeOK'
  <2> DEFINE x == [msvc[m] EXCEPT !.phase = "deleting"]
  <2>1. x \in ModelService /\ x.phase = "deleting" /\ x.spec = msvc[m].spec
    BY ModelServiceType DEF ModelService, Phases
  <2>2. msvc[m].spec # NoSpec
    BY <1>7 DEF TypeOK, ServerOK, MsvcOK, MarkForDeletion
  <2> QED BY <1>2, <1>7, <2>1, <2>2 DEF MarkForDeletion
<1>8. ASSUME NEW o \in Objects, DeleteChild(o) \/ CollectGarbage(o)
      PROVE  TypeOK'
  BY <1>3, <1>8 DEF DeleteChild, CollectGarbage
<1>9. ASSUME NEW o \in Objects, EditChild(o)
      PROVE  TypeOK'
  <2>1. PICK edit \in ForeignEdits :
          SetObj(o, [objs[o] EXCEPT !.data[edit[1]] = edit[2]])
    BY <1>9 DEF EditChild
  <2>2. objs[o] \in Object
    BY <1>9 DEF TypeOK, ServerOK, EditChild
  <2>3. edit[1] \in Fields /\ edit[2] \in Values
    BY ConstantsAssumption
  <2>4. [objs[o].data EXCEPT ![edit[1]] = edit[2]] \in Child
    BY <2>2, <2>3 DEF Object, Child, Fields
  <2>5. [objs[o] EXCEPT !.data[edit[1]] = edit[2]] \in Object
    BY <2>2, <2>4 DEF Object
  <2> QED BY <1>3, <1>9, <2>1, <2>5 DEF EditChild
<1>10. ASSUME NEW o \in Objects, ReportReady(o)
       PROVE  TypeOK'
  <2>1. PICK n \in Readiness : SetObj(o, [objs[o] EXCEPT !.ready = n])
    BY <1>10 DEF ReportReady
  <2>2. [objs[o] EXCEPT !.ready = n] \in Object
    BY <1>10 DEF TypeOK, ServerOK, ReportReady, Object
  <2> QED BY <1>3, <1>10, <2>1, <2>2 DEF ReportReady
<1>11. CASE EditBase
  BY <1>1, <1>11
  DEF TypeOK, ServerOK, CachesOK, PassesOK, QueuesOK, MsvcOK, EditBase, caches, copies
<1> QED
  BY <1>4, <1>5, <1>6, <1>7, <1>8, <1>9, <1>10, <1>11 DEF Environment

\* Every step keeps the types.
LEMMA TypeStep == ASSUME TypeOK, [Next]_vars PROVE TypeOK'
<1>1. ASSUME NEW c \in Controllers, Controller(c)
      PROVE  TypeOK'
  BY <1>1, TypeTake, TypeChildren, TypeFinish, TypeInformers
  DEF Controller, CreateOrUpdate
<1>2. CASE UNCHANGED vars
  BY <1>2 DEF TypeOK, ServerOK, CachesOK, PassesOK, QueuesOK, MsvcOK, vars, server, caches, copies
<1> QED BY <1>1, <1>2, TypeEnvironment DEF Next

\* Whatever happens, every variable keeps its type: TypeOK, for all constants.
THEOREM TypeCorrect == Spec => []TypeOK
<1>1. TypeOK /\ [Next]_vars => TypeOK'
  BY TypeStep
<1> QED BY <1>1, TypeInit, PTL DEF Spec

-----------------------------------------------------------------------------
(* What a step can do to a cache and to a pass *)

\* A cache changes only to what the API server holds.
LEMMA CacheStep ==
    ASSUME TypeOK, Next, NEW c \in Controllers
    PROVE  /\ \A m \in ModelServices : seenMsvc'[c][m] \in {seenMsvc[c][m], msvc[m]}
           /\ \A o \in Objects : seenObjs'[c][o] \in {seenObjs[c][o], objs[o]}
           /\ seenBase'[c] \in {seenBase[c], base}
<1> DEFINE Goal == /\ \A m \in ModelServices :
                        seenMsvc'[c][m] \in {seenMsvc[c][m], msvc[m]}
                   /\ \A o \in Objects : seenObjs'[c][o] \in {seenObjs[c][o], objs[o]}
                   /\ seenBase'[c] \in {seenBase[c], base}
<1>1. UNCHANGED copies => Goal
  BY DEF copies
<1>2. Environment => UNCHANGED copies
  BY DEF Environment, CreateModelService, EditSpec, DeleteModelService, MarkForDeletion,
         FinishDeletion, DeleteChild, EditChild, ReportReady, CollectGarbage, EditBase,
         SetMsvc, SetObj, caches
<1>3. ASSUME NEW d \in Controllers, Controller(d)
      PROVE  Goal
  <2>1. ASSUME NEW m \in ModelServices,
               Skip(d, m) \/ FailRender(d, m) \/ Begin(d, m) \/ BackoffExpires(d, m)
        PROVE  Goal
    BY <1>1, <2>1 DEF Skip, FailRender, Begin, BackoffExpires, caches
  <2>2. ASSUME NEW s \in Slots, \/ Create(d, s) \/ Keep(d, s) \/ Update(d, s)
                                \/ Refuse(d, s) \/ Fault(d, s) \/ LostReply(d, s)
        PROVE  Goal
    BY <1>1, <2>2 DEF Create, Keep, Update, Call, Refuse, Fault, LostReply, Attempt, caches
  <2>3. FinishPass(d) => Goal
    BY <1>1 DEF FinishPass, FailPass, StatusBaseError, StatusUnchanged, StatusUpdate, Return
  <2>4. ASSUME NEW m \in ModelServices, DeliverMsvc(d, m)
        PROVE  Goal
    BY <2>4 DEF DeliverMsvc, TypeOK, CachesOK
  <2>5. ASSUME NEW o \in Objects, DeliverObj(d, o)
        PROVE  Goal
    BY <2>5 DEF DeliverObj, TypeOK, CachesOK
  <2>6. DeliverBase(d) => Goal
    BY DEF DeliverBase, TypeOK, CachesOK
  <2>7. Resync(d) => Goal
    BY <1>1 DEF Resync, caches
  <2>8. Restart(d) => Goal
    BY DEF Restart, TypeOK, CachesOK
  <2> HIDE DEF Goal
  <2> QED BY <1>3, <2>1, <2>2, <2>3, <2>4, <2>5, <2>6, <2>7, <2>8
          DEF Controller, CreateOrUpdate
<1> QED BY <1>1, <1>2, <1>3 DEF Next

\* A pass keeps what it read until it ends.
LEMMA PassStep ==
    ASSUME TypeOK, Next, NEW c \in Controllers
    PROVE  \/ pass'[c] = Idle
           \/ \E m \in ModelServices : Begin(c, m)
           \/ /\ pass[c] # Idle
              /\ \A f \in {"key", "uid", "spec", "status", "base", "want"} :
                   pass'[c][f] = pass[c][f]
<1> DEFINE Goal == \/ pass'[c] = Idle
                   \/ \E m \in ModelServices : Begin(c, m)
                   \/ /\ pass[c] # Idle
                      /\ \A f \in {"key", "uid", "spec", "status", "base", "want"} :
                           pass'[c][f] = pass[c][f]
<1>1. pass'[c] = pass[c] => Goal
  OBVIOUS
<1>2. Environment => UNCHANGED pass
  BY DEF Environment, CreateModelService, EditSpec, DeleteModelService, MarkForDeletion,
         FinishDeletion, DeleteChild, EditChild, ReportReady, CollectGarbage, EditBase,
         SetMsvc, SetObj
<1>3. ASSUME NEW d \in Controllers, Controller(d)
      PROVE  Goal
  <2>1. ASSUME NEW m \in ModelServices, Skip(d, m) \/ FailRender(d, m) \/ Begin(d, m)
        PROVE  Goal
    BY <2>1 DEF Skip, FailRender, Begin, TypeOK, PassesOK
  <2>2. ASSUME NEW s \in Slots, NEW ok \in BOOLEAN, Attempt(d, s, ok)
        PROVE  Goal
    <3>1. pass[d] \in Pass
      BY <2>2 DEF Attempt, TypeOK, PassesOK
    <3> QED BY <2>2, <3>1 DEF Attempt, TypeOK, PassesOK, Pass
  <2>3. ASSUME NEW s \in Slots, \/ Create(d, s) \/ Keep(d, s) \/ Update(d, s)
                                \/ Refuse(d, s) \/ Fault(d, s) \/ LostReply(d, s)
        PROVE  Goal
    BY <2>2, <2>3 DEF Create, Keep, Update, Call, Refuse, Fault, LostReply, Current
  <2>4. ASSUME NEW err \in BOOLEAN, Return(d, err)
        PROVE  Goal
    BY <2>4 DEF Return, TypeOK, PassesOK
  <2>5. FinishPass(d) => Goal
    BY <2>4 DEF FinishPass, FailPass, StatusBaseError, StatusUnchanged, StatusUpdate
  <2>6. (\/ \E m \in ModelServices : DeliverMsvc(d, m) \/ BackoffExpires(d, m)
         \/ \E o \in Objects : DeliverObj(d, o)
         \/ DeliverBase(d) \/ Resync(d)) => UNCHANGED pass
    BY DEF DeliverMsvc, BackoffExpires, DeliverObj, DeliverBase, Resync
  <2>7. Restart(d) => Goal
    BY DEF Restart, TypeOK, PassesOK
  <2> HIDE DEF Goal
  <2> QED BY <1>1, <1>3, <2>1, <2>3, <2>5, <2>6, <2>7 DEF Controller, CreateOrUpdate
<1> QED BY <1>1, <1>2, <1>3 DEF Next
=============================================================================
