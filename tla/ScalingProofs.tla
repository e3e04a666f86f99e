---------------------------- MODULE ScalingProofs ----------------------------
(***************************************************************************)
(* What create-or-update leaves alone in an object that others write too:  *)
(* the action properties ForeignFieldsKept, ScalePreserved and OwnerKept.  *)
(***************************************************************************)
EXTENDS WakeupProofs

\* The only step in which a pass attempts a child is one of create-or-update on it.
LEMMA AttemptedStep ==
    ASSUME TypeOK, Next, NEW c \in Controllers, NEW s \in Attempted(c)
    PROVE  /\ pass[c] # Idle /\ s \in Slots /\ s \in pass[c].left
           /\ UNCHANGED objs \/ (Current(c, s) /\ Write(Target(c, s), Result(c, s)))
<1>1. pass[c] # Idle /\ pass'[c] # Idle /\ s \in pass[c].left /\ pass'[c] # pass[c]
  BY DEF Attempted
<1>2. s \in Slots
  BY <1>1, PassType DEF Pass
<1>3. Controller(c)
  <2>1. CASE Environment
    <3>1. UNCHANGED pass
      BY <2>1 DEF Environment, CreateModelService, EditSpec, DeleteModelService,
                  MarkForDeletion, FinishDeletion, DeleteChild, EditChild, ReportReady,
                  CollectGarbage, EditBase, SetMsvc, SetObj
    <3> QED BY <1>1, <3>1
  <2>2. ASSUME NEW d \in Controllers, Controller(d), d # c
        PROVE  pass'[c] = pass[c]
    <3>1. ASSUME NEW t \in Slots, NEW ok \in BOOLEAN, Attempt(d, t, ok)
          PROVE  pass'[c] = pass[c]
      BY <2>2, <3>1 DEF Attempt, TypeOK, PassesOK
    <3>2. ASSUME NEW err \in BOOLEAN, Return(d, err)
          PROVE  pass'[c] = pass[c]
      BY <2>2, <3>2 DEF Return, TypeOK, PassesOK
    <3>3. ASSUME NEW t \in Slots, Create(d, t) \/ Keep(d, t) \/ Update(d, t)
                   \/ Refuse(d, t) \/ Fault(d, t) \/ LostReply(d, t)
          PROVE  pass'[c] = pass[c]
      BY <3>1, <3>3 DEF Create, Keep, Update, Call, Refuse, Fault, LostReply, Current
    <3>4. FinishPass(d) => pass'[c] = pass[c]
      BY <3>2 DEF FinishPass, FailPass, StatusBaseError, StatusUnchanged, StatusUpdate
    <3>5. \A m \in ModelServices : Skip(d, m) \/ FailRender(d, m) \/ Begin(d, m)
            => pass'[c] = pass[c]
      BY <2>2 DEF Skip, FailRender, Begin, TypeOK, PassesOK
    <3>6. Restart(d) => pass'[c] = pass[c]
      BY <2>2 DEF Restart, TypeOK, PassesOK
    <3>7. (\/ \E m \in ModelServices : DeliverMsvc(d, m) \/ BackoffExpires(d, m)
           \/ \E o \in Objects : DeliverObj(d, o)
           \/ DeliverBase(d) \/ Resync(d)) => UNCHANGED pass
      BY DEF DeliverMsvc, BackoffExpires, DeliverObj, DeliverBase, Resync
    <3> QED BY <2>2, <3>3, <3>4, <3>5, <3>6, <3>7 DEF Controller, CreateOrUpdate
  <2> QED BY <1>1, <2>1, <2>2 DEF Next
<1>4. PICK t \in Slots : \/ Create(c, t) \/ Keep(c, t) \/ Update(c, t) \/ Refuse(c, t)
                         \/ Fault(c, t) \/ LostReply(c, t)
  <2>1. ASSUME NEW m \in ModelServices
        PROVE  ~Skip(c, m) /\ ~FailRender(c, m) /\ ~Begin(c, m)
    BY <1>1 DEF Skip, FailRender, Begin, Take
  <2>2. ~FinishPass(c)
    <3>1. \A err : Return(c, err) => pass'[c] = Idle
      BY DEF Return, TypeOK, PassesOK
    <3> QED BY <1>1, <3>1 DEF FinishPass, FailPass, StatusBaseError, StatusUnchanged,
                              StatusUpdate
  <2>3. ~Restart(c)
    BY <1>1 DEF Restart, TypeOK, PassesOK
  <2>4. (\/ \E m \in ModelServices : DeliverMsvc(c, m) \/ BackoffExpires(c, m)
         \/ \E o \in Objects : DeliverObj(c, o)
         \/ DeliverBase(c) \/ Resync(c)) => UNCHANGED pass
    BY DEF DeliverMsvc, BackoffExpires, DeliverObj, DeliverBase, Resync
  <2> QED BY <1>1, <1>3, <2>1, <2>2, <2>3, <2>4 DEF Controller, CreateOrUpdate
<1>5. t = s
  <2>1. PICK ok \in BOOLEAN : Attempt(c, t, ok)
    BY <1>4 DEF Create, Keep, Update, Call, Refuse, Fault, LostReply, Current
  <2>2. pass'[c].left = pass[c].left \ {t}
    BY <2>1, AttemptPass
  <2> QED BY <1>1, <2>2 DEF Attempted
<1> QED BY <1>1, <1>2, <1>4, <1>5
        DEF Create, Keep, Update, Call, Refuse, Fault, LostReply

\* What an attempt writes over an existing object is the merge into that very object.
LEMMA AttemptedMerge ==
    ASSUME TypeOK, Next, NEW c \in Controllers, NEW s \in Attempted(c),
           objs[ObjectOf[pass[c].key][s]] # NoObject
    PROVE  LET o == ObjectOf[pass[c].key][s] IN
           /\ pass[c] \in Pass /\ s \in Slots /\ pass[c].want[s] \in Child
           /\ objs[o] \in Object
           /\ objs'[o] = objs[o] \/ objs'[o] = MergeInto(objs[o], pass[c], s)
           /\ objs'[o] \in Object
<1> DEFINE o == Target(c, s)
<1>1. /\ pass[c] # Idle /\ s \in Slots /\ s \in pass[c].left
      /\ UNCHANGED objs \/ (Current(c, s) /\ Write(o, Result(c, s)))
  BY AttemptedStep
<1>2. pass[c] \in Pass /\ pass[c].want[s] \in Child
  BY <1>1 DEF TypeOK, PassesOK, Pass, SlotsOf
<1>3. o \in Objects /\ Result(c, s) \in Object
  BY <1>1, ResultType
<1>4. objs[o] \in Object
  BY <1>3 DEF TypeOK, ServerOK, Target
<1>5. CASE Current(c, s) /\ Write(o, Result(c, s))
  <2>1. objs'[o] = Result(c, s)
    BY <1>3, <1>5 DEF Write, TypeOK, ServerOK
  <2>2. Result(c, s) = MergeInto(objs[o], pass[c], s)
    BY <1>5 DEF Current, Result, Target
  <2> QED BY <1>1, <1>2, <1>3, <1>4, <2>1, <2>2 DEF Target
<1>6. CASE UNCHANGED objs
  BY <1>1, <1>2, <1>4, <1>6 DEF Target
<1> QED BY <1>1, <1>5, <1>6

\* Merging keeps the fields the desired child leaves unset, and the reported status.
LEMMA MergeKeeps ==
    ASSUME NEW p, NEW s, NEW x \in Object, p.want[s] \in Child
    PROVE  LET y == MergeInto(x, p, s) IN
           /\ y.ready = x.ready
           /\ \A f \in Fields : p.want[s][f] = Unset => y.data[f] = x.data[f]
           /\ p.spec.decoupleScaling /\ s \in PDDeployments =>
                y.data.replicas = x.data.replicas
<1> DEFINE child == p.want[s]
           update == ForUpdate(p.spec, s, child)
<1>1. MergeInto(x, p, s).ready = x.ready
        /\ MergeInto(x, p, s).data = WithOverride(x.data, update)
  BY DEF MergeInto, Desired
<1>2. \A f \in Fields : child[f] = Unset => update[f] = Unset
  BY DEF ForUpdate, Child, Fields
<1>3. p.spec.decoupleScaling /\ s \in PDDeployments => update.replicas = Unset
  BY DEF ForUpdate, Child
<1>4. \A f \in Fields : update[f] = Unset => WithOverride(x.data, update)[f] = x.data[f]
  BY DEF WithOverride, MergeField, Fields
<1>5. "replicas" \in Fields
  BY DEF Fields
<1> QED BY <1>1, <1>2, <1>3, <1>4, <1>5

\* Attempts keep what the desired child does not mention: ForeignFieldsKept.
THEOREM ForeignFieldsAreKept == Spec => ForeignFieldsKept
<1>1. TypeOK /\ [Next]_vars => [KeepForeignFields]_vars
  <2> SUFFICES ASSUME TypeOK, Next, NEW c \in Controllers, NEW s \in Attempted(c),
                      objs[ObjectOf[pass[c].key][s]] # NoObject
               PROVE  LET o == ObjectOf[pass[c].key][s] IN
                      /\ objs'[o] # NoObject
                      /\ objs'[o].ready = objs[o].ready
                      /\ \A f \in Fields :
                           pass[c].want[s][f] = Unset => objs'[o].data[f] = objs[o].data[f]
    BY DEF KeepForeignFields
  <2> QED BY AttemptedMerge, MergeKeeps, NullsAssumption
<1> QED BY <1>1, TypeCorrect, PTL DEF Spec, ForeignFieldsKept

\* With decoupleScaling an attempt leaves the replica count alone: ScalePreserved.
THEOREM ScaleIsPreserved == Spec => ScalePreserved
<1>1. TypeOK /\ [Next]_vars => [PreserveScale]_vars
  <2> SUFFICES ASSUME TypeOK, Next, NEW c \in Controllers,
                      NEW s \in Attempted(c) \cap PDDeployments,
                      pass[c].spec.decoupleScaling,
                      objs[ObjectOf[pass[c].key][s]] # NoObject
               PROVE  LET o == ObjectOf[pass[c].key][s] IN
                      objs'[o] # NoObject /\ objs'[o].data.replicas = objs[o].data.replicas
    BY DEF PreserveScale
  <2> QED BY AttemptedMerge, MergeKeeps, NullsAssumption
<1> QED BY <1>1, TypeCorrect, PTL DEF Spec, ScalePreserved

-----------------------------------------------------------------------------
(* Owners *)

\* No two ModelServices give children the same name.
NamesDistinct ==
    \A m, n \in ModelServices, s, t \in Slots : ObjectOf[m][s] = ObjectOf[n][t] => m = n

OneProcess == \A c, d \in Controllers : c = d

\* A step that writes an object is a pass's create or update of a child, or others'
\* change of one, which leaves its owner alone.
LEMMA ObjectStep ==
    ASSUME TypeOK, [Next]_vars
    PROVE  \/ UNCHANGED objs
           \/ \E c \in Controllers, s \in Slots :
                /\ pass[c] # Idle /\ pass'[c] # Idle /\ s \in pass[c].left
                /\ Current(c, s) /\ Write(Target(c, s), Result(c, s))
                /\ UNCHANGED <<msvc, seenMsvc>>
           \/ \E o \in Objects, x \in Object \cup {NoObject} :
                /\ Write(o, x) /\ objs[o] # NoObject
                /\ x = NoObject \/ x.owner = objs[o].owner
                /\ UNCHANGED <<msvc, seenMsvc, pass>>
<1> DEFINE ByPass == \E c \in Controllers, s \in Slots :
                       /\ pass[c] # Idle /\ pass'[c] # Idle /\ s \in pass[c].left
                       /\ Current(c, s) /\ Write(Target(c, s), Result(c, s))
                       /\ UNCHANGED <<msvc, seenMsvc>>
           ByOthers == \E o \in Objects, x \in Object \cup {NoObject} :
                         /\ Write(o, x) /\ objs[o] # NoObject
                         /\ x = NoObject \/ x.owner = objs[o].owner
                         /\ UNCHANGED <<msvc, seenMsvc, pass>>
<1>1. ASSUME NEW c \in Controllers, NEW s \in Slots, ChildStep(c, s)
      PROVE  UNCHANGED objs \/ ByPass
  <2>1. PICK ok \in BOOLEAN : Attempt(c, s, ok)
    BY <1>1 DEF ChildStep, Create, Keep, Update, Call, Refuse, Fault, LostReply, Current
  <2>2. UNCHANGED <<msvc, seenMsvc>>
    BY <2>1 DEF Attempt, caches, copies
  <2>3. pass[c] # Idle /\ pass'[c] # Idle /\ s \in pass[c].left
    BY <2>1, AttemptPass
  <2>4. UNCHANGED objs \/ (Current(c, s) /\ Write(Target(c, s), Result(c, s)))
    BY <1>1 DEF ChildStep, Create, Keep, Update, Call, Refuse, Fault, LostReply
  <2> QED BY <2>2, <2>3, <2>4
<1>2. ASSUME NEW c \in Controllers, Controller(c)
      PROVE  UNCHANGED objs \/ ByPass
  <2>1. ASSUME NEW m \in ModelServices,
               \/ Skip(c, m) \/ FailRender(c, m) \/ Begin(c, m)
               \/ DeliverMsvc(c, m) \/ BackoffExpires(c, m)
        PROVE  UNCHANGED objs
    BY <2>1 DEF Skip, FailRender, Begin, DeliverMsvc, BackoffExpires, server
  <2>2. FinishPass(c) => UNCHANGED objs
    BY DEF FinishPass, FailPass, StatusBaseError, StatusUnchanged, StatusUpdate, Return
  <2>3. (\/ \E o \in Objects : DeliverObj(c, o)
         \/ DeliverBase(c) \/ Resync(c) \/ Restart(c)) => UNCHANGED objs
    BY DEF DeliverObj, DeliverBase, Resync, Restart, server
  <2> HIDE DEF ByPass
  <2> QED BY <1>1, <1>2, <2>1, <2>2, <2>3 DEF Controller, CreateOrUpdate, ChildStep
<1>3. ASSUME NEW o \in Objects, NEW x, SetObj(o, x), objs[o] # NoObject,
             x = NoObject \/ x.owner = objs[o].owner, Environment
      PROVE  ByOthers
  <2>1. Write(o, x) /\ UNCHANGED <<msvc, seenMsvc, pass>>
    BY <1>3 DEF SetObj, caches, copies
  <2>2. x \in Object \cup {NoObject}
    <3>1. TypeOK'
      BY <1>3, TypeEnvironment
    <3> QED BY <2>1, <3>1 DEF Write, TypeOK, ServerOK
  <2> QED BY <1>3, <2>1, <2>2
<1>4. ASSUME NEW o \in Objects, Environment,
             DeleteChild(o) \/ EditChild(o) \/ ReportReady(o) \/ CollectGarbage(o)
      PROVE  ByOthers
  <2>1. objs[o] \in Object
    BY <1>4 DEF DeleteChild, EditChild, ReportReady, CollectGarbage, TypeOK, ServerOK
  <2>2. \A e, n : /\ [objs[o] EXCEPT !.data[e[1]] = e[2]].owner = objs[o].owner
                  /\ [objs[o] EXCEPT !.ready = n].owner = objs[o].owner
    BY <2>1 DEF Object
  <2>3. PICK x : /\ SetObj(o, x) /\ objs[o] # NoObject
                 /\ x = NoObject \/ x.owner = objs[o].owner
    BY <1>4, <2>2 DEF DeleteChild, EditChild, ReportReady, CollectGarbage
  <2> QED BY <1>3, <1>4, <2>3
<1>5. Environment => UNCHANGED objs \/ ByOthers
  <2>1. ASSUME NEW m \in ModelServices,
               \/ CreateModelService(m) \/ EditSpec(m) \/ DeleteModelService(m)
               \/ MarkForDeletion(m) \/ FinishDeletion(m)
        PROVE  UNCHANGED objs
    BY <2>1 DEF CreateModelService, EditSpec, DeleteModelService, MarkForDeletion,
                FinishDeletion, SetMsvc
  <2>2. EditBase => UNCHANGED objs
    BY DEF EditBase
  <2> HIDE DEF ByOthers
  <2> QED BY <1>4, <2>1, <2>2 DEF Environment
<1>6. UNCHANGED vars => UNCHANGED objs
  BY DEF vars, server
<1> HIDE DEF ByPass, ByOthers
<1>7. UNCHANGED objs \/ ByPass \/ ByOthers
  BY <1>2, <1>5, <1>6 DEF Next
<1> QED BY <1>7 DEF ByPass, ByOthers

\* Incarnations are numbered upwards.
LEMMA UidStep ==
    ASSUME TypeOK, [Next]_vars, NEW m \in ModelServices
    PROVE  msvc[m].uid <= msvc'[m].uid
<1>1. msvc[m].uid \in Nat /\ msvc \in [ModelServices -> ModelService]
  BY ConstantsAssumption DEF TypeOK, ServerOK, MsvcOK, ModelService
<1>2. UNCHANGED msvc => msvc[m].uid <= msvc'[m].uid
  BY <1>1
<1>3. ASSUME NEW n \in ModelServices, NEW x, WriteMsvc(n, x), x.uid \in Nat,
             msvc[n].uid <= x.uid
      PROVE  msvc[m].uid <= msvc'[m].uid
  BY <1>1, <1>3 DEF WriteMsvc
<1>4. ASSUME NEW n \in ModelServices,
             \/ CreateModelService(n) \/ EditSpec(n) \/ DeleteModelService(n)
             \/ MarkForDeletion(n) \/ FinishDeletion(n)
      PROVE  \E x : WriteMsvc(n, x) /\ x.uid \in Nat /\ msvc[n].uid <= x.uid
  <2>1. msvc[n] \in ModelService /\ msvc[n].uid \in Nat
    BY ConstantsAssumption DEF TypeOK, ServerOK, MsvcOK, ModelService
  <2> DEFINE Allowed(x) == x.uid \in Nat /\ msvc[n].uid <= x.uid
  <2>2. CASE CreateModelService(n)
    <3>1. PICK spec \in Specs :
            SetMsvc(n, [phase |-> "live", uid |-> msvc[n].uid + 1, spec |-> spec,
                        status |-> EmptyStatus])
      BY <2>2 DEF CreateModelService
    <3>2. Allowed([phase |-> "live", uid |-> msvc[n].uid + 1, spec |-> spec,
                   status |-> EmptyStatus])
      BY <2>1
    <3> QED BY <3>1, <3>2 DEF SetMsvc
  <2>3. CASE EditSpec(n)
    <3>1. PICK spec \in Specs : SetMsvc(n, [msvc[n] EXCEPT !.spec = spec])
      BY <2>3 DEF EditSpec
    <3>2. Allowed([msvc[n] EXCEPT !.spec = spec])
      BY <2>1 DEF ModelService
    <3> QED BY <3>1, <3>2 DEF SetMsvc
  <2>4. CASE DeleteModelService(n) \/ FinishDeletion(n)
    <3>1. Allowed(Gone(n))
      BY <2>1 DEF Gone
    <3> QED BY <2>4, <3>1 DEF DeleteModelService, FinishDeletion, SetMsvc
  <2>5. CASE MarkForDeletion(n)
    <3>1. Allowed([msvc[n] EXCEPT !.phase = "deleting"])
      BY <2>1 DEF ModelService
    <3> QED BY <2>5, <3>1 DEF MarkForDeletion, SetMsvc
  <2> QED BY <1>4, <2>2, <2>3, <2>4, <2>5
<1>5. ASSUME NEW o \in Objects,
             DeleteChild(o) \/ EditChild(o) \/ ReportReady(o) \/ CollectGarbage(o)
      PROVE  UNCHANGED msvc
  BY <1>5 DEF DeleteChild, EditChild, ReportReady, CollectGarbage, SetObj
<1>6. Environment => msvc[m].uid <= msvc'[m].uid
  BY <1>2, <1>3, <1>4, <1>5 DEF Environment, EditBase
<1>7. ASSUME NEW c \in Controllers, Controller(c)
      PROVE  msvc[m].uid <= msvc'[m].uid
  <2>1. ASSUME NEW n \in ModelServices,
               \/ Skip(c, n) \/ FailRender(c, n) \/ Begin(c, n)
               \/ DeliverMsvc(c, n) \/ BackoffExpires(c, n)
        PROVE  UNCHANGED msvc
    BY <2>1 DEF Skip, FailRender, Begin, DeliverMsvc, BackoffExpires, server
  <2>2. ASSUME NEW s \in Slots, ChildStep(c, s)
        PROVE  UNCHANGED msvc
    BY <2>2 DEF ChildStep, Create, Keep, Update, Call, Refuse, Fault, LostReply, Attempt
  <2>3. CASE FinishPass(c)
    <3>1. pass[c] # Idle
      BY <2>3 DEF FinishPass, FailPass, StatusBaseError, StatusUnchanged, StatusUpdate,
                  AtStatus
    <3> DEFINE n == pass[c].key
               x == [msvc[n] EXCEPT !.status = NewStatus(c)]
    <3>2. n \in ModelServices
      BY <3>1, PassType
    <3>3. x.uid \in Nat /\ msvc[n].uid <= x.uid
      BY <3>2, ConstantsAssumption DEF TypeOK, ServerOK, MsvcOK, ModelService
    <3>4. UNCHANGED msvc \/ WriteMsvc(n, x)
      BY <2>3 DEF FinishPass, FailPass, StatusBaseError, StatusUnchanged, StatusUpdate
    <3> QED BY <1>2, <1>3, <3>2, <3>3, <3>4
  <2>4. (\/ \E o \in Objects : DeliverObj(c, o)
         \/ DeliverBase(c) \/ Resync(c) \/ Restart(c)) => UNCHANGED msvc
    BY DEF DeliverObj, DeliverBase, Resync, Restart, server
  <2> QED BY <1>2, <1>7, <2>1, <2>2, <2>3, <2>4 DEF Controller, CreateOrUpdate, ChildStep
<1> QED BY <1>2, <1>6, <1>7 DEF Next, vars, server

\* Who owns what a create or an update writes: the ModelService of the pass, or nobody,
\* or whoever owned the object.
LEMMA ResultOwner ==
    ASSUME TypeOK, NEW c \in Controllers, pass[c] # Idle, NEW s \in pass[c].left,
           Current(c, s)
    PROVE  LET old == objs[Target(c, s)]
               owner == Result(c, s).owner
           IN  \/ owner = [name |-> pass[c].key, uid |-> pass[c].uid]
               \/ old = NoObject /\ owner = NoOwner
               \/ old # NoObject /\ owner = old.owner
<1>1. Desired(pass[c], s).owner \in {[name |-> pass[c].key, uid |-> pass[c].uid], NoOwner}
  BY DEF Desired
<1>2. CASE objs[Target(c, s)] = NoObject
  BY <1>1, <1>2 DEF Current, Result, Created
<1>3. CASE objs[Target(c, s)] # NoObject
  BY <1>1, <1>3 DEF Current, Result, MergeInto
<1> QED BY <1>2, <1>3

\* The three parts of OwnersTraced, of one object and of one process.
LOCAL HasOwner(o) == objs[o] # NoObject /\ objs[o].owner # NoOwner

LOCAL OwnerTraced(o) ==
    HasOwner(o) =>
        /\ \E s \in Slots : o = ObjectOf[objs[o].owner.name][s]
        /\ \A c \in Controllers :
             /\ objs[o].owner.uid <= seenMsvc[c][objs[o].owner.name].uid
             /\ pass[c] # Idle /\ objs[o].owner.name = pass[c].key
                  => objs[o].owner.uid <= pass[c].uid

LOCAL UidsTraced(c) ==
    /\ \A m \in ModelServices : seenMsvc[c][m].uid <= msvc[m].uid
    /\ pass[c] # Idle => pass[c].uid <= seenMsvc[c][pass[c].key].uid

LEMMA OwnersTracedParts ==
    OwnersTraced <=> /\ \A o \in Objects : OwnerTraced(o)
                     /\ \A c \in Controllers : UidsTraced(c)
BY DEF OwnersTraced, OwnerTraced, HasOwner, UidsTraced

\* Caches and passes know no later incarnation than there is.
LEMMA UidsKept ==
    ASSUME TypeOK, NEW c \in Controllers, UidsTraced(c), [Next]_vars
    PROVE  /\ UidsTraced(c)'
           /\ \A m \in ModelServices : seenMsvc[c][m].uid <= seenMsvc'[c][m].uid
<1>0. TypeOK'
  BY TypeStep
<1>1. ASSUME NEW m \in ModelServices
      PROVE  /\ seenMsvc'[c][m].uid <= msvc'[m].uid
             /\ seenMsvc[c][m].uid <= seenMsvc'[c][m].uid
  <2>1. /\ seenMsvc[c][m].uid \in Nat /\ seenMsvc'[c][m].uid \in Nat
        /\ msvc[m].uid \in Nat /\ msvc'[m].uid \in Nat
    BY <1>0, ConstantsAssumption DEF TypeOK, ServerOK, CachesOK, MsvcOK, ModelService
  <2>2. seenMsvc'[c][m] \in {seenMsvc[c][m], msvc[m]}
    BY CacheStep DEF vars, caches, copies
  <2>3. seenMsvc[c][m].uid <= msvc[m].uid /\ msvc[m].uid <= msvc'[m].uid
    BY UidStep DEF UidsTraced
  <2> QED BY <2>1, <2>2, <2>3
<1>2. ASSUME pass'[c] # Idle
      PROVE  pass'[c].uid <= seenMsvc'[c][pass'[c].key].uid
  <2>1. CASE \E m \in ModelServices : Begin(c, m)
    <3>1. PICK m \in ModelServices : Begin(c, m)
      BY <2>1
    <3>2. pass'[c].key = m /\ pass'[c].uid = seenMsvc[c][m].uid
      BY <3>1 DEF Begin, TypeOK, PassesOK
    <3> QED BY <1>1, <3>2
  <2>2. CASE /\ pass[c] # Idle
             /\ pass'[c].key = pass[c].key /\ pass'[c].uid = pass[c].uid
    <3>1. /\ pass[c].key \in ModelServices /\ pass[c].uid \in Nat
          /\ seenMsvc[c][pass[c].key].uid \in Nat
          /\ seenMsvc'[c][pass[c].key].uid \in Nat
      BY <1>0, <2>2, PassType, ConstantsAssumption DEF TypeOK, CachesOK, ModelService
    <3>2. pass[c].uid <= seenMsvc[c][pass[c].key].uid
      BY <2>2 DEF UidsTraced
    <3> QED BY <1>1, <2>2, <3>1, <3>2
  <2> QED BY <1>2, <2>1, <2>2, PassStep DEF vars
<1> QED BY <1>1, <1>2 DEF UidsTraced

\* An object that keeps its owner stays traced.
LEMMA OwnerKeptTraced ==
    ASSUME TypeOK, \A c \in Controllers : UidsTraced(c), [Next]_vars,
           NEW o \in Objects, OwnerTraced(o),
           objs'[o] = NoObject \/ (objs[o] # NoObject /\ objs'[o].owner = objs[o].owner)
    PROVE  OwnerTraced(o)'
<1> SUFFICES ASSUME objs'[o] # NoObject, objs[o] # NoObject, objs[o].owner # NoOwner,
                    objs'[o].owner = objs[o].owner
             PROVE  OwnerTraced(o)'
  BY DEF OwnerTraced, HasOwner
<1> DEFINE n == objs[o].owner.name
           u == objs[o].owner.uid
<1>1. n \in ModelServices /\ u \in Nat
  BY ConstantsAssumption DEF TypeOK, ServerOK, Object, Owner
<1>2. TypeOK'
  BY TypeStep
<1>3. \E s \in Slots : o = ObjectOf[n][s]
  BY DEF OwnerTraced, HasOwner
<1>4. ASSUME NEW c \in Controllers
      PROVE  /\ u <= seenMsvc'[c][n].uid
             /\ pass'[c] # Idle /\ n = pass'[c].key => u <= pass'[c].uid
  <2>1. seenMsvc[c][n].uid \in Nat /\ seenMsvc'[c][n].uid \in Nat
    BY <1>1, <1>2, ConstantsAssumption DEF TypeOK, CachesOK, ModelService
  <2>2. u <= seenMsvc[c][n].uid /\ seenMsvc[c][n].uid <= seenMsvc'[c][n].uid
    BY <1>1, UidsKept DEF OwnerTraced, HasOwner
  <2>3. CASE \E m \in ModelServices : Begin(c, m)
    <3>1. PICK m \in ModelServices : Begin(c, m)
      BY <2>3
    <3>2. pass'[c].key = m /\ pass'[c].uid = seenMsvc[c][m].uid
      BY <3>1 DEF Begin, TypeOK, PassesOK
    <3> QED BY <1>1, <2>1, <2>2, <3>2
  <2>4. CASE /\ pass[c] # Idle
             /\ pass'[c].key = pass[c].key /\ pass'[c].uid = pass[c].uid
    BY <1>1, <2>1, <2>2, <2>4 DEF OwnerTraced, HasOwner
  <2>5. CASE pass'[c] = Idle
    BY <1>1, <2>1, <2>2, <2>5
  <2>6. CASE pass'[c] = pass[c]
    BY <1>1, <2>1, <2>2, <2>6 DEF OwnerTraced, HasOwner
  <2> QED BY <2>3, <2>4, <2>5, <2>6, PassStep DEF vars
<1> HIDE DEF n, u
<1>5. objs'[o].owner.name = n /\ objs'[o].owner.uid = u
  BY DEF n, u
<1> QED BY <1>3, <1>4, <1>5 DEF OwnerTraced, HasOwner

\* Every step keeps the owners traced, where one process runs.
LEMMA OwnersStep ==
    ASSUME TypeOK, OneProcess, OwnersTraced, [Next]_vars
    PROVE  OwnersTraced'
<1>1. \A o \in Objects : OwnerTraced(o)
  BY OwnersTracedParts
<1>2. \A c \in Controllers : UidsTraced(c)
  BY OwnersTracedParts
<1>3. \A c \in Controllers : UidsTraced(c)'
  BY <1>2, UidsKept
<1>4. ASSUME NEW o \in Objects
      PROVE  OwnerTraced(o)'
  <2>1. objs[o] \in Object \cup {NoObject}
    BY DEF TypeOK, ServerOK
  <2>2. CASE UNCHANGED objs
    BY <1>1, <1>2, <2>2, OwnerKeptTraced DEF OwnerTraced, HasOwner
  <2>3. ASSUME NEW w \in Objects, NEW x \in Object \cup {NoObject}, Write(w, x),
               objs[w] # NoObject, x = NoObject \/ x.owner = objs[w].owner
        PROVE  OwnerTraced(o)'
    <3>1. objs'[o] = objs[o] \/ (o = w /\ objs'[o] = x)
      BY <2>3 DEF Write, TypeOK, ServerOK
    <3>2. \/ objs'[o] = NoObject
          \/ objs[o] # NoObject /\ objs'[o].owner = objs[o].owner
      BY <2>3, <3>1
    <3> QED BY <1>1, <1>2, <3>2, OwnerKeptTraced
  <2>4. ASSUME NEW c \in Controllers, NEW s \in Slots,
               pass[c] # Idle, pass'[c] # Idle, s \in pass[c].left, Current(c, s),
               Write(Target(c, s), Result(c, s)), UNCHANGED <<msvc, seenMsvc>>
        PROVE  OwnerTraced(o)'
    <3> DEFINE w == Target(c, s)
               x == Result(c, s)
    <3>1. w \in Objects /\ x \in Object
      BY <2>4, ResultType
    <3>2. objs'[o] = objs[o] \/ (o = w /\ objs'[o] = x)
      BY <2>4, <3>1 DEF Write, TypeOK, ServerOK
    <3>3. CASE \/ objs'[o] = NoObject
               \/ objs[o] # NoObject /\ objs'[o].owner = objs[o].owner
      BY <1>1, <1>2, <3>3, OwnerKeptTraced
    <3>4. CASE objs'[o] # NoObject /\ objs'[o].owner = NoOwner
      BY <3>4 DEF OwnerTraced, HasOwner
    <3>5. CASE o = w /\ x.owner = [name |-> pass[c].key, uid |-> pass[c].uid]
      <4>1. pass[c].key \in ModelServices /\ pass[c].uid \in Nat
        BY <2>4, PassType, ConstantsAssumption
      <4>2. pass'[c].key = pass[c].key /\ pass'[c].uid = pass[c].uid
        <5>1. \A m \in ModelServices : ~Begin(c, m)
          BY <2>4 DEF Begin, Take
        <5> QED BY <2>4, <5>1, PassStep DEF vars
      <4>3. pass[c].uid <= seenMsvc'[c][pass[c].key].uid
        BY <1>2, <2>4 DEF UidsTraced
      <4>4. o = ObjectOf[pass[c].key][s]
        BY <3>5 DEF Target
      <4>5. objs'[o].owner = [name |-> pass[c].key, uid |-> pass[c].uid]
        BY <3>1, <3>5, <2>4 DEF Write, TypeOK, ServerOK
      <4>6. \A d \in Controllers : d = c
        BY DEF OneProcess
      <4> QED BY <4>1, <4>2, <4>3, <4>4, <4>5, <4>6 DEF OwnerTraced, HasOwner
    <3>6. CASE o # w
      BY <3>2, <3>3, <3>6, <2>1
    <3> QED BY <2>4, <3>1, <3>2, <3>3, <3>4, <3>5, <3>6, ResultOwner
  <2> QED BY <2>2, <2>3, <2>4, ObjectStep
<1>5. \A o \in Objects : OwnerTraced(o)'
  BY <1>4
<1> QED BY <1>3, <1>5, OwnersTracedParts DEF OwnersTraced, OwnerTraced, HasOwner, UidsTraced

\* What a pass changes in a traced object is not its owner.
LEMMA OwnersStayed ==
    ASSUME TypeOK, NamesDistinct, OwnersTraced, Next,
           NEW d \in Controllers, pass'[d] # pass[d],
           NEW o \in Objects, HasOwner(o), Alive(objs[o].owner)
    PROVE  objs'[o] # NoObject /\ objs'[o].owner = objs[o].owner
<1>1. CASE UNCHANGED objs
  BY <1>1 DEF HasOwner
<1>2. ASSUME NEW c \in Controllers, NEW s \in Slots,
             pass[c] # Idle, s \in pass[c].left, Current(c, s),
             Write(Target(c, s), Result(c, s))
      PROVE  objs'[o] # NoObject /\ objs'[o].owner = objs[o].owner
  <2>1. Target(c, s) \in Objects /\ Result(c, s) \in Object
    BY <1>2, ResultType
  <2>2. CASE o # Target(c, s)
    BY <1>2, <2>1, <2>2 DEF Write, TypeOK, ServerOK, HasOwner
  <2>3. CASE o = Target(c, s)
    <3> DEFINE n == objs[o].owner.name
               u == objs[o].owner.uid
    <3>1. n \in ModelServices /\ u \in Nat /\ objs[o].owner = [name |-> n, uid |-> u]
      BY ConstantsAssumption DEF HasOwner, TypeOK, ServerOK, Object, Owner
    <3>2. PICK t \in Slots : o = ObjectOf[n][t]
      BY DEF OwnersTraced, HasOwner
    <3>3. pass[c].key \in ModelServices /\ pass[c].uid \in Nat
      BY <1>2, PassType, ConstantsAssumption
    <3>4. n = pass[c].key
      <4>1. ObjectOf[n][t] = ObjectOf[pass[c].key][s]
        BY <2>3, <3>2 DEF Target
      <4> HIDE DEF n
      <4> QED
        BY <3>1, <3>3, <4>1 DEF NamesDistinct
    <3>5. u <= pass[c].uid /\ pass[c].uid <= seenMsvc[c][n].uid
            /\ seenMsvc[c][n].uid <= msvc[n].uid
      BY <1>2, <3>1, <3>4 DEF OwnersTraced, HasOwner
    <3>6. msvc[n].uid = u
      BY DEF Alive
    <3>7. seenMsvc[c][n].uid \in Nat
      BY <3>1, ConstantsAssumption DEF TypeOK, CachesOK, ModelService
    <3>8. pass[c].uid = u
      BY <3>1, <3>3, <3>5, <3>6, <3>7
    <3>9. objs'[o] = Result(c, s) /\ objs'[o] # NoObject
      BY <1>2, <2>1, <2>3, NullsAssumption DEF Write, TypeOK, ServerOK
    <3> QED BY <1>2, <2>3, <3>1, <3>4, <3>8, <3>9, ResultOwner DEF HasOwner
  <2> QED BY <2>2, <2>3
<1>3. CASE UNCHANGED pass
  BY <1>3
<1> QED BY <1>1, <1>2, <1>3, ObjectStep

\* OwnersTraced holds where one process runs.
THEOREM OwnersTracedHold ==
    ASSUME OneProcess
    PROVE  Spec => []OwnersTraced
<1>1. Init => OwnersTraced
  <2> SUFFICES ASSUME Init PROVE OwnersTraced
    OBVIOUS
  <2>1. TypeOK
    BY TypeInit
  <2>2. \A m \in ModelServices : msvc[m].uid \in Nat
    BY <2>1, ConstantsAssumption DEF TypeOK, ServerOK, MsvcOK, ModelService
  <2>3. /\ \A c \in Controllers : seenMsvc[c] = msvc /\ pass[c] = Idle
        /\ \A o \in Objects : objs[o] = NoObject
    BY DEF Init
  <2> QED BY <2>2, <2>3 DEF OwnersTraced
<1>2. TypeOK /\ OwnersTraced /\ [Next]_vars => OwnersTraced'
  BY OwnersStep
<1> QED BY <1>1, <1>2, TypeCorrect, PTL DEF Spec

\* Where one process runs and no two ModelServices name a child alike, no pass takes an
\* object from a ModelService that is there, nor from a later incarnation: OwnerKept.
THEOREM OwnersAreKept ==
    ASSUME OneProcess, NamesDistinct
    PROVE  Spec => OwnerKept
<1> DEFINE Kept ==
      \A c \in Controllers : pass'[c] # pass[c] =>
        \A o \in Objects :
          objs[o] # NoObject /\ objs[o].owner # NoOwner /\ Alive(objs[o].owner) =>
            objs'[o] # NoObject /\ objs'[o].owner = objs[o].owner
<1>1. TypeOK /\ OwnersTraced /\ [Next]_vars => [Kept]_vars
  BY OwnersStayed DEF HasOwner
<1>2. Spec => [][Kept]_vars
  BY <1>1, TypeCorrect, OwnersTracedHold, PTL DEF Spec
<1> QED BY <1>2 DEF OwnerKept
=============================================================================
