---------------------------- MODULE WakeupProofs ----------------------------
(***************************************************************************)
(* The reconcile loop loses no wakeup, for any number of ModelServices,    *)
(* controller processes and objects, whatever the objects are named, and   *)
(* whatever restarts, faults and edits there are: NoLostWakeup follows     *)
(* from the inductive invariant NothingForgotten.                          *)
(***************************************************************************)
EXTENDS ModelServiceProofs

\* A step of somebody else, as a controller sees it: objects are written with
\* their events, or nothing changes.
Written(c) ==
    \/ \E o \in Objects, x \in Object \cup {NoObject} : Write(o, x)
    \/ objs' = objs /\ news'[c] = news[c]

-----------------------------------------------------------------------------
(* One object *)

\* An object on which its owner has nothing left to do names it as its owner, so
\* that any event about the object requeues it (the map functions).
LEMMA AppliedNamesOwner ==
    ASSUME NEW p, NEW s, NEW x, p.key \in ModelServices, p.uid \in 0..MaxUid,
           Owned(p.spec, p.base, s), Applied(x, p, s)
    PROVE  p.key \in OwnersOf(x)
<1>1. [name |-> p.key, uid |-> p.uid] \in Owner
  BY DEF Owner
<1>2. x.owner = [name |-> p.key, uid |-> p.uid] /\ x # NoObject
  BY <1>1, NullsAssumption DEF Applied, MergeInto, Desired
<1> QED BY <1>1, <1>2, NullsAssumption DEF OwnersOf

\* Writing an object leaves every other one as it is, and tells the owner of the one
\* it replaces.
LEMMA WrittenWatched ==
    ASSUME TypeOK, NEW c \in Controllers, Written(c),
           NEW p, NEW s, NEW o \in Objects,
           p.key \in ModelServices, p.uid \in 0..MaxUid, Owned(p.spec, p.base, s),
           Applied(objs[o], p, s) \/ p.key \in news[c][o]
    PROVE  Applied(objs'[o], p, s) \/ p.key \in news'[c][o]
<1>1. CASE objs' = objs /\ news'[c] = news[c]
  BY <1>1
<1>2. ASSUME NEW w \in Objects, NEW x \in Object \cup {NoObject}, Write(w, x)
      PROVE  Applied(objs'[o], p, s) \/ p.key \in news'[c][o]
  <2>1. objs' = [objs EXCEPT ![w] = x]
    BY <1>2 DEF Write
  <2>2. news'[c] = [news[c] EXCEPT ![w] = @ \cup OwnersOf(objs[w]) \cup OwnersOf(x)]
    BY <1>2 DEF Write
  <2>3. news[c] \in [Objects -> SUBSET ModelServices] /\ objs \in [Objects -> Object \cup {NoObject}]
    BY DEF TypeOK, QueuesOK, ServerOK
  <2>4. CASE w # o
    BY <2>1, <2>2, <2>3, <2>4
  <2>5. CASE w = o
    BY <2>2, <2>3, <2>5, AppliedNamesOwner
  <2> QED BY <2>4, <2>5
<1> QED BY <1>1, <1>2 DEF Written

\* The same for all children of a pass.
LEMMA WatchedKept ==
    ASSUME TypeOK, NEW c \in Controllers, Written(c), queue[c] \subseteq queue'[c],
           NEW p, NEW slots \in SUBSET Slots,
           p.key \in ModelServices, p.uid \in 0..MaxUid, Watched(c, p, slots),
           NEW s \in slots, Owned(p.spec, p.base, s)
    PROVE  LET o == ObjectOf[p.key][s] IN
           Applied(objs'[o], p, s) \/ p.key \in news'[c][o] \/ p.key \in queue'[c]
<1> DEFINE o == ObjectOf[p.key][s]
<1>1. o \in Objects
  BY ConstantsAssumption
<1>2. Applied(objs[o], p, s) \/ p.key \in news[c][o] \/ p.key \in queue[c]
  BY DEF Watched
<1> HIDE DEF o
<1>3. Applied(objs'[o], p, s) \/ p.key \in news'[c][o] \/ p.key \in queue'[c]
  BY <1>1, <1>2, WrittenWatched
<1> QED BY <1>3 DEF o

\* Writing an object keeps what is known of events.
LEMMA EventsKept ==
    ASSUME TypeOK, NEW c \in Controllers, Written(c), EventsKnown(c),
           UNCHANGED seenObjs[c]
    PROVE  EventsKnown(c)'
<1>1. CASE objs' = objs /\ news'[c] = news[c]
  BY <1>1 DEF EventsKnown
<1>2. ASSUME NEW w \in Objects, NEW x \in Object \cup {NoObject}, Write(w, x)
      PROVE  EventsKnown(c)'
  <2>1. objs' = [objs EXCEPT ![w] = x]
    BY <1>2 DEF Write
  <2>2. news'[c] = [news[c] EXCEPT ![w] = @ \cup OwnersOf(objs[w]) \cup OwnersOf(x)]
    BY <1>2 DEF Write
  <2>3. news[c] \in [Objects -> SUBSET ModelServices] /\ objs \in [Objects -> Object \cup {NoObject}]
    BY DEF TypeOK, QueuesOK, ServerOK
  <2>4. ASSUME NEW o \in Objects, seenObjs'[c][o] # objs'[o]
        PROVE  OwnersOf(objs'[o]) \cup OwnersOf(seenObjs'[c][o]) \subseteq news'[c][o]
    <3>1. CASE o # w
      BY <2>1, <2>2, <2>3, <2>4, <3>1 DEF EventsKnown
    <3>2. CASE o = w
      <4>1. OwnersOf(seenObjs[c][o]) \subseteq news[c][o] \cup OwnersOf(objs[o])
        BY DEF EventsKnown
      <4> QED BY <2>1, <2>2, <2>3, <3>2, <4>1
    <3> QED BY <3>1, <3>2
  <2>5. \A o \in Objects : OwnersOf(objs[o])' = OwnersOf(objs'[o])
          /\ OwnersOf(seenObjs[c][o])' = OwnersOf(seenObjs'[c][o])
    BY DEF OwnersOf
  <2> QED BY <2>4, <2>5 DEF EventsKnown
<1> QED BY <1>1, <1>2 DEF Written

-----------------------------------------------------------------------------
(* A controller while others act *)

\* A pass and its type.
LEMMA PassType ==
    ASSUME TypeOK, NEW c \in Controllers, pass[c] # Idle
    PROVE  /\ pass[c] \in Pass
           /\ pass[c].key \in ModelServices /\ pass[c].uid \in 0..MaxUid
           /\ SlotsOf(pass[c].want) \subseteq Slots
BY DEF TypeOK, PassesOK, Pass, SlotsOf

\* The cached ModelService and its type.
LEMMA SeenType ==
    ASSUME TypeOK, NEW c \in Controllers, NEW m \in ModelServices
    PROVE  seenMsvc[c][m] \in ModelService /\ seenMsvc[c][m].uid \in 0..MaxUid
BY DEF TypeOK, CachesOK, ModelService

\* What is known of a ModelService nobody works on survives what others do.
LEMMA QuietKept ==
    ASSUME TypeOK, NEW c \in Controllers, NEW m \in ModelServices, QuietKnown(c, m),
           Written(c), queue[c] \subseteq queue'[c],
           m \in backoff[c] => m \in backoff'[c] \cup queue'[c],
           Busy(c, m) => Busy(c, m)',
           UNCHANGED <<seenMsvc[c][m], usedBase[c][m]>>
    PROVE  QuietKnown(c, m)'
<1> DEFINE p == PassOn(m, seenMsvc[c][m], usedBase[c][m])
<1> SUFFICES ASSUME seenMsvc[c][m].phase = "live", m \notin queue'[c] \cup backoff'[c],
                    ~Busy(c, m)'
             PROVE  Renderable(p.spec, p.base, NoBase) /\ Watched(c, p, SlotsOf(p.want))'
  BY DEF QuietKnown
<1>1. Renderable(p.spec, p.base, NoBase) /\ Watched(c, p, SlotsOf(p.want))
  BY DEF QuietKnown
<1>2. p.key = m /\ p.uid \in 0..MaxUid /\ SlotsOf(p.want) \subseteq Slots /\ p' = p
  BY SeenType DEF PassOn, SlotsOf
<1> HIDE DEF p
<1>3. \A s \in SlotsOf(p.want) : Owned(p.spec, p.base, s) =>
        LET o == ObjectOf[p.key][s] IN
        Applied(objs'[o], p, s) \/ p.key \in news'[c][o] \/ p.key \in queue'[c]
  BY <1>1, <1>2, WatchedKept
<1> QED BY <1>1, <1>2, <1>3 DEF Watched

\* What is known of a pass survives what others do.
LEMMA PassKept ==
    ASSUME TypeOK, NEW c \in Controllers, PassKnown(c),
           Written(c), queue[c] \subseteq queue'[c],
           UNCHANGED <<pass[c], usedBase[c]>>,
           \A m \in ModelServices \ queue'[c] : UNCHANGED seenMsvc[c][m]
    PROVE  PassKnown(c)'
<1> SUFFICES ASSUME pass[c] # Idle PROVE PassKnown(c)'
  BY DEF PassKnown
<1> DEFINE p == pass[c]
<1>1. p.key \in ModelServices /\ p.uid \in 0..MaxUid
        /\ SlotsOf(p.want) \ p.left \in SUBSET Slots
  BY PassType
<1>2. ~p.failed => \A s \in SlotsOf(p.want) \ p.left : Owned(p.spec, p.base, s) =>
        LET o == ObjectOf[p.key][s] IN
        Applied(objs'[o], p, s) \/ p.key \in news'[c][o] \/ p.key \in queue'[c]
  BY <1>1, WatchedKept DEF PassKnown
<1>3. ~p.failed => Watched(c, p, SlotsOf(p.want) \ p.left)'
  BY <1>2 DEF Watched
<1> QED BY <1>1, <1>3 DEF PassKnown

\* A step a controller takes no part in leaves it what it has: at most events are added.
LeftAlone(c) ==
    /\ UNCHANGED <<queue[c], backoff[c], pass[c], usedBase[c], seenMsvc[c], seenObjs[c]>>
    /\ unseen[c] \subseteq unseen'[c]
    /\ Written(c)

\* A controller that takes no part in a step knows as much afterwards.
LEMMA Bystander ==
    ASSUME TypeOK, NEW c \in Controllers, Known(c), LeftAlone(c)
    PROVE  Known(c)'
<1> USE DEF LeftAlone
<1>1. EventsKnown(c)'
  BY EventsKept DEF Known
<1>2. PassKnown(c)'
  BY PassKept DEF Known
<1>3. ASSUME NEW m \in ModelServices
      PROVE  QuietKnown(c, m)'
  BY QuietKept DEF Known, Busy
<1> QED BY <1>1, <1>2, <1>3 DEF Known

\* Whether a child is as wanted depends on what the pass renders, not on how far it is.
LEMMA AppliedSame ==
    ASSUME NEW p, NEW q, NEW x, NEW s,
           p.key = q.key, p.uid = q.uid, p.spec = q.spec, p.base = q.base,
           p.want = q.want
    PROVE  Applied(x, p, s) <=> Applied(x, q, s)
<1>1. Desired(p, s) = Desired(q, s)
  BY DEF Desired
<1>2. MergeInto(x, p, s) = MergeInto(x, q, s)
  BY <1>1 DEF MergeInto
<1> QED BY <1>2 DEF Applied

-----------------------------------------------------------------------------
(* A controller's own steps *)

\* Taking a key: nothing is forgotten of the key, as it is skipped for good, backs
\* off or is being worked on; the other keys are not touched.
LEMMA KnownTake ==
    ASSUME TypeOK, NEW c \in Controllers, Known(c), NEW m \in ModelServices,
           Skip(c, m) \/ FailRender(c, m) \/ Begin(c, m)
    PROVE  Known(c)'
<1>1. Take(c, m) /\ UNCHANGED <<objs, seenMsvc, seenObjs, news>>
  BY DEF Skip, FailRender, Begin, server, caches, copies
<1>2. pass[c] = Idle /\ queue'[c] = queue[c] \ {m}
  BY <1>1 DEF Take, TypeOK, QueuesOK
<1>3. EventsKnown(c)'
  BY <1>1 DEF Known, EventsKnown, OwnersOf
<1>4. ASSUME NEW n \in ModelServices, n # m
      PROVE  QuietKnown(c, n)'
  <2>1. backoff[c] \subseteq backoff'[c] /\ usedBase'[c][n] = usedBase[c][n]
    BY <1>4 DEF Skip, FailRender, Begin, TypeOK, QueuesOK, PassesOK
  <2>2. ~Busy(c, n)
    BY <1>2 DEF Busy
  <2>3. QuietKnown(c, n)
    BY DEF Known
  <2>4. PassOn(n, seenMsvc[c][n], usedBase[c][n])' = PassOn(n, seenMsvc[c][n], usedBase[c][n])
          /\ PassOn(n, seenMsvc[c][n], usedBase[c][n]).key = n
    BY <1>1, <2>1 DEF PassOn
  <2> QED BY <1>1, <1>2, <1>4, <2>1, <2>2, <2>3, <2>4 DEF QuietKnown, Watched
<1>5. CASE Skip(c, m)
  <2>1. pass'[c] = Idle /\ QuietKnown(c, m)'
    BY <1>1, <1>2, <1>5 DEF Skip, QuietKnown
  <2> QED BY <1>3, <1>4, <2>1 DEF Known, PassKnown
<1>6. CASE FailRender(c, m)
  <2>1. pass'[c] = Idle /\ m \in backoff'[c]
    BY <1>2, <1>6 DEF FailRender, TypeOK, QueuesOK
  <2> QED BY <1>3, <1>4, <2>1 DEF Known, PassKnown, QuietKnown
<1>7. CASE Begin(c, m)
  <2> DEFINE ms == seenMsvc[c][m]
             want == Wanted(ms.spec, seenBase[c])
             p == [key |-> m, uid |-> ms.uid, spec |-> ms.spec, status |-> ms.status,
                   base |-> seenBase[c], want |-> want, left |-> SlotsOf(want),
                   failed |-> FALSE]
  <2>1. pass'[c] = p /\ usedBase'[c][m] = seenBase[c]
    BY <1>7 DEF Begin, TypeOK, PassesOK
  <2>2. p # Idle
    <3>1. TypeOK'
      BY <1>7, TypeTake
    <3>2. p \in Pass
      <4>1. ms \in ModelService /\ ms.spec \in Specs /\ seenBase[c] \in Bases
        BY <1>7 DEF TypeOK, CachesOK, MsvcOK, Begin, ModelService
      <4>2. want \in [Slots -> Child \cup {NoChild}]
        BY <1>7, <4>1, RenderedBaseType, WantedType DEF Begin
      <4> QED BY <4>1, <4>2 DEF Pass, ModelService, SlotsOf
    <3> QED BY <3>2, NullsAssumption
  <2>3. PassKnown(c)'
    BY <1>1, <1>7, <2>1 DEF PassKnown, Watched, Begin
  <2>4. QuietKnown(c, m)'
    BY <2>1, <2>2 DEF QuietKnown, Busy
  <2> QED BY <1>3, <1>4, <2>3, <2>4 DEF Known
<1> QED BY <1>5, <1>6, <1>7

\* A created child is as wanted: a second reconcile would change nothing in it.
LEMMA CreatedApplied ==
    ASSUME TypeOK, NEW c \in Controllers, pass[c] # Idle, NEW s \in pass[c].left,
           Owned(pass[c].spec, pass[c].base, s)
    PROVE  Applied(Created(pass[c], s), pass[c], s)
<1> DEFINE p == pass[c]
           want == p.want[s]
           x == Created(p, s)
<1>1. p \in Pass /\ s \in Slots /\ want \in Child
  BY DEF TypeOK, PassesOK, Pass, SlotsOf
<1>2. Desired(p, s) = [owner |-> [name |-> p.key, uid |-> p.uid], data |-> want]
  BY DEF Desired
<1>3. x = [owner |-> [name |-> p.key, uid |-> p.uid],
           data |-> Defaulted(s, WithOverride(EmptyChild, want)), ready |-> NoneReady]
  BY <1>2 DEF Created
<1>4. x \in Object /\ x # NoObject
  <2>1. p.key \in ModelServices /\ p.uid \in 0..MaxUid
    BY <1>1 DEF Pass
  <2>2. WithOverride(EmptyChild, want) \in Child
    BY <1>1, StampedType, OverrideType
  <2>3. Defaulted(s, WithOverride(EmptyChild, want)) \in Child
    BY <2>2, ConstantsAssumption DEF Defaulted, Child
  <2>4. x \in Object
    BY <1>3, <2>1, <2>3, ConstantsAssumption DEF Object, Owner
  <2> QED BY <2>4, NullsAssumption
<1>5. ASSUME NEW d \in Child, NEW e \in Child, d = WithOverride(EmptyChild, e)
      PROVE  WithOverride(Defaulted(s, d), ForUpdate(p.spec, s, e)) = Defaulted(s, d)
  BY <1>5, ValuesAssumption, ConstantsAssumption
  DEF WithOverride, MergeField, Defaulted, ForUpdate, EmptyChild, Child
<1>6. WithOverride(x.data, ForUpdate(p.spec, s, want)) = x.data
  BY <1>1, <1>3, <1>5, StampedType, OverrideType
<1>7. Desired(p, s).owner # NoOwner
  <2>1. [name |-> p.key, uid |-> p.uid] \in Owner
    BY <1>1 DEF Pass, Owner
  <2> QED BY <1>2, <2>1, NullsAssumption
<1>8. MergeInto(x, p, s) = x
  BY <1>2, <1>3, <1>4, <1>6, <1>7 DEF MergeInto, Object
<1> QED BY <1>4, <1>8 DEF Applied

\* Nor would it in a child that was just merged.
LEMMA MergedApplied ==
    ASSUME TypeOK, NEW c \in Controllers, pass[c] # Idle, NEW s \in pass[c].left,
           Owned(pass[c].spec, pass[c].base, s), NEW x \in Object
    PROVE  Applied(MergeInto(x, pass[c], s), pass[c], s)
<1> DEFINE p == pass[c]
           update == ForUpdate(p.spec, s, p.want[s])
           y == MergeInto(x, p, s)
<1>1. p \in Pass /\ s \in Slots /\ p.want[s] \in Child
  BY DEF TypeOK, PassesOK, Pass, SlotsOf
<1>2. [name |-> p.key, uid |-> p.uid] \in Owner
  BY <1>1 DEF Pass, Owner
<1>3. Desired(p, s) = [owner |-> [name |-> p.key, uid |-> p.uid], data |-> p.want[s]]
        /\ Desired(p, s).owner # NoOwner
  BY <1>2, NullsAssumption DEF Desired
<1>4. update \in Child
  BY <1>1, ValuesAssumption DEF ForUpdate, Child
<1>5. y = [owner |-> [name |-> p.key, uid |-> p.uid],
           data |-> WithOverride(x.data, update), ready |-> x.ready]
  BY <1>3 DEF MergeInto
<1>6. WithOverride(x.data, update) \in Child
        /\ WithOverride(WithOverride(x.data, update), update) = WithOverride(x.data, update)
  BY <1>4, OverrideType, OverrideIdempotent DEF Object
<1>7. y \in Object /\ y # NoObject
  BY <1>2, <1>5, <1>6, NullsAssumption DEF Object
<1>8. MergeInto(y, p, s) = y
  BY <1>3, <1>5, <1>6 DEF MergeInto
<1> QED BY <1>7, <1>8 DEF Applied

\* The steps of create-or-update on one child.
ChildStep(c, s) ==
    \/ Create(c, s) \/ Keep(c, s) \/ Update(c, s) \/ Refuse(c, s)
    \/ Fault(c, s) \/ LostReply(c, s)

\* What an attempt does to the pass.
LEMMA AttemptPass ==
    ASSUME TypeOK, NEW c \in Controllers, NEW s \in Slots, NEW ok \in BOOLEAN,
           Attempt(c, s, ok)
    PROVE  /\ pass[c] # Idle /\ pass'[c] # Idle /\ s \in pass[c].left
           /\ pass'[c].key = pass[c].key /\ pass'[c].uid = pass[c].uid
           /\ pass'[c].spec = pass[c].spec /\ pass'[c].base = pass[c].base
           /\ pass'[c].want = pass[c].want
           /\ pass'[c].left = pass[c].left \ {s}
           /\ pass'[c].failed = (pass[c].failed \/ ~ok)
           /\ \A d \in Controllers \ {c} : pass'[d] = pass[d]
<1>1. pass[c] \in Pass /\ s \in pass[c].left
  BY DEF TypeOK, PassesOK, Attempt, IsNext
<1>2. pass' = [pass EXCEPT ![c] = [pass[c] EXCEPT !.left = @ \ {s},
                                                  !.failed = @ \/ ~ok]]
  BY DEF Attempt, TypeOK, PassesOK
<1>3. pass'[c] = [pass[c] EXCEPT !.left = @ \ {s}, !.failed = @ \/ ~ok]
  BY <1>2 DEF TypeOK, PassesOK
<1>4. pass'[c] \in Pass
  BY <1>1, <1>3 DEF Pass
<1> QED BY <1>1, <1>2, <1>3, <1>4, NullsAssumption DEF Pass, TypeOK, PassesOK, Attempt

\* An attempt that succeeds leaves the child as wanted, or knows of an event about it:
\* what was kept because the cache said so may have changed in the meantime.
LEMMA SuccessApplied ==
    ASSUME TypeOK, NEW c \in Controllers, EventsKnown(c), NEW s \in Slots,
           Owned(pass[c].spec, pass[c].base, s),
           Create(c, s) \/ Update(c, s), Current(c, s)
    PROVE  Applied(objs'[Target(c, s)], pass[c], s)
<1>1. pass[c] # Idle /\ s \in pass[c].left
  BY DEF Create, Update, Call
<1>2. Target(c, s) \in Objects /\ Result(c, s) \in Object
  BY <1>1, ResultType
<1>3. objs'[Target(c, s)] = Result(c, s)
  BY <1>2 DEF Create, Update, Call, Write, TypeOK, ServerOK
<1>4. seenObjs[c][Target(c, s)] \in Object \cup {NoObject}
  BY <1>2 DEF TypeOK, CachesOK
<1> QED BY <1>1, <1>3, <1>4, CreatedApplied, MergedApplied DEF Result

LEMMA KeptApplied ==
    ASSUME TypeOK, NEW c \in Controllers, EventsKnown(c), NEW s \in Slots,
           Owned(pass[c].spec, pass[c].base, s), Keep(c, s)
    PROVE  LET o == Target(c, s) IN
           Applied(objs'[o], pass[c], s) \/ pass[c].key \in news'[c][o]
<1> DEFINE o == Target(c, s)
<1>1. pass[c] # Idle /\ s \in pass[c].left
  BY DEF Keep
<1>2. o \in Objects
  BY <1>1, ResultType
<1>3. Applied(seenObjs[c][o], pass[c], s)
  BY DEF Keep, Result, Applied
<1>4. pass[c].key \in OwnersOf(seenObjs[c][o])
  BY <1>1, <1>3, PassType, AppliedNamesOwner
<1> QED BY <1>2, <1>3, <1>4 DEF Keep, EventsKnown

\* Attempting a child: Create, Keep, Update, Refuse, Fault and LostReply.
LEMMA KnownChildren ==
    ASSUME TypeOK, NEW c \in Controllers, Known(c), NEW s \in Slots, ChildStep(c, s)
    PROVE  Known(c)'
<1> DEFINE p == pass[c]
<1>1. PICK ok \in BOOLEAN :
        /\ Attempt(c, s, ok)
        /\ ok => Keep(c, s) \/ ((Create(c, s) \/ Update(c, s)) /\ Current(c, s))
  <2>1. CASE Create(c, s) \/ Update(c, s)
    BY <2>1 DEF Create, Update, Call, Current
  <2>2. CASE Keep(c, s)
    BY <2>2 DEF Keep
  <2>3. CASE Refuse(c, s) \/ Fault(c, s) \/ LostReply(c, s)
    BY <2>3 DEF Refuse, Fault, LostReply
  <2> QED BY <2>1, <2>2, <2>3 DEF ChildStep
<1>2. /\ p # Idle /\ pass'[c] # Idle /\ s \in p.left
      /\ pass'[c].key = p.key /\ pass'[c].uid = p.uid
      /\ pass'[c].spec = p.spec /\ pass'[c].base = p.base /\ pass'[c].want = p.want
      /\ pass'[c].left = p.left \ {s} /\ pass'[c].failed = (p.failed \/ ~ok)
  BY <1>1, AttemptPass
<1>3. UNCHANGED <<queue, backoff, usedBase, seenMsvc, seenObjs>>
  BY <1>1 DEF Attempt, caches, copies
<1>4. Written(c)
  <2>1. Target(c, s) \in Objects /\ Result(c, s) \in Object
    BY <1>2, ResultType
  <2> QED BY <2>1 DEF Written, ChildStep, Create, Keep, Update, Call, Refuse, Fault,
                      LostReply
<1>5. EventsKnown(c)'
  BY <1>3, <1>4, EventsKept DEF Known
<1>6. ASSUME NEW m \in ModelServices
      PROVE  QuietKnown(c, m)'
  BY <1>2, <1>3, <1>4, QuietKept DEF Known, Busy
<1>7. PassKnown(c)'
  <2>1. PassKnown(c) /\ EventsKnown(c)
    BY DEF Known
  <2>2. p.key \in ModelServices /\ p.uid \in 0..MaxUid
          /\ SlotsOf(p.want) \subseteq Slots /\ p \in Pass
    BY <1>2, PassType
  <2>3. ASSUME ~pass'[c].failed, NEW t \in SlotsOf(p.want) \ (p.left \ {s}),
               Owned(p.spec, p.base, t)
        PROVE  LET o == ObjectOf[p.key][t] IN
               Applied(objs'[o], p, t) \/ p.key \in news'[c][o] \/ p.key \in queue'[c]
    <3>1. ok /\ ~p.failed
      BY <1>2, <2>3, <2>2 DEF Pass
    <3>2. CASE t = s
      <4>1. Target(c, s) = ObjectOf[p.key][t]
        BY <3>2 DEF Target
      <4>2. Applied(objs'[Target(c, s)], p, s) \/ p.key \in news'[c][Target(c, s)]
        BY <1>1, <2>1, <2>3, <3>1, <3>2, SuccessApplied, KeptApplied
      <4> QED BY <3>2, <4>1, <4>2
    <3>3. CASE t # s
      <4>1. Watched(c, p, SlotsOf(p.want) \ p.left)
        BY <1>2, <2>1, <3>1 DEF PassKnown
      <4>2. t \in SlotsOf(p.want) \ p.left /\ SlotsOf(p.want) \ p.left \in SUBSET Slots
        BY <2>2, <3>3
      <4> HIDE DEF p
      <4> QED BY <1>3, <1>4, <2>2, <2>3, <4>1, <4>2, WatchedKept
    <3> QED BY <3>2, <3>3
  <2>4. /\ p.want = Wanted(p.spec, p.base) /\ p.base = usedBase[c][p.key]
        /\ Renderable(p.spec, p.base, NoBase)
        /\ \/ p.key \in queue[c]
           \/ seenMsvc[c][p.key].spec = p.spec /\ seenMsvc[c][p.key].uid = p.uid
    BY <1>2, <2>1 DEF PassKnown
  <2>5. PICK q : q = pass'[c]
    OBVIOUS
  <2>6. ASSUME ~q.failed, NEW t \in SlotsOf(q.want) \ q.left, Owned(q.spec, q.base, t)
        PROVE  LET o == ObjectOf[q.key][t] IN
               Applied(objs'[o], q, t) \/ q.key \in news'[c][o] \/ q.key \in queue'[c]
    <3>1. t \in SlotsOf(p.want) \ (p.left \ {s}) /\ Owned(p.spec, p.base, t)
      BY <1>2, <2>5, <2>6
    <3>2. \A x : Applied(x, q, t) <=> Applied(x, p, t)
      BY <1>2, <2>5, AppliedSame
    <3> QED BY <1>2, <2>3, <2>5, <2>6, <3>1, <3>2
  <2>7. ~q.failed => Watched(c, q, SlotsOf(q.want) \ q.left)'
    BY <2>6 DEF Watched
  <2> QED BY <1>2, <1>3, <2>4, <2>5, <2>7 DEF PassKnown
<1> QED BY <1>5, <1>6, <1>7 DEF Known

\* Finishing a pass without an error leaves every child as the pass wanted it, or to be
\* taken up again.
LEMMA KnownFinish ==
    ASSUME TypeOK, NEW c \in Controllers, Known(c), FinishPass(c)
    PROVE  Known(c)'
<1>0. PICK p : p = pass[c]
  OBVIOUS
<1> DEFINE m == p.key
<1>1. PICK err \in BOOLEAN : Return(c, err) /\ (~err => p.left = {} /\ ~p.failed)
  BY <1>0 DEF FinishPass, FailPass, StatusBaseError, StatusUnchanged, StatusUpdate, AtStatus
<1>2. p # Idle
  BY <1>0 DEF FinishPass, FailPass, StatusBaseError, StatusUnchanged, StatusUpdate, AtStatus
<1>3. m \in ModelServices /\ p.uid \in 0..MaxUid /\ SlotsOf(p.want) \subseteq Slots
        /\ p \in Pass
  BY <1>0, <1>2, PassType
<1>4. pass'[c] = Idle /\ UNCHANGED <<objs, news, queue, usedBase, seenMsvc, seenObjs>>
  BY <1>1 DEF Return, TypeOK, PassesOK, caches, copies
<1>5. backoff[c] \subseteq backoff'[c] /\ (err => m \in backoff'[c])
  BY <1>0, <1>1, <1>3 DEF Return, TypeOK, QueuesOK
<1>6. EventsKnown(c)' /\ PassKnown(c)'
  <2>1. EventsKnown(c)'
    BY <1>4 DEF Known, EventsKnown, OwnersOf
  <2> QED BY <1>4, <2>1 DEF PassKnown
<1>7. ASSUME NEW n \in ModelServices, n # m
      PROVE  QuietKnown(c, n)'
  <2>1. QuietKnown(c, n) /\ ~Busy(c, n)
    BY <1>0, <1>7 DEF Known, Busy
  <2> QED BY <1>4, <1>5, <1>7, <2>1, QuietKept DEF Written
<1>8. QuietKnown(c, m)'
  <2> DEFINE q == PassOn(m, seenMsvc[c][m], usedBase[c][m])
  <2> SUFFICES ASSUME m \notin queue[c] \cup backoff'[c]
               PROVE  Renderable(q.spec, q.base, NoBase) /\ Watched(c, q, SlotsOf(q.want))'
    BY <1>4 DEF QuietKnown
  <2>1. ~err /\ p.left = {} /\ ~p.failed
    BY <1>1, <1>5
  <2>2. PassKnown(c)
    BY DEF Known
  <2>3. /\ p.want = Wanted(p.spec, p.base) /\ p.base = usedBase[c][m]
        /\ Renderable(p.spec, p.base, NoBase)
        /\ seenMsvc[c][m].spec = p.spec /\ seenMsvc[c][m].uid = p.uid
        /\ Watched(c, p, SlotsOf(p.want))
    BY <1>0, <1>2, <2>1, <2>2 DEF PassKnown
  <2>4. q.key = m /\ q.uid = p.uid /\ q.spec = p.spec /\ q.base = p.base
          /\ q.want = p.want
    BY <2>3 DEF PassOn
  <2>5. \A x, s : Applied(x, q, s) <=> Applied(x, p, s)
    BY <2>4, AppliedSame
  <2>6. Watched(c, q, SlotsOf(q.want))
    BY <2>3, <2>4, <2>5 DEF Watched
  <2>7. q' = q
    BY <1>4
  <2> HIDE DEF q
  <2> QED BY <1>4, <2>3, <2>4, <2>6, <2>7 DEF Watched
<1> QED BY <1>3, <1>6, <1>7, <1>8 DEF Known

\* Delivering an event about an object moves its owners from the event to the queue.
LEMMA KnownDeliverObj ==
    ASSUME TypeOK, NEW c \in Controllers, Known(c), NEW o \in Objects, DeliverObj(c, o)
    PROVE  Known(c)'
<1>1. /\ UNCHANGED <<objs, seenMsvc, pass, backoff, usedBase>>
      /\ queue'[c] = queue[c] \cup news[c][o]
      /\ news'[c] = [news[c] EXCEPT ![o] = {}]
      /\ seenObjs'[c] = [seenObjs[c] EXCEPT ![o] = objs[o]]
  BY DEF DeliverObj, Enqueue, server, TypeOK, QueuesOK, CachesOK
<1>2. \A w \in Objects : news[c][w] \subseteq news'[c][w] \cup queue'[c]
  BY <1>1 DEF TypeOK, QueuesOK
<1>3. EventsKnown(c)'
  <2>1. ASSUME NEW w \in Objects, seenObjs'[c][w] # objs'[w]
        PROVE  w # o /\ seenObjs'[c][w] = seenObjs[c][w] /\ news'[c][w] = news[c][w]
    BY <1>1, <2>1 DEF TypeOK, QueuesOK, CachesOK
  <2> QED BY <1>1, <2>1 DEF Known, EventsKnown, OwnersOf
<1>4. ASSUME NEW p, NEW slots \in SUBSET Slots, p.key \in ModelServices,
             Watched(c, p, slots)
      PROVE  Watched(c, p, slots)'
  <2>1. \A s \in slots : ObjectOf[p.key][s] \in Objects
    BY <1>4, ConstantsAssumption
  <2> QED BY <1>1, <1>2, <1>4, <2>1 DEF Watched
<1>5. PassKnown(c)'
  <2>1. PICK p : p = pass[c] /\ p = pass'[c]
    BY <1>1
  <2>2. CASE p # Idle
    <3>1. p.key \in ModelServices /\ SlotsOf(p.want) \ p.left \in SUBSET Slots
      BY <2>1, <2>2, PassType
    <3>2. ~p.failed => Watched(c, p, SlotsOf(p.want) \ p.left)'
      BY <1>4, <2>1, <2>2, <3>1 DEF Known, PassKnown
    <3> QED BY <1>1, <2>1, <3>2 DEF Known, PassKnown
  <2> QED BY <2>1, <2>2 DEF PassKnown
<1>6. ASSUME NEW m \in ModelServices
      PROVE  QuietKnown(c, m)'
  <2> DEFINE p == PassOn(m, seenMsvc[c][m], usedBase[c][m])
  <2>1. p' = p /\ p.key = m /\ SlotsOf(p.want) \in SUBSET Slots
    BY <1>1 DEF PassOn, SlotsOf
  <2>2. QuietKnown(c, m) /\ Busy(c, m)' = Busy(c, m)
    BY <1>1 DEF Known, Busy
  <2>3. PICK q : q = p
    OBVIOUS
  <2>4. Watched(c, q, SlotsOf(q.want)) => Watched(c, q, SlotsOf(q.want))'
    BY <1>4, <2>1, <2>3
  <2> QED BY <1>1, <2>1, <2>2, <2>3, <2>4 DEF QuietKnown
<1> QED BY <1>3, <1>5, <1>6 DEF Known

\* The informers' other events, the retries, the resync and a restart.
LEMMA KnownInformers ==
    ASSUME TypeOK, NEW c \in Controllers, Known(c),
           \/ \E m \in ModelServices : DeliverMsvc(c, m) \/ BackoffExpires(c, m)
           \/ DeliverBase(c)
           \/ Resync(c)
           \/ Restart(c)
    PROVE  Known(c)'
<1>1. ASSUME Written(c), queue[c] \subseteq queue'[c],
             UNCHANGED <<seenObjs[c], pass[c], usedBase[c]>>,
             backoff[c] \subseteq backoff'[c] \cup queue'[c],
             \A m \in ModelServices \ queue'[c] : UNCHANGED seenMsvc[c][m]
      PROVE  Known(c)'
  <2>1. EventsKnown(c)' /\ PassKnown(c)'
    BY <1>1, EventsKept, PassKept DEF Known
  <2>2. ASSUME NEW m \in ModelServices
        PROVE  QuietKnown(c, m)'
    <3>1. CASE m \in queue'[c]
      BY <3>1 DEF QuietKnown
    <3>2. CASE m \notin queue'[c]
      BY <1>1, <3>2, QuietKept DEF Known, Busy
    <3> QED BY <3>1, <3>2
  <2> QED BY <2>1, <2>2 DEF Known
<1>2. ASSUME NEW m \in ModelServices, DeliverMsvc(c, m)
      PROVE  Known(c)'
  <2>1. Written(c) /\ UNCHANGED <<seenObjs, pass, usedBase, backoff>>
    BY <1>2 DEF DeliverMsvc, server, Written
  <2>2. queue'[c] = queue[c] \cup {m}
          /\ \A n \in ModelServices \ {m} : seenMsvc'[c][n] = seenMsvc[c][n]
    BY <1>2 DEF DeliverMsvc, Enqueue, TypeOK, CachesOK, QueuesOK
  <2> QED BY <1>1, <2>1, <2>2
<1>3. ASSUME NEW m \in ModelServices, BackoffExpires(c, m)
      PROVE  Known(c)'
  <2>1. Written(c) /\ UNCHANGED <<seenObjs, seenMsvc, pass, usedBase>>
    BY <1>3 DEF BackoffExpires, server, caches, copies, Written
  <2>2. queue'[c] = queue[c] \cup {m} /\ backoff'[c] = backoff[c] \ {m}
    BY <1>3 DEF BackoffExpires, Enqueue, TypeOK, QueuesOK
  <2> QED BY <1>1, <2>1, <2>2
<1>4. CASE DeliverBase(c)
  <2>1. Written(c) /\ UNCHANGED <<seenObjs, seenMsvc, pass, usedBase, queue, backoff>>
    BY <1>4 DEF DeliverBase, server, Written
  <2> QED BY <1>1, <2>1
<1>5. CASE Resync(c)
  <2>1. Written(c) /\ UNCHANGED <<seenObjs, seenMsvc, pass, usedBase, backoff>>
    BY <1>5 DEF Resync, server, caches, copies, Written
  <2>2. queue[c] \subseteq queue'[c]
    BY <1>5 DEF Resync, Enqueue, TypeOK, QueuesOK
  <2> QED BY <1>1, <2>1, <2>2
<1>6. CASE Restart(c)
  <2>1. /\ pass'[c] = Idle /\ UNCHANGED <<msvc, objs>>
        /\ seenMsvc'[c] = msvc /\ seenObjs'[c] = objs
        /\ {m \in ModelServices : msvc[m].phase # "absent"} \subseteq queue'[c]
    BY <1>6 DEF Restart, server, TypeOK, CachesOK, PassesOK, QueuesOK
  <2>2. EventsKnown(c)' /\ PassKnown(c)'
    BY <2>1 DEF EventsKnown, PassKnown
  <2>3. \A m \in ModelServices : QuietKnown(c, m)'
    BY <2>1 DEF QuietKnown
  <2> QED BY <2>2, <2>3 DEF Known
<1> QED BY <1>2, <1>3, <1>4, <1>5, <1>6

-----------------------------------------------------------------------------
(* The cached ModelServices *)

\* Whoever writes a ModelService, and whoever receives the event: a copy without an
\* event on its way is up to date.
LEMMA MsvcKept ==
    ASSUME TypeOK, NEW c \in Controllers, MsvcKnown(c), [Next]_vars
    PROVE  MsvcKnown(c)'
<1>1. CASE UNCHANGED <<msvc, unseen, seenMsvc>>
  BY <1>1 DEF MsvcKnown
<1>2. ASSUME NEW m \in ModelServices, NEW x, WriteMsvc(m, x), UNCHANGED seenMsvc
      PROVE  MsvcKnown(c)'
  BY <1>2 DEF MsvcKnown, WriteMsvc, TypeOK, QueuesOK, ServerOK, MsvcOK
<1>3. ASSUME NEW m \in ModelServices, NEW x, SetMsvc(m, x)
      PROVE  MsvcKnown(c)'
  BY <1>2, <1>3 DEF SetMsvc, copies
<1>4. CASE Environment
  <2>1. ASSUME NEW m \in ModelServices,
               \/ CreateModelService(m) \/ EditSpec(m) \/ DeleteModelService(m)
               \/ MarkForDeletion(m) \/ FinishDeletion(m)
        PROVE  MsvcKnown(c)'
    BY <1>3, <2>1
    DEF CreateModelService, EditSpec, DeleteModelService, MarkForDeletion, FinishDeletion
  <2>2. ASSUME NEW o \in Objects,
               DeleteChild(o) \/ EditChild(o) \/ ReportReady(o) \/ CollectGarbage(o)
        PROVE  MsvcKnown(c)'
    BY <1>1, <2>2
    DEF DeleteChild, EditChild, ReportReady, CollectGarbage, SetObj, caches, copies
  <2>3. CASE EditBase
    BY <1>1, <2>3 DEF EditBase, caches, copies
  <2> QED BY <1>4, <2>1, <2>2, <2>3 DEF Environment
<1>5. ASSUME NEW d \in Controllers, Controller(d)
      PROVE  MsvcKnown(c)'
  <2>1. ASSUME NEW m \in ModelServices,
               Skip(d, m) \/ FailRender(d, m) \/ Begin(d, m) \/ BackoffExpires(d, m)
        PROVE  MsvcKnown(c)'
    BY <1>1, <2>1 DEF Skip, FailRender, Begin, BackoffExpires, server, caches, copies
  <2>2. ASSUME NEW s \in Slots, \/ Create(d, s) \/ Keep(d, s) \/ Update(d, s)
                                \/ Refuse(d, s) \/ Fault(d, s) \/ LostReply(d, s)
        PROVE  MsvcKnown(c)'
    BY <1>1, <2>2 DEF Create, Keep, Update, Call, Refuse, Fault, LostReply, Attempt,
                      caches, copies
  <2>3. CASE FinishPass(d)
    <3>1. pass[d] # Idle /\ UNCHANGED seenMsvc
      BY <2>3 DEF FinishPass, FailPass, StatusBaseError, StatusUnchanged, StatusUpdate,
                  AtStatus, Return, copies
    <3>2. pass[d].key \in ModelServices
      BY <3>1 DEF TypeOK, PassesOK, Pass
    <3>3. UNCHANGED <<msvc, unseen>> \/ \E x : WriteMsvc(pass[d].key, x)
      BY <2>3 DEF FinishPass, FailPass, StatusBaseError, StatusUnchanged, StatusUpdate
    <3> QED BY <1>1, <1>2, <3>1, <3>2, <3>3
  <2>4. ASSUME NEW m \in ModelServices, DeliverMsvc(d, m)
        PROVE  MsvcKnown(c)'
    BY <2>4 DEF DeliverMsvc, MsvcKnown, server, TypeOK, QueuesOK, CachesOK
  <2>5. ASSUME NEW o \in Objects, DeliverObj(d, o)
        PROVE  MsvcKnown(c)'
    BY <1>1, <2>5 DEF DeliverObj, server
  <2>6. CASE DeliverBase(d) \/ Resync(d)
    BY <1>1, <2>6 DEF DeliverBase, Resync, server, caches, copies
  <2>7. CASE Restart(d)
    BY <2>7 DEF Restart, MsvcKnown, server, TypeOK, QueuesOK, CachesOK
  <2> QED BY <1>5, <2>1, <2>2, <2>3, <2>4, <2>5, <2>6, <2>7 DEF Controller, CreateOrUpdate
<1> QED BY <1>1, <1>4, <1>5 DEF Next, vars, server, caches, copies

-----------------------------------------------------------------------------
(* All steps *)

\* What another controller does.
LEMMA OthersStep ==
    ASSUME TypeOK, NEW c \in Controllers, NEW d \in Controllers, d # c, Controller(d)
    PROVE  LeftAlone(c)
<1> DEFINE Others ==
      /\ UNCHANGED <<queue[c], backoff[c], pass[c], usedBase[c], seenMsvc[c], seenObjs[c]>>
      /\ unseen[c] \subseteq unseen'[c]
<1>1. ASSUME NEW m \in ModelServices, Skip(d, m) \/ FailRender(d, m) \/ Begin(d, m)
      PROVE  Others /\ Written(c)
  BY <1>1 DEF Skip, FailRender, Begin, Take, server, caches, copies, Written, TypeOK,
              QueuesOK, PassesOK
<1>2. ASSUME NEW s \in Slots, ChildStep(d, s)
      PROVE  Others /\ Written(c)
  <2>1. PICK ok \in BOOLEAN : Attempt(d, s, ok)
    BY <1>2 DEF ChildStep, Create, Keep, Update, Call, Refuse, Fault, LostReply, Current
  <2>2. Others
    BY <2>1 DEF Attempt, caches, copies, TypeOK, PassesOK
  <2>3. Target(d, s) \in Objects /\ Result(d, s) \in Object
    BY <2>1, AttemptPass, ResultType
  <2>4. Written(c)
    BY <1>2, <2>3 DEF Written, ChildStep, Create, Keep, Update, Call, Refuse, Fault,
                      LostReply
  <2> QED BY <2>2, <2>4
<1>3. ASSUME FinishPass(d)
      PROVE  Others /\ Written(c)
  <2>1. PICK err \in BOOLEAN : Return(d, err)
    BY <1>3 DEF FinishPass, FailPass, StatusBaseError, StatusUnchanged, StatusUpdate
  <2>2. unseen[c] \subseteq unseen'[c]
    BY <1>3 DEF FinishPass, FailPass, StatusBaseError, StatusUnchanged, StatusUpdate,
                WriteMsvc
  <2> QED BY <2>1, <2>2 DEF Return, copies, Written, TypeOK, PassesOK, QueuesOK
<1>4. ASSUME NEW m \in ModelServices, DeliverMsvc(d, m) \/ BackoffExpires(d, m)
      PROVE  Others /\ Written(c)
  BY <1>4 DEF DeliverMsvc, BackoffExpires, Enqueue, server, caches, copies, Written,
              TypeOK, QueuesOK, CachesOK
<1>5. ASSUME NEW o \in Objects, DeliverObj(d, o)
      PROVE  Others /\ Written(c)
  BY <1>5 DEF DeliverObj, Enqueue, server, Written, TypeOK, QueuesOK, CachesOK
<1>6. ASSUME DeliverBase(d) \/ Resync(d)
      PROVE  Others /\ Written(c)
  BY <1>6 DEF DeliverBase, Resync, Enqueue, server, caches, copies, Written, TypeOK,
              QueuesOK
<1>7. ASSUME Restart(d)
      PROVE  Others /\ Written(c)
  BY <1>7 DEF Restart, server, Written, TypeOK, QueuesOK, CachesOK, PassesOK
<1>8. Others /\ Written(c)
  BY <1>1, <1>2, <1>3, <1>4, <1>5, <1>6, <1>7 DEF Controller, CreateOrUpdate, ChildStep
<1> QED BY <1>8 DEF LeftAlone

\* What users, autoscalers and the garbage collector do: each writes one object, if any.
LEMMA EnvironmentLeaves ==
    ASSUME TypeOK, NEW c \in Controllers, Environment
    PROVE  LeftAlone(c)
<1>1. ASSUME NEW m \in ModelServices, NEW x, SetMsvc(m, x)
      PROVE  LeftAlone(c)
  BY <1>1 DEF LeftAlone, SetMsvc, WriteMsvc, copies, Written
<1>2. ASSUME NEW o \in Objects, NEW x \in Object \cup {NoObject}, SetObj(o, x)
      PROVE  LeftAlone(c)
  BY <1>2 DEF LeftAlone, SetObj, caches, copies, Written
<1>3. CASE EditBase
  BY <1>3 DEF LeftAlone, EditBase, caches, copies, Written
<1>4. ASSUME NEW m \in ModelServices,
             \/ CreateModelService(m) \/ EditSpec(m) \/ DeleteModelService(m)
             \/ MarkForDeletion(m) \/ FinishDeletion(m)
      PROVE  LeftAlone(c)
  BY <1>1, <1>4
  DEF CreateModelService, EditSpec, DeleteModelService, MarkForDeletion, FinishDeletion
<1>5. ASSUME NEW o \in Objects,
             DeleteChild(o) \/ EditChild(o) \/ ReportReady(o) \/ CollectGarbage(o)
      PROVE  LeftAlone(c)
  <2>1. PICK x : SetObj(o, x)
    BY <1>5 DEF DeleteChild, EditChild, ReportReady, CollectGarbage
  <2>2. TypeOK'
    BY <1>5, TypeEnvironment DEF Environment
  <2>3. x \in Object \cup {NoObject}
    BY <2>1, <2>2 DEF SetObj, Write, TypeOK, ServerOK
  <2> QED BY <1>2, <2>1, <2>3
<1> QED BY <1>3, <1>4, <1>5 DEF Environment

\* Whatever happens, a controller knows as much as before.
LEMMA KnownStep ==
    ASSUME TypeOK, NEW c \in Controllers, Known(c), [Next]_vars
    PROVE  Known(c)'
<1>1. CASE UNCHANGED vars
  BY <1>1, Bystander DEF LeftAlone, vars, server, caches, copies, Written
<1>2. CASE Controller(c)
  BY <1>2, KnownTake, KnownChildren, KnownFinish, KnownDeliverObj, KnownInformers
  DEF Controller, CreateOrUpdate, ChildStep
<1> QED BY <1>1, <1>2, Bystander, OthersStep, EnvironmentLeaves DEF Next

\* The initial states forget nothing: every ModelService there is is in the workqueue.
LEMMA KnownInit == ASSUME Init, NEW c \in Controllers PROVE Known(c)
<1>1. PICK spec \in [ModelServices -> Specs \cup {NoSpec}] :
        /\ msvc = [m \in ModelServices |->
             [phase |-> IF spec[m] = NoSpec THEN "absent" ELSE "live",
              uid |-> 0, spec |-> spec[m], status |-> EmptyStatus]]
        /\ queue = [d \in Controllers |-> {m \in ModelServices : spec[m] # NoSpec}]
  BY DEF Init
<1>2. EventsKnown(c) /\ PassKnown(c)
  BY DEF Init, EventsKnown, PassKnown
<1>3. \A m \in ModelServices : seenMsvc[c][m].phase = "live" => m \in queue[c]
  BY <1>1 DEF Init
<1> QED BY <1>2, <1>3 DEF Known, QuietKnown

\* The initial states.
LEMMA InitForgetsNothing == Init => NothingForgotten
<1>1. ASSUME Init, NEW c \in Controllers PROVE MsvcKnown(c)
  BY <1>1 DEF Init, MsvcKnown
<1> QED BY <1>1, TypeInit, KnownInit DEF NothingForgotten

\* Every step.
LEMMA StepForgetsNothing ==
    ASSUME NothingForgotten, [Next]_vars
    PROVE  NothingForgotten'
BY TypeStep, MsvcKept, KnownStep DEF NothingForgotten

\* Nothing is forgotten: what was rendered and applied still holds, or its key is
\* queued, backing off, in work, or about to be queued by an event.
THEOREM NothingForgottenHolds == Spec => []NothingForgotten
<1>1. NothingForgotten /\ [Next]_vars => NothingForgotten'
  BY StepForgetsNothing
<1> QED BY <1>1, InitForgetsNothing, PTL DEF Spec

\* When a controller has nothing left to do for a ModelService, every child is as wanted
\* (NoLostWakeup), for all constants.
THEOREM NoWakeupIsLost == Spec => []NoLostWakeup
<1>1. ASSUME NothingForgotten PROVE NoLostWakeup
  <2> SUFFICES ASSUME NEW c \in Controllers, NEW m \in ModelServices, Settled(c, m)
               PROVE  AllApplied(m, usedBase[c][m], Slots)
    BY DEF NoLostWakeup
  <2> DEFINE p == PassOn(m, msvc[m], usedBase[c][m])
  <2>1. QuietKnown(c, m) /\ seenMsvc[c][m] = msvc[m]
    BY <1>1 DEF NothingForgotten, Known, MsvcKnown, Settled
  <2>2. Renderable(p.spec, p.base, NoBase) /\ Watched(c, p, SlotsOf(p.want))
    BY <2>1 DEF QuietKnown, Settled
  <2>3. p.key = m /\ p.spec = msvc[m].spec /\ p.base = usedBase[c][m]
          /\ SlotsOf(p.want) \subseteq Slots
    BY DEF PassOn, SlotsOf
  <2>4. ASSUME NEW s \in SlotsOf(p.want), Owned(p.spec, p.base, s)
        PROVE  Applied(objs[ObjectOf[m][s]], p, s)
    <3>1. ObjectOf[m][s] \in Objects
      BY <2>3, ConstantsAssumption
    <3> HIDE DEF p
    <3> QED BY <2>2, <2>3, <2>4, <3>1 DEF Watched, Settled
  <2> HIDE DEF p
  <2>5. Renderable(msvc[m].spec, usedBase[c][m], NoBase)
          /\ \A s \in SlotsOf(p.want) \cap Slots : Owned(p.spec, usedBase[c][m], s) =>
               Applied(objs[ObjectOf[m][s]], p, s)
    BY <2>2, <2>3, <2>4
  <2> QED BY <2>5 DEF AllApplied, p
<1> QED BY <1>1, NothingForgottenHolds, PTL
=============================================================================
