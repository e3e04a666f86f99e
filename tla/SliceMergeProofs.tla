--------------------------- MODULE SliceMergeProofs ---------------------------
(***************************************************************************)
(* What the merge of two lists holds, whatever the lists: the lemmas on    *)
(* genericSliceTransformer that the theorems on deployments rest on.       *)
(***************************************************************************)
EXTENDS SliceMerge, TLAPS, NaturalsInduction, WellFoundedInduction

LEMMA Least ==
    ASSUME NEW T \in SUBSET Nat, T # {}
    PROVE  \E x \in T : \A y \in T : x <= y
<1>1. PICK x \in T : \A y \in T : <<y, x>> \notin OpToRel(<, Nat)
  BY NatLessThanWellFounded, WFMin
<1>2. \A y \in T : ~(y < x)
  BY <1>1 DEF OpToRel
<1> QED
  BY <1>2

\* Short lists.
LEMMA Short ==
    ASSUME NEW S, NEW a \in S, NEW b \in S
    PROVE  /\ <<>> \in Seq(S) /\ <<a>> \in Seq(S) /\ <<a, b>> \in Seq(S)
           /\ Items(<<>>) = {} /\ Items(<<a>>) = {a}
           /\ Names(<<>>) = {}
<1>1. <<>> \in Seq(S) /\ <<a>> \in Seq(S) /\ <<a, b>> \in Seq(S)
  OBVIOUS
<1>2. Items(<<>>) = {} /\ Items(<<a>>) = {a} /\ Names(<<>>) = {}
  BY DEF Items, Names
<1> QED
  BY <1>1, <1>2

\* The last item of a name is there, and is the last.
LEMMA LastNamedIs ==
    ASSUME NEW S, NEW list \in Seq(S), NEW n \in Names(list)
    PROVE  \E k \in DOMAIN list :
             /\ list[k].name = n
             /\ \A j \in DOMAIN list : list[j].name = n => j <= k
             /\ LastNamed(list, n) = list[k]
<1> DEFINE at == {j \in DOMAIN list : list[j].name = n}
           back == {Len(list) - j : j \in at}
<1>1. DOMAIN list = 1..Len(list) /\ Len(list) \in Nat
  OBVIOUS
<1>2. back \in SUBSET Nat /\ back # {}
  BY <1>1 DEF Names
<1>3. PICK x \in back : \A y \in back : x <= y
  <2> HIDE DEF back
  <2> QED
    BY <1>2, Least
<1>4. PICK k \in at : x = Len(list) - k
  OBVIOUS
<1>5. \A j \in at : j <= k
  <2> TAKE j \in at
  <2>1. Len(list) - j \in back
    OBVIOUS
  <2>2. x <= Len(list) - j
    BY <1>3, <2>1
  <2>3. j \in Nat /\ k \in Nat
    BY <1>1
  <2> HIDE DEF at, back
  <2> QED
    BY <1>1, <1>4, <2>2, <2>3
<1>6. \E i \in DOMAIN list :
         list[i].name = n /\ \A j \in DOMAIN list : list[j].name = n => j <= i
  BY <1>4, <1>5
<1> QED
  BY <1>6 DEF LastNamed

-----------------------------------------------------------------------------
(* Unmatched *)

UnmatchedUpTo(dst, src, F, n) ==
    F = [i \in 0..n |->
           IF i = 0 THEN <<>>
           ELSE IF src[i].name \in CommonNames(dst, src)
                THEN F[i - 1]
                ELSE Append(F[i - 1], src[i])]

\* The recursion is well defined.
LEMMA UnmatchedIsDefined ==
    ASSUME NEW dst, NEW src, NEW n \in Nat
    PROVE  \E F : UnmatchedUpTo(dst, src, F, n)
<1> DEFINE bad == {m \in Nat : ~ \E F : UnmatchedUpTo(dst, src, F, m)}
<1> SUFFICES ASSUME bad # {} PROVE FALSE
  OBVIOUS
<1>1. PICK m \in bad : \A y \in bad : m <= y
  <2>1. bad \in SUBSET Nat
    OBVIOUS
  <2> HIDE DEF bad
  <2> QED
    BY <2>1, Least
<1>2. CASE m = 0
  <2> DEFINE F == [i \in 0..0 |-> <<>>]
  <2>1. UnmatchedUpTo(dst, src, F, 0)
    BY DEF UnmatchedUpTo
  <2> QED
    BY <1>1, <1>2, <2>1
<1>3. CASE m # 0
  <2>1. m - 1 \in Nat /\ m - 1 \notin bad
    BY <1>1, <1>3
  <2>2. PICK F : UnmatchedUpTo(dst, src, F, m - 1)
    BY <2>1
  <2> DEFINE G == [i \in 0..m |->
                     IF i = 0 THEN <<>>
                     ELSE IF src[i].name \in CommonNames(dst, src)
                          THEN F[i - 1]
                          ELSE Append(F[i - 1], src[i])]
  <2>3. \A i \in 0..(m - 1) : G[i] = F[i]
    <3> TAKE i \in 0..(m - 1)
    <3>1. F[i] = IF i = 0 THEN <<>>
                 ELSE IF src[i].name \in CommonNames(dst, src)
                      THEN F[i - 1]
                      ELSE Append(F[i - 1], src[i])
      BY <2>2 DEF UnmatchedUpTo
    <3> QED
      BY <3>1, <2>1
  <2>4. \A i \in 0..m : i # 0 => G[i - 1] = F[i - 1]
    <3>1. \A i \in 0..m : i # 0 => i - 1 \in 0..(m - 1)
      BY <2>1
    <3> HIDE DEF G
    <3> QED
      BY <2>3, <3>1
  <2>5. UnmatchedUpTo(dst, src, G, m)
    BY <2>4 DEF UnmatchedUpTo
  <2> QED
    BY <1>1, <2>5
<1> QED
  BY <1>2, <1>3

\* What is appended is what dst has no name for, all of it.
LEMMA UnmatchedHolds ==
    ASSUME NEW S, NEW dst, NEW src \in Seq(S)
    PROVE  /\ Unmatched(dst, src) \in Seq(S)
           /\ Items(Unmatched(dst, src))
                = {item \in Items(src) : item.name \notin Names(dst)}
<1> DEFINE F == CHOOSE G : UnmatchedUpTo(dst, src, G, Len(src))
           left(i) == {src[j] : j \in {k \in 1..i : src[k].name \notin CommonNames(dst, src)}}
           good(i) == F[i] \in Seq(S) /\ Items(F[i]) = left(i)
           bad == {m \in 0..Len(src) : ~good(m)}
<1>1. Len(src) \in Nat /\ DOMAIN src = 1..Len(src)
  OBVIOUS
<1>2. UnmatchedUpTo(dst, src, F, Len(src))
  BY <1>1, UnmatchedIsDefined
<1>3. Unmatched(dst, src) = F[Len(src)]
  BY DEF Unmatched, UnmatchedUpTo
<1> HIDE DEF F
<1>4. F[0] = <<>>
  BY <1>1, <1>2 DEF UnmatchedUpTo
<1>5. \A i \in 1..Len(src) :
        F[i] = IF src[i].name \in CommonNames(dst, src)
               THEN F[i - 1] ELSE Append(F[i - 1], src[i])
  <2> TAKE i \in 1..Len(src)
  <2>1. i \in 0..Len(src) /\ i # 0
    BY <1>1
  <2> QED
    BY <1>2, <2>1, Zenon DEF UnmatchedUpTo
<1>6. good(0)
  BY <1>4 DEF Items
<1>7. \A i \in 1..Len(src) : good(i - 1) => good(i)
  <2> SUFFICES ASSUME NEW i \in 1..Len(src), good(i - 1) PROVE good(i)
    OBVIOUS
  <2>1. i - 1 \in Nat /\ src[i] \in S
    BY <1>1
  <2>2. CASE src[i].name \in CommonNames(dst, src)
    <3>1. left(i) = left(i - 1)
      BY <2>1, <2>2
    <3> QED
      BY <3>1, <2>2, <1>5
  <2>3. CASE src[i].name \notin CommonNames(dst, src)
    <3>1. F[i] = Append(F[i - 1], src[i])
      BY <1>5, <2>3
    <3>2. left(i) = left(i - 1) \cup {src[i]}
      BY <2>1, <2>3
    <3>3. Items(Append(F[i - 1], src[i])) = Items(F[i - 1]) \cup {src[i]}
      <4> DEFINE s == F[i - 1]
                 t == Append(s, src[i])
      <4>1. s \in Seq(S) /\ t \in Seq(S)
        BY <2>1
      <4>2. DOMAIN t = 1..(Len(s) + 1) /\ DOMAIN s = 1..Len(s) /\ Len(s) \in Nat
        BY <4>1
      <4>3. t[Len(s) + 1] = src[i] /\ \A j \in 1..Len(s) : t[j] = s[j]
        BY <4>1, <2>1
      <4> HIDE DEF s, t
      <4>4. Items(t) = Items(s) \cup {src[i]}
        BY <4>2, <4>3 DEF Items
      <4> QED
        BY <4>4 DEF s, t
    <3>4. F[i] \in Seq(S)
      BY <3>1, <2>1
    <3>5. Items(F[i]) = left(i)
      BY <3>1, <3>2, <3>3
    <3> QED
      BY <3>4, <3>5
  <2> QED
    BY <2>2, <2>3
<1>8. bad = {}
  <2> SUFFICES ASSUME bad # {} PROVE FALSE
    OBVIOUS
  <2>1. PICK m \in bad : \A y \in bad : m <= y
    <3>1. bad \in SUBSET Nat
      BY <1>1
    <3> HIDE DEF bad
    <3> QED
      BY <3>1, Least
  <2>2. m \in 1..Len(src)
    <3>1. m \in 0..Len(src) /\ ~good(m)
      OBVIOUS
    <3> HIDE DEF good
    <3> QED
      BY <3>1, <1>6, <1>1
  <2>3. m - 1 \notin bad
    <3>1. ~(m <= m - 1)
      BY <2>2, <1>1
    <3> HIDE DEF bad
    <3> QED
      BY <2>1, <3>1
  <2>4. good(m - 1)
    <3> HIDE DEF good
    <3> QED
      BY <2>2, <2>3, <1>1
  <2>5. good(m)
    <3> HIDE DEF good
    <3> QED
      BY <1>7, <2>2, <2>4
  <2> QED
    BY <2>1, <2>5
<1>9. good(Len(src))
  <2> HIDE DEF good
  <2> QED
    BY <1>8, <1>1
<1>10. left(Len(src)) = {item \in Items(src) : item.name \notin Names(dst)}
  BY <1>1 DEF Items, Names, CommonNames
<1> QED
  BY <1>3, <1>9, <1>10

-----------------------------------------------------------------------------
(* Merging *)

LEMMA ConcatHolds ==
    ASSUME NEW S, NEW a \in Seq(S), NEW b \in Seq(S)
    PROVE  /\ a \o b \in Seq(S)
           /\ Items(a \o b) = Items(a) \cup Items(b)
<1> DEFINE c == a \o b
<1>1. Len(a) \in Nat /\ Len(b) \in Nat /\ DOMAIN a = 1..Len(a) /\ DOMAIN b = 1..Len(b)
  OBVIOUS
<1>2. c \in Seq(S) /\ DOMAIN c = 1..(Len(a) + Len(b))
  OBVIOUS
<1>3. \A i \in 1..Len(a) : c[i] = a[i]
  BY <1>1
<1>4. \A j \in 1..Len(b) : Len(a) + j \in DOMAIN c /\ c[Len(a) + j] = b[j]
  BY <1>1
<1>5. \A i \in DOMAIN c : i \notin 1..Len(a) =>
        /\ i - Len(a) \in 1..Len(b)
        /\ c[i] = b[i - Len(a)]
  BY <1>1
<1>6. \A i \in 1..Len(a) : i \in DOMAIN c
  BY <1>1, <1>2
<1> HIDE DEF c
<1>7. Items(c) \subseteq Items(a) \cup Items(b)
  BY <1>1, <1>3, <1>5 DEF Items
<1>8. Items(a) \cup Items(b) \subseteq Items(c)
  <2>1. Items(a) \subseteq Items(c)
    BY <1>1, <1>3, <1>6 DEF Items
  <2>2. Items(b) \subseteq Items(c)
    BY <1>1, <1>4 DEF Items
  <2> QED
    BY <2>1, <2>2
<1> QED
  BY <1>2, <1>7, <1>8 DEF c

\* A list rewritten item by item.
LEMMA RewrittenHolds ==
    ASSUME NEW S, NEW list \in Seq(S), NEW T, NEW f, f = [i \in DOMAIN list |-> f[i]],
           \A i \in DOMAIN list : f[i] \in T
    PROVE  f \in Seq(T) /\ DOMAIN f = DOMAIN list /\ Len(f) = Len(list)
<1>1. DOMAIN list = 1..Len(list) /\ Len(list) \in Nat
  OBVIOUS
<1> QED
  BY <1>1

LEMMA NamesOfItems ==
    ASSUME NEW list
    PROVE  /\ Names(list) = {item.name : item \in Items(list)}
           /\ \A item \in Items(list) : item.name \in Names(list)
  BY DEF Names, Items

LEMMA LastNamedIsItem ==
    ASSUME NEW S, NEW list \in Seq(S), NEW n \in Names(list)
    PROVE  /\ LastNamed(list, n) \in Items(list)
           /\ LastNamed(list, n) \in S
           /\ LastNamed(list, n).name = n
  BY LastNamedIs DEF Items

\* The two halves of a merge, of which the first is dst, item by item.
LEMMA MergeHolds ==
    ASSUME NEW S, NEW dst \in Seq(S), NEW src \in Seq(S),
           NEW head, head = [i \in DOMAIN dst |-> head[i]],
           \A i \in DOMAIN dst : head[i] \in S
    PROVE  /\ head \o Unmatched(dst, src) \in Seq(S)
           /\ Items(head \o Unmatched(dst, src))
                = {head[i] : i \in DOMAIN dst}
                  \cup {item \in Items(src) : item.name \notin Names(dst)}
<1>1. head \in Seq(S) /\ DOMAIN head = DOMAIN dst
  BY RewrittenHolds
<1>2. Items(head) = {head[i] : i \in DOMAIN dst}
  BY <1>1 DEF Items
<1>3. Unmatched(dst, src) \in Seq(S)
  BY UnmatchedHolds
<1>4. Items(Unmatched(dst, src)) = {item \in Items(src) : item.name \notin Names(dst)}
  BY UnmatchedHolds
<1> QED
  BY <1>1, <1>2, <1>3, <1>4, ConcatHolds

\* What a merge by name holds: dst's items, with src's of their name, and what only
\* src names.
MergedItems(dst, src, Merge(_, _)) ==
    {IF item.name \in Names(src) THEN Merge(item, LastNamed(src, item.name)) ELSE item :
       item \in Items(dst)}
    \cup {item \in Items(src) : item.name \notin Names(dst)}

LEMMA MergeEnvVarType ==
    ASSUME NEW dst \in EnvVars, NEW src \in EnvVars
    PROVE  MergeEnvVar(dst, src) \in EnvVars
  BY DEF EnvVars, MergeEnvVar, Override

LEMMA MergedEnv ==
    ASSUME NEW dst \in Seq(EnvVars), NEW src \in Seq(EnvVars)
    PROVE  /\ MergeByName(dst, src, MergeEnvVar) \in Seq(EnvVars)
           /\ Items(MergeByName(dst, src, MergeEnvVar)) = MergedItems(dst, src, MergeEnvVar)
<1> DEFINE head == [i \in DOMAIN dst |->
                      IF dst[i].name \in CommonNames(dst, src)
                      THEN MergeEnvVar(dst[i], LastNamed(src, dst[i].name))
                      ELSE dst[i]]
<1>1. \A i \in DOMAIN dst :
        /\ dst[i] \in EnvVars
        /\ dst[i].name \in CommonNames(dst, src) <=> dst[i].name \in Names(src)
  BY DEF CommonNames, Names
<1>2. \A i \in DOMAIN dst : head[i] \in EnvVars
  BY <1>1, LastNamedIsItem, MergeEnvVarType
<1>3. head = [i \in DOMAIN dst |-> head[i]]
  OBVIOUS
<1>4. {head[i] : i \in DOMAIN dst}
        = {IF item.name \in Names(src)
           THEN MergeEnvVar(item, LastNamed(src, item.name)) ELSE item : item \in Items(dst)}
  BY <1>1 DEF Items
<1>5. MergeByName(dst, src, MergeEnvVar) = head \o Unmatched(dst, src)
  BY DEF MergeByName
<1> HIDE DEF head
<1>6. /\ head \o Unmatched(dst, src) \in Seq(EnvVars)
      /\ Items(head \o Unmatched(dst, src))
           = {head[i] : i \in DOMAIN dst}
             \cup {item \in Items(src) : item.name \notin Names(dst)}
  BY <1>2, <1>3, MergeHolds
<1> QED
  BY <1>4, <1>5, <1>6 DEF MergedItems

LEMMA MergeParentRefType ==
    ASSUME NEW dst \in ParentRefs, NEW src \in ParentRefs
    PROVE  MergeParentRef(dst, src) \in ParentRefs
  BY DEF ParentRefs, MergeParentRef, Override

LEMMA MergedParentRefs ==
    ASSUME NEW dst \in Seq(ParentRefs), NEW src \in Seq(ParentRefs)
    PROVE  /\ MergeByName(dst, src, MergeParentRef) \in Seq(ParentRefs)
           /\ Items(MergeByName(dst, src, MergeParentRef)) = MergedItems(dst, src, MergeParentRef)
<1> DEFINE head == [i \in DOMAIN dst |->
                      IF dst[i].name \in CommonNames(dst, src)
                      THEN MergeParentRef(dst[i], LastNamed(src, dst[i].name))
                      ELSE dst[i]]
<1>1. \A i \in DOMAIN dst :
        /\ dst[i] \in ParentRefs
        /\ dst[i].name \in CommonNames(dst, src) <=> dst[i].name \in Names(src)
  BY DEF CommonNames, Names
<1>2. \A i \in DOMAIN dst : head[i] \in ParentRefs
  BY <1>1, LastNamedIsItem, MergeParentRefType
<1>3. head = [i \in DOMAIN dst |-> head[i]]
  OBVIOUS
<1>4. {head[i] : i \in DOMAIN dst}
        = {IF item.name \in Names(src)
           THEN MergeParentRef(item, LastNamed(src, item.name)) ELSE item : item \in Items(dst)}
  BY <1>1 DEF Items
<1>5. MergeByName(dst, src, MergeParentRef) = head \o Unmatched(dst, src)
  BY DEF MergeByName
<1> HIDE DEF head
<1>6. /\ head \o Unmatched(dst, src) \in Seq(ParentRefs)
      /\ Items(head \o Unmatched(dst, src))
           = {head[i] : i \in DOMAIN dst}
             \cup {item \in Items(src) : item.name \notin Names(dst)}
  BY <1>2, <1>3, MergeHolds
<1> QED
  BY <1>4, <1>5, <1>6 DEF MergedItems

LEMMA MergeContainerType ==
    ASSUME NEW dst \in Containers, NEW src \in Containers
    PROVE  MergeContainer(dst, src) \in Containers
<1>1. Override(dst.image, src.image) \in STRING
  BY DEF Containers, Override
<1>2. (IF src.command = <<>> THEN dst.command ELSE src.command) \in Seq(STRING)
  BY DEF Containers
<1>3. src.args \o dst.args \in Seq(Seq(STRING))
  BY ConcatHolds DEF Containers
<1>4. MergeByName(dst.env, src.env, MergeEnvVar) \in Seq(EnvVars)
  BY MergedEnv DEF Containers
<1>5. dst.mounts \o src.mounts \in Seq(Mounts)
  BY ConcatHolds DEF Containers
<1> QED
  BY <1>1, <1>2, <1>3, <1>4, <1>5 DEF MergeContainer, Containers

LEMMA MergedContainers ==
    ASSUME NEW dst \in Seq(Containers), NEW src \in Seq(Containers)
    PROVE  /\ MergeByName(dst, src, MergeContainer) \in Seq(Containers)
           /\ Items(MergeByName(dst, src, MergeContainer)) = MergedItems(dst, src, MergeContainer)
<1> DEFINE head == [i \in DOMAIN dst |->
                      IF dst[i].name \in CommonNames(dst, src)
                      THEN MergeContainer(dst[i], LastNamed(src, dst[i].name))
                      ELSE dst[i]]
<1>1. \A i \in DOMAIN dst :
        /\ dst[i] \in Containers
        /\ dst[i].name \in CommonNames(dst, src) <=> dst[i].name \in Names(src)
  BY DEF CommonNames, Names
<1>2. \A i \in DOMAIN dst : head[i] \in Containers
  BY <1>1, LastNamedIsItem, MergeContainerType
<1>3. head = [i \in DOMAIN dst |-> head[i]]
  OBVIOUS
<1>4. {head[i] : i \in DOMAIN dst}
        = {IF item.name \in Names(src)
           THEN MergeContainer(item, LastNamed(src, item.name)) ELSE item : item \in Items(dst)}
  BY <1>1 DEF Items
<1>5. MergeByName(dst, src, MergeContainer) = head \o Unmatched(dst, src)
  BY DEF MergeByName
<1> HIDE DEF head
<1>6. /\ head \o Unmatched(dst, src) \in Seq(Containers)
      /\ Items(head \o Unmatched(dst, src))
           = {head[i] : i \in DOMAIN dst}
             \cup {item \in Items(src) : item.name \notin Names(dst)}
  BY <1>2, <1>3, MergeHolds
<1> QED
  BY <1>4, <1>5, <1>6 DEF MergedItems
-----------------------------------------------------------------------------
(* Names apart *)

NamesApart(list) == \A i, j \in DOMAIN list : list[i].name = list[j].name => i = j

LEMMA ItemsApart ==
    ASSUME NEW list, NamesApart(list), NEW x \in Items(list), NEW y \in Items(list),
           x.name = y.name
    PROVE  x = y
  BY DEF NamesApart, Items

\* Two lists without a name in common.
LEMMA ConcatApart ==
    ASSUME NEW S, NEW a \in Seq(S), NEW b \in Seq(S), NamesApart(a), NamesApart(b),
           Names(a) \cap Names(b) = {}
    PROVE  NamesApart(a \o b)
<1> DEFINE c == a \o b
           m == Len(a)
           n == Len(b)
<1>1. /\ m \in Nat /\ n \in Nat /\ DOMAIN a = 1..m /\ DOMAIN b = 1..n
      /\ DOMAIN c = 1..(m + n)
      /\ \A i \in 1..m : c[i] = a[i]
      /\ \A i \in 1..(m + n) : i \notin 1..m => i - m \in 1..n /\ c[i] = b[i - m]
  OBVIOUS
<1> HIDE DEF c, m, n
<1>2. \A i \in 1..m, j \in 1..n : a[i].name # b[j].name
  BY <1>1 DEF Names
<1> SUFFICES ASSUME NEW i \in 1..(m + n), NEW j \in 1..(m + n), c[i].name = c[j].name
             PROVE  i = j
  BY <1>1 DEF NamesApart, c
<1>3. CASE i \in 1..m /\ j \in 1..m
  BY <1>1, <1>3 DEF NamesApart
<1>4. CASE i \notin 1..m /\ j \notin 1..m
  <2>1. i - m = j - m
    BY <1>1, <1>4 DEF NamesApart
  <2> QED
    BY <2>1, <1>1
<1>5. CASE i \in 1..m <=> j \notin 1..m
  BY <1>1, <1>2, <1>5
<1> QED
  BY <1>3, <1>4, <1>5

\* A list that grows by a name it does not have.
LEMMA AppendApart ==
    ASSUME NEW S, NEW list \in Seq(S), NEW x \in S, NamesApart(list),
           x.name \notin Names(list)
    PROVE  /\ Append(list, x) \in Seq(S) /\ NamesApart(Append(list, x))
           /\ Names(Append(list, x)) = Names(list) \cup {x.name}
<1> DEFINE t == Append(list, x)
           n == Len(list)
<1>1. /\ t \in Seq(S) /\ n \in Nat /\ DOMAIN list = 1..n /\ DOMAIN t = 1..(n + 1)
      /\ t[n + 1] = x /\ \A i \in 1..n : t[i] = list[i]
      /\ \A i \in 1..(n + 1) : i = n + 1 \/ i \in 1..n
      /\ n + 1 \in 1..(n + 1) /\ \A i \in 1..n : i \in 1..(n + 1)
  OBVIOUS
<1> HIDE DEF t, n
<1>2. NamesApart(t)
  BY <1>1 DEF NamesApart, Names
<1>3. Names(t) = Names(list) \cup {x.name}
  BY <1>1 DEF Names
<1> QED
  BY <1>1, <1>2, <1>3 DEF t

\* What is appended has each name once if src has.
LEMMA UnmatchedApart ==
    ASSUME NEW S, NEW dst, NEW src \in Seq(S), NamesApart(src)
    PROVE  NamesApart(Unmatched(dst, src))
<1> DEFINE F == CHOOSE G : UnmatchedUpTo(dst, src, G, Len(src))
           good == {i \in 0..Len(src) :
                      /\ F[i] \in Seq(S) /\ NamesApart(F[i])
                      /\ Names(F[i]) \subseteq {src[k].name : k \in 1..i}}
           bad == {i \in 0..Len(src) : i \notin good}
<1>1. Len(src) \in Nat /\ DOMAIN src = 1..Len(src)
  OBVIOUS
<1>2. UnmatchedUpTo(dst, src, F, Len(src))
  BY <1>1, UnmatchedIsDefined
<1>3. Unmatched(dst, src) = F[Len(src)]
  BY DEF Unmatched, UnmatchedUpTo
<1> HIDE DEF F
<1>4. 0 \in good
  <2>1. F[0] = <<>>
    BY <1>1, <1>2 DEF UnmatchedUpTo
  <2>2. <<>> \in Seq(S) /\ NamesApart(<<>>) /\ Names(<<>>) = {}
    BY DEF NamesApart, Names
  <2>3. /\ F[0] \in Seq(S) /\ NamesApart(F[0])
        /\ Names(F[0]) \subseteq {src[k].name : k \in 1..0}
    BY <2>1, <2>2
  <2>4. 0 \in 0..Len(src)
    BY <1>1
  <2> QED
    BY <2>3, <2>4
<1>5. ASSUME NEW i \in 1..Len(src), i - 1 \in good PROVE i \in good
  <2>1. F[i] = IF src[i].name \in CommonNames(dst, src)
               THEN F[i - 1] ELSE Append(F[i - 1], src[i])
    <3>1. i \in 0..Len(src) /\ i # 0
      BY <1>1
    <3> QED
      BY <1>2, <3>1, Zenon DEF UnmatchedUpTo
  <2>2. /\ F[i - 1] \in Seq(S) /\ NamesApart(F[i - 1])
        /\ Names(F[i - 1]) \subseteq {src[k].name : k \in 1..(i - 1)}
    BY <1>5
  <2>3. src[i] \in S /\ i \in 0..Len(src)
    BY <1>1
  <2>4. /\ src[i].name \notin Names(F[i - 1])
        /\ Names(F[i - 1]) \cup {src[i].name} \subseteq {src[k].name : k \in 1..i}
    <3>1. \A k \in 1..(i - 1) : k \in DOMAIN src /\ k \in 1..i /\ k # i
      BY <1>1
    <3>2. i \in DOMAIN src /\ i \in 1..i
      BY <1>1
    <3>3. \A k \in 1..(i - 1) : src[k].name # src[i].name
      BY <3>1, <3>2 DEF NamesApart
    <3> QED
      BY <2>2, <3>1, <3>2, <3>3
  <2>5. /\ Append(F[i - 1], src[i]) \in Seq(S) /\ NamesApart(Append(F[i - 1], src[i]))
        /\ Names(Append(F[i - 1], src[i])) = Names(F[i - 1]) \cup {src[i].name}
    BY <2>2, <2>3, <2>4, AppendApart
  <2> QED
    BY <2>1, <2>2, <2>3, <2>4, <2>5
<1>6. bad = {}
  <2> SUFFICES ASSUME bad # {} PROVE FALSE
    OBVIOUS
  <2>1. bad \in SUBSET Nat
    BY <1>1
  <2>2. \A i \in bad : i \in 0..Len(src) /\ i \notin good
    OBVIOUS
  <2>3. \A i \in 0..Len(src) : i \notin good => i \in bad
    OBVIOUS
  <2> HIDE DEF good, bad
  <2>4. PICK i \in bad : \A k \in bad : i <= k
    BY <2>1, Least
  <2>5. i \in 1..Len(src) /\ i - 1 \in 0..Len(src) /\ ~(i <= i - 1)
    BY <2>2, <1>1, <1>4
  <2>6. i - 1 \in good
    BY <2>3, <2>4, <2>5
  <2> QED
    BY <1>5, <2>2, <2>5, <2>6
<1>7. Len(src) \in good
  <2> HIDE DEF good
  <2> QED
    BY <1>1, <1>6
<1> QED
  BY <1>3, <1>7

\* A merge by name keeps names apart: dst's stay, what is appended has none of them.
LEMMA MergeApart ==
    ASSUME NEW S, NEW dst \in Seq(S), NEW src \in Seq(S),
           NamesApart(dst), NamesApart(src),
           NEW head, head = [i \in DOMAIN dst |-> head[i]],
           \A i \in DOMAIN dst : head[i] \in S /\ head[i].name = dst[i].name
    PROVE  NamesApart(head \o Unmatched(dst, src))
<1>1. head \in Seq(S) /\ DOMAIN head = DOMAIN dst
  BY RewrittenHolds
<1>2. NamesApart(head) /\ Names(head) = Names(dst)
  BY <1>1 DEF NamesApart, Names
<1>3. Unmatched(dst, src) \in Seq(S) /\ NamesApart(Unmatched(dst, src))
  BY UnmatchedHolds, UnmatchedApart
<1>4. Names(Unmatched(dst, src)) \cap Names(dst) = {}
  <2>1. Items(Unmatched(dst, src))
          = {item \in Items(src) : item.name \notin Names(dst)}
    BY UnmatchedHolds
  <2> QED
    BY <2>1, NamesOfItems
<1> QED
  BY <1>1, <1>2, <1>3, <1>4, ConcatApart

LEMMA MergedContainersApart ==
    ASSUME NEW dst \in Seq(Containers), NEW src \in Seq(Containers),
           NamesApart(dst), NamesApart(src)
    PROVE  NamesApart(MergeByName(dst, src, MergeContainer))
<1> DEFINE head == [i \in DOMAIN dst |->
                      IF dst[i].name \in CommonNames(dst, src)
                      THEN MergeContainer(dst[i], LastNamed(src, dst[i].name))
                      ELSE dst[i]]
<1>1. \A i \in DOMAIN dst :
        /\ dst[i] \in Containers
        /\ dst[i].name \in CommonNames(dst, src) => dst[i].name \in Names(src)
  BY DEF CommonNames
<1>2. \A i \in DOMAIN dst : head[i] \in Containers /\ head[i].name = dst[i].name
  BY <1>1, LastNamedIsItem, MergeContainerType DEF MergeContainer
<1>3. head = [i \in DOMAIN dst |-> head[i]]
  OBVIOUS
<1>4. MergeByName(dst, src, MergeContainer) = head \o Unmatched(dst, src)
  BY DEF MergeByName
<1> HIDE DEF head
<1> QED
  BY <1>2, <1>3, <1>4, MergeApart
=============================================================================
