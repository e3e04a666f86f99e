---------------------------- MODULE ServicesProofs ----------------------------
(***************************************************************************)
(* Many ModelServices: generate shows what the cluster ends up with        *)
(* (PreviewAgrees, from NoLostWakeup), and children are named apart        *)
(* (NamesApart, from what is left of a plain name and its suffix).         *)
(***************************************************************************)
EXTENDS Services, WakeupProofs, NaturalsInduction, WellFoundedInduction

\* generate and the controller merge alike.
LEMMA PrintedWanted ==
    ASSUME NEW spec \in Specs, NEW b \in Bases, Renderable(spec, b, NoBase)
    PROVE  LET printed == generateManifests(spec, FileOf(spec, b)) IN
           /\ printed \notin {Failed, Panic}
           /\ \A s \in SlotsOf(Wanted(spec, b)) :
                printed[s] = Wanted(spec, b)[s] /\ printed[s] \in Child
<1> DEFINE file == FileOf(spec, b)
           config == getBaseChildResources(file)
           given == [spec EXCEPT !.baseConfigMapRef = TRUE]
           merged == MergeChildResources(spec, b)
<1>1. spec \in SpecType /\ BaseConfigFor(spec, b) \in BaseType /\ spec.valid
  BY RenderedBaseType DEF Renderable
<1>2. config = BaseConfigFor(spec, b)
  <2>1. CASE spec.baseConfigMapRef
    <3>1. b \in BaseType /\ b.valid
      BY <2>1, ConstantsAssumption DEF Renderable
    <3>2. b \notin {NotGiven, Missing, NoContent}
      BY <3>1, FilesAssumption
    <3> QED BY <2>1, <3>1, <3>2 DEF FileOf, getBaseChildResources, BaseConfigFor
  <2>2. CASE ~spec.baseConfigMapRef
    BY <2>2, FilesAssumption DEF FileOf, getBaseChildResources, BaseConfigFor
  <2> QED BY <2>1, <2>2
<1>3. config \notin {Failed, Panic}
  BY <1>1, <1>2, FilesAssumption
<1>4. MergeChildResources(given, config) = merged
  <2>1. BaseConfigFor(given, config) = BaseConfigFor(spec, b)
    BY <1>1, <1>2 DEF BaseConfigFor, SpecType
  <2>2. /\ given.prefill = spec.prefill /\ given.decode = spec.decode
        /\ given.endpointPicker = spec.endpointPicker
        /\ given.gatewayRefs = spec.gatewayRefs
    BY <1>1 DEF SpecType
  <2> HIDE DEF given, config
  <2> QED BY <2>1, <2>2 DEF MergeChildResources
<1>5. generateManifests(spec, file) = merged
  BY <1>1, <1>3, <1>4 DEF generateManifests
<1>6. merged \in [Slots -> Child \cup {NoChild}]
  BY <1>1, MergedType
<1>7. merged \notin {Failed, Panic}
  BY <1>6, FilesAssumption
<1> HIDE DEF merged, file
<1>8. \A s \in SlotsOf(Wanted(spec, b)) : merged[s] = Wanted(spec, b)[s] /\ merged[s] \in Child
  BY <1>6 DEF SlotsOf, Wanted, merged
<1> QED BY <1>5, <1>7, <1>8 DEF file

\* A merge that changes nothing leaves every field as the source has it, or the source
\* has nothing to say about it.
LEMMA MergedField ==
    ASSUME NEW dst, NEW src, WithOverride(dst, src) = dst, NEW f \in Fields
    PROVE  src[f] = Unset \/ dst[f] = src[f] \/ (src[f] = Zero /\ dst[f] # Unset)
BY DEF WithOverride, MergeField, Fields

\* Once the controller has nothing left to do, the cluster holds what generate prints:
\* PreviewAgrees, for all constants.
THEOREM PreviewHolds == Spec => []PreviewAgrees
<1>1. ASSUME TypeOK, NoLostWakeup PROVE PreviewAgrees
  <2> SUFFICES ASSUME NEW c \in Controllers, NEW m \in ModelServices, Settled(c, m)
               PROVE  LET spec == msvc[m].spec
                          b == usedBase[c][m]
                          printed == generateManifests(spec, FileOf(spec, b))
                      IN  /\ printed \notin {Failed, Panic}
                          /\ \A s \in SlotsOf(Wanted(spec, b)) :
                               /\ printed[s] # NoChild
                               /\ Owned(spec, b, s) => \A f \in Fields :
                                    LET live == objs[ObjectOf[m][s]].data[f] IN
                                    printed[s][f] # Unset =>
                                      \/ live = printed[s][f]
                                      \/ LeftToOthers(spec, s, f, printed[s][f], live)
    BY DEF PreviewAgrees
  <2> DEFINE spec == msvc[m].spec
             b == usedBase[c][m]
             printed == generateManifests(spec, FileOf(spec, b))
             p == PassOn(m, msvc[m], b)
  <2>1. spec \in Specs /\ b \in Bases
    BY <1>1 DEF TypeOK, ServerOK, PassesOK, MsvcOK, ModelService, Settled
  <2>2. AllApplied(m, b, Slots) /\ Renderable(spec, b, NoBase)
    BY <1>1 DEF NoLostWakeup, AllApplied
  <2>3. /\ printed \notin {Failed, Panic}
        /\ \A s \in SlotsOf(Wanted(spec, b)) :
             printed[s] = Wanted(spec, b)[s] /\ printed[s] \in Child
    BY <2>1, <2>2, PrintedWanted
  <2>4. /\ p.key = m /\ p.spec = spec /\ p.base = b /\ p.want = Wanted(spec, b)
        /\ p.uid = msvc[m].uid
    BY DEF PassOn
  <2> HIDE DEF spec, b, printed
  <2>5. ASSUME NEW s \in SlotsOf(Wanted(spec, b)), Owned(spec, b, s), NEW f \in Fields,
               printed[s][f] # Unset
        PROVE  LET live == objs[ObjectOf[m][s]].data[f] IN
               live = printed[s][f] \/ LeftToOthers(spec, s, f, printed[s][f], live)
    <3> DEFINE x == objs[ObjectOf[m][s]]
               src == ForUpdate(spec, s, printed[s])
    <3>1. s \in Slots
      BY DEF SlotsOf
    <3>2. Applied(x, p, s)
      BY <2>2, <2>4, <2>5, <3>1 DEF AllApplied, spec
    <3> HIDE DEF p
    <3>3. x.data = WithOverride(x.data, src)
      <4>1. x \in Object /\ MergeInto(x, p, s) = x
        <5>1. ObjectOf[m][s] \in Objects
          BY <3>1, ConstantsAssumption
        <5> QED BY <1>1, <3>2, <5>1 DEF Applied, TypeOK, ServerOK
      <4>2. Desired(p, s).data = printed[s]
        BY <2>3, <2>4 DEF Desired
      <4> QED BY <2>4, <4>1, <4>2 DEF MergeInto
    <3>4. src[f] = printed[s][f] \/ LeftToOthers(spec, s, f, printed[s][f], x.data[f])
      BY <2>3, <2>5 DEF ForUpdate, LeftToOthers, Child, Fields
    <3>5. src[f] = Unset \/ x.data[f] = src[f] \/ (src[f] = Zero /\ x.data[f] # Unset)
      BY <3>3, MergedField
    <3> HIDE DEF src, x
    <3>6. x.data[f] = printed[s][f] \/ LeftToOthers(spec, s, f, printed[s][f], x.data[f])
      BY <2>5, <3>4, <3>5 DEF LeftToOthers
    <3> QED BY <3>6 DEF x
  <2> QED BY <2>3, <2>5, NoChildAssumption DEF spec, b, printed
<1> QED BY <1>1, TypeCorrect, NoWakeupIsLost, PTL

LEMMA LeastNumber ==
    ASSUME NEW T \in SUBSET Nat, T # {}
    PROVE  \E x \in T : \A y \in T : x <= y
<1>1. PICK x \in T : \A y \in T : <<y, x>> \notin OpToRel(<, Nat)
  BY NatLessThanWellFounded, WFMin
<1>2. \A y \in T : ~(y < x)
  BY <1>1 DEF OpToRel
<1> QED
  BY <1>2

\* Nothing is replaced in a legal name.
LEMMA LegalUnreplaced ==
    ASSUME NEW P, NEW s \in Seq(P), \A i \in DOMAIN s : Legal(s[i])
    PROVE  Replaced(s) = s
<1> DEFINE n == Len(s)
           Rec(F) == F = [i \in 0..n |->
                            IF i = 0 THEN <<>>
                            ELSE IF Legal(s[i]) THEN Append(F[i - 1], s[i])
                            ELSE IF i = 1 \/ Legal(s[i - 1]) THEN Append(F[i - 1], "-")
                            ELSE F[i - 1]]
           Prefix == [i \in 0..n |-> [j \in 1..i |-> s[j]]]
           F == CHOOSE G : Rec(G)
           bad == {m \in 0..n : F[m] # Prefix[m]}
<1>1. n \in Nat /\ DOMAIN s = 1..n /\ \A i \in 1..n : s[i] \in P /\ Legal(s[i])
  OBVIOUS
<1>2. Prefix[0] = <<>>
  BY <1>1
<1>3. \A i \in 1..n : Prefix[i] = Append(Prefix[i - 1], s[i])
  <2> TAKE i \in 1..n
  <2>1. i \in Nat /\ i - 1 \in 0..n /\ i \in 0..n
    BY <1>1
  <2>2. Prefix[i] = [j \in 1..i |-> s[j]] /\ Prefix[i - 1] = [j \in 1..(i - 1) |-> s[j]]
    BY <2>1
  <2>3. Prefix[i - 1] \in Seq(P) /\ Len(Prefix[i - 1]) = i - 1
    BY <1>1, <2>1, <2>2
  <2>4. Append([j \in 1..(i - 1) |-> s[j]], s[i]) = [j \in 1..i |-> s[j]]
    BY <1>1, <2>1, <2>2, <2>3
  <2> QED
    BY <2>2, <2>4
<1>4. Prefix = [i \in 0..n |-> Prefix[i]]
  OBVIOUS
<1> HIDE DEF Prefix
<1>5. Rec(Prefix)
  <2>1. \A i \in 0..n : i # 0 => i \in 1..n
    BY <1>1
  <2> HIDE DEF n
  <2>2. \A i \in 0..n :
          Prefix[i] = IF i = 0 THEN <<>>
                      ELSE IF Legal(s[i]) THEN Append(Prefix[i - 1], s[i])
                      ELSE IF i = 1 \/ Legal(s[i - 1]) THEN Append(Prefix[i - 1], "-")
                      ELSE Prefix[i - 1]
    BY <1>1, <1>2, <1>3, <2>1
  <2> QED
    BY <1>4, <2>2, Zenon
<1>6. Rec(F)
  BY <1>5, Zenon
<1>7. Replaced(s) = F[n]
  BY DEF Replaced
<1> HIDE DEF F
<1>8. F[0] = <<>> /\ \A i \in 1..n : F[i] = Append(F[i - 1], s[i])
  <2>1. 0 \in 0..n /\ \A i \in 1..n : i \in 0..n /\ i # 0
    BY <1>1
  <2>2. F[0] = <<>>
    BY <1>6, <2>1, Zenon
  <2>3. ASSUME NEW i \in 1..n PROVE F[i] = Append(F[i - 1], s[i])
    BY <1>1, <1>6, <2>1, <2>3, Zenon
  <2> QED
    BY <2>2, <2>3
<1>9. bad = {}
  <2> SUFFICES ASSUME bad # {} PROVE FALSE
    OBVIOUS
  <2>1. PICK m \in bad : \A y \in bad : m <= y
    <3>1. bad \in SUBSET Nat
      BY <1>1
    <3> HIDE DEF bad
    <3> QED
      BY <3>1, LeastNumber
  <2>2. m \in 1..n /\ F[m] # Prefix[m]
    BY <1>1, <1>2, <1>8
  <2>3. m - 1 \in 0..n /\ ~(m <= m - 1)
    BY <1>1, <2>2
  <2>4. F[m - 1] = Prefix[m - 1]
    BY <2>1, <2>3
  <2> QED
    BY <1>3, <1>8, <2>2, <2>4
<1>10. F[n] = Prefix[n]
  BY <1>1, <1>9
<1>11. Prefix[n] = s
  BY <1>1 DEF Prefix
<1> QED
  BY <1>7, <1>10, <1>11

\* A suffix, as the code appends it.
Suffixes ==
    {<<"-", "prefill">>, <<"-", "decode">>, <<"-", "service", "-", "prefill">>,
     <<"-", "service", "-", "decode">>, <<"-", "http", "-", "route">>,
     <<"-", "inference", "-", "pool">>, <<"-", "epp">>, <<"-", "epp", "-", "service">>,
     <<"-", "sa">>, <<"-", "epp", "-", "sa">>, <<"-", "epp", "-", "rolebinding">>}

LEMMA PlainUnchanged ==
    ASSUME MaxLength \in Nat, NEW P, NEW s \in Seq(P), Len(s) <= MaxLength, s # <<>>,
           \A i \in DOMAIN s : Legal(s[i]),
           Alphanumeric(s[1]), Alphanumeric(s[Len(s)])
    PROVE  Cut(Trimmed(Replaced(s))) = s
<1> DEFINE n == Len(s)
           inner == {i \in DOMAIN s : Alphanumeric(s[i])}
<1>1. n \in Nat \ {0} /\ DOMAIN s = 1..n
  OBVIOUS
<1>2. 1 \in inner /\ n \in inner /\ \A i \in inner : 1 <= i /\ i <= n /\ i \in Nat
  BY <1>1
<1>3. Min(inner) = 1
  <2> HIDE DEF inner
  <2>1. \A x \in inner : (\A y \in inner : x <= y) => x = 1
    BY <1>2
  <2> QED
    BY <1>2, <2>1 DEF Min
<1>4. Max(inner) = n
  <2> HIDE DEF inner
  <2>1. \A x \in inner : (\A y \in inner : x >= y) => x = n
    BY <1>1, <1>2
  <2> QED
    BY <1>1, <1>2, <2>1 DEF Max
<1>5. SubSeq(s, 1, n) = s
  BY <1>1
<1>6. Trimmed(s) = s
  BY <1>2, <1>3, <1>4, <1>5 DEF Trimmed
<1>7. Min({n, MaxLength}) = n
  <2>1. \A x \in {n, MaxLength} : (\A y \in {n, MaxLength} : x <= y) => x = n
    BY <1>1
  <2>2. n <= MaxLength /\ n <= n
    BY <1>1
  <2> HIDE DEF n
  <2> QED
    BY <2>1, <2>2 DEF Min
<1>8. Cut(s) = s
  BY <1>5, <1>7 DEF Cut
<1> QED
  BY <1>6, <1>8, LegalUnreplaced

Words == {"-", "prefill", "decode", "service", "http", "route", "inference", "pool", "epp",
          "sa", "rolebinding"}

LEMMA Pair ==
    ASSUME NEW P, NEW a \in P, NEW b \in P
    PROVE  <<a, b>> \in Seq(P) /\ Len(<<a, b>>) = 2 /\ <<a, b>>[2] = b
OBVIOUS

LEMMA Quadruple ==
    ASSUME NEW P, NEW a \in P, NEW b \in P, NEW c \in P, NEW d \in P
    PROVE  /\ <<a, b, c, d>> \in Seq(P) /\ Len(<<a, b, c, d>>) = 4
           /\ <<a, b, c, d>>[4] = d
OBVIOUS

LEMMA SuffixShape ==
    ASSUME NEW suffix \in Suffixes
    PROVE  /\ suffix \in Seq(Words) /\ Len(suffix) \in 2..4
           /\ \A i \in DOMAIN suffix : Legal(suffix[i])
           /\ Alphanumeric(suffix[Len(suffix)])
<1>1. \A w \in Words : Legal(w) /\ (w # "-" => Alphanumeric(w))
  BY DEF Words, Legal, Alphanumeric, Symbols
<1>2. \/ \E w \in Words \ {"-"} : suffix = <<"-", w>>
      \/ \E v, w \in Words \ {"-"} : suffix = <<"-", v, "-", w>>
  BY DEF Suffixes, Words
<1>3. "-" \in Words
  BY DEF Words
<1>4. CASE \E w \in Words \ {"-"} : suffix = <<"-", w>>
  <2>1. PICK w \in Words \ {"-"} : suffix = <<"-", w>>
    BY <1>4
  <2>2. suffix \in Seq(Words) /\ Len(suffix) = 2 /\ suffix[2] = w
    BY <1>3, <2>1, Pair
  <2>3. DOMAIN suffix = 1..2 /\ \A i \in DOMAIN suffix : suffix[i] \in Words
    BY <2>2
  <2> QED
    BY <1>1, <2>2, <2>3
<1>5. CASE \E v, w \in Words \ {"-"} : suffix = <<"-", v, "-", w>>
  <2>1. PICK v \in Words \ {"-"}, w \in Words \ {"-"} : suffix = <<"-", v, "-", w>>
    BY <1>5
  <2>2. suffix \in Seq(Words) /\ Len(suffix) = 4 /\ suffix[4] = w
    BY <1>3, <2>1, Quadruple
  <2>3. DOMAIN suffix = 1..4 /\ \A i \in DOMAIN suffix : suffix[i] \in Words
    BY <2>2
  <2> QED
    BY <1>1, <2>2, <2>3
<1> QED
  BY <1>2, <1>4, <1>5

\* What holds of two sequences put together.
LEMMA Joined ==
    ASSUME NEW P, NEW a \in Seq(P), NEW c \in Seq(P), Len(c) > 0
    PROVE  /\ a \o c \in Seq(P) /\ Len(a \o c) = Len(a) + Len(c)
           /\ \A i \in 1..Len(a) : (a \o c)[i] = a[i]
           /\ (a \o c)[Len(a \o c)] = c[Len(c)]
<1>1. Len(a) \in Nat /\ Len(c) \in Nat
  OBVIOUS
<1>2. a \o c \in Seq(P) /\ Len(a \o c) = Len(a) + Len(c)
  OBVIOUS
<1>3. \A i \in 1..Len(a) : (a \o c)[i] = a[i]
  OBVIOUS
<1>4. \A i \in (Len(a) + 1)..(Len(a) + Len(c)) : (a \o c)[i] = c[i - Len(a)]
  OBVIOUS
<1>5. Len(a) + Len(c) \in (Len(a) + 1)..(Len(a) + Len(c))
      /\ Len(a) + Len(c) - Len(a) = Len(c)
  BY <1>1
<1> QED
  BY <1>2, <1>3, <1>4, <1>5

\* A plain name keeps its suffix and is not replaced by the fallback.
LEMMA PlainSanitized ==
    ASSUME MaxLength \in Nat, NEW P, NEW name \in Seq(P), Subdomain(name), Plain(name),
           NEW suffix \in Suffixes, NEW fallback
    PROVE  Sanitized(name, suffix, fallback) = name \o suffix
<1> DEFINE s == name \o suffix
<1>1. name \in Seq(P \cup Words) /\ suffix \in Seq(P \cup Words)
  BY SuffixShape
<1>2. /\ Len(name) \in Nat \ {0} /\ DOMAIN name = 1..Len(name)
      /\ Len(suffix) \in 2..4 /\ DOMAIN suffix = 1..Len(suffix)
  BY SuffixShape DEF Subdomain
<1>3. /\ s \in Seq(P \cup Words) /\ Len(s) = Len(name) + Len(suffix)
      /\ DOMAIN s = 1..(Len(name) + Len(suffix))
      /\ \A i \in 1..Len(name) : s[i] = name[i]
      /\ \A i \in DOMAIN s : i \notin 1..Len(name) =>
           i - Len(name) \in 1..Len(suffix) /\ s[i] = suffix[i - Len(name)]
  BY <1>1, <1>2
<1> HIDE DEF s
<1>4. \A i \in DOMAIN s : Legal(s[i])
  BY <1>2, <1>3, SuffixShape DEF Plain
<1>5. s # <<>> /\ Alphanumeric(s[1])
  <2>1. 1 \in 1..Len(name) /\ 1 \in DOMAIN s
    BY <1>2, <1>3
  <2> QED
    BY <2>1, <1>3 DEF Subdomain
<1>6. Alphanumeric(s[Len(s)])
  <2>1. s[Len(s)] = suffix[Len(suffix)]
    BY <1>1, <1>2, Joined DEF s
  <2> QED
    BY <2>1, SuffixShape
<1>7. Len(s) <= MaxLength
  <2>1. Len(name) + 4 <= MaxLength
    BY DEF Plain
  <2>2. \A k \in 2..4, n \in Nat : n + 4 <= MaxLength => n + k <= MaxLength
    OBVIOUS
  <2>3. Len(name) \in Nat
    BY <1>2
  <2> QED
    BY <1>2, <1>3, <2>1, <2>2, <2>3
<1>8. Cut(Trimmed(Replaced(s))) = s
  BY <1>3, <1>4, <1>5, <1>6, <1>7, PlainUnchanged
<1> QED
  BY <1>5, <1>6, <1>8 DEF Sanitized, s

\* Names that end alike begin alike.
LEMMA SameSuffix ==
    ASSUME NEW P, NEW a \in Seq(P), NEW b \in Seq(P), NEW c \in Seq(P), a \o c = b \o c
    PROVE  a = b
<1>1. Len(a) = Len(b)
  BY Len(a \o c) = Len(a) + Len(c), Len(b \o c) = Len(b) + Len(c)
<1>2. \A i \in 1..Len(a) : a[i] = (a \o c)[i] /\ b[i] = (b \o c)[i]
  BY <1>1
<1> QED
  BY <1>1, <1>2

Final(s) == s[Len(s)]

\* The last piece of a name is the last piece of its suffix.
LEMMA LastPiece ==
    ASSUME NEW P, NEW a \in Seq(P), NEW c \in Seq(P), Len(c) > 0
    PROVE  Final(a \o c) = Final(c)
BY Joined DEF Final

\* The suffix of a slot.
SuffixOf(slot) ==
    CASE slot = "prefillDeployment" -> <<"-", "prefill">>
      [] slot = "decodeDeployment" -> <<"-", "decode">>
      [] slot = "prefillService" -> <<"-", "service", "-", "prefill">>
      [] slot = "decodeService" -> <<"-", "service", "-", "decode">>
      [] slot = "httpRoute" -> <<"-", "http", "-", "route">>
      [] slot = "inferencePool" -> <<"-", "inference", "-", "pool">>
      [] slot = "eppDeployment" -> <<"-", "epp">>
      [] slot = "eppService" -> <<"-", "epp", "-", "service">>
      [] slot = "pdServiceAccount" -> <<"-", "sa">>
      [] slot = "eppServiceAccount" -> <<"-", "epp", "-", "sa">>
      [] slot = "eppRoleBinding" -> <<"-", "epp", "-", "rolebinding">>

LastOf(slot) ==
    CASE slot = "prefillDeployment" -> "prefill"
      [] slot = "decodeDeployment" -> "decode"
      [] slot = "prefillService" -> "prefill"
      [] slot = "decodeService" -> "decode"
      [] slot = "eppDeployment" -> "epp"
      [] slot = "eppService" -> "service"

LEMMA SlotSuffix ==
    ASSUME NEW slot \in NamedSlots \ {"inferenceModel"}
    PROVE  /\ SuffixOf(slot) \in Suffixes
           /\ \A name : \E fallback :
                ChildName(name, slot) = Sanitized(name, SuffixOf(slot), fallback)
<1>1. SuffixOf(slot) \in Suffixes
  BY DEF SuffixOf, Suffixes, NamedSlots
<1>2. ASSUME NEW name
      PROVE  \E fallback :
               ChildName(name, slot) = Sanitized(name, SuffixOf(slot), fallback)
  BY Zenon DEF ChildName, SuffixOf, NamedSlots
<1> QED
  BY <1>1, <1>2

LEMMA PlainChildName ==
    ASSUME MaxLength \in Nat, NEW P, NEW name \in Seq(P), Subdomain(name), Plain(name),
           NEW slot \in NamedSlots \ {"inferenceModel"}
    PROVE  ChildName(name, slot) = name \o SuffixOf(slot)
BY SlotSuffix, PlainSanitized

LEMMA LastOfSuffix ==
    ASSUME NEW slot \in {"prefillDeployment", "decodeDeployment", "eppDeployment",
                         "prefillService", "decodeService", "eppService"}
    PROVE  Final(SuffixOf(slot)) = LastOf(slot)
<1>1. CASE slot = "prefillDeployment"
  BY <1>1 DEF SuffixOf, LastOf, Final
<1>2. CASE slot = "decodeDeployment"
  BY <1>2 DEF SuffixOf, LastOf, Final
<1>3. CASE slot = "eppDeployment"
  BY <1>3 DEF SuffixOf, LastOf, Final
<1>4. CASE slot = "prefillService"
  BY <1>4 DEF SuffixOf, LastOf, Final
<1>5. CASE slot = "decodeService"
  BY <1>5 DEF SuffixOf, LastOf, Final
<1>6. CASE slot = "eppService"
  BY <1>6 DEF SuffixOf, LastOf, Final
<1> QED
  BY <1>1, <1>2, <1>3, <1>4, <1>5, <1>6

\* The service account of the endpoint picker and that of the pods are named alike when
\* the second name is the first with -epp.
LEMMA AccountsMeet ==
    ASSUME NEW P, NEW a \in Seq(P), NEW b \in Seq(P),
           a \o <<"-", "epp", "-", "sa">> = b \o <<"-", "sa">>
    PROVE  b = a \o <<"-", "epp">>
<1> DEFINE pieces == P \cup Words
           sa == <<"-", "sa">>
           epp == <<"-", "epp">>
<1>1. "-" \in pieces /\ "sa" \in pieces /\ "epp" \in pieces
  BY DEF Words
<1>2. sa \in Seq(pieces) /\ epp \in Seq(pieces)
  BY <1>1, Pair
<1>3. a \in Seq(pieces) /\ b \in Seq(pieces)
  OBVIOUS
<1>4. <<"-", "epp", "-", "sa">> = epp \o sa
  OBVIOUS
<1> HIDE DEF pieces, sa, epp
<1>5. (a \o epp) \o sa = a \o (epp \o sa)
  <2> DEFINE left == (a \o epp) \o sa
             right == a \o (epp \o sa)
  <2>1. a \o epp \in Seq(pieces) /\ Len(a \o epp) = Len(a) + Len(epp)
    BY <1>2, <1>3
  <2>2. epp \o sa \in Seq(pieces) /\ Len(epp \o sa) = Len(epp) + Len(sa)
    BY <1>2
  <2>3. left \in Seq(pieces) /\ Len(left) = Len(a) + Len(epp) + Len(sa)
    BY <1>2, <2>1
  <2>4. right \in Seq(pieces) /\ Len(right) = Len(a) + Len(epp) + Len(sa)
    BY <1>2, <1>3, <2>2
  <2>5. ASSUME NEW k \in 1..Len(left) PROVE left[k] = right[k]
    BY <1>2, <1>3, <2>1, <2>2, <2>3
  <2> HIDE DEF left, right
  <2>6. left = right
    BY <2>3, <2>4, <2>5
  <2> QED
    BY <2>6 DEF left, right
<1>6. a \o epp \in Seq(pieces)
  BY <1>2, <1>3
<1>7. (a \o epp) \o sa = b \o sa
  BY <1>4, <1>5 DEF sa
<1>8. b = a \o epp
  BY <1>2, <1>3, <1>6, <1>7, SameSuffix
<1> QED
  BY <1>8 DEF epp

LEMMA ClashesExplained ==
    ASSUME NEW n1 \in ServiceNames, Plain(n1), NEW n2 \in ServiceNames, Plain(n2),
           NEW s1 \in NamedSlots, NEW s2 \in NamedSlots, Clash(n1, s1, n2, s2)
    PROVE  \/ n1 = n2 /\ s1 = s2
           \/ AccountsClash(n1, s1, n2, s2) \/ AccountsClash(n2, s2, n1, s1)
<1>1. n1 \in Seq(Pieces) /\ Subdomain(n1) /\ n2 \in Seq(Pieces) /\ Subdomain(n2)
  BY NamesAssumption
<1>2. ChildName(n1, s1) = ChildName(n2, s2) /\ KindOf(s1) = KindOf(s2)
  BY DEF Clash
<1>3. ASSUME NEW s \in NamedSlots \ {"inferenceModel"}
      PROVE  /\ ChildName(n1, s) = n1 \o SuffixOf(s)
             /\ ChildName(n2, s) = n2 \o SuffixOf(s)
             /\ SuffixOf(s) \in Suffixes
  BY <1>1, NamesAssumption, PlainChildName, SlotSuffix
<1>4. CASE s1 = "inferenceModel" /\ s2 = "inferenceModel"
  BY <1>2, <1>4 DEF ChildName
<1>5. CASE s1 = s2 /\ s1 # "inferenceModel"
  <2>1. SuffixOf(s1) \in Seq(Pieces \cup Words)
    BY <1>3, <1>5, SuffixShape
  <2>2. n1 \in Seq(Pieces \cup Words) /\ n2 \in Seq(Pieces \cup Words)
    BY <1>1
  <2>3. n1 \o SuffixOf(s1) = n2 \o SuffixOf(s1)
    BY <1>2, <1>3, <1>5
  <2> QED
    BY <1>5, <2>1, <2>2, <2>3, SameSuffix
<1>6. CASE s1 # s2
  <2> DEFINE Deps == {"prefillDeployment", "decodeDeployment", "eppDeployment"}
             Svcs == {"prefillService", "decodeService", "eppService"}
  <2>1. \/ s1 \in Deps /\ s2 \in Deps
        \/ s1 \in Svcs /\ s2 \in Svcs
        \/ s1 = "pdServiceAccount" /\ s2 = "eppServiceAccount"
        \/ s1 = "eppServiceAccount" /\ s2 = "pdServiceAccount"
    BY <1>2, <1>6 DEF KindOf, NamedSlots
  <2>2. s1 \in NamedSlots \ {"inferenceModel"} /\ s2 \in NamedSlots \ {"inferenceModel"}
    BY <2>1
  <2>3. n1 \o SuffixOf(s1) = n2 \o SuffixOf(s2)
    BY <1>2, <1>3, <2>2
  <2>4. CASE \/ s1 \in Deps /\ s2 \in Deps
             \/ s1 \in Svcs /\ s2 \in Svcs
    <3>1. Final(SuffixOf(s1)) = Final(SuffixOf(s2))
      <4> DEFINE pieces == Pieces \cup Words
                 c == SuffixOf(s1)
                 d == SuffixOf(s2)
      <4>1. c \in Suffixes /\ d \in Suffixes
        BY <1>3, <2>2
      <4>2. c \in Seq(Words) /\ Len(c) > 0 /\ d \in Seq(Words) /\ Len(d) > 0
        <5>1. \A k \in 2..4 : k > 0
          OBVIOUS
        <5> HIDE DEF c, d
        <5> QED
          BY <4>1, <5>1, SuffixShape
      <4>3. n1 \o c = n2 \o d
        BY <2>3
      <4> HIDE DEF c, d
      <4>4. /\ c \in Seq(pieces) /\ d \in Seq(pieces)
            /\ n1 \in Seq(pieces) /\ n2 \in Seq(pieces)
        BY <1>1, <4>2
      <4> HIDE DEF pieces
      <4>5. Final(n1 \o c) = Final(c) /\ Final(n2 \o d) = Final(d)
        BY <4>2, <4>4, LastPiece
      <4> QED
        BY <4>3, <4>5 DEF c, d
    <3>2. LastOf(s1) = LastOf(s2)
      BY <2>4, <3>1, LastOfSuffix
    <3> QED
      BY <1>6, <2>4, <3>2 DEF LastOf
  <2>5. CASE s1 = "eppServiceAccount" /\ s2 = "pdServiceAccount"
    <3>1. n1 \o <<"-", "epp", "-", "sa">> = n2 \o <<"-", "sa">>
      BY <2>3, <2>5 DEF SuffixOf
    <3>2. n2 = n1 \o <<"-", "epp">>
      BY <1>1, <3>1, AccountsMeet
    <3> QED
      BY <2>5, <3>2 DEF AccountsClash
  <2>6. CASE s1 = "pdServiceAccount" /\ s2 = "eppServiceAccount"
    <3>1. n2 \o <<"-", "epp", "-", "sa">> = n1 \o <<"-", "sa">>
      BY <2>3, <2>6 DEF SuffixOf
    <3>2. n1 = n2 \o <<"-", "epp">>
      BY <1>1, <3>1, AccountsMeet
    <3> QED
      BY <2>6, <3>2 DEF AccountsClash
  <2> QED
    BY <2>1, <2>4, <2>5, <2>6
<1> QED
  BY <1>4, <1>5, <1>6

\* Two children of one kind are named alike only where NamesApart says so: NamesApart,
\* for all names and every limit of their length.
THEOREM NamesAreApart == Spec => []NamesApart
<1>1. NamesApart
  BY ClashesExplained DEF NamesApart, Apart
<1> QED
  BY <1>1, PTL
===============================================================================
