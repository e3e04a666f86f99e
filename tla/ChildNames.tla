------------------------------ MODULE ChildNames ------------------------------
(***************************************************************************)
(* The names of a ModelService's children: internal/controller/utils.go    *)
(* and sanitizeSvcName in child_resources.go.                              *)
(*                                                                         *)
(* A name is a sequence of pieces.  A piece is a character or a word of    *)
(* legal characters, the ones the code appends among them; each counts for *)
(* one against MaxLength, which is 63 in the code.  A name is one sequence *)
(* only, as when every word between two symbols is a piece.                *)
(***************************************************************************)
EXTENDS Naturals, Sequences, FiniteSetsExt

CONSTANTS
    MaxLength,
    Pieces,
    ServiceNames    \* the names ModelServices may have

\* Characters that are no lower-case letter or digit; upper case has been lowered.
Symbols == {"-", ".", "_", "/"}

Alphanumeric(piece) == piece \notin Symbols

Legal(piece) == Alphanumeric(piece) \/ piece = "-"

\* ModelServices are named by DNS subdomains, which begin and end with a letter or digit.
Subdomain(name) ==
    name # <<>> /\ Alphanumeric(name[1]) /\ Alphanumeric(name[Len(name)])

ASSUME NamesAssumption ==
    /\ MaxLength \in Nat
    /\ ServiceNames \subseteq Seq(Pieces)
    /\ \A name \in ServiceNames : Subdomain(name)

\* One hyphen for every run of characters that are not legal.
Replaced(s) ==
    LET UpTo[i \in 0..Len(s)] ==
          IF i = 0 THEN <<>>
          ELSE IF Legal(s[i]) THEN Append(UpTo[i - 1], s[i])
          ELSE IF i = 1 \/ Legal(s[i - 1]) THEN Append(UpTo[i - 1], "-")
          ELSE UpTo[i - 1]
    IN  UpTo[Len(s)]

Trimmed(s) ==
    LET inner == {i \in DOMAIN s : Alphanumeric(s[i])} IN
    IF inner = {} THEN <<>> ELSE SubSeq(s, Min(inner), Max(inner))

Cut(s) == SubSeq(s, 1, Min({Len(s), MaxLength}))

\* Mutant: the test of the error is the wrong way round.
AlwaysFallback(name, suffix, fallback) == fallback

\* sanitizeName of a name and a suffix.  The cut may leave a hyphen at the end, which
\* no label has: the fallback is the same for every ModelService.
Sanitized(name, suffix, fallback) ==
    LET s == Cut(Trimmed(Replaced(name \o suffix))) IN
    IF s # <<>> /\ ~Alphanumeric(s[Len(s)]) THEN fallback ELSE s

NamedSlots ==
    {"prefillDeployment", "prefillService", "decodeDeployment", "decodeService",
     "pdServiceAccount", "eppDeployment", "eppService", "eppServiceAccount",
     "eppRoleBinding", "httpRoute", "inferencePool", "inferenceModel"}

\* deploymentName, sanitizeSvcName, ... : the name of each child.
ChildName(name, slot) ==
    CASE slot = "prefillDeployment" ->
           Sanitized(name, <<"-", "prefill">>, <<"deployment", "-", "prefill">>)
      [] slot = "decodeDeployment" ->
           Sanitized(name, <<"-", "decode">>, <<"deployment", "-", "decode">>)
      [] slot = "prefillService" ->
           Sanitized(name, <<"-", "service", "-", "prefill">>,
                     <<"default", "-", "service", "-", "prefill">>)
      [] slot = "decodeService" ->
           Sanitized(name, <<"-", "service", "-", "decode">>,
                     <<"default", "-", "service", "-", "decode">>)
      [] slot = "httpRoute" ->
           Sanitized(name, <<"-", "http", "-", "route">>, <<"http", "-", "route">>)
      [] slot = "inferencePool" ->
           Sanitized(name, <<"-", "inference", "-", "pool">>, <<"inference", "-", "pool">>)
      [] slot = "eppDeployment" ->
           Sanitized(name, <<"-", "epp">>, <<"epp", "-", "deployment">>)
      [] slot = "eppService" ->
           Sanitized(name, <<"-", "epp", "-", "service">>, <<"epp", "-", "service">>)
      [] slot = "pdServiceAccount" ->
           Sanitized(name, <<"-", "sa">>, <<"pd", "-", "sa">>)
      [] slot = "eppServiceAccount" ->
           Sanitized(name, <<"-", "epp", "-", "sa">>, <<"epp", "-", "sa">>)
      [] slot = "eppRoleBinding" ->
           Sanitized(name, <<"-", "epp", "-", "rolebinding">>, <<"epp", "-", "rolebinding">>)
      [] slot = "inferenceModel" -> name      \* infModelName

\* Slots whose children are objects of one kind, and share a name space.
KindOf(slot) ==
    CASE slot \in {"prefillDeployment", "decodeDeployment", "eppDeployment"} -> "Deployment"
      [] slot \in {"prefillService", "decodeService", "eppService"} -> "Service"
      [] slot \in {"pdServiceAccount", "eppServiceAccount"} -> "ServiceAccount"
      [] OTHER -> slot

\* Slots of a kind for which a name gets children of the same name.
Clash(n1, s1, n2, s2) ==
    /\ KindOf(s1) = KindOf(s2)
    /\ ChildName(n1, s1) = ChildName(n2, s2)

\* A name that is neither cut nor changed, whatever is appended to it.
Plain(name) ==
    /\ \A i \in DOMAIN name : Legal(name[i])
    /\ Len(name) + 4 <= MaxLength

\* An endpoint picker's service account and the service account of the pods of another
\* ModelService, named after the first with -epp.
AccountsClash(n1, s1, n2, s2) ==
    s1 = "eppServiceAccount" /\ s2 = "pdServiceAccount" /\ n2 = n1 \o <<"-", "epp">>

\* Children of one kind are named alike only if they are one child of one ModelService,
\* a name is too long or has a character that is replaced, or two service accounts meet.
Apart ==
    \A n1, n2 \in ServiceNames, s1, s2 \in NamedSlots :
        Clash(n1, s1, n2, s2) =>
            \/ n1 = n2 /\ s1 = s2
            \/ ~Plain(n1) \/ ~Plain(n2)
            \/ AccountsClash(n1, s1, n2, s2) \/ AccountsClash(n2, s2, n1, s1)
=============================================================================
