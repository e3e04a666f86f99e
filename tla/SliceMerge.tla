------------------------------ MODULE SliceMerge ------------------------------
(***************************************************************************)
(* The slice transformers of internal/controller/merge_transformers.go,    *)
(* which mergo calls where it merges a list of the ModelService (src) into *)
(* the same list of the BaseConfig (dst).                                  *)
(*                                                                         *)
(* A list is a sequence of records with a `name`.  Nothing in the API      *)
(* makes the names of containers or of gateways in one list distinct.      *)
(***************************************************************************)
EXTENDS Naturals, Sequences

\* A string that is not set, a nil pointer.
Empty == ""

Items(list) == {list[i] : i \in DOMAIN list}

\* What the lists hold: variables, gateways, and containers whose template variables
\* have been replaced, which makes a path of an argument.
EnvVars == [name : STRING, value : STRING, secret : STRING, field : STRING]
ParentRefs == [name : STRING, section : STRING]
Mounts == [name : STRING, mountPath : STRING]
Containers ==
    [name : STRING, image : STRING, command : Seq(STRING), args : Seq(Seq(STRING)),
     env : Seq(EnvVars), mounts : Seq(Mounts)]

Names(list) == {list[i].name : i \in DOMAIN list}

\* srcMergeKeyMap: of several items with one name the last is kept.
LastNamed(list, n) ==
    list[CHOOSE i \in DOMAIN list :
           /\ list[i].name = n
           /\ \A j \in DOMAIN list : list[j].name = n => j <= i]

\* commonMergeKeys
CommonNames(dst, src) == Names(dst) \cap Names(src)

\* Mutant: an item that was merged is appended as well.
EveryItem(dst, src) == src

\* The items of src that are appended as they are, each as often as src has it.
Unmatched(dst, src) ==
    LET UpTo[i \in 0..Len(src)] ==
          IF i = 0 THEN <<>>
          ELSE IF src[i].name \in CommonNames(dst, src)
               THEN UpTo[i - 1]
               ELSE Append(UpTo[i - 1], src[i])
    IN  UpTo[Len(src)]

\* genericSliceTransformer: dst keeps its order, an item src names too is merged in
\* place, and what only src names follows in src's order.
MergeByName(dst, src, Merge(_, _)) ==
    [i \in DOMAIN dst |->
       IF dst[i].name \in CommonNames(dst, src)
       THEN Merge(dst[i], LastNamed(src, dst[i].name))
       ELSE dst[i]]
    \o Unmatched(dst, src)

\* mergo.WithOverride on a string or a pointer to one.
Override(dst, src) == IF src = Empty THEN dst ELSE src

\* envVarSliceTransformer: pointers are followed, so that the sources of dst and of
\* src add up, and a value does not remove a source.
MergeEnvVar(dst, src) ==
    [name |-> dst.name,
     value |-> Override(dst.value, src.value),
     secret |-> Override(dst.secret, src.secret),
     field |-> Override(dst.field, src.field)]

\* Mutant: the command is lost.
MergeContainerWithoutCommand(dst, src) ==
    [name |-> dst.name,
     image |-> Override(dst.image, src.image),
     args |-> src.args \o dst.args,
     env |-> MergeByName(dst.env, src.env, MergeEnvVar),
     mounts |-> dst.mounts \o src.mounts]

\* Mutant: arguments are appended like any other list.
MergeContainerAppendingArgs(dst, src) ==
    [name |-> dst.name,
     image |-> Override(dst.image, src.image),
     command |-> IF src.command = <<>> THEN dst.command ELSE src.command,
     args |-> dst.args \o src.args,
     env |-> MergeByName(dst.env, src.env, MergeEnvVar),
     mounts |-> dst.mounts \o src.mounts]

\* containerSliceTransformer: a command replaces the one of dst, arguments of src go
\* first, environment variables merge by name, mounts are appended.
MergeContainer(dst, src) ==
    [name |-> dst.name,
     image |-> Override(dst.image, src.image),
     command |-> IF src.command = <<>> THEN dst.command ELSE src.command,
     args |-> src.args \o dst.args,
     env |-> MergeByName(dst.env, src.env, MergeEnvVar),
     mounts |-> dst.mounts \o src.mounts]

MergeContainers(dst, src) == MergeByName(dst, src, MergeContainer)

\* Mutant: the merge is without override.
MergeParentRefKeeping(dst, src) ==
    [name |-> dst.name, section |-> Override(src.section, dst.section)]

\* parentRefSliceTransformer: a gateway's name is the key, its section is overridden.
MergeParentRef(dst, src) ==
    [name |-> dst.name, section |-> Override(dst.section, src.section)]

MergeParentRefs(dst, src) == MergeByName(dst, src, MergeParentRef)
=============================================================================
