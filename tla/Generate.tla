------------------------------- MODULE Generate -------------------------------
(***************************************************************************)
(* The generate command: cmd/generate.go renders a ModelService with a     *)
(* BaseConfig read from a file and prints what comes out, without a        *)
(* cluster.                                                                *)
(*                                                                         *)
(* A base file is NotGiven, Missing, NoContent (empty, or not readable) or *)
(* the BaseConfig it holds.                                                *)
(***************************************************************************)
EXTENDS ChildResources

CONSTANTS NotGiven, Missing, NoContent, Failed, Panic

ASSUME FilesAssumption ==
    /\ {NotGiven, Missing, NoContent, Failed, Panic} \cap BaseType = {}
    /\ {Failed, Panic} \cap [Slots -> Child \cup {NoChild}] = {}
    /\ NotGiven # Missing /\ NotGiven # NoContent /\ Missing # NoContent /\ Failed # Panic

\* Mutant: a file that has been read is not used.
GetEmptyBaseConfig(file) == IF file = Missing THEN Failed ELSE EmptyBase

\* Without a file the BaseConfig is empty.  A file without content leaves the pointer
\* to the ConfigMap nil, and interpolating it panics.
getBaseChildResources(file) ==
    CASE file = NotGiven -> EmptyBase
      [] file = Missing -> Failed
      [] file = NoContent -> Panic
      [] OTHER -> IF file.valid THEN file ELSE Failed

\* What generateManifests prints.  The file takes the place of the reference to a
\* base ConfigMap, whether or not the spec has one, and services are printed though
\* nothing creates them without a deployment.
generateManifests(spec, file) ==
    LET config == getBaseChildResources(file) IN
    IF ~spec.valid THEN Failed
    ELSE IF config \in {Failed, Panic} THEN config
    ELSE MergeChildResources([spec EXCEPT !.baseConfigMapRef = TRUE], config)
=============================================================================
