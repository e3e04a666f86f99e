--------------------------- MODULE ChildResources ---------------------------
(***************************************************************************)
(* What a ModelService asks the cluster to hold.                           *)
(*                                                                         *)
(* internal/controller/child_resources.go reads a BaseConfig from a        *)
(* ConfigMap, merges the ModelService into it section by section and then  *)
(* calls create-or-update for every child that came out.  This module is   *)
(* that computation: MergeChildResources is the merged BaseConfig, Wanted  *)
(* the children invokeCreateOrUpdate attempts, InvokeOrder their order.    *)
(*                                                                         *)
(* A child's content is a record of four fields:                           *)
(*   stamp     what the controller computes from the ModelService: names,  *)
(*             labels, selectors, service account, pool reference;         *)
(*   template  what user and platform configure: containers, gateways ...  *)
(*   replicas  spec.replicas of a Deployment;                              *)
(*   note      metadata the ModelService never mentions (annotations).     *)
(***************************************************************************)
EXTENDS Naturals, Sequences

CONSTANTS
    Values,     \* contents of a field, Unset and Zero among them
    Unset,      \* a nil pointer, an empty slice, an absent key
    Zero,       \* a pointer to the zero value: `replicas: 0`
    Stamp,      \* what the controller computes itself
    NoChild     \* a section or child that is absent

ASSUME ValuesAssumption ==
    /\ {Unset, Zero, Stamp} \subseteq Values
    /\ Unset # Zero /\ Stamp # Unset /\ Stamp # Zero

Fields == {"stamp", "template", "replicas", "note"}

Child == [stamp: Values, template: Values, replicas: Values, note: Values]

ASSUME NoChildAssumption == NoChild \notin Child

EmptyChild == [stamp |-> Unset, template |-> Unset, replicas |-> Unset, note |-> Unset]

Stamped == [EmptyChild EXCEPT !.stamp = Stamp]

-----------------------------------------------------------------------------
(* The children, in the order invokeCreateOrUpdate attempts them. *)

InvokeOrder ==
    << "configMap", "prefillDeployment", "prefillService",
       "decodeDeployment", "decodeService", "pdServiceAccount",
       "eppDeployment", "eppService", "eppServiceAccount",
       "eppRoleBinding", "httpRoute", "inferencePool", "inferenceModel" >>

Slots == {"configMap", "prefillDeployment", "prefillService",
          "decodeDeployment", "decodeService", "pdServiceAccount",
          "eppDeployment", "eppService", "eppServiceAccount",
          "eppRoleBinding", "httpRoute", "inferencePool", "inferenceModel"}

PDDeployments == {"prefillDeployment", "decodeDeployment"}

Deployments == PDDeployments \cup {"eppDeployment"}

\* The slot attempted next when those in `left` are still to do.
IsNext(s, left) ==
    /\ s \in left
    /\ \E i \in 1..Len(InvokeOrder) :
         /\ InvokeOrder[i] = s
         /\ \A j \in 1..(i - 1) : InvokeOrder[j] \notin left

-----------------------------------------------------------------------------
(* Inputs: the parts of a ModelService spec and of a BaseConfig that the   *)
(* merge looks at.  `valid` is FALSE when a template in the spec, or the   *)
(* BaseConfig's YAML, cannot be rendered or decoded.                       *)

\* The sections BaseConfigFromCM decodes.  The service accounts and the role
\* binding have no key of their own in the ConfigMap.
BaseSections == Slots \ {"pdServiceAccount", "eppServiceAccount", "eppRoleBinding"}

SpecType ==
    [valid: BOOLEAN, baseConfigMapRef: BOOLEAN, decoupleScaling: BOOLEAN,
     prefill: Child \cup {NoChild}, decode: Child \cup {NoChild},
     endpointPicker: Child \cup {NoChild}, gatewayRefs: Values]

\* `local`: the ConfigMaps it lists live in the ModelService's namespace.
BaseType ==
    [valid: BOOLEAN, local: BOOLEAN,
     has: [BaseSections -> Child \cup {NoChild}]]

EmptyBase ==
    [valid |-> TRUE, local |-> TRUE, has |-> [s \in BaseSections |-> NoChild]]

\* getChildResourcesFromConfigMap: no reference means an empty BaseConfig.
BaseConfigFor(spec, base) == IF spec.baseConfigMapRef THEN base ELSE EmptyBase

\* InterpolateModelService, InterpolateBaseConfigMap and BaseConfigFromCM all
\* return without an error.  NoBase is the ConfigMap that is not found.
Renderable(spec, base, NoBase) ==
    /\ spec.valid
    /\ spec.baseConfigMapRef => base # NoBase /\ base.valid

-----------------------------------------------------------------------------
(* mergo.Merge with WithOverride, field by field: the source replaces the  *)
(* destination unless the source is empty.  A pointer is followed, so a    *)
(* pointer to zero counts as empty once the destination pointer is set.    *)

MergeField(dst, src) ==
    IF src = Unset \/ (src = Zero /\ dst # Unset) THEN dst ELSE src

WithOverride(dst, src) ==
    [stamp |-> MergeField(dst.stamp, src.stamp),
     template |-> MergeField(dst.template, src.template),
     replicas |-> MergeField(dst.replicas, src.replicas),
     note |-> MergeField(dst.note, src.note)]

OrEmpty(child) == IF child = NoChild THEN EmptyChild ELSE child

\* What the controller adds to a user's section: its own stamp.
FromSpec(section) == [OrEmpty(section) EXCEPT !.stamp = Stamp]

\* mergePDDeployment: made from the spec even where the base has no section.
MergePDDeployment(section, dest) ==
    IF section = NoChild /\ dest = NoChild
    THEN NoChild
    ELSE WithOverride(OrEmpty(dest), FromSpec(section))

\* A section of the base gets the controller's stamp; without one there is nothing.
StampSection(dest) ==
    IF dest = NoChild THEN NoChild ELSE [dest EXCEPT !.stamp = Stamp]

\* MergeChildResources stamps a role's service once that role has a deployment.
MergePDService(deployment, dest) ==
    IF deployment = NoChild THEN dest ELSE StampSection(dest)

MergeEppService(deployment, dest) ==
    IF deployment = NoChild THEN dest ELSE StampSection(dest)

MergeInferencePool(dest) == StampSection(dest)

MergeInferenceModel(dest) == StampSection(dest)

\* mergeHTTPRoute: made from the gateway references where the base has none.
MergeHTTPRoute(gatewayRefs, dest) ==
    IF gatewayRefs = Unset /\ dest = NoChild
    THEN NoChild
    ELSE WithOverride(OrEmpty(dest), [Stamped EXCEPT !.template = gatewayRefs])

\* mergeEppDeployment: never made from the endpointPicker section alone.
MergeEppDeployment(endpointPicker, dest) ==
    IF dest = NoChild THEN NoChild ELSE WithOverride(dest, FromSpec(endpointPicker))

SetPDServiceAccount(prefill, decode) ==
    IF prefill = NoChild /\ decode = NoChild THEN NoChild ELSE Stamped

SetEPPServiceAccount(epp) == IF epp = NoChild THEN NoChild ELSE Stamped

SetEPPRoleBinding(epp) == IF epp = NoChild THEN NoChild ELSE Stamped

MergeChildResources(spec, base) ==
    LET has == BaseConfigFor(spec, base).has
        prefill == MergePDDeployment(spec.prefill, has["prefillDeployment"])
        decode == MergePDDeployment(spec.decode, has["decodeDeployment"])
        epp == MergeEppDeployment(spec.endpointPicker, has["eppDeployment"])
    IN  [configMap |-> has["configMap"],
         prefillDeployment |-> prefill,
         prefillService |-> MergePDService(prefill, has["prefillService"]),
         decodeDeployment |-> decode,
         decodeService |-> MergePDService(decode, has["decodeService"]),
         pdServiceAccount |-> SetPDServiceAccount(prefill, decode),
         eppDeployment |-> epp,
         eppService |-> MergeEppService(epp, has["eppService"]),
         eppServiceAccount |-> SetEPPServiceAccount(epp),
         eppRoleBinding |-> SetEPPRoleBinding(epp),
         httpRoute |-> MergeHTTPRoute(spec.gatewayRefs, has["httpRoute"]),
         inferencePool |-> MergeInferencePool(has["inferencePool"]),
         inferenceModel |-> MergeInferenceModel(has["inferenceModel"])]

\* A service, and what the endpoint picker runs under, go with a deployment.
DeploymentFor(s) ==
    CASE s = "prefillService" -> "prefillDeployment"
      [] s = "decodeService" -> "decodeDeployment"
      [] s \in {"eppService", "eppServiceAccount", "eppRoleBinding"} -> "eppDeployment"
      [] OTHER -> s

ShouldCreate(merged, s) == merged[DeploymentFor(s)] # NoChild /\ merged[s] # NoChild

\* The children invokeCreateOrUpdate attempts for a ModelService on a base.
Wanted(spec, base) ==
    LET merged == MergeChildResources(spec, base) IN
    [s \in Slots |-> IF ShouldCreate(merged, s) THEN merged[s] ELSE NoChild]

SlotsOf(want) == {s \in Slots : want[s] # NoChild}

\* mergeConfigMaps sets no owner on a ConfigMap of another namespace: the
\* error of SetOwnerReference is logged and forgotten.
Owned(spec, base, s) == s = "configMap" => BaseConfigFor(spec, base).local

\* Mutant: scaling is never decoupled.
ForUpdateCoupled(spec, s, child) == child

\* createOrUpdatePDDeploymentInCluster forgets the desired replica count of a
\* deployment that exists when scaling is decoupled.
ForUpdate(spec, s, child) ==
    IF spec.decoupleScaling /\ s \in PDDeployments
    THEN [child EXCEPT !.replicas = Unset]
    ELSE child
=============================================================================
