--------------------------- MODULE DeploymentRollout ---------------------------
(***************************************************************************)
(* What becomes of the pod template of a prefill or decode deployment, and *)
(* of the parents of the HTTPRoute, when a ModelService and its BaseConfig *)
(* are edited again and again: rendered and merged list by list            *)
(* (MergeChildResources), laid over what the cluster holds                 *)
(* (createOrUpdatePDDeploymentInCluster, genericCreateOrUpdate), accepted  *)
(* or refused by the API server (external).                                *)
(*                                                                         *)
(* Reconcile is one step here: caches, conflicts and faults are the        *)
(* subject of ModelServiceController.                                      *)
(***************************************************************************)
EXTENDS ModelArtifacts

CONSTANTS
    Specs,      \* ModelServices users write: a role's section, the URI, the gateways
    Bases,      \* BaseConfigs: that role's deployment and the HTTPRoute
    NoURI       \* no model was ever served

\* A container of a ModelService, and one of a BaseConfig.
ContainerSpecs ==
    [name : STRING, image : STRING, command : Seq(STRING), args : Seq(STRING),
     env : Seq(EnvVars), mountModelVolume : BOOLEAN]
BaseContainers ==
    [name : STRING, image : STRING, command : Seq(STRING), args : Seq(STRING),
     env : Seq(EnvVars), mounts : Seq(Mounts)]

ASSUME SpecsAssumption ==
    /\ Specs \subseteq
         [containers : Seq(ContainerSpecs), initContainers : Seq(ContainerSpecs),
          uri : URIs, authSecretName : STRING,
          acceleratorTypes : [labelKey : STRING, labelValues : SUBSET STRING],
          gatewayRefs : Seq(ParentRefs)]
    /\ NoURI \notin URIs

\* The parts of a BaseConfig are lists, empty where the ConfigMap has none.
ASSUME BasesAssumption ==
    Bases \subseteq
      [containers : Seq(BaseContainers), initContainers : Seq(BaseContainers),
       volumes : Seq([name : STRING, source : Seq(STRING)]),
       terms : Seq([key : STRING, values : SUBSET STRING]),
       parentRefs : Seq(ParentRefs)]

VARIABLES
    spec,       \* the ModelService
    base,       \* its BaseConfig
    deployment, \* the pod template in the API server, all empty if there is none
    route,      \* parentRefs in the API server
    outcome,    \* of the latest Reconcile, for each of the two
    served      \* URI of the latest deployment written for a well-formed one (history)

vars == <<spec, base, deployment, route, outcome, served>>

NoDeployment ==
    [containers |-> <<>>, initContainers |-> <<>>, volumes |-> <<>>, terms |-> <<>>]

Pending == [deployment |-> "pending", route |-> "pending"]

-----------------------------------------------------------------------------
(* Rendering and merging *)

\* No accelerator types yield no affinity; neither do those that are an error, which
\* is logged.
AcceleratorTypesToNodeAffinity(a) ==
    IF a.labelKey = Empty \/ a.labelValues = {}
    THEN <<>>
    ELSE << [key |-> a.labelKey, values |-> a.labelValues] >>

MergeContainerList(ofBase, ofSpec) ==
    MergeContainers(
        InterpolateContainers(ofBase, spec.uri),
        convertToContainerSliceWithURIInfo(InterpolateContainers(ofSpec, spec.uri),
                                           spec.uri, spec.authSecretName))

\* mergePDDeployment: containers merge by name, every other list is appended.
MergePDDeployment ==
    [containers |-> MergeContainerList(base.containers, spec.containers),
     initContainers |-> MergeContainerList(base.initContainers, spec.initContainers),
     volumes |-> base.volumes \o getVolumeForPDDeployment(spec.uri),
     terms |-> base.terms \o AcceleratorTypesToNodeAffinity(spec.acceleratorTypes)]

MergeHTTPRoute == MergeParentRefs(base.parentRefs, spec.gatewayRefs)

\* mergo.WithOverride without WithAppendSlice: a list that is not empty replaces the
\* one in the cluster.
Replace(dst, src) == IF src = <<>> THEN dst ELSE src

\* Mutant: the update merges containers as rendering does.
UpdateMerging(dst, src) ==
    [containers |-> MergeContainers(dst.containers, src.containers),
     initContainers |-> MergeContainers(dst.initContainers, src.initContainers),
     volumes |-> Replace(dst.volumes, src.volumes),
     terms |-> Replace(dst.terms, src.terms)]

\* Mutant: volumes are set when a deployment is created and never again.
UpdateKeepingVolumes(dst, src) ==
    [containers |-> Replace(dst.containers, src.containers),
     initContainers |-> Replace(dst.initContainers, src.initContainers),
     volumes |-> IF dst.volumes = <<>> THEN src.volumes ELSE dst.volumes,
     terms |-> Replace(dst.terms, src.terms)]

\* The mutate function of CreateOrUpdate; on NoDeployment it yields what is created.
Update(dst, src) ==
    [containers |-> Replace(dst.containers, src.containers),
     initContainers |-> Replace(dst.initContainers, src.initContainers),
     volumes |-> Replace(dst.volumes, src.volumes),
     terms |-> Replace(dst.terms, src.terms)]

-----------------------------------------------------------------------------
(* The API server's validation *)

Distinct(list, Key(_)) ==
    \A i, j \in DOMAIN list : Key(list[i]) = Key(list[j]) => i = j

EnvVarSources == {"value", "secret", "field"}

EnvVarAccepted(e) ==
    \A f, g \in EnvVarSources : e[f] # Empty /\ e[g] # Empty => f = g

ContainerAccepted(c, volumes) ==
    /\ c.image # Empty
    /\ \A i \in DOMAIN c.env : EnvVarAccepted(c.env[i])
    /\ \A i \in DOMAIN c.mounts : c.mounts[i].name \in Names(volumes)
    /\ Distinct(c.mounts, LAMBDA mount : mount.mountPath)

DeploymentAccepted(d) ==
    LET all == d.initContainers \o d.containers IN
    /\ d.containers # <<>>
    /\ Distinct(all, LAMBDA c : c.name)
    /\ Distinct(d.volumes, LAMBDA v : v.name)
    /\ \A i \in DOMAIN d.volumes : d.volumes[i].source # <<"pvc", Empty>>
    /\ \A i \in DOMAIN d.terms : d.terms[i].values # {}
    /\ \A i \in DOMAIN all : ContainerAccepted(all[i], d.volumes)

\* References to one gateway each name a section of their own.
RouteAccepted(parentRefs) ==
    /\ Distinct(parentRefs, LAMBDA ref : ref)
    /\ \A i, j \in DOMAIN parentRefs :
         i # j /\ parentRefs[i].name = parentRefs[j].name =>
           parentRefs[i].section # Empty

-----------------------------------------------------------------------------

Init ==
    /\ spec \in Specs
    /\ base \in Bases
    /\ deployment = NoDeployment
    /\ route = <<>>
    /\ outcome = Pending
    /\ served = NoURI

EditSpec ==
    /\ spec' \in Specs \ {spec}
    /\ outcome' = Pending
    /\ UNCHANGED <<base, deployment, route, served>>

EditBase ==
    /\ base' \in Bases \ {base}
    /\ outcome' = Pending
    /\ UNCHANGED <<spec, deployment, route, served>>

DeleteDeployment ==
    /\ deployment # NoDeployment
    /\ deployment' = NoDeployment
    /\ served' = NoURI
    /\ outcome' = Pending
    /\ UNCHANGED <<spec, base, route>>

\* TemplateVars.from returns an error: nothing is rendered.
FailRender ==
    /\ ~Supported(spec.uri)
    /\ outcome' = [deployment |-> "failed", route |-> "failed"]
    /\ UNCHANGED <<spec, base, deployment, route, served>>

\* invokeCreateOrUpdate: an object that would not change is not sent, and a refused
\* deployment does not keep the route from being written.
Reconcile ==
    LET pod == Update(deployment, MergePDDeployment)
        parents == Replace(route, MergeHTTPRoute)
        podOK == (pod = deployment /\ pod # NoDeployment) \/ DeploymentAccepted(pod)
        parentsOK == parents = route \/ RouteAccepted(parents)
    IN
    /\ Supported(spec.uri)
    /\ deployment' = IF podOK THEN pod ELSE deployment
    /\ route' = IF parentsOK THEN parents ELSE route
    /\ outcome' = [deployment |-> IF podOK THEN "written" ELSE "refused",
                   route |-> IF parentsOK THEN "written" ELSE "refused"]
    /\ served' = IF podOK /\ WellFormed(spec.uri) THEN spec.uri ELSE served
    /\ UNCHANGED <<spec, base>>

Next == EditSpec \/ EditBase \/ DeleteDeployment \/ FailRender \/ Reconcile

Spec == Init /\ [][Next]_vars
=============================================================================
