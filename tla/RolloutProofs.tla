----------------------------- MODULE RolloutProofs -----------------------------
(***************************************************************************)
(* For every ModelService and every BaseConfig, and any history of edits:  *)
(* the properties of the rollout, each from an inductive invariant that    *)
(* ties what the API server holds to what is rendered.                     *)
(***************************************************************************)
EXTENDS RolloutProperties, SliceMergeProofs

\* The inductive invariant: what was written contains what is rendered.
Contained == Written => Update(deployment, MergePDDeployment) = deployment

LEMMA ReplaceIdempotent ==
    ASSUME NEW dst, NEW src
    PROVE  Replace(Replace(dst, src), src) = Replace(dst, src)
  BY DEF Replace

LEMMA UpdateIdempotent ==
    ASSUME NEW dst, NEW src
    PROVE  Update(Update(dst, src), src) = Update(dst, src)
  BY ReplaceIdempotent DEF Update

\* Rendering reads nothing but the ModelService and the BaseConfig.
LEMMA RenderingIsPure ==
    ASSUME UNCHANGED <<spec, base>>
    PROVE  MergePDDeployment' = MergePDDeployment
  BY DEF MergePDDeployment, MergeContainerList

LEMMA ContainedInit == Init => Contained
  BY DEF Init, Pending, Contained, Written

LEMMA ContainedStep == Contained /\ [Next]_vars => Contained'
<1> SUFFICES ASSUME Contained, [Next]_vars PROVE Contained'
  OBVIOUS
<1>1. CASE EditSpec
  BY <1>1 DEF EditSpec, Pending, Contained, Written
<1>2. CASE EditBase
  BY <1>2 DEF EditBase, Pending, Contained, Written
<1>3. CASE DeleteDeployment
  BY <1>3 DEF DeleteDeployment, Pending, Contained, Written
<1>4. CASE FailRender
  BY <1>4 DEF FailRender, Contained, Written
<1>5. CASE Reconcile
  <2> DEFINE pod == Update(deployment, MergePDDeployment)
  <2>1. SUFFICES ASSUME Written' PROVE Update(deployment', MergePDDeployment') = deployment'
    BY DEF Contained
  <2>2. deployment' = pod
    BY <1>5, <2>1 DEF Reconcile, Written
  <2>3. MergePDDeployment' = MergePDDeployment
    BY <1>5, RenderingIsPure DEF Reconcile
  <2> QED
    BY <2>2, <2>3, UpdateIdempotent
<1>6. CASE UNCHANGED vars
  <2>1. MergePDDeployment' = MergePDDeployment
    BY <1>6, RenderingIsPure DEF vars
  <2> QED
    BY <1>6, <2>1 DEF vars, Contained, Written
<1> QED
  BY <1>1, <1>2, <1>3, <1>4, <1>5, <1>6 DEF Next

\* What was written contains what is rendered, in every reachable state.
THEOREM WrittenIsContained == Spec => []Contained
<1>1. Init => Contained
  BY ContainedInit
<1>2. Contained /\ [Next]_vars => Contained'
  BY ContainedStep
<1> QED
  BY <1>1, <1>2, PTL DEF Spec

\* An update cannot set off the next one: with any containers, volumes, node terms
\* and URIs, in any order of edits, refusals and deletions.
THEOREM UpdatesSettle == Spec => UpdateSettles
<1>1. Contained /\ [Next]_vars => [Written /\ Reconcile => UNCHANGED deployment]_vars
  BY DEF Contained, Reconcile
<1> QED
  BY <1>1, WrittenIsContained, PTL DEF Spec, UpdateSettles

-----------------------------------------------------------------------------
LEMMA BaseUnderstood == Spec => [](base \in Bases)
<1>1. Init => base \in Bases
  BY DEF Init
<1>2. base \in Bases /\ [Next]_vars => (base \in Bases)'
  BY DEF Next, EditSpec, EditBase, DeleteDeployment, FailRender, Reconcile, vars
<1> QED
  BY <1>1, <1>2, PTL DEF Spec

\* The volumes of a deployment follow the URI for every BaseConfig: an update leaves
\* no stale claim behind.
THEOREM VolumesAreCurrent == Spec => []VolumesFollowURI
<1>1. Contained /\ base \in Bases => VolumesFollowURI
  <2> SUFFICES ASSUME Contained, base \in Bases, Written, WellFormed(spec.uri)
               PROVE  deployment.volumes
                        = base.volumes \o getVolumeForPDDeployment(spec.uri)
    BY DEF VolumesFollowURI
  <2> DEFINE volume == getVolumeForPDDeployment(spec.uri)
  <2>1. PICK v : volume = <<v>>
    BY DEF WellFormed, getVolumeForPDDeployment
  <2>2. base.volumes \o volume # <<>>
    BY <2>1, BasesAssumption
  <2>3. Replace(deployment.volumes, base.volumes \o volume) = deployment.volumes
    <3>1. Update(deployment, MergePDDeployment).volumes = deployment.volumes
      BY DEF Contained
    <3> QED
      BY <3>1 DEF Update, MergePDDeployment
  <2> QED
    BY <2>2, <2>3 DEF Replace
<1> QED
  BY <1>1, WrittenIsContained, BaseUnderstood, PTL

-----------------------------------------------------------------------------
(* What is rendered, item by item *)

\* The parts of the ModelService and of the BaseConfig.
Given == spec \in Specs /\ base \in Bases

LEMMA SpecIs ==
    ASSUME Given
    PROVE  /\ spec.containers \in Seq(ContainerSpecs)
           /\ spec.initContainers \in Seq(ContainerSpecs)
           /\ spec.uri \in URIs
           /\ spec.authSecretName \in STRING
           /\ spec.gatewayRefs \in Seq(ParentRefs)
  BY SpecsAssumption DEF Given

LEMMA BaseIs ==
    ASSUME Given
    PROVE  /\ base.containers \in Seq(BaseContainers)
           /\ base.initContainers \in Seq(BaseContainers)
           /\ base.volumes \in Seq([name : STRING, source : Seq(STRING)])
           /\ base.terms \in Seq([key : STRING, values : SUBSET STRING])
           /\ base.parentRefs \in Seq(ParentRefs)
  BY BasesAssumption DEF Given

LEMMA RenderedType ==
    ASSUME Given, NEW args \in Seq(STRING)
    PROVE  Rendered(args) \in Seq(Seq(STRING))
<1>1. spec.uri \in URIs
  BY SpecIs
<1>2. MountedModelPath(spec.uri) \in Seq(STRING)
  <2>1. modelStorageRoot \in STRING /\ spec.uri.path \in STRING
    BY <1>1, LiteralsAssumption DEF URIs
  <2>2. /\ <<modelStorageRoot>> \in Seq(STRING) /\ <<>> \in Seq(STRING)
        /\ <<modelStorageRoot, spec.uri.path>> \in Seq(STRING)
    BY <2>1, Short
  <2> QED
    BY <2>1, <2>2 DEF MountedModelPath
<1>3. \A i \in DOMAIN args : Interpolated(args[i], spec.uri) \in Seq(STRING)
  <2> TAKE i \in DOMAIN args
  <2>1. <<args[i]>> \in Seq(STRING)
    OBVIOUS
  <2> QED
    BY <2>1, <1>2 DEF Interpolated
<1> DEFINE f == [i \in DOMAIN args |-> Interpolated(args[i], spec.uri)]
<1>4. f = [i \in DOMAIN args |-> f[i]] /\ \A i \in DOMAIN args : f[i] \in Seq(STRING)
  BY <1>3
<1> HIDE DEF f
<1>5. f \in Seq(Seq(STRING))
  BY <1>4, RewrittenHolds
<1> QED
  BY <1>5 DEF f, Rendered

\* A container of either side, as the merge finds it.
FromBase(c) == [c EXCEPT !.args = Rendered(@)]
FromSpec(c) == ContainerWithURIInfo([c EXCEPT !.args = Rendered(@)], spec.uri,
                                    spec.authSecretName)

LEMMA FromBaseType ==
    ASSUME Given, NEW c \in BaseContainers
    PROVE  /\ FromBase(c) \in Containers
           /\ FromBase(c) = [name |-> c.name, image |-> c.image, command |-> c.command,
                             args |-> Rendered(c.args), env |-> c.env, mounts |-> c.mounts]
<1>1. c.args \in Seq(STRING)
  BY DEF BaseContainers
<1>2. Rendered(c.args) \in Seq(Seq(STRING))
  BY <1>1, RenderedType
<1>3. FromBase(c) = [name |-> c.name, image |-> c.image, command |-> c.command,
                     args |-> Rendered(c.args), env |-> c.env, mounts |-> c.mounts]
  BY DEF FromBase, BaseContainers
<1> QED
  BY <1>2, <1>3 DEF BaseContainers, Containers

LEMMA EnvsType ==
    ASSUME Given
    PROVE  getEnvsForContainer(spec.uri, spec.authSecretName) \in Seq(EnvVars)
<1> DEFINE token == EnvVar(ENV_HF_TOKEN, Empty, spec.authSecretName)
           home == EnvVar(ENV_HF_HOME, modelStorageRoot, Empty)
<1>1. token \in EnvVars
  BY SpecIs, LiteralsAssumption DEF EnvVar, EnvVars
<1>2. home \in EnvVars
  BY LiteralsAssumption DEF EnvVar, EnvVars
<1> HIDE DEF token, home
<1>3. <<token>> \in Seq(EnvVars) /\ <<home>> \in Seq(EnvVars) /\ <<>> \in Seq(EnvVars)
  BY <1>1, <1>2
<1>4. (IF spec.authSecretName = Empty THEN <<>> ELSE <<token>>) \o <<home>> \in Seq(EnvVars)
  BY <1>3
<1> QED
  BY <1>3, <1>4 DEF getEnvsForContainer, token, home

LEMMA MountsType ==
    getVolumeMountsForContainer(spec.uri) \in Seq(Mounts)
<1>1. [name |-> modelStorageVolumeName, mountPath |-> modelStorageRoot] \in Mounts
  BY LiteralsAssumption DEF Mounts
<1> QED
  BY <1>1 DEF getVolumeMountsForContainer

LEMMA FromSpecType ==
    ASSUME Given, NEW c \in ContainerSpecs
    PROVE  /\ FromSpec(c) \in Containers
           /\ FromSpec(c) =
                [name |-> c.name, image |-> c.image, command |-> c.command,
                 args |-> Rendered(c.args),
                 env |-> IF c.mountModelVolume
                         THEN getEnvsForContainer(spec.uri, spec.authSecretName) ELSE c.env,
                 mounts |-> IF c.mountModelVolume
                            THEN getVolumeMountsForContainer(spec.uri) ELSE <<>>]
<1>1. c.args \in Seq(STRING)
  BY DEF ContainerSpecs
<1>2. Rendered(c.args) \in Seq(Seq(STRING))
  BY <1>1, RenderedType
<1>3. getEnvsForContainer(spec.uri, spec.authSecretName) \in Seq(EnvVars)
  BY EnvsType
<1>4. getVolumeMountsForContainer(spec.uri) \in Seq(Mounts) /\ <<>> \in Seq(Mounts)
  BY MountsType
<1>5. FromSpec(c) =
        [name |-> c.name, image |-> c.image, command |-> c.command,
         args |-> Rendered(c.args),
         env |-> IF c.mountModelVolume
                 THEN getEnvsForContainer(spec.uri, spec.authSecretName) ELSE c.env,
         mounts |-> IF c.mountModelVolume
                    THEN getVolumeMountsForContainer(spec.uri) ELSE <<>>]
  BY DEF FromSpec, ContainerWithURIInfo, ContainerSpecs
<1> QED
  BY <1>2, <1>3, <1>4, <1>5 DEF ContainerSpecs, Containers

\* Interpolation and conversion rewrite each item and keep its name.
LEMMA BaseListHolds ==
    ASSUME Given, NEW list \in Seq(BaseContainers)
    PROVE  /\ InterpolateContainers(list, spec.uri) \in Seq(Containers)
           /\ Items(InterpolateContainers(list, spec.uri)) = {FromBase(c) : c \in Items(list)}
           /\ Names(InterpolateContainers(list, spec.uri)) = Names(list)
<1> DEFINE f == InterpolateContainers(list, spec.uri)
<1>1. f = [i \in DOMAIN list |-> FromBase(list[i])]
  BY DEF InterpolateContainers, FromBase, Rendered
<1>2. \A i \in DOMAIN list : list[i] \in BaseContainers
  OBVIOUS
<1>3. \A i \in DOMAIN list : f[i] \in Containers /\ f[i].name = list[i].name
  BY <1>1, <1>2, FromBaseType
<1>4. f = [i \in DOMAIN list |-> f[i]]
  BY <1>1
<1> HIDE DEF f
<1>5. f \in Seq(Containers) /\ DOMAIN f = DOMAIN list
  BY <1>3, <1>4, RewrittenHolds
<1>6. Items(f) = {FromBase(c) : c \in Items(list)}
  BY <1>1 DEF Items
<1>7. Names(f) = Names(list)
  BY <1>3, <1>5 DEF Names
<1> QED
  BY <1>5, <1>6, <1>7 DEF f

LEMMA SpecListHolds ==
    ASSUME Given, NEW list \in Seq(ContainerSpecs),
           NEW f, f = convertToContainerSliceWithURIInfo(
                        InterpolateContainers(list, spec.uri), spec.uri, spec.authSecretName)
    PROVE  /\ f \in Seq(Containers)
           /\ Items(f) = {FromSpec(c) : c \in Items(list)}
           /\ Names(f) = Names(list)
           /\ \A n \in Names(list) : LastNamed(f, n) = FromSpec(LastNamed(list, n))
<1>1. f = [i \in DOMAIN list |-> FromSpec(list[i])]
  BY DEF convertToContainerSliceWithURIInfo, InterpolateContainers, FromSpec, Rendered
<1>2. \A i \in DOMAIN list : list[i] \in ContainerSpecs
  OBVIOUS
<1>3. \A i \in DOMAIN list : f[i] \in Containers /\ f[i].name = list[i].name
  BY <1>1, <1>2, FromSpecType
<1>4. f = [i \in DOMAIN list |-> f[i]]
  BY <1>1
<1>5. f \in Seq(Containers) /\ DOMAIN f = DOMAIN list
  BY <1>3, <1>4, RewrittenHolds
<1>6. Items(f) = {FromSpec(c) : c \in Items(list)}
  BY <1>1 DEF Items
<1>7. Names(f) = Names(list)
  BY <1>3, <1>5 DEF Names
<1>8. ASSUME NEW n \in Names(list) PROVE LastNamed(f, n) = FromSpec(LastNamed(list, n))
  <2>1. PICK k \in DOMAIN list :
          /\ list[k].name = n
          /\ \A j \in DOMAIN list : list[j].name = n => j <= k
          /\ LastNamed(list, n) = list[k]
    BY LastNamedIs
  <2>2. PICK m \in DOMAIN f :
          /\ f[m].name = n
          /\ \A j \in DOMAIN f : f[j].name = n => j <= m
          /\ LastNamed(f, n) = f[m]
    BY <1>5, <1>7, LastNamedIs
  <2>3. k <= m /\ m <= k /\ k \in Nat /\ m \in Nat
    BY <2>1, <2>2, <1>3, <1>5
  <2>4. k = m
    BY <2>3
  <2> QED
    BY <2>1, <2>2, <2>4, <1>1
<1> QED
  BY <1>5, <1>6, <1>7, <1>8

\* A container of the merged list, by which side names it.
Merged(c, ofSpec) ==
    IF c.name \in Names(ofSpec)
    THEN MergeContainer(FromBase(c), FromSpec(LastNamed(ofSpec, c.name)))
    ELSE FromBase(c)

LEMMA MergedListHolds ==
    ASSUME Given, NEW ofBase \in Seq(BaseContainers), NEW ofSpec \in Seq(ContainerSpecs)
    PROVE  /\ MergeContainerList(ofBase, ofSpec) \in Seq(Containers)
           /\ Items(MergeContainerList(ofBase, ofSpec))
                = {Merged(c, ofSpec) : c \in Items(ofBase)}
                  \cup {FromSpec(u) : u \in {v \in Items(ofSpec) : v.name \notin Names(ofBase)}}
<1> DEFINE dst == InterpolateContainers(ofBase, spec.uri)
           src == convertToContainerSliceWithURIInfo(
                    InterpolateContainers(ofSpec, spec.uri), spec.uri, spec.authSecretName)
<1>1. /\ dst \in Seq(Containers)
      /\ Items(dst) = {FromBase(c) : c \in Items(ofBase)}
      /\ Names(dst) = Names(ofBase)
  BY BaseListHolds
<1>2. /\ src \in Seq(Containers)
      /\ Items(src) = {FromSpec(c) : c \in Items(ofSpec)}
      /\ Names(src) = Names(ofSpec)
      /\ \A n \in Names(ofSpec) : LastNamed(src, n) = FromSpec(LastNamed(ofSpec, n))
  BY SpecListHolds
<1>3. MergeContainerList(ofBase, ofSpec) = MergeByName(dst, src, MergeContainer)
  BY DEF MergeContainerList, MergeContainers
<1> HIDE DEF dst, src
<1>4. \A c \in Items(ofBase) : FromBase(c).name = c.name
  <2>1. \A c \in Items(ofBase) : c \in BaseContainers
    BY DEF Items
  <2> QED
    BY <2>1, FromBaseType
<1>5. \A c \in Items(ofSpec) : FromSpec(c).name = c.name
  <2>1. \A c \in Items(ofSpec) : c \in ContainerSpecs
    BY DEF Items
  <2> QED
    BY <2>1, FromSpecType
<1>6. MergedItems(dst, src, MergeContainer)
        = {Merged(c, ofSpec) : c \in Items(ofBase)}
          \cup {FromSpec(u) : u \in {v \in Items(ofSpec) : v.name \notin Names(ofBase)}}
  <2>1. {IF item.name \in Names(src) THEN MergeContainer(item, LastNamed(src, item.name))
                                     ELSE item : item \in Items(dst)}
          = {Merged(c, ofSpec) : c \in Items(ofBase)}
    <3>1. ASSUME NEW c \in Items(ofBase)
          PROVE  (IF FromBase(c).name \in Names(src)
                  THEN MergeContainer(FromBase(c), LastNamed(src, FromBase(c).name))
                  ELSE FromBase(c)) = Merged(c, ofSpec)
      BY <1>2, <1>4 DEF Merged
    <3> QED
      BY <3>1, <1>1
  <2>2. {item \in Items(src) : item.name \notin Names(dst)}
          = {FromSpec(u) : u \in {v \in Items(ofSpec) : v.name \notin Names(ofBase)}}
    BY <1>1, <1>2, <1>5
  <2> QED
    BY <2>1, <2>2 DEF MergedItems
<1> QED
  BY <1>1, <1>2, <1>3, <1>6, MergedContainers

-----------------------------------------------------------------------------
(* Types *)

LEMMA RenderedTypes ==
    ASSUME Given
    PROVE  /\ MergePDDeployment.containers \in Seq(Containers)
           /\ MergePDDeployment.initContainers \in Seq(Containers)
  BY SpecIs, BaseIs, MergedListHolds DEF MergePDDeployment

LEMMA TypesInit == Init => TypeOK
<1> SUFFICES ASSUME Init PROVE TypeOK
  OBVIOUS
<1>1. <<>> \in Seq(Containers)
  OBVIOUS
<1>2. RouteAccepted(<<>>)
  BY DEF RouteAccepted, Distinct
<1> QED
  BY <1>1, <1>2 DEF Init, TypeOK, NoDeployment, Pending

LEMMA TypesStep == TypeOK /\ [Next]_vars => TypeOK'
<1> SUFFICES ASSUME TypeOK, [Next]_vars PROVE TypeOK'
  OBVIOUS
<1>1. CASE EditSpec
  BY <1>1 DEF EditSpec, Pending, TypeOK
<1>2. CASE EditBase
  BY <1>2 DEF EditBase, Pending, TypeOK
<1>3. CASE DeleteDeployment
  <2>1. <<>> \in Seq(Containers)
    OBVIOUS
  <2> QED
    BY <1>3, <2>1 DEF DeleteDeployment, NoDeployment, Pending, TypeOK
<1>4. CASE FailRender
  BY <1>4 DEF FailRender, TypeOK
<1>5. CASE Reconcile
  <2> DEFINE pod == Update(deployment, MergePDDeployment)
             parents == Replace(route, MergeHTTPRoute)
  <2>1. pod.containers \in Seq(Containers) /\ pod.initContainers \in Seq(Containers)
    <3>1. Given
      BY DEF Given, TypeOK
    <3> QED
      BY <3>1, RenderedTypes DEF Update, Replace, TypeOK
  <2>2. \/ deployment' = deployment
        \/ deployment' = pod /\ DeploymentAccepted(pod)
    BY <1>5 DEF Reconcile
  <2>3. \/ route' = route
        \/ route' = parents /\ RouteAccepted(parents)
    BY <1>5 DEF Reconcile
  <2>4. outcome' \in [deployment : {"pending", "failed", "written", "refused"},
                      route : {"pending", "failed", "written", "refused"}]
    BY <1>5 DEF Reconcile
  <2>5. served' = served \/ WellFormed(served')
    BY <1>5 DEF Reconcile
  <2>6. spec' = spec /\ base' = base
    BY <1>5 DEF Reconcile
  <2> HIDE DEF pod, parents
  <2>7. (deployment = NoDeployment \/ DeploymentAccepted(deployment))'
    BY <2>2 DEF TypeOK
  <2>8. RouteAccepted(route)'
    BY <2>3 DEF TypeOK
  <2>9. (served = NoURI \/ WellFormed(served))'
    BY <2>5 DEF TypeOK
  <2> QED
    BY <2>1, <2>2, <2>4, <2>6, <2>7, <2>8, <2>9 DEF TypeOK
<1>6. CASE UNCHANGED vars
  BY <1>6 DEF vars, TypeOK
<1> QED
  BY <1>1, <1>2, <1>3, <1>4, <1>5, <1>6 DEF Next

\* The API server holds nothing it would refuse and nothing that is no pod template,
\* whatever ModelServices and BaseConfigs are merged, in any order.
THEOREM RolloutTypes == Spec => []TypeOK
<1>1. Init => TypeOK
  BY TypesInit
<1>2. TypeOK /\ [Next]_vars => TypeOK'
  BY TypesStep
<1> QED
  BY <1>1, <1>2, PTL DEF Spec

-----------------------------------------------------------------------------
(* The route *)

\* The inductive invariant: a route that was written is what an update leaves alone.
RouteContained == outcome.route = "written" => Replace(route, MergeHTTPRoute) = route

LEMMA RouteContainedStep == RouteContained /\ [Next]_vars => RouteContained'
<1> SUFFICES ASSUME RouteContained, [Next]_vars PROVE RouteContained'
  OBVIOUS
<1>1. CASE EditSpec \/ EditBase \/ DeleteDeployment
  BY <1>1 DEF EditSpec, EditBase, DeleteDeployment, Pending, RouteContained
<1>2. CASE FailRender
  BY <1>2 DEF FailRender, RouteContained
<1>3. CASE Reconcile
  <2>1. outcome'.route = "written" => route' = Replace(route, MergeHTTPRoute)
    BY <1>3 DEF Reconcile
  <2>2. MergeHTTPRoute' = MergeHTTPRoute
    BY <1>3 DEF Reconcile, MergeHTTPRoute
  <2> QED
    BY <2>1, <2>2, ReplaceIdempotent DEF RouteContained
<1>4. CASE UNCHANGED vars
  BY <1>4 DEF vars, RouteContained, MergeHTTPRoute
<1> QED
  BY <1>1, <1>2, <1>3, <1>4 DEF Next

LEMMA RouteContainedHolds == Spec => []RouteContained
<1>1. Init => RouteContained
  BY DEF Init, Pending, RouteContained
<1>2. RouteContained /\ [Next]_vars => RouteContained'
  BY RouteContainedStep
<1> QED
  BY <1>1, <1>2, PTL DEF Spec

\* A list of at least one item is not empty.
LEMMA NotEmpty ==
    ASSUME NEW S, NEW list \in Seq(S), NEW item \in Items(list)
    PROVE  list # <<>>
  BY DEF Items

\* What merged parents hold of each side.
LEMMA ParentsHold ==
    ASSUME Given
    PROVE  /\ MergeHTTPRoute \in Seq(ParentRefs)
           /\ \A n \in Names(spec.gatewayRefs) : \E ref \in Items(MergeHTTPRoute) :
                /\ ref.name = n
                /\ LastNamed(spec.gatewayRefs, n).section \in {ref.section, Empty}
           /\ Names(base.parentRefs) \subseteq Names(MergeHTTPRoute)
<1> DEFINE dst == base.parentRefs
           src == spec.gatewayRefs
           M == MergeHTTPRoute
<1>1. dst \in Seq(ParentRefs) /\ src \in Seq(ParentRefs)
  BY SpecIs, BaseIs
<1>2. /\ M \in Seq(ParentRefs)
      /\ Items(M) = MergedItems(dst, src, MergeParentRef)
  BY <1>1, MergedParentRefs DEF MergeHTTPRoute, MergeParentRefs
<1> HIDE DEF M, dst, src
<1>3. ASSUME NEW item \in Items(dst)
      PROVE  \E ref \in Items(M) :
               /\ ref.name = item.name
               /\ item.name \in Names(src) =>
                    ref.section = Override(item.section, LastNamed(src, item.name).section)
  <2>1. CASE item.name \in Names(src)
    <3>1. MergeParentRef(item, LastNamed(src, item.name)) \in Items(M)
      BY <1>2, <2>1 DEF MergedItems
    <3> QED
      BY <3>1 DEF MergeParentRef
  <2>2. CASE item.name \notin Names(src)
    BY <1>2, <2>2 DEF MergedItems
  <2> QED
    BY <2>1, <2>2
<1>4. ASSUME NEW n \in Names(src)
      PROVE  \E ref \in Items(M) :
               /\ ref.name = n
               /\ LastNamed(src, n).section \in {ref.section, Empty}
  <2>1. LastNamed(src, n) \in Items(src) /\ LastNamed(src, n).name = n
    BY <1>1, LastNamedIsItem
  <2>2. CASE n \in Names(dst)
    <3>1. PICK item \in Items(dst) : item.name = n
      BY <2>2, NamesOfItems
    <3> QED
      BY <1>3, <3>1 DEF Override
  <2>3. CASE n \notin Names(dst)
    BY <1>2, <2>1, <2>3 DEF MergedItems
  <2> QED
    BY <2>2, <2>3
<1>5. Names(dst) \subseteq Names(M)
  BY <1>3, NamesOfItems
<1> QED
  BY <1>2, <1>4, <1>5 DEF M, dst, src

LEMMA TypesGive == TypeOK => Given
  BY DEF TypeOK, Given

\* Every gateway of the user is attached, and none of the platform's is lost, for all
\* lists of gateways, with repeated names and without sections too, after any edits.
THEOREM GatewaysStayAttached == Spec => []GatewaysAttached
<1>1. Given /\ RouteContained => GatewaysAttached
  <2> SUFFICES ASSUME Given, RouteContained, outcome.route = "written"
               PROVE  /\ \A n \in Names(spec.gatewayRefs) : \E ref \in Items(route) :
                           /\ ref.name = n
                           /\ LastNamed(spec.gatewayRefs, n).section \in {ref.section, Empty}
                      /\ base.parentRefs # <<>> => Names(base.parentRefs) \subseteq Names(route)
    BY DEF GatewaysAttached
  <2>1. MergeHTTPRoute # <<>> => route = MergeHTTPRoute
    BY DEF RouteContained, Replace
  <2>2. \A ref \in Items(MergeHTTPRoute) : route = MergeHTTPRoute
    BY <2>1, ParentsHold, NotEmpty
  <2>3. Names(base.parentRefs) \subseteq Names(route)
    BY <2>2, ParentsHold, NamesOfItems
  <2> QED
    BY <2>2, <2>3, ParentsHold
<1> QED
  BY <1>1, TypesGive, RolloutTypes, RouteContainedHolds, PTL

-----------------------------------------------------------------------------
(* Precedence *)

LEMMA OnlyIs ==
    ASSUME NEW list, NEW n \in Names(list)
    PROVE  Only(list, n) \in Items(list) /\ Only(list, n).name = n
<1>1. \E item \in Items(list) : item.name = n
  BY NamesOfItems
<1> QED
  BY <1>1 DEF Only

LEMMA OnlyOne ==
    ASSUME NEW list, NamesApart(list), NEW item \in Items(list)
    PROVE  Only(list, item.name) = item
<1>1. \A other \in Items(list) : other.name = item.name => other = item
  BY DEF NamesApart, Items
<1>2. item.name \in Names(list)
  BY NamesOfItems
<1> QED
  BY <1>1, <1>2, OnlyIs

LEMMA OnceEach ==
    ASSUME NEW list, NamesApart(list), NEW n \in Names(list)
    PROVE  NamedOnce(list, n)
  BY DEF NamesApart, Names, NamedOnce

\* Variables of user and platform.
LEMMA EnvMerged ==
    ASSUME NEW ofUser \in Seq(EnvVars), NEW ofBase \in Seq(EnvVars)
    PROVE  EnvPrecedence(MergeByName(ofBase, ofUser, MergeEnvVar), ofUser, ofBase)
<1> DEFINE env == MergeByName(ofBase, ofUser, MergeEnvVar)
<1>1. Items(env) = MergedItems(ofBase, ofUser, MergeEnvVar)
  BY MergedEnv
<1> HIDE DEF env
<1> SUFFICES ASSUME NEW n \in Names(ofUser) \cup Names(ofBase)
             PROVE  \E e \in Items(env) :
                      /\ e.name = n
                      /\ \A f \in EnvVarSources :
                           LET u == IF n \in Names(ofUser) THEN LastNamed(ofUser, n)[f] ELSE Empty
                               b == IF n \in Names(ofBase) THEN LastNamed(ofBase, n)[f] ELSE Empty
                           IN  e[f] = IF u # Empty THEN u ELSE b
  BY DEF EnvPrecedence, env
<1> DEFINE u == LastNamed(ofUser, n)
           b == LastNamed(ofBase, n)
<1>2. n \in Names(ofUser) => u \in Items(ofUser) /\ u \in EnvVars /\ u.name = n
  BY LastNamedIsItem
<1>3. n \in Names(ofBase) => b \in Items(ofBase) /\ b \in EnvVars /\ b.name = n
  BY LastNamedIsItem
<1>4. CASE n \in Names(ofUser) /\ n \in Names(ofBase)
  <2>1. MergeEnvVar(b, u) \in Items(env)
    BY <1>1, <1>3, <1>4 DEF MergedItems
  <2>2. MergeEnvVar(b, u).name = n
    BY <1>3, <1>4 DEF MergeEnvVar
  <2>3. \A f \in EnvVarSources : MergeEnvVar(b, u)[f] = IF u[f] # Empty THEN u[f] ELSE b[f]
    BY DEF EnvVarSources, MergeEnvVar, Override
  <2> QED
    BY <1>4, <2>1, <2>2, <2>3
<1>5. CASE n \in Names(ofUser) /\ n \notin Names(ofBase)
  <2>1. u \in Items(env)
    BY <1>1, <1>2, <1>5 DEF MergedItems
  <2> QED
    BY <1>2, <1>5, <2>1
<1>6. CASE n \notin Names(ofUser)
  <2>1. b \in Items(env)
    BY <1>1, <1>3, <1>6 DEF MergedItems
  <2> QED
    BY <1>3, <1>6, <2>1
<1> QED
  BY <1>4, <1>5, <1>6

LEMMA EnvAlone ==
    ASSUME NEW ofUser \in Seq(EnvVars)
    PROVE  EnvPrecedence(ofUser, ofUser, <<>>)
<1>1. Names(<<>>) = {}
  BY DEF Names
<1>2. \A n \in Names(ofUser) :
        LastNamed(ofUser, n) \in Items(ofUser) /\ LastNamed(ofUser, n).name = n
  BY LastNamedIsItem
<1> QED
  BY <1>1, <1>2 DEF EnvPrecedence

\* One container that both sides name, and one that only the user names.
LEMMA BothPrecede ==
    ASSUME Given, NEW u \in ContainerSpecs, NEW b \in BaseContainers
    PROVE  ContainerPrecedence(MergeContainer(FromBase(b), FromSpec(u)), u, b)
<1> DEFINE c == MergeContainer(FromBase(b), FromSpec(u))
<1>1. /\ FromBase(b).image = b.image /\ FromBase(b).command = b.command
      /\ FromBase(b).args = Rendered(b.args) /\ FromBase(b).env = b.env
  BY FromBaseType
<1>2. /\ FromSpec(u).image = u.image /\ FromSpec(u).command = u.command
      /\ FromSpec(u).args = Rendered(u.args)
      /\ ~u.mountModelVolume => FromSpec(u).env = u.env
  BY FromSpecType
<1>3. c.image = IF u.image # Empty THEN u.image ELSE b.image
  BY <1>1, <1>2 DEF MergeContainer, Override
<1>4. c.command = IF u.command # <<>> THEN u.command ELSE b.command
  BY <1>1, <1>2 DEF MergeContainer
<1>5. c.args = Rendered(u.args) \o Rendered(b.args)
  BY <1>1, <1>2 DEF MergeContainer
<1>6. ~u.mountModelVolume => EnvPrecedence(c.env, u.env, b.env)
  <2>1. u.env \in Seq(EnvVars) /\ b.env \in Seq(EnvVars)
    BY DEF ContainerSpecs, BaseContainers
  <2>2. ~u.mountModelVolume => c.env = MergeByName(b.env, u.env, MergeEnvVar)
    BY <1>1, <1>2 DEF MergeContainer
  <2> QED
    BY <2>1, <2>2, EnvMerged
<1> QED
  BY <1>3, <1>4, <1>5, <1>6 DEF ContainerPrecedence

LEMMA UserPrecedes ==
    ASSUME Given, NEW u \in ContainerSpecs
    PROVE  ContainerPrecedence(FromSpec(u), u, NoContainer)
<1>1. /\ FromSpec(u).image = u.image /\ FromSpec(u).command = u.command
      /\ FromSpec(u).args = Rendered(u.args)
      /\ ~u.mountModelVolume => FromSpec(u).env = u.env
  BY FromSpecType
<1>2. u.args \in Seq(STRING) /\ u.env \in Seq(EnvVars)
  BY DEF ContainerSpecs
<1>3. Rendered(u.args) \o Rendered(<<>>) = Rendered(u.args)
  <2>1. Rendered(u.args) \in Seq(Seq(STRING))
    BY <1>2, RenderedType
  <2>2. Rendered(<<>>) = <<>>
    BY DEF Rendered
  <2> QED
    BY <2>1, <2>2
<1>4. EnvPrecedence(u.env, u.env, <<>>)
  BY <1>2, EnvAlone
<1> QED
  BY <1>1, <1>3, <1>4 DEF ContainerPrecedence, NoContainer

\* What the merged list holds under a name, by which side names it.
LEMMA MergedUnderName ==
    ASSUME Given, NEW ofUser \in Seq(ContainerSpecs), NEW ofBase \in Seq(BaseContainers),
           NEW list, list = MergeContainerList(ofBase, ofUser)
    PROVE  /\ Names(list) = Names(ofUser) \cup Names(ofBase)
           /\ \A n \in Names(ofUser) : n \in Names(ofBase) =>
                \E c \in Items(list) :
                  /\ c.name = n
                  /\ c = MergeContainer(FromBase(Only(ofBase, n)), FromSpec(LastNamed(ofUser, n)))
           /\ \A n \in Names(ofUser) \ Names(ofBase) : \E c \in Items(list) :
                c.name = n /\ c = FromSpec(LastNamed(ofUser, n))
           /\ \A n \in Names(ofBase) \ Names(ofUser) : \E c \in Items(list) :
                c.name = n /\ c = FromBase(Only(ofBase, n))
<1>1. Items(list) = {Merged(c, ofUser) : c \in Items(ofBase)}
                    \cup {FromSpec(u) : u \in {v \in Items(ofUser) : v.name \notin Names(ofBase)}}
  BY MergedListHolds
<1>2. \A b \in Items(ofBase) : b \in BaseContainers
  BY DEF Items
<1>3. \A u \in Items(ofUser) : u \in ContainerSpecs
  BY DEF Items
<1>4. \A b \in Items(ofBase) : FromBase(b).name = b.name /\ Merged(b, ofUser).name = b.name
  BY <1>2, FromBaseType DEF Merged, MergeContainer
<1>5. \A u \in Items(ofUser) : FromSpec(u).name = u.name
  BY <1>3, FromSpecType
<1>6. \A n \in Names(ofBase) : Only(ofBase, n) \in Items(ofBase) /\ Only(ofBase, n).name = n
  BY OnlyIs
<1>7. \A n \in Names(ofUser) :
        LastNamed(ofUser, n) \in Items(ofUser) /\ LastNamed(ofUser, n).name = n
  BY LastNamedIsItem
<1>8. \A n \in Names(ofBase) : \E c \in Items(list) :
        c.name = n /\ c = Merged(Only(ofBase, n), ofUser)
  BY <1>1, <1>4, <1>6
<1>9. \A n \in Names(ofUser) \ Names(ofBase) : \E c \in Items(list) :
        c.name = n /\ c = FromSpec(LastNamed(ofUser, n))
  BY <1>1, <1>5, <1>7
<1>10. Names(list) = Names(ofUser) \cup Names(ofBase)
  <2>1. \A c \in Items(list) : c.name \in Names(ofUser) \cup Names(ofBase)
    BY <1>1, <1>4, <1>5, NamesOfItems
  <2>2. Names(list) = {c.name : c \in Items(list)}
    BY NamesOfItems
  <2> QED
    BY <2>1, <2>2, <1>8, <1>9
<1> QED
  BY <1>6, <1>8, <1>9, <1>10 DEF Merged

LEMMA ListPrecedes ==
    ASSUME Given, NEW ofUser \in Seq(ContainerSpecs), NEW ofBase \in Seq(BaseContainers),
           NEW list, list = MergeContainerList(ofBase, ofUser), NamesApart(list)
    PROVE  ListPrecedence(list, ofUser, ofBase)
<1>1. Names(list) = Names(ofUser) \cup Names(ofBase)
  BY MergedUnderName
<1>2. \A n \in Names(list) : NamedOnce(list, n)
  BY OnceEach
<1>3. \A n \in Names(ofUser) :
        LastNamed(ofUser, n) \in ContainerSpecs /\ LastNamed(ofUser, n).name = n
  BY LastNamedIsItem
<1>4. \A n \in Names(ofBase) : Only(ofBase, n) \in BaseContainers
  <2>1. \A b \in Items(ofBase) : b \in BaseContainers
    BY DEF Items
  <2> QED
    BY <2>1, OnlyIs
<1>5. ASSUME NEW n \in Names(ofUser)
      PROVE  ContainerPrecedence(Only(list, n), LastNamed(ofUser, n),
                 IF n \in Names(ofBase) THEN Only(ofBase, n) ELSE NoContainer)
  <2>1. CASE n \in Names(ofBase)
    <3>1. Only(list, n)
            = MergeContainer(FromBase(Only(ofBase, n)), FromSpec(LastNamed(ofUser, n)))
      BY <2>1, MergedUnderName, OnlyOne
    <3> QED
      BY <3>1, <2>1, <1>3, <1>4, BothPrecede
  <2>2. CASE n \notin Names(ofBase)
    <3>1. Only(list, n) = FromSpec(LastNamed(ofUser, n))
      BY <2>2, MergedUnderName, OnlyOne
    <3> QED
      BY <3>1, <2>2, <1>3, UserPrecedes
  <2> QED
    BY <2>1, <2>2
<1>6. ASSUME NEW n \in Names(ofBase) \ Names(ofUser)
      PROVE  Only(list, n) = [Only(ofBase, n) EXCEPT !.args = Rendered(@)]
  <2>1. Only(list, n) = FromBase(Only(ofBase, n))
    BY MergedUnderName, OnlyOne
  <2> QED
    BY <2>1 DEF FromBase
<1> QED
  BY <1>1, <1>2, <1>5, <1>6 DEF ListPrecedence

\* A list of either side is in the list that was written, with names apart.
LEMMA ListWritten ==
    ASSUME TypeOK, Contained, Written
    PROVE  /\ spec.containers # <<>> \/ base.containers # <<>> =>
                /\ deployment.containers = MergeContainerList(base.containers, spec.containers)
                /\ DeploymentAccepted(deployment)
           /\ spec.initContainers # <<>> \/ base.initContainers # <<>> =>
                /\ deployment.initContainers
                     = MergeContainerList(base.initContainers, spec.initContainers)
                /\ DeploymentAccepted(deployment)
<1>1. Given
  BY DEF TypeOK, Given
<1>2. ASSUME NEW ofUser \in Seq(ContainerSpecs), NEW ofBase \in Seq(BaseContainers),
             ofUser # <<>> \/ ofBase # <<>>
      PROVE  MergeContainerList(ofBase, ofUser) # <<>>
  <2> DEFINE list == MergeContainerList(ofBase, ofUser)
  <2>1. Names(ofUser) \cup Names(ofBase) # {}
    <3>1. ofUser # <<>> => 1 \in DOMAIN ofUser
      OBVIOUS
    <3>2. ofBase # <<>> => 1 \in DOMAIN ofBase
      OBVIOUS
    <3> QED
      BY <1>2, <3>1, <3>2 DEF Names
  <2>2. Names(list) # {}
    BY <1>1, <2>1, MergedUnderName
  <2> QED
    BY <2>2 DEF Names
<1>3. /\ Replace(deployment.containers, MergePDDeployment.containers) = deployment.containers
      /\ Replace(deployment.initContainers, MergePDDeployment.initContainers)
           = deployment.initContainers
  <2>1. /\ Update(deployment, MergePDDeployment).containers = deployment.containers
        /\ Update(deployment, MergePDDeployment).initContainers = deployment.initContainers
    BY DEF Contained
  <2> QED
    BY <2>1 DEF Update
<1>4. /\ MergePDDeployment.containers = MergeContainerList(base.containers, spec.containers)
      /\ MergePDDeployment.initContainers
           = MergeContainerList(base.initContainers, spec.initContainers)
  BY DEF MergePDDeployment
<1>5. deployment # NoDeployment => DeploymentAccepted(deployment)
  BY DEF TypeOK
<1>6. NoDeployment.containers = <<>> /\ NoDeployment.initContainers = <<>>
  BY DEF NoDeployment
<1>7. spec.containers # <<>> \/ base.containers # <<>> =>
        MergeContainerList(base.containers, spec.containers) # <<>>
  BY <1>1, <1>2, SpecIs, BaseIs
<1>8. spec.initContainers # <<>> \/ base.initContainers # <<>> =>
        MergeContainerList(base.initContainers, spec.initContainers) # <<>>
  BY <1>1, <1>2, SpecIs, BaseIs
<1> QED
  BY <1>3, <1>4, <1>5, <1>6, <1>7, <1>8 DEF Replace

LEMMA AcceptedApart ==
    ASSUME TypeOK, DeploymentAccepted(deployment)
    PROVE  NamesApart(deployment.containers) /\ NamesApart(deployment.initContainers)
<1> DEFINE a == deployment.initContainers
           b == deployment.containers
           all == a \o b
<1>1. a \in Seq(Containers) /\ b \in Seq(Containers)
  BY DEF TypeOK
<1>2. \A i, j \in DOMAIN all : all[i].name = all[j].name => i = j
  BY DEF DeploymentAccepted, Distinct
<1> HIDE DEF a, b
<1>3. /\ \A i \in DOMAIN a : i \in DOMAIN all /\ all[i] = a[i]
      /\ \A i \in DOMAIN b : Len(a) + i \in DOMAIN all /\ all[Len(a) + i] = b[i]
      /\ Len(a) \in Nat /\ DOMAIN b \subseteq Nat
  BY <1>1
<1> HIDE DEF all
<1>4. NamesApart(a)
  BY <1>2, <1>3 DEF NamesApart
<1>5. NamesApart(b)
  <2> SUFFICES ASSUME NEW i \in DOMAIN b, NEW j \in DOMAIN b, b[i].name = b[j].name
               PROVE  i = j
    BY DEF NamesApart
  <2>1. Len(a) + i = Len(a) + j
    BY <1>2, <1>3
  <2> QED
    BY <2>1, <1>3
<1> QED
  BY <1>4, <1>5 DEF a, b

\* Where user and platform both speak, the user is heard, where one is silent the other
\* is, and no container is lost or doubled: for all lists of containers, of arguments
\* and of variables, whatever the cluster held before.
THEOREM UserIsHeard == Spec => []UserOverridesBase
<1>1. TypeOK /\ Contained => UserOverridesBase
  <2> SUFFICES ASSUME TypeOK, Contained, Written
               PROVE  /\ ListPrecedence(deployment.containers, spec.containers, base.containers)
                      /\ ListPrecedence(deployment.initContainers, spec.initContainers,
                                        base.initContainers)
    BY DEF UserOverridesBase
  <2>1. Given
    BY TypesGive
  <2>2. /\ spec.containers \in Seq(ContainerSpecs) /\ base.containers \in Seq(BaseContainers)
        /\ spec.initContainers \in Seq(ContainerSpecs)
        /\ base.initContainers \in Seq(BaseContainers)
    BY <2>1, SpecIs, BaseIs
  <2>3. ListPrecedence(deployment.containers, spec.containers, base.containers)
    <3>1. CASE spec.containers # <<>> \/ base.containers # <<>>
      <4>1. deployment.containers = MergeContainerList(base.containers, spec.containers)
        BY <3>1, ListWritten
      <4>2. NamesApart(deployment.containers)
        BY <3>1, ListWritten, AcceptedApart
      <4> QED
        BY <2>1, <2>2, <4>1, <4>2, ListPrecedes
    <3>2. CASE spec.containers = <<>> /\ base.containers = <<>>
      BY <3>2 DEF ListPrecedence
    <3> QED
      BY <3>1, <3>2
  <2>4. ListPrecedence(deployment.initContainers, spec.initContainers, base.initContainers)
    <3>1. CASE spec.initContainers # <<>> \/ base.initContainers # <<>>
      <4>1. deployment.initContainers
              = MergeContainerList(base.initContainers, spec.initContainers)
        BY <3>1, ListWritten
      <4>2. NamesApart(deployment.initContainers)
        BY <3>1, ListWritten, AcceptedApart
      <4> QED
        BY <2>1, <2>2, <4>1, <4>2, ListPrecedes
    <3>2. CASE spec.initContainers = <<>> /\ base.initContainers = <<>>
      BY <3>2 DEF ListPrecedence
    <3> QED
      BY <3>1, <3>2
  <2> QED
    BY <2>3, <2>4
<1> QED
  BY <1>1, RolloutTypes, WrittenIsContained, PTL

-----------------------------------------------------------------------------
(* The model *)

\* The inductive invariant: every volume in the API server is that of the model served
\* last or comes from a BaseConfig, and nothing is written for a URI of another type.
VolumesExplained ==
    /\ Written => Supported(spec.uri)
    /\ Items(deployment.volumes) \subseteq
         (IF served = NoURI THEN {} ELSE Items(getVolumeForPDDeployment(served)))
           \cup UNION {Items(b.volumes) : b \in Bases}

Volumes == [name : STRING, source : Seq(STRING)]

LEMMA ConcatOfTwo ==
    ASSUME NEW A, NEW B, NEW a \in Seq(A), NEW b \in Seq(B)
    PROVE  Items(a \o b) = Items(a) \cup Items(b)
<1>1. a \in Seq(A \cup B) /\ b \in Seq(A \cup B)
  OBVIOUS
<1> QED
  BY <1>1, ConcatHolds

\* A well-formed URI has one volume, another none.
LEMMA VolumeOfURI ==
    ASSUME NEW uri
    PROVE  /\ WellFormed(uri) =>
                \E v : /\ getVolumeForPDDeployment(uri) = <<v>>
                       /\ v.name = modelStorageVolumeName
                       /\ v.source # <<"pvc", Empty>> \/ uri.first = Empty
           /\ ~WellFormed(uri) => getVolumeForPDDeployment(uri) = <<>>
           /\ \E A : getVolumeForPDDeployment(uri) \in Seq(A)
<1>1. CASE parsePVCURI(uri)
  <2> DEFINE v == [name |-> modelStorageVolumeName, source |-> <<"pvc", uri.first>>]
  <2>1. getVolumeForPDDeployment(uri) = <<v>>
    BY <1>1 DEF getVolumeForPDDeployment, parsePVCURI, parseHFURI
  <2>2. v.source = <<"pvc", Empty>> => uri.first = Empty
    OBVIOUS
  <2>3. <<v>> \in Seq({v}) /\ v.name = modelStorageVolumeName
    OBVIOUS
  <2> HIDE DEF v
  <2> QED
    BY <1>1, <2>1, <2>2, <2>3 DEF WellFormed
<1>2. CASE ~parsePVCURI(uri) /\ parseHFURI(uri)
  <2> DEFINE v == [name |-> modelStorageVolumeName, source |-> <<"emptyDir">>]
  <2>1. getVolumeForPDDeployment(uri) = <<v>>
    BY <1>2 DEF getVolumeForPDDeployment, parsePVCURI, parseHFURI
  <2>2. v.source # <<"pvc", Empty>>
    OBVIOUS
  <2>3. <<v>> \in Seq({v}) /\ v.name = modelStorageVolumeName
    OBVIOUS
  <2> HIDE DEF v
  <2> QED
    BY <1>2, <2>1, <2>2, <2>3 DEF WellFormed
<1>3. CASE ~parsePVCURI(uri) /\ ~parseHFURI(uri)
  <2>1. getVolumeForPDDeployment(uri) = <<>>
    BY <1>3 DEF getVolumeForPDDeployment
  <2>2. <<>> \in Seq({})
    OBVIOUS
  <2> QED
    BY <1>3, <2>1, <2>2 DEF WellFormed
<1> QED
  BY <1>1, <1>2, <1>3

LEMMA RenderedVolumes ==
    ASSUME Given
    PROVE  Items(base.volumes \o getVolumeForPDDeployment(spec.uri))
             = Items(base.volumes) \cup Items(getVolumeForPDDeployment(spec.uri))
<1>1. PICK A : getVolumeForPDDeployment(spec.uri) \in Seq(A)
  BY VolumeOfURI
<1> QED
  BY <1>1, BaseIs, ConcatOfTwo

LEMMA VolumesExplainedInit == Init => VolumesExplained
<1>1. Items(<<>>) = {}
  BY DEF Items
<1> QED
  BY <1>1 DEF Init, Pending, NoDeployment, VolumesExplained, Written

LEMMA VolumesExplainedStep ==
    TypeOK /\ VolumesExplained /\ [Next]_vars => VolumesExplained'
<1> SUFFICES ASSUME TypeOK, VolumesExplained, [Next]_vars PROVE VolumesExplained'
  OBVIOUS
<1>1. CASE EditSpec \/ EditBase
  BY <1>1 DEF EditSpec, EditBase, Pending, VolumesExplained, Written
<1>2. CASE DeleteDeployment
  <2>1. Items(<<>>) = {}
    BY DEF Items
  <2> QED
    BY <1>2, <2>1 DEF DeleteDeployment, NoDeployment, Pending, VolumesExplained, Written
<1>3. CASE FailRender
  BY <1>3 DEF FailRender, VolumesExplained, Written
<1>4. CASE Reconcile
  <2> DEFINE volume == getVolumeForPDDeployment(spec.uri)
             pod == Update(deployment, MergePDDeployment)
             ofBases == UNION {Items(b.volumes) : b \in Bases}
  <2>1. Given
    BY TypesGive
  <2>2. Supported(spec.uri) /\ spec' = spec
    BY <1>4 DEF Reconcile
  <2>3. Items(base.volumes) \subseteq ofBases
    BY <2>1 DEF Given
  <2>4. \/ deployment' = deployment /\ served' = served
        \/ /\ deployment' = pod
           /\ served' = IF WellFormed(spec.uri) THEN spec.uri ELSE served
    BY <1>4 DEF Reconcile
  <2>5. pod.volumes \in {deployment.volumes, base.volumes \o volume}
    BY DEF Update, Replace, MergePDDeployment
  <2>6. spec.uri # NoURI
    BY <2>1, SpecIs, SpecsAssumption
  <2>7. Items(base.volumes \o volume) = Items(base.volumes) \cup Items(volume)
    BY <2>1, RenderedVolumes
  <2>8. ~WellFormed(spec.uri) => Items(volume) = {}
    <3>1. Items(<<>>) = {}
      BY DEF Items
    <3> QED
      BY <3>1, VolumeOfURI
  <2>9. CASE deployment' = deployment /\ served' = served
    BY <2>2, <2>9 DEF VolumesExplained, Written
  <2>10. CASE /\ deployment' = pod
              /\ served' = IF WellFormed(spec.uri) THEN spec.uri ELSE served
    <3>1. CASE WellFormed(spec.uri) /\ pod.volumes = base.volumes \o volume
      BY <2>2, <2>3, <2>6, <2>7, <2>10, <3>1 DEF VolumesExplained
    <3>2. CASE ~WellFormed(spec.uri)
      <4>1. Items(pod.volumes) \subseteq Items(deployment.volumes) \cup ofBases
        BY <2>3, <2>5, <2>7, <2>8, <3>2
      <4> QED
        BY <2>2, <2>10, <3>2, <4>1 DEF VolumesExplained
    <3>3. WellFormed(spec.uri) => pod.volumes = base.volumes \o volume
      <4> SUFFICES ASSUME WellFormed(spec.uri) PROVE base.volumes \o volume # <<>>
        BY DEF Update, Replace, MergePDDeployment
      <4>1. PICK v : volume = <<v>>
        BY VolumeOfURI
      <4> QED
        BY <2>1, <4>1, BaseIs
    <3> QED
      BY <3>1, <3>2, <3>3
  <2> QED
    BY <2>4, <2>9, <2>10
<1>5. CASE UNCHANGED vars
  BY <1>5 DEF vars, VolumesExplained, Written
<1> QED
  BY <1>1, <1>2, <1>3, <1>4, <1>5 DEF Next

LEMMA VolumesAreExplained == Spec => []VolumesExplained
<1>1. Init => VolumesExplained
  BY VolumesExplainedInit
<1>2. TypeOK /\ VolumesExplained /\ [Next]_vars => VolumesExplained'
  BY VolumesExplainedStep
<1> QED
  BY <1>1, <1>2, RolloutTypes, PTL DEF Spec

\* What a container that asks for the model is given, beside what it has.
ModelMount == [name |-> modelStorageVolumeName, mountPath |-> modelStorageRoot]

LEMMA EnvsGiven ==
    ASSUME Given, spec.uri.type = "hf",
           NEW g, g = getEnvsForContainer(spec.uri, spec.authSecretName)
    PROVE  /\ g \in Seq(EnvVars)
           /\ Items(g) \subseteq {EnvVar(ENV_HF_TOKEN, Empty, spec.authSecretName),
                                  EnvVar(ENV_HF_HOME, modelStorageRoot, Empty)}
           /\ EnvVar(ENV_HF_HOME, modelStorageRoot, Empty) \in Items(g)
           /\ spec.authSecretName # Empty =>
                EnvVar(ENV_HF_TOKEN, Empty, spec.authSecretName) \in Items(g)
<1> DEFINE token == EnvVar(ENV_HF_TOKEN, Empty, spec.authSecretName)
           home == EnvVar(ENV_HF_HOME, modelStorageRoot, Empty)
           first == IF spec.authSecretName = Empty THEN <<>> ELSE <<token>>
<1>1. g = first \o <<home>>
  BY DEF getEnvsForContainer
<1>2. g \in Seq(EnvVars)
  BY EnvsType
<1>3. token \in EnvVars /\ home \in EnvVars
  BY SpecIs, LiteralsAssumption DEF EnvVar, EnvVars
<1> HIDE DEF token, home
<1>4. Items(<<home>>) = {home}
  BY Short
<1>5. Items(first) = IF spec.authSecretName = Empty THEN {} ELSE {token}
  BY Short
<1>6. Items(g) = Items(first) \cup Items(<<home>>)
  <2> DEFINE last == <<home>>
  <2>1. first \in Seq(EnvVars) /\ last \in Seq(EnvVars)
    BY <1>3, Short
  <2>2. g = first \o last
    BY <1>1
  <2> HIDE DEF first, last
  <2>3. Items(g) = Items(first) \cup Items(last)
    BY <2>1, <2>2, ConcatHolds
  <2> QED
    BY <2>3 DEF last
<1> QED
  BY <1>2, <1>4, <1>5, <1>6 DEF token, home

\* A variable of the model is in the environment, whatever the platform set.
LEMMA VariableKept ==
    ASSUME NEW g \in Seq(EnvVars), NEW env \in Seq(EnvVars), NEW e \in Items(g),
           \A other \in Items(g) : other.name = e.name => other = e
    PROVE  \E c \in Items(MergeByName(env, g, MergeEnvVar)) :
             /\ c.name = e.name
             /\ e.value # Empty => c.value = e.value
             /\ e.secret # Empty => c.secret = e.secret
<1> DEFINE M == MergeByName(env, g, MergeEnvVar)
<1>1. Items(M) = MergedItems(env, g, MergeEnvVar)
  BY MergedEnv
<1> HIDE DEF M
<1>2. e.name \in Names(g)
  BY NamesOfItems
<1>3. CASE e.name \in Names(env)
  <2>1. PICK d \in Items(env) : d.name = e.name
    BY <1>3, NamesOfItems
  <2>2. LastNamed(g, e.name) = e
    BY <1>2, LastNamedIsItem
  <2>3. MergeEnvVar(d, e) \in Items(M)
    BY <1>1, <1>2, <2>1, <2>2 DEF MergedItems
  <2> QED
    BY <2>1, <2>3 DEF M, MergeEnvVar, Override
<1>4. CASE e.name \notin Names(env)
  <2>1. e \in Items(M)
    BY <1>1, <1>4 DEF MergedItems
  <2> QED
    BY <2>1 DEF M
<1> QED
  BY <1>3, <1>4

LEMMA MergedFields ==
    ASSUME NEW dst, NEW src
    PROVE  /\ MergeContainer(dst, src).image = Override(dst.image, src.image)
           /\ MergeContainer(dst, src).args = src.args \o dst.args
           /\ MergeContainer(dst, src).env = MergeByName(dst.env, src.env, MergeEnvVar)
           /\ MergeContainer(dst, src).mounts = dst.mounts \o src.mounts
  BY DEF MergeContainer

\* The model is in a container, and its arguments are those of the two sides.
ModelIn(c, ofUser, ofBase) ==
    /\ ModelMount \in Items(c.mounts)
    /\ spec.uri.type = "hf" => KnowsModel(c)
    /\ \A arg \in Items(c.args) :
         \E item \in Items(ofUser) \cup Items(ofBase) : arg \in Items(Rendered(item.args))

LEMMA ModelGiven ==
    ASSUME Given, Supported(spec.uri),
           NEW ofUser \in Seq(ContainerSpecs), NEW ofBase \in Seq(BaseContainers),
           NEW list, list = MergeContainerList(ofBase, ofUser), NamesApart(list),
           NEW n \in Asking(ofUser)
    PROVE  Only(list, n) \in Items(list) /\ ModelIn(Only(list, n), ofUser, ofBase)
<1> DEFINE c == Only(list, n)
           u == LastNamed(ofUser, n)
           b == Only(ofBase, n)
           g == getEnvsForContainer(spec.uri, spec.authSecretName)
           token == EnvVar(ENV_HF_TOKEN, Empty, spec.authSecretName)
           home == EnvVar(ENV_HF_HOME, modelStorageRoot, Empty)
<1>1. n \in Names(ofUser) /\ u.mountModelVolume
  BY DEF Asking
<1>2. u \in Items(ofUser) /\ u \in ContainerSpecs
  BY <1>1, LastNamedIsItem
<1>3. n \in Names(ofBase) => b \in Items(ofBase) /\ b \in BaseContainers
  <2>1. \A x \in Items(ofBase) : x \in BaseContainers
    BY DEF Items
  <2> QED
    BY <2>1, OnlyIs
<1>4. /\ FromSpec(u).args = Rendered(u.args)
      /\ FromSpec(u).env = g
      /\ FromSpec(u).mounts = getVolumeMountsForContainer(spec.uri)
  BY <1>1, <1>2, FromSpecType
<1>5. n \in Names(ofBase) =>
        /\ FromBase(b).args = Rendered(b.args)
        /\ FromBase(b).env = b.env
        /\ FromBase(b).mounts = b.mounts
  BY <1>3, FromBaseType
<1>6. n \in Names(ofBase) => c = MergeContainer(FromBase(b), FromSpec(u)) /\ c \in Items(list)
  BY <1>1, MergedUnderName, OnlyOne
<1>7. n \notin Names(ofBase) => c = FromSpec(u) /\ c \in Items(list)
  BY <1>1, MergedUnderName, OnlyOne
<1> HIDE DEF c, u, b, g
<1> DEFINE mounts == getVolumeMountsForContainer(spec.uri)
<1>8. mounts = <<ModelMount>>
  BY DEF Supported, getVolumeMountsForContainer, ModelMount
<1>9. mounts \in Seq(Mounts) /\ Items(mounts) = {ModelMount}
  BY <1>8, MountsType, Short
<1> HIDE DEF mounts
<1>10. ModelMount \in Items(c.mounts)
  <2>1. CASE n \in Names(ofBase)
    <3>1. c.mounts = b.mounts \o mounts
      <4>1. c.mounts = FromBase(b).mounts \o FromSpec(u).mounts
        BY <1>6, <2>1, MergedFields
      <4>2. FromBase(b).mounts = b.mounts
        BY <1>5, <2>1
      <4>3. FromSpec(u).mounts = mounts
        BY <1>4 DEF mounts
      <4> QED
        BY <4>1, <4>2, <4>3, Zenon
    <3>2. b.mounts \in Seq(Mounts)
      BY <1>3, <2>1 DEF BaseContainers
    <3>3. Items(b.mounts \o mounts) = Items(b.mounts) \cup Items(mounts)
      BY <3>2, <1>9, ConcatHolds
    <3> QED
      BY <3>1, <3>3, <1>9
  <2>2. CASE n \notin Names(ofBase)
    BY <1>4, <1>7, <1>9, <2>2 DEF mounts
  <2> QED
    BY <2>1, <2>2
<1>11. ASSUME spec.uri.type = "hf" PROVE KnowsModel(c)
  <2>1. /\ g \in Seq(EnvVars)
        /\ Items(g) \subseteq {token, home} /\ home \in Items(g)
        /\ spec.authSecretName # Empty => token \in Items(g)
    BY <1>11, EnvsGiven DEF g
  <2>2. /\ home.name = ENV_HF_HOME /\ home.value = modelStorageRoot
        /\ token.name = ENV_HF_TOKEN /\ token.secret = spec.authSecretName
        /\ ENV_HF_HOME # ENV_HF_TOKEN /\ modelStorageRoot # Empty
    BY DEF EnvVar, ENV_HF_HOME, ENV_HF_TOKEN, modelStorageRoot, Empty
  <2> HIDE DEF token, home
  <2>3. CASE n \in Names(ofBase)
    <3>1. c.env = MergeByName(b.env, g, MergeEnvVar) /\ b.env \in Seq(EnvVars)
      <4>1. c.env = MergeByName(FromBase(b).env, FromSpec(u).env, MergeEnvVar)
        BY <1>6, <2>3, MergedFields
      <4>2. FromBase(b).env = b.env /\ b.env \in Seq(EnvVars)
        BY <1>3, <1>5, <2>3 DEF BaseContainers
      <4> QED
        BY <1>4, <4>1, <4>2, Zenon
    <3>2. \A e \in Items(g) : \A other \in Items(g) : other.name = e.name => other = e
      BY <2>1, <2>2
    <3>3. \E e \in Items(c.env) : e.name = ENV_HF_HOME /\ e.value = modelStorageRoot
      <4>1. home \in Items(g) /\ home.value # Empty
        BY <2>1, <2>2
      <4>2. \E e \in Items(c.env) : e.name = home.name /\ e.value = home.value
        BY <3>1, <3>2, <2>1, <4>1, VariableKept
      <4> QED
        BY <4>2, <2>2
    <3>4. spec.authSecretName # Empty =>
            \E e \in Items(c.env) : e.name = ENV_HF_TOKEN /\ e.secret = spec.authSecretName
      BY <3>1, <3>2, <2>1, <2>2, VariableKept
    <3> QED
      BY <3>3, <3>4 DEF KnowsModel
  <2>4. CASE n \notin Names(ofBase)
    BY <1>4, <1>7, <2>1, <2>2, <2>4 DEF KnowsModel
  <2> QED
    BY <2>3, <2>4
<1>12. \A arg \in Items(c.args) :
         \E item \in Items(ofUser) \cup Items(ofBase) : arg \in Items(Rendered(item.args))
  <2>1. CASE n \in Names(ofBase)
    <3>1. c.args = Rendered(u.args) \o Rendered(b.args)
      <4>1. c.args = FromSpec(u).args \o FromBase(b).args
        BY <1>6, <2>1, MergedFields
      <4>2. FromBase(b).args = Rendered(b.args)
        BY <1>5, <2>1
      <4> QED
        BY <1>4, <4>1, <4>2, Zenon
    <3>2. Rendered(u.args) \in Seq(Seq(STRING)) /\ Rendered(b.args) \in Seq(Seq(STRING))
      BY <1>2, <1>3, <2>1, RenderedType DEF ContainerSpecs, BaseContainers
    <3>3. Items(c.args) = Items(Rendered(u.args)) \cup Items(Rendered(b.args))
      BY <3>1, <3>2, ConcatHolds
    <3> QED
      BY <3>3, <1>2, <1>3, <2>1
  <2>2. CASE n \notin Names(ofBase)
    BY <1>2, <1>4, <1>7, <2>2
  <2> QED
    BY <2>1, <2>2
<1> QED
  BY <1>6, <1>7, <1>10, <1>11, <1>12 DEF c, ModelIn

\* Where a rendered argument leads.
LEMMA ArgumentsLead ==
    ASSUME Given, Supported(spec.uri), NEW args \in Seq(STRING),
           NEW arg \in Items(Rendered(args)), arg # <<>>
    PROVE  \/ arg = IF spec.uri.type = "pvc" THEN <<modelStorageRoot, spec.uri.path>>
                                            ELSE <<modelStorageRoot>>
           \/ arg \in {<<a>> : a \in Items(args)}
<1>1. PICK a \in Items(args) : arg = Interpolated(a, spec.uri)
  BY DEF Rendered, Items
<1>2. CASE a = PathVariable
  <2>1. arg = MountedModelPath(spec.uri)
    BY <1>1, <1>2 DEF Interpolated
  <2>2. spec.uri.type \in {"hf", "pvc"}
    BY DEF Supported
  <2> QED
    BY <2>1, <2>2 DEF MountedModelPath, parsePVCURI
<1>3. CASE a # PathVariable
  BY <1>1, <1>3 DEF Interpolated
<1> QED
  BY <1>2, <1>3

\* A container that mounts the model finds its volume.
LEMMA MountFound ==
    ASSUME TypeOK, Contained, VolumesExplained, VolumesFollowURI, Written,
           DeploymentAccepted(deployment),
           NEW c \in Items(deployment.containers) \cup Items(deployment.initContainers),
           ModelMount \in Items(c.mounts)
    PROVE  MountsModel(c)
<1> DEFINE volumes == deployment.volumes
           volume == getVolumeForPDDeployment(spec.uri)
<1>1. ModelMount.name = modelStorageVolumeName /\ ModelMount.mountPath = modelStorageRoot
  BY DEF ModelMount
<1>2. CASE WellFormed(spec.uri)
  <2>1. volumes = base.volumes \o volume
    BY <1>2 DEF VolumesFollowURI
  <2>2. PICK v : volume = <<v>> /\ v.name = modelStorageVolumeName
    BY <1>2, VolumeOfURI
  <2>3. Items(volume) = {v}
    BY <2>2, Short
  <2>4. v \in Items(volumes)
    BY <2>1, <2>3, TypesGive, RenderedVolumes
  <2>5. v \in ModelVolumes
    BY <1>2, <2>3 DEF ModelVolumes
  <2> QED
    BY <1>1, <2>2, <2>4, <2>5 DEF MountsModel
<1>3. CASE ~WellFormed(spec.uri)
  <2>1. ContainerAccepted(c, volumes)
    <3> DEFINE all == deployment.initContainers \o deployment.containers
    <3>1. \A i \in DOMAIN all : ContainerAccepted(all[i], volumes)
      BY DEF DeploymentAccepted
    <3>2. c \in Items(all)
      BY ConcatHolds DEF TypeOK
    <3> QED
      BY <3>1, <3>2 DEF Items
  <2>2. modelStorageVolumeName \in Names(volumes)
    BY <1>1, <2>1 DEF ContainerAccepted, Items
  <2>3. PICK v \in Items(volumes) : v.name = modelStorageVolumeName
    BY <2>2, NamesOfItems
  <2>4. v \in ModelVolumes
    BY <1>3, <2>3 DEF ModelVolumes, VolumesExplained
  <2> QED
    BY <1>1, <2>3, <2>4 DEF MountsModel
<1> QED
  BY <1>2, <1>3

\* Every container that asks for the model reaches it, whatever URIs, containers and
\* platforms came before, for a malformed URI too.
THEOREM ModelIsReachable == Spec => []ModelReachable
<1>1. TypeOK /\ Contained /\ VolumesExplained /\ VolumesFollowURI => ModelReachable
  <2> SUFFICES ASSUME TypeOK, Contained, VolumesExplained, VolumesFollowURI, Written
               PROVE  /\ \A n \in Asking(spec.containers) :
                           MountsModel(Only(deployment.containers, n))
                      /\ \A n \in Asking(spec.initContainers) :
                           MountsModel(Only(deployment.initContainers, n))
                      /\ \A n \in Asking(spec.containers) :
                           /\ PathLeads(Only(deployment.containers, n))
                           /\ spec.uri.type = "hf" => KnowsModel(Only(deployment.containers, n))
    BY DEF ModelReachable
  <2>1. Given /\ Supported(spec.uri)
    BY TypesGive DEF VolumesExplained
  <2>2. /\ spec.containers \in Seq(ContainerSpecs) /\ base.containers \in Seq(BaseContainers)
        /\ spec.initContainers \in Seq(ContainerSpecs)
        /\ base.initContainers \in Seq(BaseContainers)
    BY <2>1, SpecIs, BaseIs
  <2>3. ASSUME NEW n \in Asking(spec.containers)
        PROVE  LET c == Only(deployment.containers, n) IN
               MountsModel(c) /\ PathLeads(c) /\ (spec.uri.type = "hf" => KnowsModel(c))
    <3> DEFINE c == Only(deployment.containers, n)
    <3>1. spec.containers # <<>>
      BY DEF Asking, Names
    <3>2. /\ deployment.containers = MergeContainerList(base.containers, spec.containers)
          /\ DeploymentAccepted(deployment)
      BY <3>1, ListWritten
    <3>3. NamesApart(deployment.containers)
      BY <3>2, AcceptedApart
    <3>4. c \in Items(deployment.containers) /\ ModelIn(c, spec.containers, base.containers)
      BY <2>1, <2>2, <3>2, <3>3, ModelGiven
    <3> HIDE DEF c
    <3>5. MountsModel(c)
      BY <3>2, <3>4, MountFound DEF ModelIn
    <3>6. PathLeads(c)
      <4> SUFFICES ASSUME NEW arg \in Items(c.args), arg # <<>>
                   PROVE  \/ arg = IF spec.uri.type = "pvc"
                                   THEN <<modelStorageRoot, spec.uri.path>>
                                   ELSE <<modelStorageRoot>>
                          \/ arg \in {<<a>> : a \in WrittenOut}
        BY DEF PathLeads
      <4>1. PICK item \in Items(spec.containers) \cup Items(base.containers) :
              arg \in Items(Rendered(item.args))
        BY <3>4 DEF ModelIn
      <4>2. item.args \in Seq(STRING)
        <5>1. \A x \in Items(spec.containers) : x \in ContainerSpecs
          BY <2>2 DEF Items
        <5>2. \A x \in Items(base.containers) : x \in BaseContainers
          BY <2>2 DEF Items
        <5> QED
          BY <5>1, <5>2 DEF ContainerSpecs, BaseContainers
      <4>3. Items(item.args) \subseteq WrittenOut
        BY DEF WrittenOut
      <4> QED
        BY <2>1, <4>1, <4>2, <4>3, ArgumentsLead
    <3> QED
      BY <3>4, <3>5, <3>6 DEF c, ModelIn
  <2>4. ASSUME NEW n \in Asking(spec.initContainers)
        PROVE  MountsModel(Only(deployment.initContainers, n))
    <3> DEFINE c == Only(deployment.initContainers, n)
    <3>1. spec.initContainers # <<>>
      BY DEF Asking, Names
    <3>2. /\ deployment.initContainers
               = MergeContainerList(base.initContainers, spec.initContainers)
          /\ DeploymentAccepted(deployment)
      BY <3>1, ListWritten
    <3>3. NamesApart(deployment.initContainers)
      BY <3>2, AcceptedApart
    <3>4. c \in Items(deployment.initContainers) /\ ModelMount \in Items(c.mounts)
      BY <2>1, <2>2, <3>2, <3>3, ModelGiven DEF ModelIn
    <3> QED
      BY <3>2, <3>4, MountFound
  <2> QED
    BY <2>3, <2>4
<1> QED
  BY <1>1, RolloutTypes, WrittenIsContained, VolumesAreExplained, VolumesAreCurrent, PTL

-----------------------------------------------------------------------------
(* Refusals *)

\* The inductive invariant: what was refused is still what an update would send.
RefusedStill ==
    outcome.deployment = "refused" => ~DeploymentAccepted(Update(deployment, MergePDDeployment))

LEMMA RefusedStillStep == RefusedStill /\ [Next]_vars => RefusedStill'
<1> SUFFICES ASSUME RefusedStill, [Next]_vars PROVE RefusedStill'
  OBVIOUS
<1>1. CASE EditSpec \/ EditBase \/ DeleteDeployment
  BY <1>1 DEF EditSpec, EditBase, DeleteDeployment, Pending, RefusedStill
<1>2. CASE FailRender
  BY <1>2 DEF FailRender, RefusedStill
<1>3. CASE Reconcile
  <2>1. outcome'.deployment = "refused" =>
          deployment' = deployment /\ ~DeploymentAccepted(Update(deployment, MergePDDeployment))
    BY <1>3 DEF Reconcile
  <2>2. MergePDDeployment' = MergePDDeployment
    BY <1>3, RenderingIsPure DEF Reconcile
  <2> QED
    BY <2>1, <2>2 DEF RefusedStill
<1>4. CASE UNCHANGED vars
  <2>1. MergePDDeployment' = MergePDDeployment
    BY <1>4, RenderingIsPure DEF vars
  <2> QED
    BY <1>4, <2>1 DEF vars, RefusedStill
<1> QED
  BY <1>1, <1>2, <1>3, <1>4 DEF Next

LEMMA RefusedStillHolds == Spec => []RefusedStill
<1>1. Init => RefusedStill
  BY DEF Init, Pending, RefusedStill
<1>2. RefusedStill /\ [Next]_vars => RefusedStill'
  BY RefusedStillStep
<1> QED
  BY <1>1, <1>2, PTL DEF Spec

\* Variables from one source merge into one source.
LEMMA SourcesMerge ==
    ASSUME NEW d \in EnvVars, NEW s \in EnvVars, EnvVarAccepted(d), EnvVarAccepted(s),
           \A f, g \in EnvVarSources : s[f] # Empty /\ d[g] # Empty => f = g
    PROVE  EnvVarAccepted(MergeEnvVar(d, s))
<1> DEFINE m == MergeEnvVar(d, s)
<1>1. \A f \in EnvVarSources : m[f] # Empty => s[f] # Empty \/ d[f] # Empty
  BY DEF MergeEnvVar, Override, EnvVarSources
<1> HIDE DEF m
<1>2. \A f, g \in EnvVarSources : m[f] # Empty /\ m[g] # Empty => f = g
  BY <1>1 DEF EnvVarAccepted
<1> QED
  BY <1>2 DEF EnvVarAccepted, m

LEMMA EnvFits ==
    ASSUME NEW ofUser \in Seq(EnvVars), NEW ofBase \in Seq(EnvVars),
           \A e \in Items(ofUser) \cup Items(ofBase) : EnvVarAccepted(e),
           \A e \in Items(ofUser), b \in Items(ofBase) : e.name = b.name =>
             \A f, g \in EnvVarSources : e[f] # Empty /\ b[g] # Empty => f = g
    PROVE  \A e \in Items(MergeByName(ofBase, ofUser, MergeEnvVar)) : EnvVarAccepted(e)
<1> SUFFICES ASSUME NEW e \in Items(MergeByName(ofBase, ofUser, MergeEnvVar))
             PROVE  EnvVarAccepted(e)
  OBVIOUS
<1>1. e \in MergedItems(ofBase, ofUser, MergeEnvVar)
  BY MergedEnv
<1>2. CASE e \in Items(ofUser) \cup Items(ofBase)
  BY <1>2
<1>3. CASE \E b \in Items(ofBase) :
             b.name \in Names(ofUser) /\ e = MergeEnvVar(b, LastNamed(ofUser, b.name))
  <2>1. PICK b \in Items(ofBase) :
          b.name \in Names(ofUser) /\ e = MergeEnvVar(b, LastNamed(ofUser, b.name))
    BY <1>3
  <2> DEFINE u == LastNamed(ofUser, b.name)
  <2>2. u \in Items(ofUser) /\ u \in EnvVars /\ u.name = b.name
    BY <2>1, LastNamedIsItem
  <2>3. b \in EnvVars
    BY DEF Items
  <2> HIDE DEF u
  <2>4. EnvVarAccepted(MergeEnvVar(b, u))
    BY <2>2, <2>3, SourcesMerge
  <2> QED
    BY <2>1, <2>4 DEF u
<1> QED
  BY <1>1, <1>2, <1>3 DEF MergedItems

\* The variables that lead to the model come from one source each.
LEMMA ModelEnvFits ==
    ASSUME Given, NEW g, g = getEnvsForContainer(spec.uri, spec.authSecretName),
           NEW ofBase \in Seq(EnvVars),
           \A e \in Items(ofBase) :
             /\ e.name # ENV_HF_TOKEN
             /\ e.name = ENV_HF_HOME => e.secret = Empty /\ e.field = Empty
    PROVE  /\ g \in Seq(EnvVars)
           /\ \A e \in Items(g) : EnvVarAccepted(e)
           /\ \A e \in Items(g), b \in Items(ofBase) : e.name = b.name =>
                \A f, h \in EnvVarSources : e[f] # Empty /\ b[h] # Empty => f = h
<1> DEFINE token == EnvVar(ENV_HF_TOKEN, Empty, spec.authSecretName)
           home == EnvVar(ENV_HF_HOME, modelStorageRoot, Empty)
<1>1. g \in Seq(EnvVars)
  BY EnvsType
<1>2. \A e \in Items(g) : e = token \/ e = home
  <2>1. CASE spec.uri.type = "hf"
    BY <2>1, EnvsGiven
  <2>2. CASE spec.uri.type # "hf"
    <3>1. g = <<>> /\ Items(<<>>) = {}
      BY <2>2 DEF getEnvsForContainer, Items
    <3> QED
      BY <3>1
  <2> QED
    BY <2>1, <2>2
<1>3. EnvVarAccepted(token) /\ EnvVarAccepted(home)
  BY DEF EnvVarAccepted, EnvVarSources, EnvVar
<1>4. \A b \in Items(ofBase) : token.name # b.name
  BY DEF EnvVar
<1>5. \A b \in Items(ofBase) : home.name = b.name =>
        \A f, h \in EnvVarSources : home[f] # Empty /\ b[h] # Empty => f = h
  BY DEF EnvVarSources, EnvVar
<1> HIDE DEF token, home
<1> QED
  BY <1>1, <1>2, <1>3, <1>4, <1>5

\* What the parts of one list must be for their merge to be accepted.
PartsFit(ofUser, ofBase) ==
    /\ \A c \in Items(ofBase) :
         /\ \A e \in Items(c.env) : EnvVarAccepted(e)
         /\ \A mount \in Items(c.mounts) :
              mount.name \in Names(base.volumes) /\ mount.mountPath # modelStorageRoot
         /\ Distinct(c.mounts, LAMBDA mount : mount.mountPath)
         /\ \A e \in Items(c.env) :
              /\ e.name # ENV_HF_TOKEN
              /\ e.name = ENV_HF_HOME => e.secret = Empty /\ e.field = Empty
    /\ \A c \in Items(ofUser) : \A e \in Items(c.env) : EnvVarAccepted(e)
    /\ OneSource(ofUser, ofBase)

\* Mounts of the platform and of the model.
LEMMA MountsFit ==
    ASSUME NEW mounts \in Seq(Mounts), NEW names,
           \A mount \in Items(mounts) :
             mount.name \in names /\ mount.mountPath # modelStorageRoot,
           \A i, j \in DOMAIN mounts : mounts[i].mountPath = mounts[j].mountPath => i = j,
           modelStorageVolumeName \in names,
           NEW both, both = mounts \o getVolumeMountsForContainer(spec.uri)
    PROVE  /\ \A i \in DOMAIN both : both[i].name \in names
           /\ \A i, j \in DOMAIN both : both[i].mountPath = both[j].mountPath => i = j
<1>1. CASE getVolumeMountsForContainer(spec.uri) = <<>>
  BY <1>1 DEF Items
<1>2. CASE getVolumeMountsForContainer(spec.uri) # <<>>
  <2> DEFINE n == Len(mounts) + 1
  <2>1. both = Append(mounts, ModelMount)
    BY <1>2 DEF getVolumeMountsForContainer, ModelMount
  <2>2. /\ n \in Nat /\ DOMAIN both = 1..n /\ DOMAIN mounts = 1..(n - 1)
        /\ both[n] = ModelMount
        /\ \A i \in 1..(n - 1) : both[i] = mounts[i]
    BY <2>1
  <2> HIDE DEF n
  <2>3. ModelMount.name = modelStorageVolumeName /\ ModelMount.mountPath = modelStorageRoot
    BY DEF ModelMount
  <2>4. \A i \in 1..(n - 1) : both[i].name \in names /\ both[i].mountPath # modelStorageRoot
    BY <2>2 DEF Items
  <2>5. \A i \in 1..n : i = n \/ i \in 1..(n - 1)
    BY <2>2
  <2>6. \A i \in DOMAIN both : both[i].name \in names
    BY <2>2, <2>3, <2>4, <2>5
  <2>7. \A i, j \in DOMAIN both : both[i].mountPath = both[j].mountPath => i = j
    BY <2>2, <2>3, <2>4, <2>5
  <2> QED
    BY <2>6, <2>7
<1> QED
  BY <1>1, <1>2

LEMMA ContainerFits ==
    ASSUME Given, NEW ofUser \in Seq(ContainerSpecs), NEW ofBase \in Seq(BaseContainers),
           PartsFit(ofUser, ofBase), NEW volumes,
           Names(base.volumes) \cup {modelStorageVolumeName} \subseteq Names(volumes),
           NEW c \in Items(MergeContainerList(ofBase, ofUser)), c.image # Empty
    PROVE  ContainerAccepted(c, volumes)
<1> DEFINE mounts == getVolumeMountsForContainer(spec.uri)
           g == getEnvsForContainer(spec.uri, spec.authSecretName)
           EnvOK(env) == \A e \in Items(env) : EnvVarAccepted(e)
           MountsOK(list) ==
             /\ \A i \in DOMAIN list : list[i].name \in Names(volumes)
             /\ \A i, j \in DOMAIN list : list[i].mountPath = list[j].mountPath => i = j
<1>1. SUFFICES EnvOK(c.env) /\ MountsOK(c.mounts)
  BY DEF ContainerAccepted, Distinct, Items
<1>2. \/ \E b \in Items(ofBase) : c = Merged(b, ofUser)
      \/ \E u \in Items(ofUser) : c = FromSpec(u)
  BY MergedListHolds
<1>3. \A b \in Items(ofBase) : b \in BaseContainers
  BY DEF Items
<1>4. \A u \in Items(ofUser) : u \in ContainerSpecs
  BY DEF Items
<1>5. ASSUME NEW b \in Items(ofBase)
      PROVE  /\ EnvOK(b.env)
             /\ MountsOK(b.mounts)
             /\ MountsOK(b.mounts \o mounts)
             /\ MountsOK(b.mounts \o <<>>)
  <2>1. b.mounts \in Seq(Mounts)
    BY <1>3 DEF BaseContainers
  <2>2. \A mount \in Items(b.mounts) :
          mount.name \in Names(volumes) /\ mount.mountPath # modelStorageRoot
    BY DEF PartsFit
  <2>3. \A i, j \in DOMAIN b.mounts : b.mounts[i].mountPath = b.mounts[j].mountPath => i = j
    BY DEF PartsFit, Distinct
  <2>4. EnvOK(b.env)
    BY DEF PartsFit
  <2>5. MountsOK(b.mounts)
    BY <2>2, <2>3 DEF Items
  <2>6. b.mounts \o <<>> = b.mounts
    BY <2>1
  <2>7. MountsOK(b.mounts \o mounts)
    <3>1. modelStorageVolumeName \in Names(volumes)
      OBVIOUS
    <3> DEFINE both == b.mounts \o mounts
    <3>2. /\ \A i \in DOMAIN both : both[i].name \in Names(volumes)
          /\ \A i, j \in DOMAIN both : both[i].mountPath = both[j].mountPath => i = j
      BY <2>1, <2>2, <2>3, <3>1, MountsFit
    <3> QED
      BY <3>2
  <2> HIDE DEF MountsOK, EnvOK
  <2> QED
    BY <2>4, <2>5, <2>6, <2>7
<1>6. MountsOK(mounts) /\ MountsOK(<<>>)
  <2>1. mounts = <<>> \/ mounts = <<ModelMount>>
    BY DEF getVolumeMountsForContainer, ModelMount
  <2>2. ModelMount.name = modelStorageVolumeName
    BY DEF ModelMount
  <2> HIDE DEF mounts
  <2> QED
    BY <2>1, <2>2
<1>7. ASSUME NEW u \in Items(ofUser)
      PROVE  /\ u.mountModelVolume => FromSpec(u).env = g /\ FromSpec(u).mounts = mounts
             /\ ~u.mountModelVolume => FromSpec(u).env = u.env /\ FromSpec(u).mounts = <<>>
  BY <1>4, FromSpecType
<1>8. EnvOK(g)
  <2>1. \A e \in Items(<<>>) :
          /\ e.name # ENV_HF_TOKEN
          /\ e.name = ENV_HF_HOME => e.secret = Empty /\ e.field = Empty
    BY DEF Items
  <2>2. <<>> \in Seq(EnvVars)
    OBVIOUS
  <2> QED
    BY <2>1, <2>2, ModelEnvFits
<1>9. \A u \in Items(ofUser) : EnvOK(u.env)
  BY DEF PartsFit
<1>10. CASE \E u \in Items(ofUser) : c = FromSpec(u)
  <2>1. PICK u \in Items(ofUser) : c = FromSpec(u)
    BY <1>10
  <2> HIDE DEF mounts, g, EnvOK, MountsOK
  <2> QED
    BY <2>1, <1>6, <1>7, <1>8, <1>9
<1>11. CASE \E b \in Items(ofBase) : c = Merged(b, ofUser)
  <2>1. PICK b \in Items(ofBase) : c = Merged(b, ofUser)
    BY <1>11
  <2>2. FromBase(b).env = b.env /\ FromBase(b).mounts = b.mounts
    BY <1>3, FromBaseType
  <2>3. CASE b.name \notin Names(ofUser)
    <3>1. c = FromBase(b)
      BY <2>1, <2>3 DEF Merged
    <3> HIDE DEF mounts, g, EnvOK, MountsOK
    <3> QED
      BY <3>1, <2>2, <1>5
  <2>4. CASE b.name \in Names(ofUser)
    <3> DEFINE u == LastNamed(ofUser, b.name)
    <3>1. u \in Items(ofUser) /\ u \in ContainerSpecs /\ u.name = b.name
      BY <2>4, LastNamedIsItem
    <3>2. c = MergeContainer(FromBase(b), FromSpec(u))
      BY <2>1, <2>4 DEF Merged
    <3> HIDE DEF u
    <3>3. /\ c.env = MergeByName(b.env, FromSpec(u).env, MergeEnvVar)
          /\ c.mounts = b.mounts \o FromSpec(u).mounts
      <4> DEFINE dst == FromBase(b)
                 src == FromSpec(u)
      <4>1. dst.env = b.env /\ dst.mounts = b.mounts
        BY <2>2
      <4>2. c = MergeContainer(dst, src)
        BY <3>2
      <4> HIDE DEF dst, src
      <4>3. /\ c.env = MergeByName(dst.env, src.env, MergeEnvVar)
            /\ c.mounts = dst.mounts \o src.mounts
        BY <4>2, MergedFields
      <4> QED
        BY <4>1, <4>3 DEF src
    <3>4. b.env \in Seq(EnvVars) /\ u.env \in Seq(EnvVars)
      BY <1>3, <3>1 DEF BaseContainers, ContainerSpecs
    <3>5. MountsOK(c.mounts)
      <4> HIDE DEF mounts, g, EnvOK, MountsOK
      <4> QED
        BY <3>1, <3>3, <1>5, <1>7
    <3>6. EnvOK(c.env)
      <4>1. CASE u.mountModelVolume
        <5>1. \A e \in Items(b.env) :
                /\ e.name # ENV_HF_TOKEN
                /\ e.name = ENV_HF_HOME => e.secret = Empty /\ e.field = Empty
          BY DEF PartsFit
        <5>2. /\ g \in Seq(EnvVars)
              /\ \A e \in Items(g) : EnvVarAccepted(e)
              /\ \A e \in Items(g), d \in Items(b.env) : e.name = d.name =>
                   \A f, h \in EnvVarSources : e[f] # Empty /\ d[h] # Empty => f = h
          BY <5>1, <3>4, ModelEnvFits
        <5>3. \A e \in Items(b.env) : EnvVarAccepted(e)
          BY <1>5
        <5>4. c.env = MergeByName(b.env, g, MergeEnvVar)
          BY <3>1, <3>3, <4>1, <1>7
        <5> HIDE DEF g
        <5> QED
          BY <3>4, <5>2, <5>3, <5>4, EnvFits
      <4>2. CASE ~u.mountModelVolume
        <5>1. c.env = MergeByName(b.env, u.env, MergeEnvVar)
          BY <3>1, <3>3, <4>2, <1>7
        <5>2. \A e \in Items(u.env), d \in Items(b.env) : e.name = d.name =>
                \A f, h \in EnvVarSources : e[f] # Empty /\ d[h] # Empty => f = h
          BY <3>1 DEF PartsFit, OneSource
        <5>3. \A e \in Items(u.env) \cup Items(b.env) : EnvVarAccepted(e)
          BY <3>1, <1>5, <1>9
        <5> QED
          BY <3>4, <5>1, <5>2, <5>3, EnvFits
      <4> QED
        BY <4>1, <4>2
    <3> QED
      BY <3>5, <3>6
  <2> QED
    BY <2>3, <2>4
<1> QED
  BY <1>2, <1>10, <1>11

\* Volumes of the platform and of the model.
LEMMA VolumesFit ==
    ASSUME Given, WellFormed(spec.uri), spec.uri.first # Empty,
           PartsAccepted, LeavesModelAlone,
           NEW volumes, volumes = base.volumes \o getVolumeForPDDeployment(spec.uri)
    PROVE  /\ volumes # <<>>
           /\ Names(base.volumes) \cup {modelStorageVolumeName} \subseteq Names(volumes)
           /\ \A i, j \in DOMAIN volumes : volumes[i].name = volumes[j].name => i = j
           /\ \A i \in DOMAIN volumes : volumes[i].source # <<"pvc", Empty>>
<1>1. PICK v : /\ getVolumeForPDDeployment(spec.uri) = <<v>>
               /\ v.name = modelStorageVolumeName
               /\ v.source # <<"pvc", Empty>>
  BY VolumeOfURI
<1> DEFINE given == base.volumes
           n == Len(given) + 1
<1>2. given \in Seq([name : STRING, source : Seq(STRING)])
  BY BaseIs
<1>3. /\ n \in Nat /\ DOMAIN volumes = 1..n /\ DOMAIN given = 1..(n - 1)
      /\ volumes[n] = v
      /\ \A i \in 1..(n - 1) : volumes[i] = given[i]
  BY <1>1, <1>2
<1>4. \A i, j \in DOMAIN given : given[i].name = given[j].name => i = j
  BY DEF PartsAccepted, Distinct
<1>5. \A i \in DOMAIN given : given[i].name # modelStorageVolumeName
  BY DEF LeavesModelAlone, Names
<1>6. \A i \in DOMAIN given : given[i].source # <<"pvc", Empty>>
  BY DEF PartsAccepted, Items
<1>7. \A i \in 1..n : i = n \/ i \in 1..(n - 1)
  BY <1>3
<1>8. n \in 1..n /\ \A i \in 1..(n - 1) : i \in 1..n
  BY <1>3
<1>9. Names(given) \cup {modelStorageVolumeName} \subseteq Names(volumes)
  <2> HIDE DEF n, given
  <2> QED
    BY <1>1, <1>3, <1>8 DEF Names
<1>10. \A i, j \in DOMAIN volumes : volumes[i].name = volumes[j].name => i = j
  <2> HIDE DEF n, given
  <2> QED
    BY <1>1, <1>3, <1>4, <1>5, <1>7
<1>11. \A i \in DOMAIN volumes : volumes[i].source # <<"pvc", Empty>>
  <2> HIDE DEF n, given
  <2> QED
    BY <1>1, <1>3, <1>6, <1>7
<1>12. volumes # <<>>
  BY <1>1, <1>2
<1> QED
  BY <1>9, <1>10, <1>11, <1>12

\* Node terms: of the platform, of the user, and left over from before.
LEMMA TermsFit ==
    ASSUME TypeOK, PartsAccepted
    PROVE  LET terms == Replace(deployment.terms, MergePDDeployment.terms) IN
           \A i \in DOMAIN terms : terms[i].values # {}
<1> DEFINE Terms == [key : STRING, values : SUBSET STRING]
           added == AcceleratorTypesToNodeAffinity(spec.acceleratorTypes)
           rendered == base.terms \o added
<1>1. Given
  BY TypesGive
<1>2. base.terms \in Seq(Terms)
  BY <1>1, BaseIs
<1>3. /\ added \in Seq(Terms)
      /\ \A t \in Items(added) : t.values # {}
  <2> DEFINE a == spec.acceleratorTypes
             t == [key |-> a.labelKey, values |-> a.labelValues]
  <2>1. a \in [labelKey : STRING, labelValues : SUBSET STRING]
    BY <1>1, SpecsAssumption DEF Given
  <2>2. t \in Terms
    BY <2>1
  <2>3. added = <<>> \/ (added = <<t>> /\ t.values # {})
    BY DEF AcceleratorTypesToNodeAffinity
  <2> HIDE DEF t, added, Terms
  <2>4. /\ <<>> \in Seq(Terms) /\ Items(<<>>) = {}
        /\ <<t>> \in Seq(Terms) /\ Items(<<t>>) = {t}
    BY <2>2, Short
  <2> QED
    BY <2>3, <2>4
<1>4. \A t \in Items(base.terms) : t.values # {}
  BY DEF PartsAccepted
<1>5. Items(rendered) = Items(base.terms) \cup Items(added)
  <2> HIDE DEF added, Terms
  <2> QED
    BY <1>2, <1>3, ConcatHolds
<1>6. \A i \in DOMAIN rendered : rendered[i].values # {}
  <2> HIDE DEF added
  <2>1. \A t \in Items(rendered) : t.values # {}
    BY <1>3, <1>4, <1>5
  <2> HIDE DEF rendered
  <2> QED
    BY <2>1 DEF Items
<1>7. \A i \in DOMAIN deployment.terms : deployment.terms[i].values # {}
  <2>1. CASE deployment = NoDeployment
    BY <2>1 DEF NoDeployment
  <2>2. CASE DeploymentAccepted(deployment)
    BY <2>2 DEF DeploymentAccepted
  <2> QED
    BY <2>1, <2>2 DEF TypeOK
<1>8. MergePDDeployment.terms = rendered
  BY DEF MergePDDeployment
<1> HIDE DEF rendered
<1> QED
  BY <1>6, <1>7, <1>8 DEF Replace

\* The merged list has each name once if both parts have, and an image for each.
LEMMA MergedListApart ==
    ASSUME Given, NEW ofUser \in Seq(ContainerSpecs), NEW ofBase \in Seq(BaseContainers),
           NamesApart(ofUser), NamesApart(ofBase)
    PROVE  NamesApart(MergeContainerList(ofBase, ofUser))
<1> DEFINE dst == InterpolateContainers(ofBase, spec.uri)
           src == convertToContainerSliceWithURIInfo(
                    InterpolateContainers(ofUser, spec.uri), spec.uri, spec.authSecretName)
<1>1. dst \in Seq(Containers) /\ src \in Seq(Containers)
  BY BaseListHolds, SpecListHolds
<1>2. NamesApart(dst)
  <2>1. dst = [i \in DOMAIN ofBase |-> FromBase(ofBase[i])]
    BY DEF InterpolateContainers, FromBase, Rendered
  <2>2. \A i \in DOMAIN ofBase : FromBase(ofBase[i]).name = ofBase[i].name
    BY FromBaseType
  <2> HIDE DEF dst
  <2> QED
    BY <2>1, <2>2 DEF NamesApart
<1>3. NamesApart(src)
  <2>1. src = [i \in DOMAIN ofUser |-> FromSpec(ofUser[i])]
    BY DEF convertToContainerSliceWithURIInfo, InterpolateContainers, FromSpec, Rendered
  <2>2. \A i \in DOMAIN ofUser : FromSpec(ofUser[i]).name = ofUser[i].name
    BY FromSpecType
  <2> HIDE DEF src
  <2> QED
    BY <2>1, <2>2 DEF NamesApart
<1>4. MergeContainerList(ofBase, ofUser) = MergeByName(dst, src, MergeContainer)
  BY DEF MergeContainerList, MergeContainers
<1> HIDE DEF dst, src
<1> QED
  BY <1>1, <1>2, <1>3, <1>4, MergedContainersApart

LEMMA MergedListImages ==
    ASSUME Given, NEW ofUser \in Seq(ContainerSpecs), NEW ofBase \in Seq(BaseContainers),
           NamesApart(ofUser), NamesApart(ofBase), ImageGiven(ofUser, ofBase),
           NEW c \in Items(MergeContainerList(ofBase, ofUser))
    PROVE  c.image # Empty
<1>1. \/ \E b \in Items(ofBase) : c = Merged(b, ofUser)
      \/ \E u \in Items(ofUser) : u.name \notin Names(ofBase) /\ c = FromSpec(u)
  BY MergedListHolds
<1>2. \A b \in Items(ofBase) : b \in BaseContainers /\ b.name \in Names(ofBase)
  BY NamesOfItems DEF Items
<1>3. \A u \in Items(ofUser) : u \in ContainerSpecs /\ u.name \in Names(ofUser)
  BY NamesOfItems DEF Items
<1>4. CASE \E u \in Items(ofUser) : u.name \notin Names(ofBase) /\ c = FromSpec(u)
  <2>1. PICK u \in Items(ofUser) : u.name \notin Names(ofBase) /\ c = FromSpec(u)
    BY <1>4
  <2>2. PICK x \in Items(ofUser) \cup Items(ofBase) : x.name = u.name /\ x.image # Empty
    BY <1>3 DEF ImageGiven
  <2>3. x = u
    BY <1>2, <2>1, <2>2, ItemsApart
  <2>4. FromSpec(u).image = u.image
    BY <1>3, FromSpecType
  <2> QED
    BY <2>1, <2>2, <2>3, <2>4
<1>5. CASE \E b \in Items(ofBase) : c = Merged(b, ofUser)
  <2>1. PICK b \in Items(ofBase) : c = Merged(b, ofUser)
    BY <1>5
  <2>2. PICK x \in Items(ofUser) \cup Items(ofBase) : x.name = b.name /\ x.image # Empty
    BY <1>2 DEF ImageGiven
  <2>3. FromBase(b).image = b.image
    BY <1>2, FromBaseType
  <2>4. CASE b.name \notin Names(ofUser)
    <3>1. x = b
      BY <1>3, <2>2, <2>4, ItemsApart
    <3>2. c = FromBase(b)
      BY <2>1, <2>4 DEF Merged
    <3> QED
      BY <2>2, <2>3, <3>1, <3>2
  <2>5. CASE b.name \in Names(ofUser)
    <3> DEFINE u == LastNamed(ofUser, b.name)
    <3>1. u \in Items(ofUser) /\ u.name = b.name
      BY <2>5, LastNamedIsItem
    <3>2. c = MergeContainer(FromBase(b), FromSpec(u))
      BY <2>1, <2>5 DEF Merged
    <3> HIDE DEF u
    <3>3. FromSpec(u).image = u.image
      BY <1>3, <3>1, FromSpecType
    <3>4. c.image = IF u.image = Empty THEN b.image ELSE u.image
      BY <2>3, <3>2, <3>3 DEF MergeContainer, Override
    <3>5. x = b \/ x = u
      BY <2>2, <3>1, ItemsApart
    <3> QED
      BY <2>2, <3>4, <3>5
  <2> QED
    BY <2>4, <2>5
<1> QED
  BY <1>1, <1>4, <1>5

\* The merged list is empty only where neither part has anything.
LEMMA MergedListNames ==
    ASSUME Given, NEW ofUser \in Seq(ContainerSpecs), NEW ofBase \in Seq(BaseContainers),
           NEW list, list = MergeContainerList(ofBase, ofUser)
    PROVE  /\ Names(list) = Names(ofUser) \cup Names(ofBase)
           /\ list = <<>> <=> Names(ofUser) \cup Names(ofBase) = {}
<1>1. Names(list) = Names(ofUser) \cup Names(ofBase)
  BY MergedUnderName
<1>2. list \in Seq(Containers)
  BY MergedListHolds
<1>3. list = <<>> <=> Names(list) = {}
  <2>1. list # <<>> => 1 \in DOMAIN list
    BY <1>2
  <2>2. \A i \in DOMAIN list : list[i].name \in Names(list)
    BY DEF Names
  <2>3. list = <<>> => Names(list) = {}
    BY DEF Names
  <2> QED
    BY <2>1, <2>2, <2>3
<1> QED
  BY <1>1, <1>3

\* What makes a refusal the parts' own.
Blameless ==
    /\ PartsAccepted /\ PartsFitTogether /\ LeavesModelAlone
    /\ WellFormed(spec.uri) /\ spec.uri.first # Empty
    /\ ~LeftOver

\* The containers of all valid parts together: some, each name once, each with an image.
LEMMA ContainersFit ==
    ASSUME Given, Blameless, NEW all,
           all = MergePDDeployment.initContainers \o MergePDDeployment.containers
    PROVE  /\ MergePDDeployment.containers # <<>>
           /\ MergePDDeployment.initContainers = <<>> => Named("initContainers") = {}
           /\ NamesApart(all)
           /\ \A c \in Items(all) : c.image # Empty
<1> DEFINE a == MergePDDeployment.initContainers
           b == MergePDDeployment.containers
<1>1. /\ spec.containers \in Seq(ContainerSpecs) /\ base.containers \in Seq(BaseContainers)
      /\ spec.initContainers \in Seq(ContainerSpecs)
      /\ base.initContainers \in Seq(BaseContainers)
  BY SpecIs, BaseIs
<1>2. /\ b = MergeContainerList(base.containers, spec.containers)
      /\ a = MergeContainerList(base.initContainers, spec.initContainers)
  BY DEF MergePDDeployment
<1>3. a \in Seq(Containers) /\ b \in Seq(Containers)
  BY RenderedTypes
<1> HIDE DEF a, b
<1>4. /\ Names(b) = Named("containers") /\ Names(a) = Named("initContainers")
      /\ b = <<>> <=> Named("containers") = {}
      /\ a = <<>> <=> Named("initContainers") = {}
  BY <1>1, <1>2, MergedListNames DEF Named
<1>5. /\ NamesApart(spec.containers) /\ NamesApart(base.containers)
      /\ NamesApart(spec.initContainers) /\ NamesApart(base.initContainers)
  BY DEF Blameless, PartsAccepted, ContainerLists, Distinct, NamesApart
<1>6. NamesApart(a) /\ NamesApart(b)
  BY <1>1, <1>2, <1>5, MergedListApart
<1>7. Named("containers") # {} /\ Named("containers") \cap Named("initContainers") = {}
  BY DEF Blameless, PartsFitTogether
<1>8. NamesApart(a \o b)
  BY <1>3, <1>4, <1>6, <1>7, ConcatApart
<1>9. /\ ImageGiven(spec.containers, base.containers)
      /\ ImageGiven(spec.initContainers, base.initContainers)
  BY DEF Blameless, PartsFitTogether, ContainerLists
<1>10. \A c \in Items(a) \cup Items(b) : c.image # Empty
  BY <1>1, <1>2, <1>5, <1>9, MergedListImages
<1>11. Items(a \o b) = Items(a) \cup Items(b)
  BY <1>3, ConcatHolds
<1>12. all = a \o b
  BY DEF a, b
<1> QED
  BY <1>4, <1>7, <1>8, <1>10, <1>11, <1>12 DEF a, b

\* Valid parts make a deployment that is accepted.
LEMMA ValidPartsFit ==
    ASSUME TypeOK, Blameless, NEW merged, merged = MergePDDeployment
    PROVE  DeploymentAccepted(Update(deployment, merged))
<1> DEFINE pod == Update(deployment, merged)
           volumes == base.volumes \o getVolumeForPDDeployment(spec.uri)
           all == merged.initContainers \o merged.containers
<1>1. Given
  BY TypesGive
<1>2. /\ merged.containers = MergeContainerList(base.containers, spec.containers)
      /\ merged.initContainers = MergeContainerList(base.initContainers, spec.initContainers)
      /\ merged.volumes = volumes
      /\ merged.terms = MergePDDeployment.terms
  BY DEF MergePDDeployment
<1>3. /\ spec.containers \in Seq(ContainerSpecs) /\ base.containers \in Seq(BaseContainers)
      /\ spec.initContainers \in Seq(ContainerSpecs)
      /\ base.initContainers \in Seq(BaseContainers)
  BY <1>1, SpecIs, BaseIs
<1>4. /\ volumes # <<>>
      /\ Names(base.volumes) \cup {modelStorageVolumeName} \subseteq Names(volumes)
      /\ \A i, j \in DOMAIN volumes : volumes[i].name = volumes[j].name => i = j
      /\ \A i \in DOMAIN volumes : volumes[i].source # <<"pvc", Empty>>
  BY <1>1, VolumesFit DEF Blameless
<1>5. /\ merged.containers # <<>>
      /\ merged.initContainers = <<>> => Named("initContainers") = {}
      /\ NamesApart(all)
      /\ \A c \in Items(all) : c.image # Empty
  BY <1>1, ContainersFit
<1> HIDE DEF volumes
<1>6. Items(all) = Items(merged.initContainers) \cup Items(merged.containers)
  BY <1>1, RenderedTypes, ConcatHolds
<1>7. merged.initContainers = <<>> => deployment.initContainers = <<>>
  BY <1>5 DEF Blameless, LeftOver
<1>8. /\ pod.containers = merged.containers
      /\ pod.initContainers = merged.initContainers
      /\ pod.volumes = volumes
      /\ pod.terms = Replace(deployment.terms, MergePDDeployment.terms)
  BY <1>2, <1>4, <1>5, <1>7 DEF Update, Replace
<1>9. all = pod.initContainers \o pod.containers
  BY <1>8
<1> HIDE DEF pod, all
<1>10. PartsFit(spec.containers, base.containers)
  BY DEF Blameless, PartsFit, PartsAccepted, PartsFitTogether, ContainerLists, LeavesModelAlone
<1>11. PartsFit(spec.initContainers, base.initContainers)
  BY DEF Blameless, PartsFit, PartsAccepted, PartsFitTogether, ContainerLists, LeavesModelAlone
<1>12. \A c \in Items(all) : ContainerAccepted(c, volumes)
  <2>1. \A c \in Items(merged.containers) : c.image # Empty => ContainerAccepted(c, volumes)
    BY <1>1, <1>2, <1>3, <1>4, <1>10, ContainerFits
  <2>2. \A c \in Items(merged.initContainers) : c.image # Empty => ContainerAccepted(c, volumes)
    BY <1>1, <1>2, <1>3, <1>4, <1>11, ContainerFits
  <2> QED
    BY <1>5, <1>6, <2>1, <2>2
<1>13. \A i \in DOMAIN pod.terms : pod.terms[i].values # {}
  BY <1>8, TermsFit DEF Blameless
<1>14. \A i \in DOMAIN all : ContainerAccepted(all[i], volumes)
  <2>1. \A i \in DOMAIN all : all[i] \in Items(all)
    BY DEF Items
  <2> HIDE DEF volumes
  <2> QED
    BY <1>12, <2>1
<1>15. Distinct(all, LAMBDA c : c.name)
  BY <1>5 DEF Distinct, NamesApart
<1>16. Distinct(volumes, LAMBDA v : v.name)
  BY <1>4 DEF Distinct
<1>17. DeploymentAccepted(pod)
  BY <1>4, <1>5, <1>8, <1>9, <1>13, <1>14, <1>15, <1>16 DEF DeploymentAccepted
<1> QED
  BY <1>17 DEF pod

\* The controller never makes an invalid deployment out of valid parts: a refusal is
\* explained by the ModelService, the BaseConfig, or init containers that an earlier
\* version left over.
THEOREM RefusalsAreExplained == Spec => []RefusalExplained
<1>1. TypeOK /\ RefusedStill => RefusalExplained
  <2> SUFFICES ASSUME TypeOK, RefusedStill, outcome.deployment = "refused", Blameless
               PROVE  FALSE
    BY DEF RefusalExplained, Blameless
  <2>1. DeploymentAccepted(Update(deployment, MergePDDeployment))
    BY ValidPartsFit
  <2> QED
    BY <2>1 DEF RefusedStill
<1> QED
  BY <1>1, RolloutTypes, RefusedStillHolds, PTL
=============================================================================
