--------------------------- MODULE RolloutProperties ---------------------------
(***************************************************************************)
(* What a user and a platform owner may expect of the pods that            *)
(* DeploymentRollout deploys for them.                                     *)
(***************************************************************************)
EXTENDS DeploymentRollout

\* What the API server holds has the shape of a pod template and of a list of parent
\* references, and is always something it would accept.
TypeOK ==
    /\ spec \in Specs /\ base \in Bases
    /\ deployment.containers \in Seq(Containers)
    /\ deployment.initContainers \in Seq(Containers)
    /\ deployment = NoDeployment \/ DeploymentAccepted(deployment)
    /\ RouteAccepted(route)
    /\ outcome \in [deployment : {"pending", "failed", "written", "refused"},
                    route : {"pending", "failed", "written", "refused"}]
    /\ served = NoURI \/ WellFormed(served)

Written == outcome.deployment = "written"

-----------------------------------------------------------------------------
(* Precedence *)

Only(list, n) == CHOOSE item \in Items(list) : item.name = n

NamedOnce(list, n) ==
    \E i \in DOMAIN list : \A j \in DOMAIN list : list[j].name = n <=> j = i

\* What a container's environment says of a variable, given what user and platform say.
EnvPrecedence(env, ofUser, ofBase) ==
    \A n \in Names(ofUser) \cup Names(ofBase) :
        LET In(list, f) == IF n \in Names(list) THEN LastNamed(list, n)[f] ELSE Empty IN
        \E e \in Items(env) :
            /\ e.name = n
            /\ \A f \in EnvVarSources :
                 e[f] = IF In(ofUser, f) # Empty THEN In(ofUser, f) ELSE In(ofBase, f)

Rendered(args) == [i \in DOMAIN args |-> Interpolated(args[i], spec.uri)]

NoContainer == [image |-> Empty, command |-> <<>>, args |-> <<>>, env |-> <<>>]

ContainerPrecedence(c, ofUser, ofBase) ==
    /\ c.image = IF ofUser.image # Empty THEN ofUser.image ELSE ofBase.image
    /\ c.command = IF ofUser.command # <<>> THEN ofUser.command ELSE ofBase.command
    /\ c.args = Rendered(ofUser.args) \o Rendered(ofBase.args)
    /\ ~ofUser.mountModelVolume => EnvPrecedence(c.env, ofUser.env, ofBase.env)

ListPrecedence(list, ofUser, ofBase) ==
    ofUser # <<>> \/ ofBase # <<>> =>
        /\ Names(list) = Names(ofUser) \cup Names(ofBase)
        /\ \A n \in Names(list) : NamedOnce(list, n)
        /\ \A n \in Names(ofUser) :
             ContainerPrecedence(Only(list, n), LastNamed(ofUser, n),
                 IF n \in Names(ofBase) THEN Only(ofBase, n) ELSE NoContainer)
        /\ \A n \in Names(ofBase) \ Names(ofUser) :
             Only(list, n) = [Only(ofBase, n) EXCEPT !.args = Rendered(@)]

\* A deployment that was written runs the containers of user and platform, each once:
\* what the user says of image, command and a variable wins, the platform's stays
\* where the user is silent, arguments of both are passed, the user's first; whatever
\* was deployed before (containerSliceTransformer, mergo's override on update).
UserOverridesBase ==
    Written =>
        /\ ListPrecedence(deployment.containers, spec.containers, base.containers)
        /\ ListPrecedence(deployment.initContainers, spec.initContainers,
                          base.initContainers)

-----------------------------------------------------------------------------
(* The model *)

Asking(list) ==
    {n \in Names(list) : LastNamed(list, n).mountModelVolume}

\* The volumes a container that asks for the model may find: for a malformed URI what
\* an earlier URI or a BaseConfig left there.
ModelVolumes ==
    IF WellFormed(spec.uri)
    THEN Items(getVolumeForPDDeployment(spec.uri))
    ELSE (IF served = NoURI THEN {} ELSE Items(getVolumeForPDDeployment(served)))
         \cup UNION {Items(b.volumes) : b \in Bases}

MountsModel(c) ==
    \E mount \in Items(c.mounts), v \in Items(deployment.volumes) \cap ModelVolumes :
        mount.mountPath = modelStorageRoot /\ v.name = mount.name

KnowsModel(c) ==
    /\ \E e \in Items(c.env) : e.name = ENV_HF_HOME /\ e.value = modelStorageRoot
    /\ spec.authSecretName # Empty =>
         \E e \in Items(c.env) : e.name = ENV_HF_TOKEN /\ e.secret = spec.authSecretName

\* Arguments that user and platform wrote out themselves.
WrittenOut ==
    UNION {Items(c.args) : c \in Items(spec.containers) \cup Items(base.containers)}

\* A path below the mount that the arguments name is that of the model, if nobody wrote
\* another one out.
PathLeads(c) ==
    \A arg \in Items(c.args) :
        arg # <<>> /\ arg[1] = modelStorageRoot =>
            \/ arg = IF spec.uri.type = "pvc" THEN <<modelStorageRoot, spec.uri.path>>
                                              ELSE <<modelStorageRoot>>
            \/ arg \in {<<a>> : a \in WrittenOut}

\* After any history of edits, every container that asks for the model finds at
\* /model-cache the volume of its URI and, for hf://, the environment to use it,
\* although volume, mount, environment and update are decided in four places.  A
\* malformed URI stops only the first: the pods then go on with the volume of the last
\* well-formed one (utils.go).
ModelReachable ==
    Written =>
        /\ \A n \in Asking(spec.containers) :
             MountsModel(Only(deployment.containers, n))
        /\ \A n \in Asking(spec.initContainers) :
             MountsModel(Only(deployment.initContainers, n))
        /\ \A n \in Asking(spec.containers) :
             LET c == Only(deployment.containers, n) IN
             /\ PathLeads(c)
             /\ spec.uri.type = "hf" => KnowsModel(c)

\* Whatever volumes earlier specs left behind, a deployment written for a well-formed
\* URI has the platform's volumes and the one of that URI, and no others
\* (getVolumeForPDDeployment, mergo's override on update).
VolumesFollowURI ==
    Written /\ WellFormed(spec.uri) =>
        deployment.volumes = base.volumes \o getVolumeForPDDeployment(spec.uri)

-----------------------------------------------------------------------------
(* Updates and refusals *)

\* Reconciling again what was written changes nothing, whatever lists were left over
\* from earlier specs: an update cannot set off the next one.
UpdateSettles ==
    [][Written /\ Reconcile => UNCHANGED deployment]_vars

\* The platform's deployment leaves alone what the controller adds itself.
LeavesModelAlone ==
    /\ modelStorageVolumeName \notin Names(base.volumes)
    /\ \A c \in Items(base.containers) \cup Items(base.initContainers) :
         /\ \A mount \in Items(c.mounts) : mount.mountPath # modelStorageRoot
         /\ \A e \in Items(c.env) :
              /\ e.name # ENV_HF_TOKEN
              /\ e.name = ENV_HF_HOME => e.secret = Empty /\ e.field = Empty

\* User and platform do not give one variable from different sources.
OneSource(ofUser, ofBase) ==
    \A u \in Items(ofUser), c \in Items(ofBase) : u.name = c.name =>
        \A e \in Items(u.env), b \in Items(c.env) : e.name = b.name =>
            \A f, g \in EnvVarSources : e[f] # Empty /\ b[g] # Empty => f = g

\* Every container has an image from one of the two.
ImageGiven(ofUser, ofBase) ==
    \A n \in Names(ofUser) \cup Names(ofBase) :
        \E c \in Items(ofUser) \cup Items(ofBase) : c.name = n /\ c.image # Empty

ContainerLists == {"containers", "initContainers"}

\* Names that user or platform gives to the containers of a list.
Named(f) == Names(spec[f]) \cup Names(base[f])

\* What user and platform wrote is accepted, each on its own.
PartsAccepted ==
    /\ \A f \in ContainerLists :
         Distinct(spec[f], LAMBDA c : c.name) /\ Distinct(base[f], LAMBDA c : c.name)
    /\ Distinct(base.volumes, LAMBDA v : v.name)
    /\ \A v \in Items(base.volumes) : v.source # <<"pvc", Empty>>
    /\ \A term \in Items(base.terms) : term.values # {}
    /\ \A c \in Items(base.containers) \cup Items(base.initContainers) :
         /\ \A e \in Items(c.env) : EnvVarAccepted(e)
         /\ \A mount \in Items(c.mounts) : mount.name \in Names(base.volumes)
         /\ Distinct(c.mounts, LAMBDA mount : mount.mountPath)
    /\ \A c \in Items(spec.containers) \cup Items(spec.initContainers) :
         \A e \in Items(c.env) : EnvVarAccepted(e)

\* What user and platform wrote can go together.
PartsFitTogether ==
    /\ \A f \in ContainerLists :
         OneSource(spec[f], base[f]) /\ ImageGiven(spec[f], base[f])
    /\ Named("containers") # {}
    /\ Named("containers") \cap Named("initContainers") = {}

\* Init containers of an earlier version, which the update keeps when there are none
\* any more.
LeftOver == deployment.initContainers # <<>> /\ Named("initContainers") = {}

\* The API server refuses a deployment only for what is in the ModelService or the
\* BaseConfig, or for init containers left over from an earlier version of them:
\* merging user, platform and model never makes an invalid pod out of valid parts.
\* Nothing of what is said here of the parts is said of what they were merged into.
RefusalExplained ==
    outcome.deployment = "refused" =>
        \/ ~PartsAccepted \/ ~PartsFitTogether \/ ~LeavesModelAlone
        \/ ~WellFormed(spec.uri) \/ spec.uri.first = Empty
        \/ LeftOver

\* Every gateway a user names is a parent of the route, with the section named last
\* for it, and no parent of the platform's is lost (parentRefSliceTransformer).
GatewaysAttached ==
    outcome.route = "written" =>
        /\ \A n \in Names(spec.gatewayRefs) : \E ref \in Items(route) :
             /\ ref.name = n
             /\ LastNamed(spec.gatewayRefs, n).section \in {ref.section, Empty}
        /\ base.parentRefs # <<>> => Names(base.parentRefs) \subseteq Names(route)

\* samples/nixl-xpyd/README.md:15-19: applying its ModelService and its BaseConfig
\* creates a decode and a prefill deployment.
RenderedIsAccepted == outcome.deployment # "refused"
=============================================================================
