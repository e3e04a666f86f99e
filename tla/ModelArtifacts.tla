---------------------------- MODULE ModelArtifacts ----------------------------
(***************************************************************************)
(* From the URI of a model to the volume, the mounts, the environment and  *)
(* the path with which its pods reach it: internal/controller/utils.go and *)
(* the template variables of modelservice_controller.go.                   *)
(*                                                                         *)
(* A URI is its type, its first segment, the rest of its path, and how     *)
(* many segments there are.                                                *)
(***************************************************************************)
EXTENDS SliceMerge

URITypes == {"hf", "pvc", "oci", "unknown"}
URIs == [type : URITypes, first : STRING, path : STRING, parts : Nat]

modelStorageVolumeName == "model-storage"
modelStorageRoot == "/model-cache"
ENV_HF_HOME == "HF_HOME"
ENV_HF_TOKEN == "HF_TOKEN"

\* Literals are strings; the provers have to be told.
ASSUME LiteralsAssumption ==
    {Empty, modelStorageVolumeName, modelStorageRoot, ENV_HF_HOME, ENV_HF_TOKEN}
      \subseteq STRING

\* Where a container's arguments say {{ .MountedModelPath }}.
PathVariable == "{{ .MountedModelPath }}"

parsePVCURI(uri) == uri.type = "pvc" /\ uri.parts >= 2

parseHFURI(uri) == uri.type = "hf" /\ uri.parts = 2

WellFormed(uri) == parsePVCURI(uri) \/ parseHFURI(uri)

\* TemplateVars.from and mountedModelPath return no error: a URI of one of the two
\* types, however malformed.
Supported(uri) == uri.type \in {"hf", "pvc"}

\* mountedModelPath of a supported URI.  The error of a malformed pvc:// URI is
\* shadowed and the path is empty.
MountedModelPath(uri) ==
    CASE uri.type = "hf" -> <<modelStorageRoot>>
      [] parsePVCURI(uri) -> <<modelStorageRoot, uri.path>>
      [] OTHER -> <<>>

Interpolated(arg, uri) ==
    IF arg = PathVariable THEN MountedModelPath(uri) ELSE <<arg>>

\* InterpolateModelService and InterpolateBaseConfigMap, on a list of containers.
InterpolateContainers(list, uri) ==
    [i \in DOMAIN list |->
       [list[i] EXCEPT !.args = [j \in DOMAIN list[i].args |->
                                   Interpolated(list[i].args[j], uri)]]]

\* getVolumeForPDDeployment: none for a URI that cannot be parsed.
getVolumeForPDDeployment(uri) ==
    CASE parsePVCURI(uri) ->
           << [name |-> modelStorageVolumeName, source |-> <<"pvc", uri.first>>] >>
      [] parseHFURI(uri) ->
           << [name |-> modelStorageVolumeName, source |-> <<"emptyDir">>] >>
      [] OTHER -> <<>>

\* getVolumeMountsForContainer: the type decides, malformed or not.
getVolumeMountsForContainer(uri) ==
    IF uri.type \in {"hf", "pvc"}
    THEN << [name |-> modelStorageVolumeName, mountPath |-> modelStorageRoot] >>
    ELSE <<>>

EnvVar(name, value, secret) ==
    [name |-> name, value |-> value, secret |-> secret, field |-> Empty]

\* getEnvsForContainer
getEnvsForContainer(uri, authSecretName) ==
    IF uri.type # "hf"
    THEN <<>>
    ELSE (IF authSecretName = Empty THEN <<>>
          ELSE << EnvVar(ENV_HF_TOKEN, Empty, authSecretName) >>)
         \o << EnvVar(ENV_HF_HOME, modelStorageRoot, Empty) >>

\* convertToContainerSliceWithURIInfo, on one container.  The environment computed
\* for a container that mounts the model replaces the user's.
ContainerWithURIInfo(c, uri, authSecretName) ==
    [name |-> c.name, image |-> c.image, command |-> c.command, args |-> c.args,
     env |-> IF c.mountModelVolume THEN getEnvsForContainer(uri, authSecretName)
                                   ELSE c.env,
     mounts |-> IF c.mountModelVolume THEN getVolumeMountsForContainer(uri) ELSE <<>>]

convertToContainerSliceWithURIInfo(list, uri, authSecretName) ==
    [i \in DOMAIN list |-> ContainerWithURIInfo(list[i], uri, authSecretName)]
=============================================================================
