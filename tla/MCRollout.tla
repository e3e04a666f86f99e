------------------------------ MODULE MCRollout ------------------------------
(***************************************************************************)
(* ModelServices and BaseConfigs for DeploymentRollout, after the ones in  *)
(* samples/ and in the tests.                                              *)
(***************************************************************************)
EXTENDS RolloutProperties

URI(type, first, path, parts) ==
    [type |-> type, first |-> first, path |-> path, parts |-> parts]

HF == URI("hf", "facebook", "opt-125m", 2)
HFShort == URI("hf", "opt-125m", "", 1)
PVC == URI("pvc", "granite-pvc", "path/to/granite", 4)
PVCOther == URI("pvc", "llama-pvc", "path/to/llama", 4)
PVCNameless == URI("pvc", "", "granite", 2)
PVCShort == URI("pvc", "granite-pvc", "", 1)
OCI == URI("oci", "repo", "image", 2)

Value(n, v) == [name |-> n, value |-> v, secret |-> Empty, field |-> Empty]
Field(n, f) == [name |-> n, value |-> Empty, secret |-> Empty, field |-> f]

\* A container of a ModelService.
Asks(n, image, command, args, env, mountModelVolume) ==
    [name |-> n, image |-> image, command |-> command, args |-> args, env |-> env,
     mountModelVolume |-> mountModelVolume]

Quiet == Asks("vllm", Empty, <<>>, <<"--model">>, <<Value("LEVEL", "info")>>, FALSE)
Serve == Asks("vllm", Empty, <<"serve">>, <<PathVariable>>, <<Value("LEVEL", "info")>>, TRUE)
Sidecar == Asks("sidecar", "nginx", <<>>, <<>>, <<>>, FALSE)
Fetch == Asks("fetch", "busybox", <<>>, <<PathVariable>>, <<>>, TRUE)
Local == Asks("vllm", "llm-d", <<"run">>, <<PathVariable>>, <<>>, TRUE)
Routing == Asks("proxy", "nginx", <<>>, <<>>, <<>>, FALSE)
Pinned == Asks("vllm", "llm-d", <<>>, <<>>, <<Value("HOST", "here")>>, FALSE)

\* A container of a BaseConfig.
Has(n, image, command, args, env, mounts) ==
    [name |-> n, image |-> image, command |-> command, args |-> args, env |-> env,
     mounts |-> mounts]

ModelMount == [name |-> "model-storage", mountPath |-> "/model-cache"]
ShmMount == [name |-> "shm", mountPath |-> "/dev/shm"]
EmptyDir(n) == [name |-> n, source |-> <<"emptyDir", "20Gi">>]

Vllm(mounts, env) ==
    Has("vllm", "llm-d", <<"vllm", "serve">>, <<"--port">>,
        <<Value("LEVEL", "debug"), Field("HOST", "podIP")>> \o env, mounts)
Proxy == Has("proxy", "routing-sidecar", <<>>, <<"--connector">>, <<>>, <<>>)

Gateway(n, section) == [name |-> n, section |-> section]

NoBase ==
    [containers |-> <<>>, initContainers |-> <<>>, volumes |-> <<>>, terms |-> <<>>,
     parentRefs |-> <<>>]

Platform ==
    [containers |-> <<Vllm(<<>>, <<>>)>>, initContainers |-> <<Proxy>>, volumes |-> <<>>,
     terms |-> << [key |-> "zone", values |-> {"a"}] >>,
     parentRefs |-> <<Gateway("inference", "web")>>]

WithVolume ==
    [Platform EXCEPT !.containers = <<Vllm(<<ShmMount>>, <<>>)>>, !.initContainers = <<>>,
                     !.volumes = <<EmptyDir("shm")>>]

\* samples/nixl-xpyd/universal-baseconfig-hf.yaml:38-82, without its ports and limits.
NixlSample ==
    [NoBase EXCEPT
       !.containers = <<Vllm(<<ModelMount>>, <<Value("HF_HOME", "/model-cache")>>)>>,
       !.initContainers = <<Proxy>>,
       !.volumes = <<EmptyDir("model-storage")>>]

RolloutBases == {NoBase, Platform, WithVolume, NixlSample}

Service(containers, initContainers, uri) ==
    [containers |-> containers, initContainers |-> initContainers, uri |-> uri,
     authSecretName |-> IF uri = HF THEN "hf-secret" ELSE Empty,
     acceleratorTypes |->
       [labelKey |-> IF uri.type = "pvc" THEN "gpu" ELSE Empty,
        labelValues |-> IF uri = PVC THEN {"H100"} ELSE {}],
     gatewayRefs |->
       CASE uri = HF -> <<Gateway("inference", "http"), Gateway("other", Empty)>>
         [] uri = PVC -> <<Gateway("inference", "http"), Gateway("inference", "https")>>
         [] OTHER -> <<>>]

Supports == {HF, PVC, PVCOther, HFShort, PVCShort}

RolloutSpecs ==
    {Service(containers, <<>>, uri) :
        containers \in {<<>>, <<Quiet, Sidecar>>, <<Quiet, Serve>>}, uri \in Supports}
    \cup {Service(<<Local>>, <<Fetch>>, uri) : uri \in Supports}
    \cup {Service(<<Local>>, <<>>, uri) : uri \in {OCI, PVCNameless}}
    \cup {Service(containers, <<>>, HF) :
             containers \in {<<Pinned>>, <<Local, Pinned>>, <<Routing>>}}

\* samples/nixl-xpyd/facebook-nixl.yaml, its decode section.
SampleSpecs ==
    {[Service(<<Asks("vllm", Empty, <<>>, <<"facebook/opt-125m">>, <<>>, FALSE)>>, <<>>, HF)
        EXCEPT !.authSecretName = Empty, !.gatewayRefs = <<>>]}
SampleBases == {NixlSample}
=============================================================================
