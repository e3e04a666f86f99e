# A verification project for the ModelService controller

`src/` is a Kubernetes operator. A user writes a `ModelService`, a platform owner
writes a *BaseConfig* (a ConfigMap of templates), and the controller merges the two
into child resources (deployments, services, service accounts, a role binding, an
HTTPRoute, an InferencePool, an InferenceModel, ConfigMaps), creates or updates them
in the API server and reports on them in the ModelService's status. This directory
holds TLA+ models of it, TLC configurations that check them on small instances, and
TLAPS proofs for instances of any size.

## The system's parts

| part | source | state | operations | what makes it correct |
|---|---|---|---|---|
| reconcile loop | `modelservice_controller.go` | none of its own; caches, workqueue and the pass under way | `Reconcile` | a ModelService nobody works on has its children as wanted; nothing is lost in restarts, faults, races |
| status | `populateStatus` | `ModelService.status` | compute from the cache, overwrite if changed | mirrors the deployments in the end; does not set the controller off for ever |
| rendering and merge | `child_resources.go` | none | `getChildResourcesFromConfigMap`, `MergeChildResources` | the right children, the right precedence |
| create-or-update | `child_resources.go:1035-1116` | child objects in the API server | read cached, merge, create or update | keeps what others wrote; idempotent; a failure holds up nobody else |
| watches | `SetupWithManager`, map functions | none | event to owner's key | every event that matters requeues the ModelService concerned |
| informers, workqueue, API server, garbage collector | external | caches, queue, objects | deliver, retry, resync, conflict, collect | modelled from how the controller uses them |
| slice merge | `merge_transformers.go` | none | merge by name, append, prepend | no duplicates, user overrides platform |
| names | `utils.go:15-95`, `sanitizeName` | none | derive, clean and cut names | distinct |
| model artifacts | `utils.go:97-405` | none | URI to volume, mounts, environment, path | every container that asks for the model finds it |
| accelerator types | `accelerator_types.go` | none | labels to a node selector term | an incomplete one adds nothing |
| generate | `cmd/generate.go` | none | render once, print | prints what the cluster ends up with |
| templates, run and root, API types, manifests | rest of `src/` | none | text, flags, declarations | not of interest to a model checker |

How they interact: an event in the API server reaches an informer's cache some time
later and, through a map function, puts the owner's key into the workqueue. The one
worker takes a key, reads the ModelService and the BaseConfig from the cache, renders
and merges, then makes one API call per child, each against a cached copy, and at last
writes the status against a cached ModelService. An error puts the key into a
rate-limited retry. Autoscalers, users, the deployment controller and the garbage
collector write the same objects at any moment, and the process may die at any moment.

The hard behaviours are therefore stale reads, lost events, partial failure, retries of
calls that took effect, deletion and re-creation under a pass, two processes at once
(`config/manager/manager.yaml` turns leader election off), and two ModelServices
on one BaseConfig. `PROJECT.json` lists them under `hazards`, each at its line.

## The modules

`ChildResources` is the computation: what a ModelService wants on a BaseConfig
(`MergeChildResources`, `Wanted`), in which order the children are attempted
(`InvokeOrder`, `IsNext`), what mergo's override does to one field (`MergeField`).
A child's content is four fields: `stamp` (what the controller computes: names, labels,
selectors), `template` (containers, gateways ...), `replicas`, and `note` (metadata only
others write). A field's content is a value out of a small set, `Unset` being nil or
empty and `Zero` a pointer to zero, the one distinction mergo trips over.

`ModelServiceController` is the reconcile loop among everybody else:

| variable | stands for |
|---|---|
| `msvc`, `objs`, `base` | the API server's ModelServices, child objects, base ConfigMap |
| `seenMsvc`, `seenObjs`, `seenBase` | each controller process's informer caches |
| `unseen` | the ModelServices with an undelivered event: the cached copy is not the latest version |
| `news` | for each object, the keys its undelivered events map to |
| `queue`, `backoff` | the workqueue, keys waiting for a rate-limited retry |
| `pass` | the `Reconcile` call in progress: what it read, what is left to do, whether anything failed |
| `usedBase` | history: the base the latest pass rendered (properties only) |
| `disturbances` | how often the environment acted (bound only) |

| action | code |
|---|---|
| `Skip`, `FailRender`, `Begin` | `Reconcile` up to `MergeChildResources` |
| `Create`, `Keep`, `Update`, `Refuse`, `Fault`, `LostReply` | one call of `genericCreateOrUpdate` or `createOrUpdatePDDeploymentInCluster` and its outcomes |
| `FailPass`, `StatusBaseError`, `StatusUnchanged`, `StatusUpdate` | the rest of `Reconcile`, `populateStatus` |
| `DeliverMsvc`, `DeliverObj`, `DeliverBase` | informers and `SetupWithManager`'s watches |
| `BackoffExpires`, `Resync`, `Restart` | controller-runtime, the process |
| `CreateModelService` ... `EditBase` | users, autoscalers, the deployment controller, the garbage collector |

`ModelServiceProperties` states the properties and the inductive invariants of the
proofs. `MCModelService` gives the constants their values for TLC. The proofs are in
`ModelServiceProofs` (types), `WakeupProofs` (children), `StatusProofs` (the status) and
`ScalingProofs` (what a pass may do to an object).

`Reconciliation` is the abstract specification: what controllers may do to a cluster,
with no caches, queues or passes in it. There is the cluster and every version of it
there ever was. A controller's write either merges a child that *some version* of a
ModelService wants on *some version* of the base into what the cluster holds *at that
moment*, or writes a status, and nothing but the status, that mirrors versions of the
deployments. Users, other controllers and the garbage collector have their own actions.
`ModelServiceHistory` adds to the reconcile loop the versions the API server has held
(history variables: they are read by no action) and maps it to `Reconciliation`:
`ReconciliationImplemented`. `ReconciliationProofs` proves the refinement.

`SliceMerge`, `ModelArtifacts` and `DeploymentRollout` look at one role's pod template
and at the HTTPRoute's parents list by list, where `ChildResources` has one value
`template`:

* `SliceMerge`: `MergeByName` is `genericSliceTransformer`; `MergeEnvVar`,
  `MergeContainer` and `MergeParentRef` are the functions it is called with. A list is a
  sequence of records with a name.
* `ModelArtifacts`: from the URI to volume, mounts, environment and path. A URI is its
  type, its first segment, the rest, and the number of segments, so that malformed ones
  are among them.
* `DeploymentRollout`: `spec` and `base` are edited at will; `Reconcile` renders, merges
  (`MergePDDeployment`, `MergeHTTPRoute`), lays the result over what the cluster holds
  (`Update`) and has it accepted or refused (`DeploymentAccepted`, `RouteAccepted`, the API
  server's validation of what the model has). `outcome` is what became of the latest
  `Reconcile`; `served`, a history variable, the URI last written.
* `RolloutProperties`, `MCRollout`, `SliceMergeProofs` and `RolloutProofs`: properties,
  instances, what merging by name does to any two lists, and the proofs from it. The
  ModelServices and BaseConfigs of `MCRollout` are made after those of `samples/` and of the
  unit tests.

`ChildNames` derives the names of children: a name is a sequence of characters and of the
words the code appends, cleaned, cut and, if the cut leaves a hyphen at the end, replaced
by a fallback that is the same for every ModelService. `Generate` is the generate command.
`Services` puts both beside the reconcile loop and states what holds of many ModelServices;
in `MCServices` the loop's objects are named as `ChildNames` says, and `ServicesProofs` has
the proofs. Operators marked *Mutant* are
variants of the definition below them that make one mistake; nothing refers to them,
they are there to be put in that definition's place to see a property fail.

### What is abstracted

* A cache holds a copy of an object as it was at some time; events for one object that
  were not delivered yet are merged into one (`news` keeps all their keys), as the
  workqueue would merge them anyway.
* A child's resource version is its value: an update is accepted when cache and
  server hold equal objects. A change that was undone in between goes unnoticed, which
  is the more dangerous of the two possibilities. For a ModelService that would be wrong,
  as two writes of the status may cancel out and still set the controller off twice:
  there the version is exact (`unseen`, which every write of the ModelService joins).
* The cached read, the merge and the call are one step; the cache cannot change the
  outcome in between because the server checks the version. The read and the write of
  the status likewise.
* The ConfigMaps a base lists are one slot; a base is local or not as a whole.
  Owner references are at most one ModelService. All ModelServices are in one namespace
  and use one base ConfigMap, or none.
* `Renderable` says whether templates and YAML are valid. What text comes out is data.
* API server defaulting is modelled for the replica count only. An update that the
  server turns into no change at all (the controller makes such calls, as it compares
  against defaulted containers) is `Keep`.
* Readiness is one number for a deployment's ready and available counts and conditions.
  A status with a `GetFailed` condition carries the current time and never equals
  another one (`missing`).
* In `DeploymentRollout` a `Reconcile` is one step, as the races are the business of
  `ModelServiceController`. The role's section is in every spec. Resources, ports,
  labels, pull secrets and `envFrom` are left out, as nothing branches on them. A
  container's environment variable has at most a value, a secret and a field as its
  sources. Of templates there is `{{ .MountedModelPath }}`, the one variable whose
  computation has cases.
* In `ChildNames` an appended word counts for one towards the length limit. That a name
  may not start with certain characters, and what a ModelService itself may be called
  beyond beginning and ending in a letter, is left out.
* Restart lists atomically. A worker reads one key at a time (the default
  `MaxConcurrentReconciles`).

## What is checked

Every run leaves `CHECK_DEADLOCK FALSE`: a controller whose queue is empty rightly waits
once the environment's budget is spent, and `sample` has nothing left to edit.

| run | instance | properties |
|---|---|---|
| `life` | one ModelService, two incarnations, two specs, 3 disturbances | `TypeOK`, `NoLostWakeup`, `StatusSettled` |
| `scaling` | coupled and decoupled spec, foreign scale and annotation, readiness 0..1, 3 disturbances | `NoLostWakeup`, `StatusSettled`, `StatusTraced`, `ForeignFieldsKept`, `ScalePreserved` |
| `services` | two ModelServices called `a.a` and `a-epp` with two incarnations each, on a base with two contents or none, 2 disturbances; names of up to four characters | `NoLostWakeup`, `OwnersTraced`, `OwnerKept`, `NamesApart`, `PreviewAgrees` |
| `overlap` | two controller processes, a foreign annotation, 1 disturbance, every version remembered | `NoLostWakeup`, `NothingForgotten`, `ReconciliationImplemented` |
| `progress` | a refused child, two incarnations, 2 disturbances, fair | `Converges`, `Quiesces`, `GarbageCollected` |
| `resync` | base edits, resync, fair | `BaseReachesChildren` |
| `rollout` | 25 ModelServices (seven URIs, four of them malformed or unsupported) and 4 BaseConfigs, edited in any order | `TypeOK`, `UserOverridesBase`, `ModelReachable`, `VolumesFollowURI`, `RefusalExplained`, `GatewaysAttached`, `UpdateSettles` |
| `replicas_zero` | replicas edited from one to zero | `ReplicasManaged` fails |
| `service_account_ref` | a prefill section | `PDServiceAccountRefNamesPD` fails |
| `status_refs` | a prefill section and no base | `RefsNameObjects` fails |
| `shared_configmap` | two ModelServices, a base that lists a ConfigMap | `OwnerKept` fails |
| `sample` | the decode section and BaseConfig of `samples/nixl-xpyd` | `RenderedIsAccepted` fails |

`NoLostWakeup` is the heart: when a controller has seen the ModelService as it is, has
no key queued, backing off or in work and no event on its way, the API server holds
every child as the latest pass wanted it, and that pass could be rendered.
`StatusSettled` says the same of the reports in the status. `Converges` adds that this
is reached, `Quiesces` that the controller then stops writing.

`ReconciliationImplemented` speaks of every step instead of the end: however old the
caches and however many the processes, a write never puts back what somebody else has
changed since, a status write never carries an old spec with it, and every report was true
of some version of the deployment.

In `rollout`, `UserOverridesBase` is the precedence between user and platform, stated
for the result and not for the merge; `ModelReachable` and `VolumesFollowURI` say that
volume, mounts, environment and path belong together after any history of URIs;
`GatewaysAttached` the same as precedence for the route; `UpdateSettles` that writing is
idempotent. `RefusalExplained` says that a deployment the API server refuses is the fault of
what it was made from, and looks only at that, never at the merged lists: a part is wrong in
itself (`PartsAccepted`: a name twice in one list, a variable with two sources, a volume
without a claim; a malformed URI), parts cannot go together (`PartsFitTogether`: one variable
from two sources, a container for which neither side gives an image, no containers, a name on
both kinds of containers; `LeavesModelAlone`: the platform uses what the controller adds), or
init containers of an earlier version are still there (`LeftOver`). Each of these is needed:
without it TLC finds a refusal on this instance.

`NamesApart` says for which names children cannot meet, and its three exceptions are
all needed: names that are cut, names with a character that is replaced (`a.a` and
`a-a`), and the service account for the pods of `x-epp`, which is also the one of the endpoint
picker of `x`. `PreviewAgrees` says that what `generate` prints is what is in the cluster
in the end, field by field where it prints one, for the children the controller wants.

The failing runs are places where the code does not do what the documents say:

* `replicas: 0` in a ModelService whose deployment exists is never applied
  (`modelservice_types.go:46` and the `Minimum=0` of line 283);
* `PDServiceAccountRef` holds the endpoint picker's service account
  (`modelservice_controller.go:297`);
* references in the status name objects that were never created or are no longer
  wanted (`modelservice_types.go:352-399`);
* ModelServices that share a BaseConfig take the ConfigMap it lists from each other
  (`docs/userguide/core-concepts.md:26`);
* the sample in `samples/nixl-xpyd` gets no prefill and no decode deployment: its
  BaseConfig has a volume `model-storage`, the controller appends another
  (`samples/nixl-xpyd/README.md:15-19`).

Things the models show that no document speaks of, or that have no run of their own:

* an update never empties a list (`child_resources.go:1052`, `1099`): an init container that
  is taken out of the spec stays in the deployment, and when the volume it mounts has
  gone, later updates are refused;
* the variables a user gives to a container with `mountModelVolume` are dropped
  (`utils.go:399`);
* accelerator types add an alternative to the platform's node selector terms
  instead of narrowing them (`child_resources.go:632`);
* a malformed `pvc://` URI is rendered into an empty path and leaves the volume of the
  URI before it in place (`utils.go:104`, `250`);
* of two references to one gateway only the last survives if the BaseConfig names that
  gateway too (`merge_transformers.go:71`);
* the comment on `mountModelVolume` (`modelservice_types.go:133`) says that a PVC is mounted at
  `/cache`; the code and its tests have `/model-cache`, which is what `ModelReachable` demands;
* a ModelService whose name starts with a digit gets no prefill and no decode Service, as
  their names then start with one (`child_resources.go:436`);
* `generate` panics on an empty or unreadable base file, and prints services
  that nothing creates without their deployment (`cmd/generate.go:53`).

### Bounds

`MaxDisturbances` counts creations, edits, deletions, foreign writes, faults, lost
replies, restarts and unforced resyncs; everything the controller, the informers and the
garbage collector do is unbounded. Three suffice for an edit, a failure during the pass
it sets off, and one more event while that is retried; `Overlap` has one because every
step of it is interleaved with the second process's. `MaxUid` = 1 is one
deletion and re-creation: in `services`, where ModelServices may exist from the start, the two
disturbances that it takes can fall into a pass for the earlier incarnation, which is what
`OwnersTraced` and `OwnerKept` are about. Two specs and two contents are enough to tell old from
new. A child's slot that an instance does not use is named by a shared name nobody writes, so
that it costs no states.

`rollout` has no bound on its edits: its states are finite because updates replace lists.
Its ModelServices have none, one or two containers, with and without a command, a model
volume, an init container and a variable the platform has too; its BaseConfigs are none, one
without and one with volumes, and the sample's. `services` has `MaxLength` = 7 with suffixes of up
to four pieces, so that names of four are cut and those of three are not.

### Fairness

Informers deliver, retries expire, the worker keeps running, the garbage collector and
foreign finalizers finish (weak fairness); a key waiting in the first-in-first-out
workqueue is taken in the end (strong fairness, as the action is disabled while another
key is in work). Nothing is assumed of users, faults, restarts. Only `resync` adds
fairness of the periodic resync, whose default period is ten hours: without it an edit
of the BaseConfig reaches no child until another event comes along.

## What is proved

Every safety property of a passing run is a theorem: invariants, action properties and
the refinement. The theorems hold for all values of the constants that satisfy the named
assumptions: the types of the inputs; that null values are none of the values they stand
for; that the literals the model writes down are strings (`LiteralsAssumption`: no prover
can tell). `ObjectOf` may give several children one name, lists may have any length, names
repeated or not, and there may be any number of ModelServices and of processes.

| theorem | property | inductive invariant |
|---|---|---|
| `TypeCorrect` | `TypeOK` | itself |
| `NoWakeupIsLost` | `NoLostWakeup` | `NothingForgotten` |
| `StatusSettles` | `StatusSettled` | `StatusTraced` |
| `ForeignFieldsAreKept`, `ScaleIsPreserved` | `ForeignFieldsKept`, `ScalePreserved` | `TypeOK` |
| `OwnersAreKept` | `OwnerKept`, for one process and distinct names | `OwnersTraced` |
| `ImplementsReconciliation` | `ReconciliationImplemented` | what a pass read is a version of the past |
| `PreviewHolds` | `PreviewAgrees` | `NothingForgotten` |
| `NamesAreApart` | `NamesApart` | none, it is about names only |
| `RolloutTypes` | `TypeOK` of the rollout | itself |
| `UserIsHeard`, `UpdatesSettle`, `VolumesAreCurrent` | `UserOverridesBase`, `UpdateSettles`, `VolumesFollowURI` | `Contained` |
| `ModelIsReachable` | `ModelReachable` | `Contained`, `VolumesExplained` |
| `RefusalsAreExplained` | `RefusalExplained` | `RefusedStill` |
| `GatewaysStayAttached` | `GatewaysAttached` | `RouteContained` |

The invariants of the reconcile loop are theorems of their own (`NothingForgottenHolds`,
`StatusTracedHolds`, `OwnersTracedHold`) and are checked by TLC as well.

**Children.** `NoLostWakeup` is not inductive, as it says nothing while a controller is at
work. `NothingForgotten` adds, for each controller:

* `MsvcKnown`: the cache holds a ModelService as it is, unless an event is on its way;
* `EventsKnown`: where cache and server differ on an object, the event on its way maps
  to the owners of both;
* `PassKnown`: a pass renders what the cache still holds, or its key is queued; what it
  did so far holds, or its key is queued, or an event about the object will queue it;
* `QuietKnown`: the same of the latest pass for a ModelService nobody works on.

The argument turns on `AppliedNamesOwner`: an object that is as wanted names its
ModelService as its owner, so whoever overwrites it tells that ModelService. Then
`WrittenWatched` carries "as wanted, or an event is on its way" over any write,
`Bystander` over any step of somebody else, and the remaining lemmas take the
controller's own steps one by one. That a child just written is as wanted is
`CreatedApplied` and `MergedApplied`, which rest on `OverrideIdempotent`: merging the
same desired state twice is merging it once.

**Status.** `StatusTraced` adds to it where a status comes from: a pass started from the status
in the cache or its key is queued again, and after the latest pass for a ModelService
nobody works on, each mirrored deployment is reported as the cache has it or an event about
it is on its way. The proof needs `MirroredWanted` (what is mirrored is one of the
children, so `NothingForgotten` says that it exists and is watched) and takes the four
ends of a pass apart in `StatusFinish`; a status overwritten by another process is an
event, which is why versions of ModelServices must be exact.

**Owners.** `OwnersTraced`: an object's owner reference is to a ModelService that has the
object, and no later an incarnation than the cache knows, nor than the pass in progress
if it is that ModelService's. Both hypotheses of `OwnersAreKept` are needed. Without
`NamesDistinct` the run `shared_configmap` is a counterexample; without `OneProcess`, a
second process whose cache trails a re-creation gives a child of the new incarnation back
to the old one (TLC finds it on the instance of `overlap` when it is given two disturbances).

**Refinement.** `ImplementsReconciliation` rests on an invariant that ties a pass to history:
what a pass read of a ModelService, what a cache holds of an object and the base a pass
rendered are all versions the API server once held. With it each action of the controller is
an `Apply`, a `ReportStatus` or a stutter, and each action of the environment a
`Disturbance` or a `Collection`; that a merge goes into the current child although it is
computed from a cached one is the conflict check of `Update`.

**Rollout.** `SliceMergeProofs` says what `MergeByName` makes of two lists of any length:
its items, their names, how often each occurs, and the type of the result. The recursive
functions in it (`Unmatched`, and `Replaced` in `ChildNames`) are dealt with by a least
counterexample, as the induction theorems of the library cannot be instantiated.
`Contained` then says that laying what is rendered over a deployment that was written gives
that deployment; it is an invariant because `Update` is idempotent and rendering reads
nothing but the ModelService and the BaseConfig. With it a property of what was written is one
of what is rendered: `ListPrecedes` for precedence, `ModelGiven` for the model. What a
malformed URI leaves behind is not rendered: `VolumesExplained` says where it comes from.
`ValidPartsFit` is the core of `RefusalsAreExplained`: parts that are valid and fit together
(`Blameless`) are merged into a valid pod. That the merged list has each name once is
`MergeApart`, that each container has an image `MergedListImages`; both are concluded from the
parts and not assumed of the result.

**Preview and names.** `PreviewHolds` compares two computations, `generateManifests` and what the
latest pass wanted, and uses `NothingForgotten` for what the cluster then holds.
`NamesAreApart` needs that a plain name is not changed (`LegalUnreplaced`, `PlainUnchanged`)
and that of two equal names the last pieces are equal.

Only model-checked: the liveness properties (`Converges`, `Quiesces`, `GarbageCollected`,
`BaseReachesChildren`), which are out of the prover's reach as is `ENABLED`.

## Not modelled

* The text of templates, `getPort`, pull secrets, labels and selectors, resources and ports:
  data that no decision depends on.
* Flags, TLS and metrics set-up of `run`, `root`, logging; deep copies (generated);
  manifests and tests.
* `backendRefTransformer`: an HTTPRoute's rules hold `HTTPBackendRef`s, which it does not
  match, and the controller adds no backends.
* The conditions in the status, beyond one readiness per deployment and `GetFailed`.

## What is left

1. A run on a base whose ConfigMap is in another namespace.
2. An abstract specification of one process and one ModelService that the rollout and the
   reconcile loop both implement, so that what is proved of lists carries over to stale
   caches by a theorem and not by reading.
3. Node selector terms against what `modelservice_types.go:309` says of them.
