# A TLA+ model of nuwa's controllers

nuwa extends Kubernetes with custom resources and the controllers that drive
them: a *StatefulSet* with in-place updates and per-ordinal placement, *Water*
(deployments spread over zones, racks and machines), *Stone* (groups of
StatefulSets) and *Injector* (sidecars, through a webhook). This directory
holds TLA+ models of the controllers, TLC configurations that check them on
small instances, and TLAPS proofs of what holds for every instance.
`PROJECT.json` relates every definition to the source lines it models, and
lists runs, mutants, findings, hazards and theorems.

    tlc -config ScaleAndUpdate.cfg MCStatefulSet   # a run
    tlapm StatefulSetControl_proofs.tla            # the proofs

## 1. Inventory

| Component (source, under `src/`) | State it keeps | Operations | Modelled |
|---|---|---|---|
| StatefulSet reconciler, `controllers/statefulset_controller.go` | the work queue's key; nothing else of its own | `Reconcile`, defaulting, adoption of orphans, mapping of events to keys | `StatefulSetControl`; the keys of events and the adoption of revisions and pods in `PodOwnership` |
| StatefulSet control loop, `controllers/stateful_set_control.go`, `stateful_set_utils.go` | none between rounds: reads set, pods, revisions and writes pods, status, revisions | `UpdateStatefulSet`, `updateStatefulSet` (replica loop, scale down, rolling update), `truncateHistory`, `getStatefulSetRevisions`, `completeRollingUpdate` | `StatefulSetControl`, which implements `Rollout`; repair of identity and storage in `PodOwnership` |
| In-place update, `stateful_inplace_utils.go` | the pod's `InPlaceUpdateReady` condition and the annotation with the last image IDs | decide, close the gate, patch, detect completion, open the gate | `StatefulSetControl` |
| Stateful pod control, `stateful_pod_control.go` | none | create, delete, patch, condition update, each with conflict retries from the cache | `StatefulSetControl`; `UpdateStatefulPod`, claims and volumes in `PodOwnership` |
| Update expectations, `util.go` | in memory: per set, the revision and the pods patched but not yet observed | `ExpectUpdated`, `ObserveUpdated`, `SatisfiedExpectations` | `StatefulSetControl` |
| Revision history, `revision_control.go` | `ControllerRevision` objects | list, create, renumber, delete, adopt | `StatefulSetControl`, `PodOwnership`; hash collisions are left out |
| Real pod control, `realpod_control.go` | none | patch, with which pods are adopted and released; the rest is called by nothing | `PodOwnership` |
| Status updater, `stateful_set_status_updater.go` | the set's status | write with retries | `StatefulSetControl` |
| Water controller, `water_controller.go` | deployments, service, annotation `spec`, status | clean up, deploy, service, annotate, status | `WaterController` |
| Coordinates, `api/v1/coordinate.go`, `controllers/coordinator.go` | none | `Equal`, `In`, `Difference`, names, node affinity | `WaterController` |
| Stone controller, `stone_controller.go` | StatefulSets, services, annotation `spec`, status | `getStatefulSet`, `syncStatefulSet`, `updateStatefulSet`, `updateService`, `updateStone` | `StoneController` |
| Injector controller, `injector_controller.go` | owner reference of the Injector, annotation on the pods it selects | `Reconcile`: wait for the Water or Stone, own, mark the pods, write back | `InjectorController` |
| Admission webhooks, `api/v1/webhook.go` | none; reads the namespace and the Injectors from caches | inject containers and volumes into pods, node affinity into workloads | `WebhookServer` |
| API types, generated deep copies, `main.go` | – | – | types as far as used; the rest has no logic of its own |

How they interact. Every controller is a level-triggered loop: an event about
a resource, or about one it owns, puts a key into a queue; a single worker
takes the key, reads through informer caches, and writes to the API server one
call at a time. A Stone writes StatefulSets, whose controller writes pods; a
Water writes Deployments, which Kubernetes itself runs. The webhook changes
pods as they are created. Controllers share nothing but API objects; within
the StatefulSet controller, the expectations are the only memory that outlives
a round and does not outlive the process. The webhook server and the Injector
controller run in one process and read the same caches. Several StatefulSets
of a namespace share its pods, claims and revisions, and tell them apart by
name, labels and owner.

What is hard about it:

* a round is many API calls; the user, the kubelets, other clients and a crash
  act between any two of them;
* decisions are made on cached pods, and a write that conflicts is retried
  with another cached copy without deciding again;
* completion of an update is concluded from counts, not from pods, and changes
  which revision the next round builds pods from, between the choice of the
  revisions to delete and their deletion;
* an in-place update is a protocol of four parties' writes (close gate, patch,
  kubelet restarts, open gate), each of which may be the last before a restart;
* errors are returned and retried by the Water and Stone controllers, swallowed
  by the StatefulSet controller;
* a Stone and the StatefulSet controller write the same objects, and a Stone
  writes back its own spec, which the user edits meanwhile;
* a Water's clean up knows of old deployments only through an annotation that
  is written near the end of a round;
* pods are adopted and released while users delete sets with or without their
  pods and the garbage collector works through what they leave;
* the webhook decides once, when an object is created, on cached values; what
  follows (child, pod, placement) happens under other values, and a refused
  pod is visible nowhere but in its owner's events.

What makes each component correct: pods are created and terminated in order;
the rolling update stays within its budget; completion is sound; revisions in
use are not deleted; canaries stay above their partition; the readiness gate
tells the truth about in-place updates; the pods and the status converge to
the spec; no deployment of a Water is lost track of and its spec is applied; a
Stone publishes no more than its strategy says, never undoes an edit, and rolls
its spec out; a pod belongs to the set its name says, mounts claims that exist
and is never taken back by a set that let it go; a pod is placed within the
limit its workload was admitted under, has its sidecars around its own
containers and gets to run; an Injector comes to be owned by its Water or Stone.

## 2. Modules

### `StatefulSetControl`: one StatefulSet and its pods

*State.* The API server (`spec`, `generation`, `status`, `pods`, `revision`),
the informer and the queue (`cache`, `queued`), the controller process
(`expected`, `pos`, `job`), and the spent budget of the environment (`faults`,
`errors`, `restarts`, jointly bounded by `MaxDisturbances`). `job` is what a round holds in local variables: the spec
it read (defaults filled in), the two revisions, its copies of the pods
(`snap`), the counts of the status it will write (`st`) and the revisions it
will delete (`doomed`). `pos` says in which loop, and at which ordinal, it is.

*Actions.* One action is one call to the API server; what the code computes
between two calls belongs to the action that follows them.

| Action | Code |
|---|---|
| `Reconcile`, with `UpdateStatefulSet`, `getStatefulSetRevisions`, `CreateControllerRevision`, `UpdateControllerRevision` | `Reconcile`, `checkSetDefaultVariable`, `UpdateStatefulSet` up to the first pod write, creating or renumbering the update revision |
| `DeleteFailedPod`, `CreateStatefulPod`, `UpdateInPlaceReady` | the replica loop, ascending |
| `TerminateCondemned` | scale down, descending |
| `TerminateForUpdate`, `MarkNotReady`, `PatchPod`, `InPlaceUpdateFails` | the rolling update, descending; the two writes of `inPlaceUpdatePod`; the fall-back to recreation |
| `SkipStatus`, `UpdateStatefulSetStatus`, `StatusConflict` | `updateStatefulSetStatus` with `completeRollingUpdate` and `inconsistentStatus` |
| `DeleteControllerRevision` | `truncateHistory` |
| `RejectedWrite`, `SyncError` | a write the API server refuses, a call that fails: the round ends and nothing requeues it |
| `CacheSync`, `Edit`, `Restart`, `Kubelet…`, `Fault` | external: informer, user, process restart, kubelets, evictions and other clients |

*Abstractions.* A pod template, its revision's name and the image it names are
one value; a pod has one container. The phase folds `Status.Phase` and the
Ready condition. Comparing values stands for comparing resource versions. A
write that conflicts waits until the cache has caught up, as its retries do;
giving up is a failed call. The StatefulSet and its revisions are read as they
are; the pod cache may lag when `CacheMayLag` is set, and always jumps to the
latest state. `generation` starts at 1 and counts the user's writes; it is
also how a stale status write is recognised, because only the controller
writes the status. Conditions, labels other than the revision, claims and
events are left out.

### `Rollout`: what a StatefulSet promises about revisions

The abstract specification: the user asks for a revision (`Publish`), which is
recorded before a pod runs it (`Record`, `Create`, `Move`), the set is declared
to be at a revision when every live pod runs it (`Settle`), and a revision is
forgotten when neither the set nor a live pod is at it (`Forget`). It knows no
rounds, caches, status counts or strategies. `StatefulSetControl` implements
it: `ImplementsRollout` is `Rollout`'s `Spec` under the mapping of
`spec.template`, `status.current`, the stored revisions and the revisions of
the pods that are not terminating. Every step of the control loop, of a
kubelet, an eviction, a crash or a failing call is one abstract step or a
stutter. The refinement needs fresh pods (`~CacheMayLag`); with a stale cache
`LiveRevisionsKept`, hence the guard of `Forget`, is false.

### `PodOwnership`: several StatefulSets of one namespace

*State.* The API server (`sets`, `revisions` with their owner, `pods`,
`claims`), the sets' cache, the queue of keys, and one running reconcile (`at`,
`job`). `names` remembers the name of every uid there was; `was` in a pod is a
history field, the set whose deletion orphaned it.

| Action | Code |
|---|---|
| `Reconcile`, with `realReconcileName`, `getOrdinal`, `isMemberOf` | the key of an event, cut at a trailing number, and the set it stands for |
| `CheckUID`, `AdoptControllerRevision`, `AdoptionRefused` | `adoptOrphanRevisions`, which goes through orphans and owned revisions alike and returns the error it meets at an owned one |
| `ListPods`, `RecheckDeletionTimestamp`, `AdoptPod`, `MayNotAdopt`, `ReleasePod` | `getPodsForStatefulSet`: `ClaimPods` with `canAdoptFunc`; an error does not end the loop |
| `UpdateStatefulSet` | the error swallowed by `Reconcile`, or the set's revision stored |
| `CreateClaim`, `CreateStatefulPod`, `UpdateStatefulPod` | the replica loop: claims, then the pod, or the repair of the name label and of the volumes |
| `DeleteStatefulPod`, `PodsDone`, `TruncateHistory`, `EndOfSync` | scale down, `truncateHistory`, and the ends of a sync |
| `CallFails` | any call may fail |
| `CreateSet`, `EditSet`, `DeleteSet`, `EditPod` | external: users, who also delete a set without its pods and create or relabel pods by hand |
| `OrphanPod`, `OrphanRevision`, `RemoveSet`, `CollectPod`, `CollectRevision`, `SyncSets` | external: the garbage collector and the informer of the sets |

*Abstractions.* A name is the sequence of its parts between dashes, so that
prefixes, trailing numbers and numbers that do not fit in 32 bits are as in the
code. The sets use Parallel and OnDelete, their templates differ from each
other and do not change, the limit of the history is 0 and pods run at once:
`StatefulSetControl` has the rest. Selectors of all sets match the same pods,
the worst case for ownership. A claim that exists and is not in the cache yet
answers an error, and counts among the failing calls. Only the sets are read
through a cache; pods and revisions are listed as they are. A key that is tried
again is the one that came, so a pod's key is cut anew. Placement
(`coordinatorPod`) is left out.

### `WebhookServer` and `InjectorController`: admission and Injectors

`WebhookServer` has the two handlers as functions of an object and of the
cached namespace and Injectors (`namespaceMutateResource`,
`injectorMutatePods`), and the actions of those who call them: the user
(`AnnotateNamespace`, `CreateWorkload`, `ReplaceWorkload`, `WriteInjector`),
the workload controllers (`CreateChild`, `CreatePod`), the scheduler
(`Schedule`), evictions and the namespace's informer. The API server's part is
what the configuration under `config/` says: which kinds are sent (`Rules`),
that a failing or absent webhook is ignored, that updates do not pass, and what
is refused (`ValidAffinity`, `ValidPod`). An empty set of answers is a refusal;
an error of the namespace's Get and an absent webhook are one case, since the
configuration ignores both.

`InjectorController` extends it with the reconcile of an Injector (`Reconcile`,
`Bounce`, `UpdateInjector` and their conflicts, `CallFails`), with `Crash` and
`Restart` of the process both live in, the Water or Stone (`WriteParent`) and
the garbage collector. A key whose reconcile can only fail again is retried
for ever; `Hopeless` makes that waiting.

*Abstractions.* An affinity is its zones, racks and preferred hosts; a pod its
containers by name, with `copy` for the random part of a renamed one, and its
volumes and mounts. Every workload runs one pod. An Injector's spec says
whether it names a resource, of this namespace, and whether its selector can be
converted. `under` in a stored workload is a history field: the limit it was
admitted under. Mirror pods, HTTP and JSON, and the token volume of the service
account, which the API server puts back, are left out.

### `WaterController`: one Water, its deployments and its service

*State.* `spec`, `generation`, `annotation`, `status`; `deployments` (by name)
and `service`; `queued`, `pos`, `job` (the instance as read). `interrupted` is
a history variable: the deployment names of specs the user replaced before a
round had written them into the annotation.

*Actions.* `Reconcile` reads the Water; `updateCleanOldDeployment` handles one
remembered coordinate, `updateDeployment` one coordinate of the spec, whether
or not there is something to write; `createService`, `annotationWater`,
`SkipStatus`/`updateWater` follow. `Fails` ends a round with its error, or the
process with it: both leave the key in the queue. `Edit` and `Fault` are the
user and other clients.

*Abstractions.* A zone or rack is the sequence of its dash-separated parts, so
that `"%s-%s"` is concatenation and names collide exactly as they do in the
code; `Lower` is `strings.ToLower` on a part. The pod template is left out.
Reads are fresh. A deployment that exists keeps everything but its size.

### `StoneController`: one Stone, its StatefulSets and services

*State.* `spec`, `generation`, `annotation`, `status`; `sets` and `services`,
by name; `queued`, `pos` and `job` (the Stone as read, with the strategy the
round filled in, and the sets as last read). `asked` is a history variable:
every name and size a spec of the user has asked for. `AskedBy` states this
independently of the code, from `config/samples/stone/stone.md:21-24`.

*Actions.* One write each, with the reads before it.

| Action | Code |
|---|---|
| `Reconcile`, `getStatefulSet` | read the Stone; read the selected sets, make up the missing ones, turn an unknown strategy into Alpha |
| `CreateStatefulSet`, `updateStatefulSet`, `SetsDone` | `updateStatefulSet` for one group: create, leave, write, or conflict, after which `syncStatefulSet` reads all sets again |
| `updateService` | the service of one group |
| `UpdateSpec`, `UpdateStatus` | the two writes of `updateStone` |
| `Fails` | a call fails and its error is returned, or the process restarts |
| `Edit`, `SetSync`, `Fault` | external: the user, the StatefulSet controller as a Stone sees it, other clients that delete a set |

*Abstractions.* A name is the pair of the group's position and its name; the
Stone's own name is common to all. A set keeps its size, its containers and
`status.replicas`; placement, labels and claims are copied from the Stone and
left out. `Other` stands for every strategy the code does not know. Comparing
a set with the copy read earlier stands for comparing resource versions;
`generation` does so for the Stone. Reads are fresh. A write of a made-up object
under a name that has come to exist is an error; no actor of the model makes
such a set, so only the proofs meet that branch.

### Proofs and instances

| Module | Proves about |
|---|---|
| `StatefulSetControl_proofs` | `StatefulSetControl`, with any cache |
| `StatefulSetTracking_proofs` | the same, for rounds that start from the pods as they are |
| `StatefulSetRollout_proofs` | the refinement of `Rollout`, completion, and the order and budget of a roll-out |
| `PodOwnership_proofs` | `PodOwnership` |
| `InjectorController_proofs` | `WebhookServer` and `InjectorController` |
| `WaterController_proofs`, `StoneController_proofs` | the two controllers |
| `Sums_proofs` | the sums their status is made of |

Each of the three about StatefulSets extends the one before it. `MCStatefulSet`,
`MCWater`, `MCStone`, `MCOwnership` and `MCInjector` are the small instances for
TLC.

## 3. Runs

"pass" runs explore everything within their bounds.

| Run | Instance | What it shows |
|---|---|---|
| `ScaleAndUpdate` | 3 ordinals, ReCreate with OrderedReady, or OnDelete with Parallel; two edits (scale to 0 or 3, another template, pause, deletion, change of strategy) or an edit and a pod failure; 0.1 million states | `ScaleUpInOrder`, `ScaleDownInOrder`, `UpdateBudget`, `CompletionSound`, `CurrentRevisionKept`, `LiveRevisionsKept`, `OnlyManualUpdates`, `Convergence`, `ImplementsRollout`, `TypeOK` |
| `InPlaceUpdate` | 2 ordinals with gate, InPlaceIfPossible and OrderedReady, or InPlaceOnly and Parallel; any two of: edits of the image, of the size and the policy, a pod fault, a failing call, a restart; 0.2 million states | `GateMeansUpdated`, `NoPatchBeforeCompleted`, `InPlaceOnlyNeverRecreates`, `CompletionSound`, `LiveRevisionsKept`, `Convergence`, `ImplementsRollout` |
| `CanaryLag` | partition 1, stale pod cache, any three of: two edits (a template and its rollback), a fault, a failing call, such as the renumbering of the revision rolled back to; 0.4 million states | `CanaryIsolation`, `CurrentRevisionKept` |
| `WaterRollout` | 2 racks, 2 machines, 5 specs of all strategies, 3 edits, a fault, a failure | `Accounted`, `PlacesThatStay`, `Deployed`, `TypeOK` |
| `StoneRollout` | 2 groups (one without machines), 2 templates, first an unknown strategy, then 2 edits out of Beta with fewer groups and new containers, Omega, and Release with the groups swapped; a fault, a failure | `OnlyAsked`, `EditsSurvive`, `EventuallyRolledOut`, `TypeOK` |
| `Ownership` | sets `web`, `db` (without pods at first) and `web-1` (created later, whose key is that of a pod of `web`), up to 2 replicas with and without claims, 3 names of pods made by hand; two edits, or an edit and a failing call; 0.2 million states | `OwnerIsParent`, `ClaimsBeforePods`, `NotReadopted`, `PodsOwned`, `TypeOK` |
| `Admission` | a Deployment, a Job, a ReplicaSet with two containers and a CronJob with a mounted volume; 4 nodes; a limit with several machines of a rack, a malformed and an empty one; an Injector of 5 kinds; 3 edits, a fault; 0.1 million states | `PlacedWithinLimit`, `ListedMachinesAdmitted`, `ChildrenKeepTemplate`, `SidecarsAroundOwn`, `NothingUndone`, `InjectorOwned`, `PodsRun`, `TypeOK` |
| `ErrorNotRetried` (violation) | one failing call | `RetriedUntilSuccessful` fails: `Reconcile` logs the error and answers nil |
| `GateUnderLag` (violation) | in-place, stale pod cache | `GateMeansUpdated` fails: the retry of a conflicting condition write opens the gate of a pod just patched |
| `ExpectationLeak` (violation) | in-place, a pod deleted or scaled away while its patch is unobserved | `Convergence` fails: the expectation is never dropped and blocks the update |
| `StaleAdoption` (violation) | one set deleted without its pods, sets read from the cache | `NotReadopted` fails: `canAdoptFunc` asks the cache, and the set adopts back a pod the collector has orphaned |
| `WaterOneRack` (violation) | Release on two machines of one rack, 1 and 2 replicas | `Deployed` fails: the machines share a deployment that each round resizes twice, for ever |

*Bounds.* Two templates are enough for an update, a rollback (`A`, `B`, `A`)
and an update changed half-way. Three ordinals are the least for which order
and budget differ from "the neighbour"; two suffice where the question is about
one pod against the rest. The history limit is 0, so every unused revision is
deleted as early as the code may. `MaxEdits`, `MaxFaults`, `MaxErrors`,
`MaxRestarts` and `MaxFailures` bound only the environment; each run allows
those its question needs, at every moment of a round. `MaxDisturbances` bounds
their sum: two of them, of any kind and between any two calls, are enough for
a change on top of an unfinished change, a fault during an update, or a crash
after a fault. `ExpectationLeak` needs three (an edit, a deleted pod or a second
edit, another edit). In `Ownership` two edits suffice to delete a set without
its pods and create it again, or to take a name before a set is created; in
`Admission` three are a limit, a workload and its change, or an Injector, its
Water and a workload.

*Deadlock.* `CHECK_DEADLOCK FALSE` is set because a converged cluster whose
environment has used its budget stops: no event, no work.

*Fairness.* The worker goroutine keeps running (`WF(Worker)`), the informer
delivers (`WF(CacheSync)`), each kubelet works (`WF(Kubelet(o))`); for a Stone,
the StatefulSet controller reports on each set (`WF(SetSync(n))`). Nobody has
to edit, fail, restart or break anything. Weak fairness suffices: once enabled,
each of these stays enabled until it, or another step towards the same end, is
taken. `PodOwnership` adds the garbage collector, `InjectorController` the
workload controllers, the scheduler and the restart of a crashed process, each
a loop of its own. Strong fairness is assumed once: `AdoptControllerRevision(r)`.
A round of adoption stops at the first revision the set already owns, and is
tried again with the list in the order of a Go map; an orphan that is always
behind an owned revision has probability 0. `Ownership` needs it: with weak
fairness alone TLC finds `web` stuck behind the revision that `db` left, a pod
of it missing.

*Convergence and errors.* `Convergence` exempts behaviours in which a call of
the StatefulSet controller failed (`errors > 0`): those need not converge, as
`ErrorNotRetried` shows. `Deployed` and `EventuallyRolledOut`, of the Water and
Stone controllers, have no such exception. `PodsOwned` exempts failing calls for
the same reason, sets whose name ends in a number (below), and pods in the way
that the controller can neither adopt nor replace; `PodsRun` exempts the pods
whose injection the API server refuses (`Blocked`, below).

### Disagreements without a run of their own

The same model shows these when a property is stated as the documentation has
it; each is a hazard in `PROJECT.json`.

* `partition` defaults to 1 (`statefulset_controller.go:66`), documented as 0
  (`statefulset_types.go:79`): ordinal 0 is never updated.
* A percentage `maxUnavailable` is rounded up (`stateful_set_control.go:548`),
  documented as rounded down (`statefulset_types.go:84`), and it is applied
  under OrderedReady, documented for Parallel only: of three pods with 50%, two
  are taken down in one round.
* Under Parallel the budget counts only pods at or above the ordinal the loop
  has reached, so `UpdateBudget` does not hold there: with `maxUnavailable` 1,
  ready pod 1 is deleted while pod 0 is still starting.
* With InPlaceOnly a change of more than images deletes the pod.
* With a stale cache, scale down may terminate a pod while a higher ordinal
  exists, and a pod may be patched before its last patch took effect.
* Under OrderedReady with in-place updates a pod may be created while the
  predecessor's closed gate has not yet made it not ready.
* A Water edited between the deployments of a round and its annotation
  (`water_controller.go:97`) leaves deployments that no later round knows of;
  `Accounted` makes them an exception.
* An Injector with a malformed selector stops every pod of its namespace from
  being created (`webhook.go:578`); `PodsRun` makes them an exception.
* A Water switched from Release to Alpha keeps the deployments of the other
  coordinates, and a new template never reaches a deployment that exists.
* A Stone cleans nothing up: sets of groups that were removed or moved, or that
  Alpha no longer selects, keep running.
* A pod with several containers, or with mounted volumes, that an Injector
  selects is always refused: sidecars are appended once per container under
  the same name (`webhook.go:470`), and the Injector's volumes replace those
  of the pod. `SidecarsAroundOwn` therefore speaks of pods that are stored.
* A set whose own name ends in a number is never found by its own events
  (`stateful_set_utils.go:465`); a Stone makes such a name for a group called
  `1`.
* The shipped webhook configuration names a resource `statefulset`, which is
  not one: StatefulSets are never sent. `ShippedRules` has what is.
* `revisionHistoryLimit` is documented to default to 10
  (`statefulset_types.go:179`); an absent one is 0, and every unused revision
  is deleted.
* A set created again under its old name uses the revision of its predecessor
  if the garbage collector has not come to it yet. When it then does, the
  revision is missing until the next event of a pod.
* A change of the claim templates blocks a set: `storageMatches` fails for
  every pod and the API server refuses other volumes.
* An empty list of coordinates divides by zero
  (`stateful_set_utils.go:263`).
* Every write of a set by its Stone puts `partition` back to 0
  (`stone_controller.go:175`), while `config/samples/stone/stone.md:28` tells
  the user to set it on the StatefulSet to try an image on a few pods.

## 4. Proofs

Proved by TLAPS for every value of the constants that satisfies the named
assumptions of the modules, which only type the parameters: any number of
replicas, sets, names, templates, specs, edits, faults and restarts. Every
invariant and every action property that a passing run checks is the subject of
a theorem; TLC evaluated each inductive invariant before it was proved.

Where a theorem has a hypothesis, it says so below. `~CacheMayLag` means that a
round starts from the pods (or, in `PodOwnership`, reads the sets) as they are
in the API server; what happens during the round is not restricted.

**One StatefulSet, any cache** (`StatefulSetControl_proofs`)

* `TypeCorrect`: `Spec => []TypeOK`. Not only typing in the narrow sense: the
  descending and ascending loops never leave the ordinals, and every revision
  name a round holds is a template or the empty name.
* `CurrentRevisionAlwaysKept`: `Spec => []CurrentRevisionKept`, with lagging
  caches, errors and restarts. Not inductive by itself: when a round stores
  its status it may name the round's update revision, or its current one, so
  these must exist too, and must not be among the revisions it is going to
  delete. `RevisionInv` adds exactly this (`JobRevisionsKept`).
* `CanaryAlwaysIsolated`: `Spec => CanaryIsolation`, from the same invariant:
  the status cannot change between the moment a round reads its current
  revision and its own status write.
* `LiveRevisionsAlwaysKept`: with `~CacheMayLag`, `Spec => []LiveRevisionsKept`.
  `PodRevisionInv` says that the pods a round has, and those it may still
  make, are of revisions it will not delete. Without the assumption the
  statement is false: a pod created since the cache was filled may use a
  revision the round is about to delete.

**One StatefulSet, rounds that start from current pods**
(`StatefulSetTracking_proofs`, all with `~CacheMayLag`)

A round decides on copies that age while it runs. `TrackInv` says how far a
copy may be from its pod: `FollowInv` relates each copy to its pod, by loop and
ordinal (not yet reached, patched by this round, deleted, made by this round);
`ShapeInv` relates a pod's annotation, image and revision; `PatchInv` says what
holds between the two writes of an in-place update. `StageInv` keeps the loops
in their order.

* `GateAlwaysMeansUpdated` (`GateMeansUpdated`) and `NeverPatchedTooEarly`
  (`NoPatchBeforeCompleted`). With a lagging cache the first is false: run
  `GateUnderLag`.
* `AlwaysScalesDownInOrder` (`ScaleDownInOrder`): a pod the round has no copy
  of is a replica, so no higher ordinal can hide from the copies.
* `AlwaysManualUpdates` (`OnlyManualUpdates`).

**Completion, refinement, order** (`StatefulSetRollout_proofs`, all with
`~CacheMayLag`)

* `CompletionAlwaysSound` (`CompletionSound`): `CountInv` says that the counts
  of a round are those of its copies, none too many, and with `TrackInv` equal
  counts mean that every live pod is at the update revision.
* `RolloutImplemented` (`ImplementsRollout`): initial states map to initial
  states, and each action to a step of `Rollout` or a stutter: `Edit` to
  `Publish`, the start of a round to `Record` (with the initial revision),
  creation to `Create`, a patch to `Move`, a status write to `Settle` by
  completion, `DeleteControllerRevision` to `Forget` by `PodRevisionInv` and
  `RevisionInv`. The abstract fairness is none, so nothing else is needed.
* `InPlaceOnlyKeepsPods` (`InPlaceOnlyNeverRecreates`), when any two templates
  differ in an image only. The update falls back to recreation when it cannot
  find the revision of a pod; `KnownInv` says it always can. With other
  changes the code deletes the pod (section 3).
* `AlwaysScalesUpInOrder` (`ScaleUpInOrder`) and `BudgetAlwaysKept`
  (`UpdateBudget`), when no pod is updated in place (`ImageOnly = {}`), and for
  the budget when every `maxUnavailable` is at least 1. `SteadyInv`,
  `PassedHealthy` and `HealthyStay` say that what a loop found healthy still is
  when it writes. Both hypotheses are needed: TLC refutes both properties with
  in-place updates, because a patched pod is ready until the kubelet restarts
  it; and with `maxUnavailable` 0 the loop still deletes one pod, since it
  handles a replica before it compares the count with the budget.

**Ownership** (`PodOwnership_proofs`)

* `TypeCorrect`, `OwnerAlwaysParent` (`OwnerIsParent`) and `ClaimsAlwaysFirst`
  (`ClaimsBeforePods`), with any cache. A uid belongs to one name for ever
  (`SetsInv`), so a round that holds the uid of a set that is long gone still
  makes a pod's owner the set of the pod's name (`JobInv`, `ClaimInv`); the
  claims a round has seen to exist unless one failed, and then it does not
  create the pod (`JobInv`).
* `NeverReadopted` (`NotReadopted`), with `~CacheMayLag`: `canAdoptFunc` does
  its work where it reads the set as it is (`WasInv`); where it reads the
  cache it does not, as run `StaleAdoption` shows.

**Admission and Injectors** (`InjectorController_proofs`)

* `RepeatedRemoved`: `removeRepeatedElement` loses no element and leaves none
  twice, for every sequence. The model gives the function as the elements at
  their last occurrences; the lemmas `Ranks` and `Picked` show that picking
  positions in their order takes each once.
* `AlwaysWithinLimit` (`PlacedWithinLimit`) and `AlwaysAdmitted`
  (`ListedMachinesAdmitted`): a workload stored under a limit has the affinity
  computed from it (`ObjectInv`), a scheduled pod is on a node its own affinity
  admits (`PodInv`), and by `RepeatedRemoved` the zones are those listed.
* `SidecarsAlwaysAround` (`SidecarsAroundOwn`): the nested loops append every
  sidecar once per container. `Around` shows that with one container this is
  each sidecar once, and `NameTwice` that with more, whatever is renamed, two
  containers have the same name, which the API server refuses.
* `ChildrenAlwaysKeepTemplate` (`ChildrenKeepTemplate`), `NeverUndone`
  (`NothingUndone`) and `TypeCorrect`.

**Water and Stone**

* `DeploymentsAccounted` (`WaterController_proofs`): `Spec => []Accounted`.
  `Accounted` is strengthened by `Grounded` (what a round in progress will
  create is known, even when its spec has been replaced) and `Swept` (when the
  annotation is overwritten, nothing that only the old one named is left; the
  clean up establishes it coordinate by coordinate, with `KeptIsNamed` for the
  coordinates it skips).
* `PlacesAlwaysStay` (`PlacesThatStay`), when no spec has two machines whose
  deployments have the same name (`OneMachinePerName`). The code does not ask
  for that, and without it the property is false: removing one of two machines
  of a rack deletes the deployment they share.
* `NothingUnasked` and `EditsAlwaysSurvive` (`StoneController_proofs`):
  `Spec => []OnlyAsked` and `Spec => EditsSurvive`, for any groups, specs and
  number of edits. Both rest on `Faithful`: what a round holds is, up to the
  strategy it filled in, a spec the user wrote, and as long as the user has
  not written again it is the present one. `SpecAsked` adds that the present
  spec's sets are in `asked`, also after `updateStone` has replaced an unknown
  strategy, because filling it in twice is the same as once. `AskedSelected`
  links the code's choice of groups and sizes to `AskedBy`.
* `TypeCorrect` of both. The status is a sum; `SumIsNat` (`Sums_proofs`) shows
  that `SumFunction`, a recursive function on the subsets of its domain, exists
  and is a natural number. Its two inductions on the size of a set are stated
  with sets of numbers (`Induction`, from the well-foundedness of `<`), since
  the library's induction theorems take an operator the provers cannot
  instantiate.

Only model-checked: liveness (`Convergence`, `Deployed`, `EventuallyRolledOut`,
`PodsOwned`, `InjectorOwned`, `PodsRun`), which is out of the prover's reach, as
is `ENABLED`.

## 5. Not modelled, and plan

As proofs: what each `violation` run refutes could be proved of the repaired
code; `UpdateBudget` and `ScaleUpInOrder` with in-place updates would need a
weaker statement, in which a patched pod counts as down from the moment its
gate is closed.

As models: stale deployments in `WaterController`, and the template; the
partition and the placement of a Stone's sets, which are copied; hash
collisions of revisions, which need a hash that collides; images that never
start, and pods patched before their container was reported. The priority
strategy of the API types is declared and read by nothing.

Left out for good: generated deep copies, `main.go`, logging, events, and the
garbage collection of owned objects, which is Kubernetes' own. Deleting a
Water is not modelled: its objects go by garbage collection.
