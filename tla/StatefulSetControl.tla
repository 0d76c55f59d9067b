------------------------- MODULE StatefulSetControl -------------------------
(***************************************************************************)
(* The control loop of one nuwa StatefulSet: the reconciler                *)
(* (statefulset_controller.go), the update function                        *)
(* (stateful_set_control.go), the in-place update                          *)
(* (stateful_inplace_utils.go), the pod writes (stateful_pod_control.go),  *)
(* the update expectations (util.go) and the status write                  *)
(* (stateful_set_status_updater.go).                                       *)
(*                                                                         *)
(* One action is one call to the API server, so every state in which       *)
(* another actor (the user, the kubelet, an informer event, a crash) can   *)
(* run between two calls of a reconcile is a state of the model.  Local    *)
(* computation between two calls belongs to the action that follows it.    *)
(*                                                                         *)
(* A pod template stands for its ControllerRevision: the revision's name   *)
(* is a hash of the template.  A pod has one container and a template      *)
(* names its image.                                                        *)
(***************************************************************************)
EXTENDS Integers, FiniteSets

CONSTANTS
  MaxReplicas,          \* the largest spec.replicas the user asks for
  Templates,            \* pod templates; also revision names and image IDs
  NoTemplate,           \* the empty revision name, no image, no annotation
  ImageOnly,            \* <<a, b>>: b differs from a in a container image only
  Specs,                \* the specifications the user may write
  InitSpecs,            \* those the set may be created with
  HasGate,              \* the template has the InPlaceUpdateReady gate
  RevisionHistoryLimit, \* spec.revisionHistoryLimit
  CacheMayLag,          \* may a reconcile start from stale cached pods?
  MaxEdits, MaxFaults, MaxErrors, MaxRestarts, \* bounds on the environment
  MaxDisturbances       \* bound on all of these together

Ord == 0 .. MaxReplicas - 1
MaybeTemplate == Templates \cup {NoTemplate}
Unset == -1   \* a nil rollingUpdate.partition

\* rollingUpdate: is spec.updateStrategy.rollingUpdate set?  The next four
\* are its fields.  monotonic: podManagementPolicy is not Parallel.
SpecType ==
  [replicas : 0 .. MaxReplicas, template : Templates, deleting : BOOLEAN,
   updateType : {"RollingUpdate", "OnDelete"}, rollingUpdate : BOOLEAN,
   partition : Nat \cup {Unset}, paused : BOOLEAN,
   maxUnavailable : [percent : BOOLEAN, value : Nat],
   podUpdatePolicy : {"ReCreate", "InPlaceIfPossible", "InPlaceOnly"},
   monotonic : BOOLEAN]

ASSUME ReplicasAssumption == MaxReplicas \in Nat
ASSUME TemplateAssumption == NoTemplate \notin Templates
ASSUME SpecsAssumption ==
  /\ Specs \subseteq SpecType
  /\ InitSpecs # {} /\ InitSpecs \subseteq SpecType
  /\ \A s \in InitSpecs : ~s.deleting
ASSUME HistoryAssumption ==
  /\ ImageOnly \subseteq Templates \X Templates
  /\ RevisionHistoryLimit \in Nat
ASSUME FlagsAssumption ==
  /\ HasGate \in BOOLEAN
  /\ CacheMayLag \in BOOLEAN
ASSUME BoundsAssumption ==
  /\ MaxEdits \in Nat
  /\ MaxFaults \in Nat
  /\ MaxErrors \in Nat
  /\ MaxRestarts \in Nat
  /\ MaxDisturbances \in Nat

VARIABLES
  \* --- the API server
  spec,        \* the StatefulSet's spec and deletion timestamp
  generation,  \* its metadata.generation: how often the spec was written
  status,      \* its status
  pods,        \* the pod of each ordinal
  revision,    \* ControllerRevision number of each template, 0 when absent
  \* --- the informer and the work queue
  cache,       \* the pods as the informer last delivered them
  queued,      \* is the set's key in the work queue?
  \* --- the controller process
  expected,    \* updateExpectations: pods patched to a revision, unobserved
  pos,         \* where the running reconcile is, [at, i]
  job,         \* what the running reconcile holds
  \* --- how much of the environment's budget is spent
  faults, errors, restarts

apiVars == <<spec, generation, status, pods, revision>>
queueVars == <<cache, queued>>
procVars == <<expected, pos, job>>
budgetVars == <<faults, errors, restarts>>
vars == <<apiVars, queueVars, procVars, budgetVars>>

\* The environment may still edit, break, fail or restart something.
MayDisturb ==
  generation - 1 + faults + errors + restarts < MaxDisturbances

-----------------------------------------------------------------------------
(* Pods.                                                                    *)

\* The phase folds Status.Phase and the Ready condition: a Running pod is
\* "NotReady" or "Ready".  "None": no such pod (Phase is empty).
Phases == {"None", "Pending", "NotReady", "Ready", "Failed"}

\* gate: the InPlaceUpdateReady condition.  image: the imageID the kubelet
\* reported last.  last: the imageID in the in-place update annotation.
Pod == [phase : Phases, rev : MaybeTemplate, term : BOOLEAN,
        gate : {"Unset", "False", "True"}, image : MaybeTemplate,
        last : MaybeTemplate]

Absent == [phase |-> "None", rev |-> NoTemplate, term |-> FALSE,
           gate |-> "Unset", image |-> NoTemplate, last |-> NoTemplate]

\* A pod as the API server stores it when it is created.
FreshPod(rev) == [Absent EXCEPT !.phase = "Pending", !.rev = rev]

isCreated(p) == p.phase # "None"
isFailed(p) == p.phase = "Failed"
isTerminating(p) == p.term
isRunningAndReady(p) == p.phase = "Ready"
isHealthy(p) == isRunningAndReady(p) /\ ~isTerminating(p)

\* nil: no annotation, or no container was running when the pod was patched,
\* or the reported imageID has changed since.
checkInPlaceUpdateCompleted(p) ==
  p.last # NoTemplate => p.image \notin {NoTemplate, p.last}

\* Mutant: the gate is opened without looking at the image.
OpensGateEarly(p) == HasGate /\ p.gate # "True"

shouldUpdateInPlaceReady(p) ==
  /\ HasGate
  /\ checkInPlaceUpdateCompleted(p)
  /\ p.gate # "True"

\* What the API server may make of a pod it is asked to delete: a failed pod
\* goes at once, a pending one too unless a node has it already.
Deleted(p) ==
  CASE p.phase = "Failed"  -> {Absent}
    [] p.phase = "Pending" -> {Absent, [p EXCEPT !.term = TRUE]}
    [] OTHER               -> {[p EXCEPT !.term = TRUE]}

-----------------------------------------------------------------------------
(* What a reconcile works with.                                             *)

Counts == [replicas : Int, ready : Int, current : Int, updated : Int]

\* set: the spec as read, defaults filled in; gen: its generation; old: the
\* revisions listed at the start; snap: the pods as cached at the start,
\* changed as the code changes its own copies; st: the counts of the status
\* it will write; doomed: the revisions truncateHistory will delete.
Job == [set : SpecType, gen : Nat, cur : MaybeTemplate, upd : MaybeTemplate,
        old : SUBSET Templates, snap : [Ord -> Pod], st : Counts,
        doomed : SUBSET Templates]

NoJob ==
  [set |-> CHOOSE s \in InitSpecs : TRUE, gen |-> 0, cur |-> NoTemplate, upd |-> NoTemplate,
   old |-> {}, snap |-> [o \in Ord |-> Absent],
   st |-> [replicas |-> 0, ready |-> 0, current |-> 0, updated |-> 0],
   doomed |-> {}]

Stages == {"idle", "replicas", "condemned", "update", "patch", "status",
           "truncate"}

At(stage) == pos.at = stage
Goto(stage, i) == pos' = [at |-> stage, i |-> i]

\* The reconcile returns: Reconcile answers nil whether the sync succeeded
\* or not, so the key is not requeued.
Return == Goto("idle", 0) /\ job' = NoJob

checkSetDefaultVariable(s) ==
  IF s.rollingUpdate /\ s.partition = Unset THEN [s EXCEPT !.partition = 1]
  ELSE s

-----------------------------------------------------------------------------
(* Revisions.                                                               *)

IsLatest(t) == \A u \in Templates : revision[u] <= revision[t]

\* Mutants: the current revision, or what the pods use, is not spared.
ForgetsCurrent(cur, upd, snap) ==
  {t \in Templates : /\ revision[t] > 0 /\ t # upd
                     /\ \A o \in Ord : snap[o].rev # t}
ForgetsPods(cur, upd, snap) ==
  {t \in Templates : revision[t] > 0 /\ t \notin {cur, upd}}

\* The revisions truncateHistory deletes: those listed that neither the
\* reconcile nor a pod uses, the oldest first, down to the limit.
History(cur, upd, snap) ==
  {t \in Templates : /\ revision[t] > 0
                     /\ t \notin {cur, upd}
                     /\ \A o \in Ord : snap[o].rev # t}

truncateHistory(cur, upd, snap) ==
  LET history == History(cur, upd, snap)
  IN {t \in history : Cardinality({u \in history : revision[u] > revision[t]})
                        >= RevisionHistoryLimit}

-----------------------------------------------------------------------------
(* Update expectations.                                                     *)

NoExpectation == [rev |-> NoTemplate, ords |-> {}]
Expect(rev, ords) ==
  IF ords = {} THEN NoExpectation ELSE [rev |-> rev, ords |-> ords]

\* Mutant: an expectation is dropped only when the revision changes.
NeverObserves(upd, snap) ==
  IF expected.rev # upd THEN NoExpectation ELSE expected

\* ObserveUpdated for every cached pod; without pods nothing is observed.
ObserveUpdated(upd, snap) ==
  CASE \A o \in Ord : ~isCreated(snap[o]) -> expected
    [] expected.rev # upd -> NoExpectation
    [] OTHER -> Expect(upd, {o \in expected.ords : snap[o].rev # upd})

ExpectUpdated(upd, o) ==
  Expect(upd, {o} \cup (IF expected.rev = upd THEN expected.ords ELSE {}))

SatisfiedExpectations(upd) == expected.rev # upd \/ expected.ords = {}

-----------------------------------------------------------------------------
(* The status.                                                              *)

StatusType == [current : MaybeTemplate, update : MaybeTemplate, st : Counts,
               observed : Nat]

\* The counts of the pods as the reconcile lists them.
InitialCounts(cur, upd, snap) ==
  LET live == {o \in Ord : isCreated(snap[o]) /\ ~isTerminating(snap[o])}
  IN [replicas |-> Cardinality({o \in Ord : isCreated(snap[o])}),
      ready    |-> Cardinality({o \in Ord : isRunningAndReady(snap[o])}),
      current  |-> Cardinality({o \in live : snap[o].rev = cur}),
      updated  |-> Cardinality({o \in live : snap[o].rev = upd})]

\* The counts after n pods of revision rev were created, or -n deleted;
\* r is what the code adds to Replicas.
Adjust(st, rev, n, r) ==
  [replicas |-> st.replicas + r,
   ready    |-> st.ready,
   current  |-> IF rev = job.cur THEN st.current + n ELSE st.current,
   updated  |-> IF rev = job.upd THEN st.updated + n ELSE st.updated]

\* Mutant: ready pods are enough, whatever they run.
CompleteWhenReady(st) ==
  job.set.updateType = "RollingUpdate" /\ st.ready = st.replicas

\* A rolling update is complete when every pod is updated and ready.
UpdateComplete(st) ==
  /\ job.set.updateType = "RollingUpdate"
  /\ st.updated = st.replicas
  /\ st.ready = st.replicas

completeRollingUpdate(s) ==
  IF UpdateComplete(s.st)
  THEN [s EXCEPT !.current = s.update, !.st.current = s.st.updated]
  ELSE s

inconsistentStatus(s) ==
  \/ s.observed > status.observed
  \/ s.st # status.st
  \/ s.current # status.current
  \/ s.update # status.update

-----------------------------------------------------------------------------
(* The replica loop: ordinals below spec.replicas, in ascending order.      *)

Replicas == {o \in Ord : o < job.set.replicas}

\* allowsBurst: is the policy Parallel?
monotonic == job.set.monotonic

\* Mutant: off by one at the partition.
PartitionOffByOne(o) ==
  IF job.set.rollingUpdate /\ o + 1 < job.set.partition
  THEN job.cur ELSE job.upd

\* The revision of the pod the controller makes for ordinal o.
newVersionedStatefulSetPod(o) ==
  IF \/ job.set.updateType = "RollingUpdate" /\ ~job.set.rollingUpdate
        /\ o < status.st.current
     \/ job.set.rollingUpdate /\ o < job.set.partition
  THEN job.cur ELSE job.upd

\* Mutants: the loop does not wait for a pod, or passes a failed one.
NeverWaits(p) ==
  ~isCreated(p) \/ isFailed(p) \/ shouldUpdateInPlaceReady(p)
PassesFailed(p) ==
  \/ ~isCreated(p)
  \/ monotonic /\ ~isHealthy(p) /\ ~isFailed(p)
  \/ shouldUpdateInPlaceReady(p)

\* Does the loop stop at p, or write it, instead of passing on?
NeedsWork(p) ==
  \/ ~isCreated(p)
  \/ isFailed(p)
  \/ monotonic /\ ~isHealthy(p)
  \/ shouldUpdateInPlaceReady(p)

Passed(o) == \A q \in Replicas : q >= pos.i /\ q < o => ~NeedsWork(job.snap[q])

NextReplica(o) ==
  /\ At("replicas")
  /\ o \in Replicas
  /\ o >= pos.i
  /\ NeedsWork(job.snap[o])
  /\ Passed(o)

\* The loop's pod is terminating, or not ready, and it is not written: with
\* OrderedReady the round ends here.
MustWait(o) ==
  /\ NextReplica(o)
  /\ isCreated(job.snap[o]) /\ ~isFailed(job.snap[o])
  /\ monotonic
  /\ isTerminating(job.snap[o]) \/ ~shouldUpdateInPlaceReady(job.snap[o])

\* DeleteStatefulPod of a failed pod; the loop goes on to create its
\* successor.
DeleteFailedPod(o) ==
  /\ NextReplica(o)
  /\ isFailed(job.snap[o])
  /\ isCreated(pods[o])
  /\ \E p \in Deleted(pods[o]) : pods' = [pods EXCEPT ![o] = p]
  /\ Goto("replicas", o)
  /\ job' = [job EXCEPT !.snap[o] = Absent,
                        !.st = Adjust(@, job.snap[o].rev, -1, -1)]
  /\ UNCHANGED <<spec, generation, status, revision, queueVars, expected,
                 budgetVars>>

\* CreateStatefulPod; the answer of the API server becomes the loop's copy.
CreateStatefulPod(o) ==
  LET rev == newVersionedStatefulSetPod(o)
  IN /\ NextReplica(o)
     /\ ~isCreated(job.snap[o])
     /\ ~isCreated(pods[o])
     /\ pods' = [pods EXCEPT ![o] = FreshPod(rev)]
     /\ job' = [job EXCEPT !.snap[o] = FreshPod(rev),
                           !.st = Adjust(@, rev, 1, 1)]
     /\ IF monotonic THEN Goto("status", 0) ELSE Goto("replicas", o + 1)
     /\ UNCHANGED <<spec, generation, status, revision, queueVars, expected,
                    budgetVars>>

\* A write of pod o succeeds: the first attempt when the reconcile's copy is
\* still the stored pod, a retry when the cached copy it fetches then is.
WriteAccepted(o) ==
  /\ isCreated(pods[o])
  /\ pods[o] \in {job.snap[o], cache[o]}

\* UpdateStatefulPodCondition: the stored pod gets the condition, and so does
\* the reconcile's own copy, whichever attempt succeeded.
SetGate(o, gate) ==
  /\ WriteAccepted(o)
  /\ pods' = [pods EXCEPT ![o].gate = gate]
  /\ job' = [job EXCEPT !.snap[o].gate = gate]

UpdateInPlaceReady(o) ==
  /\ NextReplica(o)
  /\ isCreated(job.snap[o]) /\ ~isFailed(job.snap[o])
  /\ ~MustWait(o)
  /\ SetGate(o, "True")
  /\ IF monotonic /\ ~isRunningAndReady(job.snap[o])
     THEN Goto("status", 0) ELSE Goto("replicas", o + 1)
  /\ UNCHANGED <<spec, generation, status, revision, queueVars, expected,
                 budgetVars>>

-----------------------------------------------------------------------------
(* Scale down: ordinals at or above spec.replicas, in descending order.     *)

\* The replica loop is through and this one has not ended.
Scaling == At("condemned") \/ (At("replicas") /\ Passed(MaxReplicas))

\* The descending loops look at ordinals below this one next.
Below == IF pos.at \in {"condemned", "update"} THEN pos.i ELSE MaxReplicas

Condemned(o) == o \in Ord \ Replicas /\ isCreated(job.snap[o])

\* Mutant: scale down starts at the lowest ordinal.
AscendingCondemned(o) ==
  /\ Scaling
  /\ Condemned(o)
  /\ \A q \in Ord : Condemned(q) => q >= o

NextCondemned(o) ==
  /\ Scaling
  /\ Condemned(o)
  /\ o < Below
  /\ monotonic \/ ~isTerminating(job.snap[o])
  /\ \A q \in Ord : Condemned(q) /\ q < Below /\ q > o =>
       ~monotonic /\ isTerminating(job.snap[q])

FirstUnhealthyPod(o) ==
  /\ ~isHealthy(job.snap[o])
  /\ \A q \in Ord : q < o /\ (q \in Replicas \/ Condemned(q)) =>
       isHealthy(job.snap[q])

MayTerminate(o) ==
  /\ ~isTerminating(job.snap[o])
  /\ ~monotonic \/ isRunningAndReady(job.snap[o]) \/ FirstUnhealthyPod(o)

TerminateCondemned(o) ==
  /\ NextCondemned(o)
  /\ MayTerminate(o)
  /\ isCreated(pods[o])
  /\ \E p \in Deleted(pods[o]) : pods' = [pods EXCEPT ![o] = p]
  /\ job' = [job EXCEPT !.st = Adjust(@, job.snap[o].rev, -1, 0)]
  /\ IF monotonic THEN Goto("status", 0) ELSE Goto("condemned", o)
  /\ UNCHANGED <<spec, generation, status, revision, queueVars, expected,
                 budgetVars>>

Scaled == Scaling /\ \A o \in Ord : ~NextCondemned(o)

-----------------------------------------------------------------------------
(* The rolling update: outdated replicas, in descending order, down to the  *)
(* partition, until maxUnavailable of those seen are unavailable.           *)

updateMin == IF job.set.rollingUpdate THEN job.set.partition ELSE 0

\* A percentage of the replicas, rounded up.
maxUnavailable ==
  CASE ~job.set.rollingUpdate -> 1
    [] job.set.maxUnavailable.percent ->
         (job.set.maxUnavailable.value * job.set.replicas + 99) \div 100
    [] OTHER -> job.set.maxUnavailable.value

\* Mutant: the OnDelete strategy is overlooked.
OverlooksOnDelete ==
  \/ At("update")
  \/ Scaled /\ SatisfiedExpectations(job.upd)

Updating ==
  \/ At("update")
  \/ /\ Scaled
     /\ job.set.updateType # "OnDelete"
     /\ SatisfiedExpectations(job.upd)
     /\ ~(job.set.rollingUpdate /\ job.set.paused)

\* An image-only change of a pod whose revision is still listed.
shouldDoInPlaceUpdate(o) ==
  /\ job.set.rollingUpdate
  /\ job.set.podUpdatePolicy \in {"InPlaceIfPossible", "InPlaceOnly"}
  /\ job.snap[o].rev \in job.old
  /\ <<job.snap[o].rev, job.upd>> \in ImageOnly

isInPlaceOnly ==
  job.set.rollingUpdate /\ job.set.podUpdatePolicy = "InPlaceOnly"

Unavailable(p) ==
  \/ p.rev # job.upd
  \/ ~isHealthy(p)
  \/ ~checkInPlaceUpdateCompleted(p)

UnavailableAbove(t) == {o \in Replicas : o > t /\ Unavailable(job.snap[o])}

\* Mutant: off by one at the budget.
ReachedOnceMore(t) == Cardinality(UnavailableAbove(t)) <= maxUnavailable

\* The loop has not returned before it comes to t.
Reached(t) ==
  \/ t + 1 = job.set.replicas
  \/ Cardinality(UnavailableAbove(t)) < maxUnavailable

\* Mutant: a pod is patched before its last patch took effect.
PatchesEarly(t) ==
  job.snap[t].rev # job.upd /\ ~isTerminating(job.snap[t])

\* Pod t is outdated and the loop acts on it, unless the last in-place
\* update is not through.
Outdated(t) ==
  /\ job.snap[t].rev # job.upd
  /\ ~isTerminating(job.snap[t])
  /\ shouldDoInPlaceUpdate(t) => checkInPlaceUpdateCompleted(job.snap[t])

NextUpdate(t) ==
  /\ Updating
  /\ t \in Replicas
  /\ t >= updateMin
  /\ t < Below
  /\ Outdated(t)
  /\ Reached(t)
  /\ \A q \in Replicas : q > t /\ q < Below => ~Outdated(q)

\* Pod t was acted on: it no longer counts as current.
Acted(t) ==
  IF job.snap[t].rev = job.cur THEN job.st.current - 1 ELSE job.st.current

\* Mutant: the loop goes on below the ordinal it should.
SkipsOrdinal(t) ==
  /\ isCreated(pods[t])
  /\ \E p \in Deleted(pods[t]) : pods' = [pods EXCEPT ![t] = p]
  /\ job' = [job EXCEPT !.st.current = Acted(t)]
  /\ Goto("update", t - 1)

DeleteForUpdate(t) ==
  /\ isCreated(pods[t])
  /\ \E p \in Deleted(pods[t]) : pods' = [pods EXCEPT ![t] = p]
  /\ job' = [job EXCEPT !.st.current = Acted(t)]
  /\ Goto("update", t)

TerminateForUpdate(t) ==
  /\ NextUpdate(t)
  /\ ~shouldDoInPlaceUpdate(t)
  /\ DeleteForUpdate(t)
  /\ UNCHANGED <<spec, generation, status, revision, queueVars, expected,
                 budgetVars>>

\* inPlaceUpdatePod, first write: the pod is made not ready.
MarkNotReady(t) ==
  /\ NextUpdate(t)
  /\ shouldDoInPlaceUpdate(t)
  /\ SetGate(t, "False")
  /\ Goto("patch", t)
  /\ UNCHANGED <<spec, generation, status, revision, queueVars, expected,
                 budgetVars>>

podInPlaceUpdate(p, rev) == [p EXCEPT !.rev = rev, !.last = p.image]

\* inPlaceUpdatePod, second write: image, label and annotation.
PatchPod(t) ==
  /\ At("patch") /\ t = pos.i
  /\ WriteAccepted(t)
  /\ pods' = [pods EXCEPT ![t] = podInPlaceUpdate(@, job.upd)]
  /\ expected' = ExpectUpdated(job.upd, t)
  /\ job' = [job EXCEPT !.st.current = Acted(t)]
  /\ Goto("update", t)
  /\ UNCHANGED <<spec, generation, status, revision, queueVars, budgetVars>>

\* The write about to be made is one of an in-place update.
InPlaceWrite(t) ==
  \/ NextUpdate(t) /\ shouldDoInPlaceUpdate(t)
  \/ At("patch") /\ t = pos.i

\* A write of the in-place update fails.  After an error that is not a
\* conflict the pod is recreated, unless the policy is InPlaceOnly; when it
\* is, or after a conflict, the pod is left for another round.
InPlaceUpdateFails(t) ==
  /\ InPlaceWrite(t)
  /\ errors < MaxErrors /\ MayDisturb
  /\ errors' = errors + 1
  /\ \/ ~isInPlaceOnly /\ DeleteForUpdate(t)
     \/ /\ isInPlaceOnly \/ pods[t] # job.snap[t]
        /\ job' = [job EXCEPT !.st.current = Acted(t)]
        /\ Goto("update", t)
        /\ UNCHANGED pods
  /\ UNCHANGED <<spec, generation, status, revision, queueVars, expected,
                 faults, restarts>>

-----------------------------------------------------------------------------
(* The status write and the history.                                        *)

\* The update function has returned its status: a wait, the end of the
\* round, or nothing left to do.
StatusDue ==
  \/ At("status")
  \/ \E o \in Ord : MustWait(o)
  \/ \E o \in Ord : NextCondemned(o) /\ ~MayTerminate(o)
  \/ Scaled /\ ~Updating
  \/ Updating /\ \A t \in Ord : ~NextUpdate(t)

NewStatus ==
  completeRollingUpdate([current |-> job.cur, update |-> job.upd,
                         st |-> job.st, observed |-> job.gen])

EndOfSync(doomed) ==
  IF doomed = {} THEN Return
  ELSE Goto("truncate", 0) /\ job' = [job EXCEPT !.doomed = doomed]

\* updateStatefulSetStatus: nothing to write.
SkipStatus ==
  /\ StatusDue
  /\ ~inconsistentStatus(NewStatus)
  /\ EndOfSync(job.doomed)
  /\ UNCHANGED <<apiVars, queueVars, expected, budgetVars>>

\* The set is as it was read: the status is stored and its event requeues
\* the key.
UpdateStatefulSetStatus ==
  /\ StatusDue
  /\ inconsistentStatus(NewStatus)
  /\ generation = job.gen
  /\ status' = NewStatus
  /\ queued' = TRUE
  /\ EndOfSync(job.doomed)
  /\ UNCHANGED <<spec, generation, pods, revision, cache, expected,
                 budgetVars>>

\* The set has changed since: every retry sends the same stale object, so
\* they all conflict, the sync fails and the history is not truncated.
StatusConflict ==
  /\ StatusDue
  /\ inconsistentStatus(NewStatus)
  /\ generation # job.gen
  /\ Return
  /\ UNCHANGED <<apiVars, queueVars, expected, budgetVars>>

DeleteControllerRevision ==
  \E t \in job.doomed :
    /\ At("truncate")
    /\ \A u \in job.doomed : revision[t] <= revision[u]
    /\ revision' = [revision EXCEPT ![t] = 0]
    /\ EndOfSync(job.doomed \ {t})
    /\ UNCHANGED <<spec, generation, status, pods, queueVars, expected,
                   budgetVars>>

-----------------------------------------------------------------------------
(* Reconcile, and how it fails.                                             *)

\* The revision the pods below the partition are made from: the status's, as
\* long as it exists.
currentRevision(upd) ==
  IF status.current # NoTemplate /\ revision[status.current] > 0
  THEN status.current ELSE upd

ListControllerRevisions == {t \in Templates : revision[t] > 0}

\* upd gets a number above all others.
nextRevision(upd) ==
  \E latest \in Templates :
    /\ IsLatest(latest)
    /\ revision' = [revision EXCEPT ![upd] = revision[latest] + 1]

\* Mutant: the revision is used without being stored.
NotStored(upd) == UNCHANGED <<revision, errors>>

\* A name stands for one template, so no two revisions collide.
CreateControllerRevision(upd) == nextRevision(upd) /\ UNCHANGED errors

\* The revision is renumbered; a failure is answered like a success.
UpdateControllerRevision(upd) ==
  \/ nextRevision(upd) /\ UNCHANGED errors
  \/ /\ errors < MaxErrors /\ MayDisturb
     /\ errors' = errors + 1
     /\ UNCHANGED revision

\* The update revision is the latest one, or one to roll back to, or new.
getStatefulSetRevisions(upd) ==
  \/ /\ upd \in ListControllerRevisions /\ IsLatest(upd)
     /\ UNCHANGED <<revision, errors>>
  \/ /\ upd \in ListControllerRevisions /\ ~IsLatest(upd)
     /\ UpdateControllerRevision(upd)
  \/ /\ upd \notin ListControllerRevisions
     /\ CreateControllerRevision(upd)

\* UpdateStatefulSet up to its first write of a pod: what the sync holds.
\* Of a set being deleted only the status is written.
UpdateStatefulSet(set, upd, cur) ==
  /\ getStatefulSetRevisions(upd)
  /\ expected' = ObserveUpdated(upd, cache)
  /\ job' = [set |-> set, gen |-> generation, cur |-> cur, upd |-> upd,
             old |-> ListControllerRevisions,
             snap |-> cache, st |-> InitialCounts(cur, upd, cache),
             doomed |-> truncateHistory(cur, upd, cache)]
  /\ IF set.deleting THEN Goto("status", 0) ELSE Goto("replicas", 0)

\* A worker takes the key, reads the set and the cached pods, and syncs.
Reconcile ==
  LET set == checkSetDefaultVariable(spec)
  IN /\ At("idle")
     /\ queued
     /\ CacheMayLag \/ cache = pods
     /\ queued' = FALSE
     /\ UpdateStatefulSet(set, set.template, currentRevision(set.template))
     /\ UNCHANGED <<spec, generation, status, pods, cache, faults, restarts>>

\* The write about to be made addresses a pod that is gone, or creates one
\* that exists: the sync ends, except within an InPlaceOnly update.
RejectedWrite ==
  /\ \/ /\ \/ \E o \in Ord : /\ NextReplica(o) /\ ~MustWait(o)
                             /\ isCreated(job.snap[o]) # isCreated(pods[o])
           \/ \E o \in Ord : /\ NextCondemned(o) /\ MayTerminate(o)
                             /\ ~isCreated(pods[o])
           \/ \E t \in Ord : /\ NextUpdate(t) \/ (At("patch") /\ t = pos.i)
                             /\ ~(InPlaceWrite(t) /\ isInPlaceOnly)
                             /\ ~isCreated(pods[t])
        /\ Return
     \/ \E t \in Ord : /\ InPlaceWrite(t) /\ isInPlaceOnly
                       /\ ~isCreated(pods[t])
                       /\ job' = [job EXCEPT !.st.current = Acted(t)]
                       /\ Goto("update", t)
  /\ UNCHANGED <<apiVars, queueVars, expected, budgetVars>>

\* Any other call of a reconcile fails: the sync ends, and Reconcile logs the
\* error and answers nil.
SyncError ==
  /\ errors < MaxErrors /\ MayDisturb
  /\ errors' = errors + 1
  /\ \/ /\ ~At("idle")
        /\ \A t \in Ord : ~InPlaceWrite(t)
        /\ Return
        /\ UNCHANGED queued
     \/ /\ At("idle") /\ queued
        /\ queued' = FALSE
        /\ UNCHANGED <<pos, job>>
  /\ UNCHANGED <<apiVars, cache, expected, faults, restarts>>

-----------------------------------------------------------------------------
(* The environment.                                                         *)

\* The informer delivers the pods' latest state; its event enqueues the set.
CacheSync ==
  /\ cache # pods
  /\ cache' = pods
  /\ queued' = TRUE
  /\ UNCHANGED <<apiVars, procVars, budgetVars>>

\* The user writes another spec, or deletes the set.
Edit ==
  /\ generation <= MaxEdits /\ MayDisturb
  /\ \E s \in Specs : /\ s # spec
                      /\ spec.deleting => s.deleting
                      /\ spec' = s
  /\ generation' = generation + 1
  /\ queued' = TRUE
  /\ UNCHANGED <<status, pods, revision, cache, procVars, budgetVars>>

\* The process dies and starts again: the reconcile and the expectations are
\* lost, the informer lists the pods anew and enqueues the set.
Restart ==
  /\ restarts < MaxRestarts /\ MayDisturb
  /\ restarts' = restarts + 1
  /\ Return
  /\ expected' = NoExpectation
  /\ cache' = pods
  /\ queued' = TRUE
  /\ UNCHANGED <<apiVars, faults, errors>>

SetPod(o, p) ==
  /\ pods' = [pods EXCEPT ![o] = p]
  /\ UNCHANGED <<spec, generation, status, revision, queueVars, procVars>>

\* The kubelet starts the container, or restarts it with a patched image.
KubeletStart(o) ==
  LET p == pods[o]
  IN /\ \/ p.phase = "Pending"
        \/ p.phase \in {"NotReady", "Ready"} /\ p.image # p.rev
     /\ SetPod(o, [p EXCEPT !.phase = "NotReady", !.image = p.rev])
     /\ UNCHANGED budgetVars

\* The probe succeeds and the readiness gate, if there is one, is open.
KubeletReady(o) ==
  /\ pods[o].phase = "NotReady"
  /\ HasGate => pods[o].gate = "True"
  /\ SetPod(o, [pods[o] EXCEPT !.phase = "Ready"])
  /\ UNCHANGED budgetVars

\* The readiness gate is closed.
KubeletUnready(o) ==
  /\ pods[o].phase = "Ready"
  /\ HasGate /\ pods[o].gate # "True"
  /\ SetPod(o, [pods[o] EXCEPT !.phase = "NotReady"])
  /\ UNCHANGED budgetVars

\* A terminating pod's grace period ends.
KubeletRemove(o) ==
  /\ pods[o].term
  /\ SetPod(o, Absent)
  /\ UNCHANGED budgetVars

Kubelet(o) ==
  KubeletStart(o) \/ KubeletReady(o) \/ KubeletUnready(o) \/ KubeletRemove(o)

\* Eviction, a failing probe, or someone else deletes the pod.
Fault(o) ==
  /\ faults < MaxFaults /\ MayDisturb
  /\ faults' = faults + 1
  /\ isCreated(pods[o])
  /\ \/ SetPod(o, [pods[o] EXCEPT !.phase = "Failed"])
     \/ pods[o].phase = "Ready" /\ SetPod(o, [pods[o] EXCEPT !.phase = "NotReady"])
     \/ \E p \in Deleted(pods[o]) : SetPod(o, p)
  /\ UNCHANGED <<errors, restarts>>

-----------------------------------------------------------------------------
Init ==
  /\ spec \in InitSpecs
  /\ generation = 1
  /\ status = [current |-> NoTemplate, update |-> NoTemplate,
               st |-> NoJob.st, observed |-> 0]
  /\ pods = [o \in Ord |-> Absent]
  /\ revision = [t \in Templates |-> 0]
  /\ cache = pods
  /\ queued = TRUE
  /\ expected = NoExpectation
  /\ pos = [at |-> "idle", i |-> 0]
  /\ job = NoJob
  /\ faults = 0 /\ errors = 0 /\ restarts = 0

\* The worker's next call.
PodWrite(o) ==
  \/ DeleteFailedPod(o) \/ CreateStatefulPod(o) \/ UpdateInPlaceReady(o)
  \/ TerminateCondemned(o)
  \/ TerminateForUpdate(o) \/ MarkNotReady(o) \/ PatchPod(o)

Worker ==
  \/ Reconcile
  \/ \E o \in Ord : PodWrite(o)
  \/ RejectedWrite
  \/ SkipStatus \/ UpdateStatefulSetStatus \/ StatusConflict
  \/ DeleteControllerRevision

Next ==
  \/ Worker
  \/ SyncError
  \/ \E t \in Ord : InPlaceUpdateFails(t)
  \/ CacheSync
  \/ Edit
  \/ Restart
  \/ \E o \in Ord : Kubelet(o) \/ Fault(o)

\* The worker goroutine, the informer and the kubelets keep running; no user,
\* fault, error or restart has to happen.
Fairness ==
  /\ WF_vars(Worker)
  /\ WF_vars(CacheSync)
  /\ \A o \in Ord : WF_vars(Kubelet(o))

Spec == Init /\ [][Next]_vars
FairSpec == Spec /\ Fairness

-----------------------------------------------------------------------------
(* Properties.                                                              *)

\* Every variable keeps its type; the position of a reconcile is an ordinal
\* or the end of a loop.
TypeOK ==
  /\ spec \in SpecType
  /\ generation \in Nat
  /\ status \in StatusType
  /\ pods \in [Ord -> Pod]
  /\ revision \in [Templates -> Nat]
  /\ cache \in [Ord -> Pod]
  /\ queued \in BOOLEAN
  /\ expected \in [rev : MaybeTemplate, ords : SUBSET Ord]
  /\ pos \in [at : Stages, i : 0 .. MaxReplicas]
  /\ job \in Job
  /\ faults \in Nat /\ errors \in Nat /\ restarts \in Nat

\* The revision status.currentRevision names exists: getStatefulSetRevisions
\* finds it, so pods below the partition can still be made from it, and
\* truncateHistory never deletes it although completing an update changes
\* the name between the two.
CurrentRevisionKept ==
  status.current # NoTemplate => revision[status.current] > 0

\* The revision of every pod exists: truncateHistory spares what a pod uses,
\* which an in-place update of that pod needs as its starting point.
LiveRevisionsKept ==
  \A o \in Ord : isCreated(pods[o]) => revision[pods[o].rev] > 0

\* The InPlaceUpdateReady condition is never True while the pod's in-place
\* update is under way: the annotation's imageID is still the reported one.
GateMeansUpdated ==
  \A o \in Ord : pods[o].gate = "True" => checkInPlaceUpdateCompleted(pods[o])

\* A step of the controller, which moves its position, deletes pod o.
ControllerKills(o) ==
  /\ pos' # pos
  /\ isCreated(pods[o]) /\ ~isTerminating(pods[o])
  /\ isTerminating(pods'[o]) \/ ~isCreated(pods'[o])

\* A step of the controller makes a pod that serves unavailable.
Serves(p) == isHealthy(p) /\ checkInPlaceUpdateCompleted(p)
ControllerDisrupts(o) ==
  pos' # pos /\ Serves(pods[o]) /\ ~Serves(pods'[o])

\* With OrderedReady, when pods are recreated for an update (a patched one is
\* ready until the kubelet restarts it) and unless one was broken or deleted
\* from outside, no pod is created while one of its predecessors is not
\* running and ready, or terminating.
ScaleUpInOrder ==
  [][\A o \in Ord : (/\ monotonic /\ faults = 0
                     /\ ~isCreated(pods[o]) /\ isCreated(pods'[o])) =>
       \A q \in Ord : q < o => isHealthy(pods[q])]_vars

\* With OrderedReady a pod is terminated for scale down only when no pod with
\* a higher ordinal is left, terminating ones included.
ScaleDownInOrder ==
  [][\A o \in Ord : monotonic /\ ControllerKills(o) /\ o \notin Replicas =>
       \A q \in Ord : q > o => ~isCreated(pods[q])]_vars

\* With OrderedReady, when pods are recreated for an update and unless one was
\* broken or deleted from outside, the rolling update disrupts a serving pod
\* only while fewer than maxUnavailable of the other replicas are unavailable.
UpdateBudget ==
  [][\A o \in Replicas : monotonic /\ faults = 0 /\ ControllerDisrupts(o) =>
       Cardinality({q \in Replicas \ {o} : ~Serves(pods[q])})
         < maxUnavailable]_vars

\* status.currentRevision moves from one revision to another only when every
\* pod that is not on its way out runs the new one.
CompletionSound ==
  [][status'.current # status.current /\ status.current # NoTemplate =>
       \A o \in Ord : isCreated(pods[o]) /\ ~isTerminating(pods[o]) =>
         pods[o].rev = status'.current]_vars

\* A pod created below the partition is made from the revision the status
\* names as current, however often the template has changed since: a canary
\* release never leaks below its partition.
CanaryIsolation ==
  [][\A o \in Ord : (/\ ~isCreated(pods[o]) /\ isCreated(pods'[o])
                     /\ job.set.rollingUpdate /\ o < job.set.partition
                     /\ status.current # NoTemplate)
                    => pods'[o].rev = status.current]_vars

\* With OnDelete the controller leaves every replica alone that has not
\* failed: it neither deletes it nor changes its revision.
OnlyManualUpdates ==
  [][\A o \in Replicas :
       (/\ job.set.updateType = "OnDelete" /\ pos' # pos
        /\ isCreated(pods[o]) /\ ~isFailed(pods[o])) =>
         /\ pods'[o].rev = pods[o].rev
         /\ pods'[o].term = pods[o].term]_vars

\* A pod is patched in place only when its last in-place update is through.
NoPatchBeforeCompleted ==
  [][\A o \in Ord : (/\ pods[o].rev # NoTemplate
                     /\ pods'[o].rev \notin {NoTemplate, pods[o].rev})
                    => checkInPlaceUpdateCompleted(pods[o])]_vars

\* The cluster is what the spec asks for: every replica is ready, those the
\* rolling update covers run the spec's template, nothing else is left.
PodsConverged ==
  LET set == checkSetDefaultVariable(spec)
      covered(o) == /\ set.updateType = "RollingUpdate"
                    /\ set.rollingUpdate => o >= set.partition /\ ~set.paused
  IN \A o \in Ord :
       IF o < set.replicas
       THEN /\ Serves(pods[o])
            /\ covered(o) => pods[o].rev = set.template
       ELSE pods[o] = Absent

\* The status says so: it was computed from the last spec and its counts are
\* those of the pods.
StatusConverged ==
  /\ status.observed = generation
  /\ status.update = spec.template
  /\ status.st = InitialCounts(status.current, status.update, pods)

\* Once the user stops editing and pods stop failing, the pods and the status
\* come to agree with the spec and stay so; of a set being deleted only the
\* status does.  A call of the controller that failed is the exception:
\* Reconcile does not retry it.
Convergence ==
  <>[](\/ errors > 0
       \/ (spec.deleting \/ PodsConverged) /\ StatusConverged)

\* With InPlaceOnly, and as long as templates differ in an image only, no
\* replica is deleted unless it failed, whatever fails or is edited meanwhile.
InPlaceOnlyNeverRecreates ==
  [][\A o \in Replicas : ControllerKills(o) /\ isInPlaceOnly =>
       isFailed(pods[o])]_vars

\* The pods that are not on their way out, and what they run.
LiveRevision(p) ==
  IF isCreated(p) /\ ~isTerminating(p) THEN p.rev ELSE NoTemplate

R == INSTANCE Rollout WITH
       Ordinals <- Ord, Revisions <- Templates, None <- NoTemplate,
       wanted <- spec.template, stable <- status.current,
       kept <- ListControllerRevisions,
       run <- [o \in Ord |-> LiveRevision(pods[o])]

\* The control loop, in-place updates, history and status together implement
\* the abstract roll-out of revisions: no pod ever runs an unrecorded one, no
\* revision in use is forgotten, none is declared current too early.
ImplementsRollout == R!Spec

\* "If the error is not nil, the method should be retried until successful"
\* (updateStatefulSet): a sync that failed is tried again until the pods are
\* what the spec asks for.
RetriedUntilSuccessful == <>[]PodsConverged
=============================================================================
