--------------------- MODULE StatefulSetTracking_proofs ---------------------
(***************************************************************************)
(* Theorems about StatefulSetControl for reconciles that start from the    *)
(* pods as they are (~CacheMayLag).  Such a reconcile decides on copies of *)
(* the pods that age while it runs; the invariant below says how far a     *)
(* copy can be from its pod.                                               *)
(***************************************************************************)
EXTENDS StatefulSetControl_proofs

\* The annotation of a pod names an image that was replaced: the reported
\* image is the old one or that of the pod's revision.
PodShape(p) ==
  /\ ~isCreated(p) => p = Absent
  /\ p.last # NoTemplate => p.last # p.rev /\ p.image \in {p.last, p.rev}
  /\ p.last = NoTemplate => p.image \in {NoTemplate, p.rev}

\* The loop of the rolling update has come to ordinal o, or past it.
MayBePatched(o) ==
  \/ At("update") /\ o >= pos.i
  \/ At("patch") /\ o > pos.i
  \/ At("truncate")

\* What pod p and the copy s of it still have in common: revision and
\* annotation, unless the reconcile has patched the pod; a copy that fails,
\* terminates or is through with its update is one of a pod that does so.
SamePod(p, s, o) ==
  /\ \/ p.rev = s.rev /\ p.last = s.last
     \/ p.rev = job.upd /\ s.rev # job.upd /\ MayBePatched(o)
  /\ isTerminating(s) => isTerminating(p)
  /\ isFailed(s) => isFailed(p)
  /\ ~MayBePatched(o) /\ checkInPlaceUpdateCompleted(s) =>
       checkInPlaceUpdateCompleted(p)

\* A pod without a copy is a failed replica the reconcile has deleted.
Follows(o) ==
  /\ ~isCreated(job.snap[o]) => job.snap[o] = Absent
  /\ isCreated(pods[o]) /\ ~isCreated(job.snap[o]) =>
       isTerminating(pods[o]) /\ o \in Replicas
  /\ isCreated(pods[o]) /\ isCreated(job.snap[o]) =>
       SamePod(pods[o], job.snap[o], o)

\* Between the two writes of an in-place update the gate is closed.
PatchInv ==
  At("patch") =>
    /\ pos.i \in Replicas
    /\ job.snap[pos.i].rev # job.upd
    /\ shouldDoInPlaceUpdate(pos.i)
    /\ checkInPlaceUpdateCompleted(job.snap[pos.i])
    /\ pods[pos.i].gate # "True"

ShapeInv == \A o \in Ord : PodShape(pods[o])

FollowInv == ~At("idle") => \A o \in Ord : Follows(o)

TrackInv == ShapeInv /\ FollowInv /\ PatchInv

-----------------------------------------------------------------------------
(* What may become of a pod.                                                *)

\* A pod that nobody patches or makes ready keeps its revision, its
\* annotation and its gate until it is gone.
Survives(p, q) ==
  \/ q = Absent
  \/ /\ isCreated(p) /\ isCreated(q)
     /\ q.rev = p.rev /\ q.last = p.last /\ q.gate = p.gate
     /\ isTerminating(p) => isTerminating(q)
     /\ isFailed(p) => isFailed(q)
     /\ q.image \in {p.image, p.rev}

\* Deleting a pod leaves it as it is until it is gone.
LEMMA DeletedSurvives ==
  ASSUME NEW p \in Pod, isCreated(p), NEW q \in Deleted(p)
  PROVE  /\ Survives(p, q)
         /\ q = Absent \/ isTerminating(q)
<1>1. q = Absent \/ q = [p EXCEPT !.term = TRUE]
  BY DEF Deleted
<1> QED BY <1>1 DEF Survives, isCreated, isTerminating, isFailed, Pod

\* What survives keeps its shape, and an update that is through stays so.
LEMMA SurvivesShape ==
  ASSUME NEW p \in Pod, NEW q \in Pod, PodShape(p), Survives(p, q)
  PROVE  /\ PodShape(q)
         /\ checkInPlaceUpdateCompleted(p) => checkInPlaceUpdateCompleted(q)
<1>1. CASE q = Absent
  BY <1>1 DEF Absent, PodShape, checkInPlaceUpdateCompleted
<1>2. CASE q # Absent
  BY <1>2 DEF Survives, PodShape, checkInPlaceUpdateCompleted
<1> QED BY <1>1, <1>2

\* Kubelets and faults leave the reconcile alone and the pod's update too.
LEMMA EnvironmentSurvives ==
  ASSUME TypeOK, NEW o \in Ord, Kubelet(o) \/ Fault(o)
  PROVE  /\ UNCHANGED <<spec, generation, status, revision, procVars>>
         /\ \E q \in Pod : /\ pods' = [pods EXCEPT ![o] = q]
                           /\ Survives(pods[o], q)
<1>0. pods[o] \in Pod
  BY DEF TypeOK
<1>1. ASSUME NEW f \in {"NotReady", "Ready", "Failed"},
             NEW i \in {pods[o].image, pods[o].rev},
             isCreated(pods[o]), isFailed(pods[o]) => f = "Failed"
      PROVE  /\ [pods[o] EXCEPT !.phase = f, !.image = i] \in Pod
             /\ Survives(pods[o], [pods[o] EXCEPT !.phase = f, !.image = i])
  BY <1>0, <1>1 DEF Survives, isCreated, isTerminating, isFailed, Pod, Phases
<1>2. ASSUME NEW f \in {"NotReady", "Ready", "Failed"},
             isCreated(pods[o]), isFailed(pods[o]) => f = "Failed"
      PROVE  /\ [pods[o] EXCEPT !.phase = f] \in Pod
             /\ Survives(pods[o], [pods[o] EXCEPT !.phase = f])
  BY <1>0, <1>2 DEF Survives, isCreated, isTerminating, isFailed, Pod, Phases
<1>3. CASE KubeletStart(o)
  <2>1. SetPod(o, [pods[o] EXCEPT !.phase = "NotReady", !.image = pods[o].rev])
    BY <1>3 DEF KubeletStart
  <2>2. isCreated(pods[o]) /\ ~isFailed(pods[o])
    BY <1>3 DEF KubeletStart, isCreated, isFailed
  <2> QED BY <2>1, <2>2, <1>1 DEF SetPod
<1>4. CASE KubeletReady(o) \/ KubeletUnready(o)
  <2>1. \E f \in {"NotReady", "Ready"} : SetPod(o, [pods[o] EXCEPT !.phase = f])
    BY <1>4 DEF KubeletReady, KubeletUnready
  <2>2. isCreated(pods[o]) /\ ~isFailed(pods[o])
    BY <1>4 DEF KubeletReady, KubeletUnready, isCreated, isFailed
  <2> QED BY <2>1, <2>2, <1>2 DEF SetPod
<1>5. CASE KubeletRemove(o)
  BY <1>5, EmptyTypes DEF KubeletRemove, SetPod, Survives
<1>6. CASE Fault(o)
  <2>1. CASE SetPod(o, [pods[o] EXCEPT !.phase = "Failed"])
    BY <1>6, <2>1, <1>2 DEF Fault, SetPod
  <2>2. CASE pods[o].phase = "Ready"
             /\ SetPod(o, [pods[o] EXCEPT !.phase = "NotReady"])
    BY <2>2, <1>2 DEF SetPod, isCreated, isFailed
  <2>3. CASE \E q \in Deleted(pods[o]) : SetPod(o, q)
    BY <1>0, <1>6, <2>3, DeletedSurvives, DeletedType DEF Fault, SetPod
  <2> QED BY <1>6, <2>1, <2>2, <2>3 DEF Fault
<1> QED BY <1>3, <1>4, <1>5, <1>6 DEF Kubelet

-----------------------------------------------------------------------------
(* The copies follow the pods.                                              *)

\* What becomes of a copy the reconcile neither drops nor makes.
SameCopy(s, t) ==
  \/ t = s
  \/ /\ isCreated(s)
     /\ t.phase = s.phase /\ t.rev = s.rev /\ t.term = s.term
     /\ t.image = s.image /\ t.last = s.last

\* A copy still follows its pod when the pod survives, or gets another gate,
\* and the reconcile goes on.
LEMMA FollowsSurvives ==
  ASSUME TypeOK, TypeOK', NEW o \in Ord, PodShape(pods[o]), Follows(o),
         job'.upd = job.upd, job'.set = job.set,
         SameCopy(job.snap[o], job'.snap[o]),
         Survives(pods[o], pods'[o]) \/ SameCopy(pods[o], pods'[o]),
         MayBePatched(o) => MayBePatched(o)'
  PROVE  Follows(o)' /\ PodShape(pods'[o])
<1> DEFINE p == pods[o]
           q == pods'[o]
           s == job.snap[o]
           t == job'.snap[o]
           m == MayBePatched(o)
           n == MayBePatched(o)'
<1>1. p \in Pod /\ q \in Pod /\ s \in Pod /\ t \in Pod
  BY DEF TypeOK, Job
<1>2. /\ PodShape(q)
      /\ checkInPlaceUpdateCompleted(p) => checkInPlaceUpdateCompleted(q)
  <2>1. CASE Survives(p, q)
    BY <1>1, <2>1, SurvivesShape
  <2>2. CASE SameCopy(p, q)
    BY <2>2 DEF SameCopy, PodShape, checkInPlaceUpdateCompleted, isCreated
  <2> QED BY <2>1, <2>2
<1>3. isCreated(q) =>
        /\ isCreated(p) /\ q.rev = p.rev /\ q.last = p.last
        /\ isTerminating(p) => isTerminating(q)
        /\ isFailed(p) => isFailed(q)
  BY DEF Survives, SameCopy, isCreated, isFailed, isTerminating, Absent
<1>4. /\ isCreated(t) <=> isCreated(s)
      /\ isFailed(t) <=> isFailed(s)
      /\ isTerminating(t) <=> isTerminating(s)
      /\ t.rev = s.rev /\ t.last = s.last
      /\ checkInPlaceUpdateCompleted(t) <=> checkInPlaceUpdateCompleted(s)
      /\ ~isCreated(s) => t = s
  BY DEF SameCopy, isCreated, isFailed, isTerminating,
         checkInPlaceUpdateCompleted
<1>5. Replicas' = Replicas
  BY DEF Replicas
<1>6. ~isCreated(t) => t = Absent
  BY <1>4 DEF Follows
<1>7. isCreated(q) /\ ~isCreated(t) => isTerminating(q) /\ o \in Replicas'
  BY <1>3, <1>4, <1>5 DEF Follows
<1>8. ASSUME isCreated(q), isCreated(t)
      PROVE  /\ \/ q.rev = t.rev /\ q.last = t.last
                \/ q.rev = job'.upd /\ t.rev # job'.upd /\ n
             /\ isTerminating(t) => isTerminating(q)
             /\ isFailed(t) => isFailed(q)
             /\ ~n /\ checkInPlaceUpdateCompleted(t) =>
                  checkInPlaceUpdateCompleted(q)
  <2>1. /\ \/ p.rev = s.rev /\ p.last = s.last
           \/ p.rev = job.upd /\ s.rev # job.upd /\ m
        /\ isTerminating(s) => isTerminating(p)
        /\ isFailed(s) => isFailed(p)
        /\ ~m /\ checkInPlaceUpdateCompleted(s) =>
             checkInPlaceUpdateCompleted(p)
    BY <1>3, <1>4, <1>8 DEF Follows, SamePod
  <2> HIDE DEF p, q, s, t, m, n
  <2>2. m => n
    BY DEF m, n
  <2> QED BY <2>1, <2>2, <1>2, <1>3, <1>4, <1>8
<1> QED BY <1>2, <1>6, <1>7, <1>8 DEF Follows, SamePod

\* The update loop goes down: what it may have patched stays so.
LEMMA Advances ==
  ASSUME TypeOK, NEW x \in Ord, PodWrite(x) \/ InPlaceUpdateFails(x), NEW o \in Ord
  PROVE  MayBePatched(o) => MayBePatched(o)'
<1>0. x \in Int /\ o \in Int /\ pos.i \in Int
  BY ReplicasAssumption DEF Ord, TypeOK
<1>1. CASE \/ DeleteFailedPod(x) \/ CreateStatefulPod(x)
           \/ UpdateInPlaceReady(x) \/ TerminateCondemned(x)
  <2>1. pos.at \in {"replicas", "condemned"}
    BY <1>1 DEF DeleteFailedPod, CreateStatefulPod, UpdateInPlaceReady,
                TerminateCondemned, NextReplica, NextCondemned, Scaling, At
  <2> QED BY <2>1 DEF MayBePatched, At
<1>2. ASSUME NextUpdate(x) PROVE At("update") => x < pos.i
  BY <1>2 DEF NextUpdate, Below, At
<1>3. ASSUME NextUpdate(x) PROVE ~At("truncate") /\ ~At("patch")
  BY <1>3 DEF NextUpdate, Updating, Scaled, Scaling, At
<1>4. CASE TerminateForUpdate(x) \/ PatchPod(x) \/ InPlaceUpdateFails(x)
  <2>1. pos' = [at |-> "update", i |-> x]
    BY <1>4 DEF TerminateForUpdate, PatchPod, InPlaceUpdateFails,
                DeleteForUpdate, Goto
  <2>2. NextUpdate(x) \/ (At("patch") /\ x = pos.i)
    BY <1>4 DEF TerminateForUpdate, PatchPod, InPlaceUpdateFails,
                InPlaceWrite
  <2> QED BY <1>0, <1>2, <1>3, <2>1, <2>2 DEF MayBePatched, At
<1>5. CASE MarkNotReady(x)
  <2>1. pos' = [at |-> "patch", i |-> x] /\ NextUpdate(x)
    BY <1>5 DEF MarkNotReady, Goto
  <2> QED BY <1>0, <1>2, <1>3, <2>1 DEF MayBePatched, At
<1> QED BY <1>1, <1>4, <1>5 DEF PodWrite

\* A write of the reconcile leaves the other pods and copies alone.
LEMMA OthersFollow ==
  ASSUME TypeOK, TypeOK', TrackInv, NEW x \in Ord,
         PodWrite(x) \/ InPlaceUpdateFails(x),
         \E p : pods' = [pods EXCEPT ![x] = p],
         \E s : job'.snap = [job.snap EXCEPT ![x] = s]
  PROVE  \A o \in Ord \ {x} : Follows(o)' /\ PodShape(pods'[o])
<1> SUFFICES ASSUME NEW o \in Ord \ {x}
             PROVE  Follows(o)' /\ PodShape(pods'[o])
  OBVIOUS
<1>1. pods \in [Ord -> Pod] /\ job.snap \in [Ord -> Pod]
  BY DEF TypeOK, Job
<1>2. pods'[o] = pods[o] /\ job'.snap[o] = job.snap[o]
  BY <1>1
<1>3. pos.at # "idle" /\ job'.upd = job.upd /\ job'.set = job.set
  BY PodWriteFrame DEF TypeOK
<1>4. PodShape(pods[o]) /\ Follows(o)
  BY <1>3 DEF TrackInv, ShapeInv, FollowInv, At
<1> QED BY <1>2, <1>3, <1>4, Advances, FollowsSurvives DEF SameCopy

\* The in-place update's copy is one of a pod that exists.
LEMMA PatchedCopy ==
  ASSUME TypeOK, TrackInv, pos.at # "idle", NEW x \in Ord,
         shouldDoInPlaceUpdate(x)
  PROVE  isCreated(job.snap[x])
<1>1. job.snap[x].rev \in Templates
  BY DEF shouldDoInPlaceUpdate, TypeOK, Job
<1>2. ~isCreated(job.snap[x]) => job.snap[x] = Absent
  BY DEF TrackInv, FollowInv, Follows, At
<1> QED BY <1>1, <1>2, TemplateAssumption DEF Absent

\* The reconcile's deletions of pods keep the copies following.
LEMMA DeletionTracks ==
  ASSUME TypeOK, TypeOK', TrackInv, NEW x \in Ord,
         \/ TerminateCondemned(x) \/ TerminateForUpdate(x)
         \/ InPlaceUpdateFails(x)
  PROVE  TrackInv'
<1>0. pods[x] \in Pod /\ pods \in [Ord -> Pod] /\ job \in Job
  BY DEF TypeOK
<1>1. PodWrite(x) \/ InPlaceUpdateFails(x)
  BY DEF PodWrite
<1>2. pos.at # "idle" /\ job'.upd = job.upd /\ job'.set = job.set
  BY <1>0, <1>1, PodWriteFrame
<1>3. job'.snap = job.snap
  BY <1>0 DEF TerminateCondemned, TerminateForUpdate, InPlaceUpdateFails,
              DeleteForUpdate, Job
<1>4. PICK p : /\ pods' = [pods EXCEPT ![x] = p]
               /\ p = pods[x] \/ Survives(pods[x], p)
  <2>1. CASE pods' = pods
    <3>1. pods' = [pods EXCEPT ![x] = pods[x]]
      BY <1>0, <2>1
    <3> QED BY <3>1
  <2>2. CASE isCreated(pods[x])
             /\ \E p \in Deleted(pods[x]) : pods' = [pods EXCEPT ![x] = p]
    BY <1>0, <2>2, DeletedSurvives
  <2> QED BY <2>1, <2>2
          DEF TerminateCondemned, TerminateForUpdate, InPlaceUpdateFails,
              DeleteForUpdate
<1>5. PodShape(pods[x]) /\ Follows(x)
  BY <1>2 DEF TrackInv, ShapeInv, FollowInv, At
<1>6. Follows(x)' /\ PodShape(pods'[x])
  BY <1>0, <1>1, <1>2, <1>3, <1>4, <1>5, Advances, FollowsSurvives DEF SameCopy
<1>7. job'.snap = [job.snap EXCEPT ![x] = job.snap[x]]
  BY <1>3 DEF TypeOK, Job
<1>8. \A o \in Ord \ {x} : Follows(o)' /\ PodShape(pods'[o])
  BY <1>1, <1>4, <1>7, OthersFollow
<1>9. pos'.at # "patch"
  BY DEF TerminateCondemned, TerminateForUpdate, InPlaceUpdateFails,
         DeleteForUpdate, Goto
<1> QED BY <1>6, <1>8, <1>9 DEF TrackInv, ShapeInv, FollowInv, PatchInv, At

\* So does opening or closing a gate.
LEMMA GateTracks ==
  ASSUME TypeOK, TypeOK', TrackInv, NEW x \in Ord,
         UpdateInPlaceReady(x) \/ MarkNotReady(x)
  PROVE  TrackInv'
<1>0. /\ pods[x] \in Pod /\ pods \in [Ord -> Pod] /\ job \in Job
      /\ job.snap \in [Ord -> Pod] /\ job.snap[x] \in Pod
  BY DEF TypeOK, Job
<1>1. PodWrite(x)
  BY DEF PodWrite
<1>2. pos.at # "idle" /\ job'.upd = job.upd /\ job'.set = job.set
  BY <1>0, <1>1, PodWriteFrame
<1>3. PICK g \in {"True", "False"} : SetGate(x, g)
  BY DEF UpdateInPlaceReady, MarkNotReady
<1>4. /\ pods' = [pods EXCEPT ![x] = [pods[x] EXCEPT !.gate = g]]
      /\ job'.snap = [job.snap EXCEPT ![x] = [job.snap[x] EXCEPT !.gate = g]]
      /\ job'.old = job.old
      /\ isCreated(pods[x])
  BY <1>0, <1>3 DEF SetGate, WriteAccepted, Job
<1>5. isCreated(job.snap[x])
  BY <1>2, PatchedCopy DEF UpdateInPlaceReady, MarkNotReady
<1>6. /\ SameCopy(pods[x], pods'[x])
      /\ SameCopy(job.snap[x], job'.snap[x])
  BY <1>0, <1>4, <1>5 DEF SameCopy, Pod
<1>7. PodShape(pods[x]) /\ Follows(x)
  BY <1>2 DEF TrackInv, ShapeInv, FollowInv, At
<1>8. Follows(x)' /\ PodShape(pods'[x])
  BY <1>1, <1>2, <1>6, <1>7, Advances, FollowsSurvives
<1>9. \A o \in Ord \ {x} : Follows(o)' /\ PodShape(pods'[o])
  BY <1>1, <1>4, OthersFollow
<1>10. PatchInv'
  <2>1. CASE UpdateInPlaceReady(x)
    BY <2>1 DEF UpdateInPlaceReady, Goto, PatchInv, At
  <2>2. CASE MarkNotReady(x)
    <3>1. /\ pos' = [at |-> "patch", i |-> x]
          /\ x \in Replicas /\ Outdated(x) /\ shouldDoInPlaceUpdate(x)
          /\ SetGate(x, "False")
      BY <2>2 DEF MarkNotReady, Goto, NextUpdate
    <3>2. /\ job.snap[x].rev # job.upd
          /\ checkInPlaceUpdateCompleted(job.snap[x])
      BY <3>1 DEF Outdated
    <3>3. /\ job'.snap[x].rev = job.snap[x].rev
          /\ job'.snap[x].image = job.snap[x].image
          /\ job'.snap[x].last = job.snap[x].last
      BY <1>6 DEF SameCopy
    <3>4. pods'[x].gate = "False"
      BY <1>0, <3>1 DEF SetGate, Pod
    <3> QED BY <1>2, <1>4, <3>1, <3>2, <3>3, <3>4
            DEF PatchInv, Replicas, shouldDoInPlaceUpdate,
                checkInPlaceUpdateCompleted
  <2> QED BY <2>1, <2>2
<1> QED BY <1>8, <1>9, <1>10 DEF TrackInv, ShapeInv, FollowInv

\* So does replacing a failed pod.
LEMMA ReplacementTracks ==
  ASSUME TypeOK, TypeOK', TrackInv, NEW x \in Ord,
         DeleteFailedPod(x) \/ CreateStatefulPod(x)
  PROVE  TrackInv'
<1>0. /\ pods[x] \in Pod /\ pods \in [Ord -> Pod] /\ job \in Job
      /\ job.snap \in [Ord -> Pod]
  BY DEF TypeOK, Job
<1>1. PodWrite(x)
  BY DEF PodWrite
<1>2. pos.at # "idle" /\ job'.upd = job.upd /\ job'.set = job.set
  BY <1>0, <1>1, PodWriteFrame
<1>3. x \in Replicas'
  BY <1>2 DEF DeleteFailedPod, CreateStatefulPod, NextReplica, Replicas
<1>4. CASE DeleteFailedPod(x)
  <2>1. PICK p \in Deleted(pods[x]) : pods' = [pods EXCEPT ![x] = p]
    BY <1>4 DEF DeleteFailedPod
  <2>2. isCreated(pods[x]) /\ job'.snap = [job.snap EXCEPT ![x] = Absent]
    BY <1>0, <1>4 DEF DeleteFailedPod, Job
  <2>3. Survives(pods[x], p) /\ (p = Absent \/ isTerminating(p))
    BY <1>0, <2>2, DeletedSurvives
  <2>4. PodShape(pods'[x])
    BY <1>0, <2>1, <2>3, SurvivesShape, DeletedType DEF TrackInv, ShapeInv
  <2>5. Follows(x)'
    BY <1>0, <1>3, <2>1, <2>2, <2>3 DEF Follows, Absent, isCreated
  <2>6. \A o \in Ord \ {x} : Follows(o)' /\ PodShape(pods'[o])
    BY <1>1, <2>1, <2>2, OthersFollow
  <2>7. PatchInv'
    BY <1>4 DEF DeleteFailedPod, Goto, PatchInv, At
  <2> QED BY <2>4, <2>5, <2>6, <2>7 DEF TrackInv, ShapeInv, FollowInv
<1>5. CASE CreateStatefulPod(x)
  <2> DEFINE p == FreshPod(newVersionedStatefulSetPod(x))
  <2>1. /\ pods' = [pods EXCEPT ![x] = p]
        /\ job'.snap = [job.snap EXCEPT ![x] = p]
    BY <1>0, <1>5 DEF CreateStatefulPod, Job
  <2>2. /\ isCreated(p) /\ PodShape(p)
        /\ checkInPlaceUpdateCompleted(p)
    BY DEF FreshPod, Absent, isCreated, PodShape, checkInPlaceUpdateCompleted
  <2>3. pods'[x] = p /\ job'.snap[x] = p
    BY <1>0, <2>1
  <2> HIDE DEF p
  <2>4. Follows(x)'
    BY <2>2, <2>3 DEF Follows, SamePod
  <2>5. \A o \in Ord \ {x} : Follows(o)' /\ PodShape(pods'[o])
    BY <1>1, <2>1, OthersFollow
  <2>6. PatchInv'
    BY <1>5 DEF CreateStatefulPod, Goto, PatchInv, At
  <2> QED BY <2>2, <2>3, <2>4, <2>5, <2>6 DEF TrackInv, ShapeInv, FollowInv
<1> QED BY <1>4, <1>5

\* The pod that is patched is the one the reconcile decided about: its last
\* in-place update is through and it runs another image than the new one.
LEMMA PatchedPod ==
  ASSUME TypeOK, TrackInv, NEW x \in Ord, PatchPod(x)
  PROVE  /\ job.snap[x].rev # job.upd
         /\ isCreated(pods[x]) /\ isCreated(job.snap[x])
         /\ pods[x].rev = job.snap[x].rev
         /\ checkInPlaceUpdateCompleted(pods[x])
         /\ pods[x].image # job.upd
         /\ isTerminating(job.snap[x]) => isTerminating(pods[x])
         /\ isFailed(job.snap[x]) => isFailed(pods[x])
<1>1. pos.at = "patch" /\ pos.i = x /\ isCreated(pods[x])
  BY DEF PatchPod, At, WriteAccepted
<1>2. /\ job.snap[x].rev # job.upd
      /\ shouldDoInPlaceUpdate(x)
      /\ checkInPlaceUpdateCompleted(job.snap[x])
  BY <1>1 DEF TrackInv, PatchInv, At
<1>3. isCreated(job.snap[x])
  BY <1>1, <1>2, PatchedCopy
<1>4. PodShape(pods[x]) /\ Follows(x)
  BY <1>1 DEF TrackInv, ShapeInv, FollowInv, At
<1>5. ~MayBePatched(x)
  BY <1>1, ReplicasAssumption DEF MayBePatched, At, Ord
<1>6. /\ pods[x].rev = job.snap[x].rev
      /\ checkInPlaceUpdateCompleted(pods[x])
      /\ isTerminating(job.snap[x]) => isTerminating(pods[x])
      /\ isFailed(job.snap[x]) => isFailed(pods[x])
  BY <1>1, <1>2, <1>3, <1>4, <1>5 DEF Follows, SamePod
<1>7. pods[x].image \in {NoTemplate, pods[x].rev}
  BY <1>4, <1>6 DEF PodShape, checkInPlaceUpdateCompleted
<1>8. job.upd # NoTemplate
  BY <1>2, HistoryAssumption, TemplateAssumption DEF shouldDoInPlaceUpdate
<1> QED BY <1>1, <1>2, <1>3, <1>6, <1>7, <1>8

\* So does the patch: the annotation names an image that is replaced.
LEMMA PatchTracks ==
  ASSUME TypeOK, TypeOK', TrackInv, NEW x \in Ord, PatchPod(x)
  PROVE  TrackInv'
<1>0. /\ pods[x] \in Pod /\ pods \in [Ord -> Pod] /\ job \in Job
      /\ job.snap \in [Ord -> Pod]
  BY DEF TypeOK, Job
<1>1. PodWrite(x)
  BY DEF PodWrite
<1>2. /\ pods' = [pods EXCEPT ![x] = podInPlaceUpdate(pods[x], job.upd)]
      /\ pos' = [at |-> "update", i |-> x]
      /\ job'.snap = job.snap /\ job'.upd = job.upd
  BY <1>0 DEF PatchPod, Goto, Job
<1>3. /\ pods'[x].rev = job.upd /\ pods'[x].last = pods[x].image
      /\ pods'[x].image = pods[x].image /\ pods'[x].phase = pods[x].phase
      /\ pods'[x].term = pods[x].term
  BY <1>0, <1>2 DEF podInPlaceUpdate, Pod
<1>4. PodShape(pods'[x])
  BY <1>3, PatchedPod DEF PodShape, isCreated
<1>5. MayBePatched(x)'
  BY <1>2, ReplicasAssumption DEF MayBePatched, At, Ord
<1>6. Follows(x)'
  BY <1>2, <1>3, <1>5, PatchedPod DEF Follows, SamePod, isTerminating, isFailed
<1>7. \A o \in Ord \ {x} : Follows(o)' /\ PodShape(pods'[o])
  <2>1. job'.snap = [job.snap EXCEPT ![x] = job.snap[x]]
    BY <1>0, <1>2
  <2> QED BY <1>1, <1>2, <2>1, OthersFollow
<1>8. PatchInv'
  BY <1>2 DEF PatchInv, At
<1> QED BY <1>4, <1>6, <1>7, <1>8 DEF TrackInv, ShapeInv, FollowInv

\* A step in which no pod, copy or annotation changes keeps the invariant.
LEMMA TrackFrame ==
  ASSUME TypeOK, TypeOK', TrackInv, UNCHANGED pods,
         \/ pos'.at = "idle"
         \/ /\ pos.at # "idle" /\ pos'.at \in {"update", "truncate"}
            /\ job'.upd = job.upd /\ job'.set = job.set
            /\ job'.snap = job.snap
            /\ \A o \in Ord : MayBePatched(o) => MayBePatched(o)'
         \/ UNCHANGED <<pos, job>>
  PROVE  TrackInv'
<1>0. ShapeInv'
  BY DEF TrackInv, ShapeInv
<1>1. CASE pos'.at = "idle"
  BY <1>0, <1>1 DEF TrackInv, FollowInv, PatchInv, At
<1>2. CASE /\ pos.at # "idle" /\ pos'.at \in {"update", "truncate"}
           /\ job'.upd = job.upd /\ job'.set = job.set
           /\ job'.snap = job.snap
           /\ \A o \in Ord : MayBePatched(o) => MayBePatched(o)'
  <2>1. ASSUME NEW o \in Ord
        PROVE  Follows(o)'
    <3>1. PodShape(pods[o]) /\ Follows(o)
      BY <1>2 DEF TrackInv, ShapeInv, FollowInv, At
    <3> QED BY <1>2, <3>1, FollowsSurvives DEF SameCopy
  <2> QED BY <1>0, <1>2, <2>1 DEF TrackInv, FollowInv, PatchInv, At
<1>3. CASE UNCHANGED <<pos, job>>
  <2>1. FollowInv'
    BY <1>3 DEF TrackInv, FollowInv, Follows, SamePod, At, Replicas,
                MayBePatched
  <2>2. PatchInv'
    BY <1>3 DEF TrackInv, PatchInv, At, Replicas, shouldDoInPlaceUpdate
  <2> QED BY <1>0, <2>1, <2>2 DEF TrackInv
<1> QED BY <1>1, <1>2, <1>3

\* Every step keeps the copies following the pods.
LEMMA TrackStep ==
  ASSUME TypeOK, TypeOK', TrackInv, [Next]_vars, ~CacheMayLag
  PROVE  TrackInv'
<1>0. job \in Job
  BY DEF TypeOK
<1>1. CASE Reconcile
  <2>1. pods' = pods /\ job'.snap = pods /\ pos'.at \in {"status", "replicas"}
    BY <1>1 DEF Reconcile, UpdateStatefulSet, Goto
  <2>2. ASSUME NEW o \in Ord PROVE Follows(o)'
    BY <2>1 DEF TrackInv, ShapeInv, PodShape, Follows, SamePod
  <2> QED BY <2>1, <2>2 DEF TrackInv, ShapeInv, FollowInv, PatchInv, At
<1>2. CASE \E o \in Ord : PodWrite(o) \/ InPlaceUpdateFails(o)
  BY <1>2, DeletionTracks, GateTracks, ReplacementTracks, PatchTracks
     DEF PodWrite
<1>3. CASE RejectedWrite
  <2>0. UNCHANGED pods
    BY <1>3 DEF RejectedWrite, apiVars
  <2>1. CASE Return
    BY <2>0, <2>1, TrackFrame DEF Return, Goto
  <2>2. CASE \E t \in Ord : /\ InPlaceWrite(t)
                            /\ job' = [job EXCEPT !.st.current = Acted(t)]
                            /\ Goto("update", t)
    <3>1. PICK t \in Ord : /\ InPlaceWrite(t)
                           /\ job' = [job EXCEPT !.st.current = Acted(t)]
                           /\ Goto("update", t)
      BY <2>2
    <3>2. /\ job'.upd = job.upd /\ job'.set = job.set
          /\ job'.snap = job.snap
      BY <1>0, <3>1 DEF Job
    <3>3. pos' = [at |-> "update", i |-> t] /\ pos.at # "idle"
      BY <3>1, Positions DEF Goto
    <3>4. ASSUME NEW o \in Ord, MayBePatched(o) PROVE MayBePatched(o)'
      <4>1. t \in Int /\ o \in Int /\ pos.i \in Int
        BY ReplicasAssumption DEF Ord, TypeOK
      <4>2. \/ At("patch") /\ t = pos.i
            \/ /\ At("update") => t < pos.i
               /\ ~At("truncate") /\ ~At("patch")
        BY <3>1 DEF InPlaceWrite, NextUpdate, Below, Updating, Scaled,
                    Scaling, At
      <4> QED BY <3>3, <3>4, <4>1, <4>2 DEF MayBePatched, At
    <3> QED BY <2>0, <3>2, <3>3, <3>4, TrackFrame
  <2> QED BY <1>3, <2>1, <2>2 DEF RejectedWrite
<1>4. ASSUME UNCHANGED pods, pos.at # "idle", NEW D, EndOfSync(D)
      PROVE  TrackInv'
  <2>1. CASE Return
    BY <1>4, <2>1, TrackFrame DEF Return, Goto
  <2>2. CASE Goto("truncate", 0) /\ job' = [job EXCEPT !.doomed = D]
    <3>1. /\ job'.upd = job.upd /\ job'.set = job.set
          /\ job'.snap = job.snap /\ pos'.at = "truncate"
      BY <1>0, <2>2 DEF Job, Goto
    <3>2. \A o \in Ord : MayBePatched(o)'
      BY <3>1 DEF MayBePatched, At
    <3> QED BY <1>4, <3>1, <3>2, TrackFrame
  <2> QED BY <1>4, <2>1, <2>2 DEF EndOfSync
<1>5. CASE SkipStatus \/ UpdateStatefulSetStatus
  BY <1>4, <1>5, Positions DEF SkipStatus, UpdateStatefulSetStatus, apiVars
<1>6. CASE DeleteControllerRevision
  BY <1>4, <1>6 DEF DeleteControllerRevision, At
<1>7. CASE StatusConflict \/ SyncError \/ Restart
  <2>1. UNCHANGED pods /\ pos'.at = "idle"
    BY <1>7 DEF StatusConflict, SyncError, Restart, apiVars, Return, Goto, At
  <2> QED BY <2>1, TrackFrame
<1>8. CASE CacheSync \/ Edit \/ UNCHANGED vars
  <2>1. UNCHANGED <<pods, pos, job>>
    BY <1>8 DEF CacheSync, Edit, vars, apiVars, procVars
  <2> QED BY <2>1, TrackFrame
<1>9. CASE \E o \in Ord : Kubelet(o) \/ Fault(o)
  <2>1. PICK x \in Ord : Kubelet(x) \/ Fault(x)
    BY <1>9
  <2>2. PICK q \in Pod : /\ pods' = [pods EXCEPT ![x] = q]
                         /\ Survives(pods[x], q)
    BY <2>1, EnvironmentSurvives
  <2>3. UNCHANGED <<pos, job>>
    BY <2>1, EnvironmentSurvives DEF procVars
  <2>4. \A o \in Ord : Survives(pods[o], pods'[o]) \/ pods'[o] = pods[o]
    BY <2>2 DEF TypeOK
  <2>5. ShapeInv'
    <3>1. ASSUME NEW o \in Ord PROVE PodShape(pods'[o])
      <4>1. pods[o] \in Pod /\ pods'[o] \in Pod /\ PodShape(pods[o])
        BY DEF TypeOK, TrackInv, ShapeInv
      <4> QED BY <2>4, <4>1, SurvivesShape
    <3> QED BY <3>1 DEF ShapeInv
  <2>6. FollowInv'
    <3>1. ASSUME NEW o \in Ord, pos.at # "idle" PROVE Follows(o)'
      <4>1. PodShape(pods[o]) /\ Follows(o)
        BY <3>1 DEF TrackInv, ShapeInv, FollowInv, At
      <4>2. MayBePatched(o) => MayBePatched(o)'
        BY <2>3 DEF MayBePatched, At
      <4> QED BY <2>3, <2>4, <4>1, <4>2, FollowsSurvives DEF SameCopy
    <3> QED BY <2>3, <3>1 DEF FollowInv, At
  <2>7. PatchInv'
    <3>1. \A o \in Ord : pods[o].gate # "True" => pods'[o].gate # "True"
      BY <2>4 DEF Survives, Absent
    <3> QED BY <2>3, <3>1
            DEF TrackInv, PatchInv, At, Replicas, shouldDoInPlaceUpdate
  <2> QED BY <2>5, <2>6, <2>7 DEF TrackInv
<1> QED BY <1>1, <1>2, <1>3, <1>5, <1>6, <1>7, <1>8, <1>9 DEF Next, Worker

\* The copies follow the pods in every reachable state.
LEMMA TrackInvariant == ~CacheMayLag => (Spec => []TrackInv)
<1> SUFFICES ASSUME ~CacheMayLag
             PROVE  Spec => []TrackInv
  OBVIOUS
<1>1. Init => TrackInv
  BY DEF Init, TrackInv, ShapeInv, FollowInv, PatchInv, PodShape, At, Absent
<1>2. TypeOK /\ TypeOK' /\ TrackInv /\ [Next]_vars => TrackInv'
  BY TrackStep
<1> QED BY <1>1, <1>2, TypeCorrect, PTL DEF Spec

-----------------------------------------------------------------------------
(* What a step does to one pod.                                             *)

\* A pod changes by a write of the reconcile that addresses it, or by its
\* kubelet or a fault, which do not move the reconcile.
LEMMA WhoWrites ==
  ASSUME TypeOK, [Next]_vars, NEW o \in Ord
  PROVE  \/ pods'[o] = pods[o]
         \/ PodWrite(o) \/ InPlaceUpdateFails(o)
         \/ (Kubelet(o) \/ Fault(o)) /\ UNCHANGED <<pos, job>>
<1>0. pods \in [Ord -> Pod] /\ \A x \in Ord : pods[x] \in Pod
  BY DEF TypeOK
<1>1. CASE \E x \in Ord : PodWrite(x) \/ InPlaceUpdateFails(x)
  <2>1. PICK x \in Ord : PodWrite(x) \/ InPlaceUpdateFails(x)
    BY <1>1
  <2>2. \/ pods' = pods
        \/ \E p : pods' = [pods EXCEPT ![x] = p]
    BY <1>0, <2>1
       DEF PodWrite, InPlaceUpdateFails, DeleteFailedPod, CreateStatefulPod,
           UpdateInPlaceReady, MarkNotReady, SetGate, TerminateCondemned,
           TerminateForUpdate, DeleteForUpdate, PatchPod
  <2> QED BY <1>0, <2>1, <2>2
<1>2. CASE \E x \in Ord : Kubelet(x) \/ Fault(x)
  <2>1. PICK x \in Ord : Kubelet(x) \/ Fault(x)
    BY <1>2
  <2>2. (\E q \in Pod : pods' = [pods EXCEPT ![x] = q]) /\ UNCHANGED <<pos, job>>
    BY <2>1, EnvironmentSurvives DEF procVars
  <2> QED BY <1>0, <2>1, <2>2
<1>3. CASE \/ Reconcile \/ RejectedWrite \/ SkipStatus
           \/ UpdateStatefulSetStatus \/ StatusConflict
           \/ DeleteControllerRevision \/ SyncError \/ CacheSync \/ Edit
           \/ Restart \/ UNCHANGED vars
  BY <1>3 DEF Reconcile, RejectedWrite, SkipStatus, UpdateStatefulSetStatus,
              StatusConflict, DeleteControllerRevision, SyncError, CacheSync,
              Edit, Restart, vars, apiVars
<1> QED BY <1>1, <1>2, <1>3 DEF Next, Worker

\* What the writes of the reconcile do to the pod they address.
LEMMA WriteEffects ==
  ASSUME TypeOK, NEW o \in Ord, PodWrite(o) \/ InPlaceUpdateFails(o)
  PROVE  \/ pods'[o] = pods[o]
         \/ CreateStatefulPod(o) /\ pods'[o] = FreshPod(newVersionedStatefulSetPod(o))
         \/ /\ UpdateInPlaceReady(o) \/ MarkNotReady(o)
            /\ isCreated(pods[o]) /\ SameCopy(pods[o], pods'[o])
            /\ pods'[o].gate = "True" => UpdateInPlaceReady(o)
         \/ /\ PatchPod(o) /\ isCreated(pods[o])
            /\ pods'[o] = podInPlaceUpdate(pods[o], job.upd)
         \/ /\ \/ DeleteFailedPod(o) \/ TerminateCondemned(o)
               \/ NextUpdate(o) /\ ~shouldDoInPlaceUpdate(o)
               \/ InPlaceWrite(o) /\ ~isInPlaceOnly
            /\ isCreated(pods[o])
            /\ Survives(pods[o], pods'[o])
<1>0. pods \in [Ord -> Pod] /\ pods[o] \in Pod
  BY DEF TypeOK
<1>1. CASE CreateStatefulPod(o)
  BY <1>0, <1>1 DEF CreateStatefulPod
<1>2. CASE UpdateInPlaceReady(o) \/ MarkNotReady(o)
  <2>1. PICK g \in {"True", "False"} : /\ SetGate(o, g)
                                       /\ g = "True" => UpdateInPlaceReady(o)
    BY <1>2 DEF UpdateInPlaceReady, MarkNotReady
  <2>2. pods'[o] = [pods[o] EXCEPT !.gate = g] /\ isCreated(pods[o])
    BY <1>0, <2>1 DEF SetGate, WriteAccepted
  <2>3. SameCopy(pods[o], pods'[o]) /\ pods'[o].gate = g
    BY <1>0, <2>2 DEF SameCopy, Pod
  <2> QED BY <1>2, <2>1, <2>2, <2>3
<1>3. CASE PatchPod(o)
  BY <1>0, <1>3 DEF PatchPod, WriteAccepted
<1>4. ASSUME isCreated(pods[o]),
             \E p \in Deleted(pods[o]) : pods' = [pods EXCEPT ![o] = p]
      PROVE  Survives(pods[o], pods'[o])
  BY <1>0, <1>4, DeletedSurvives
<1>5. CASE DeleteFailedPod(o) \/ TerminateCondemned(o)
  BY <1>4, <1>5 DEF DeleteFailedPod, TerminateCondemned
<1>6. CASE TerminateForUpdate(o)
  BY <1>4, <1>6 DEF TerminateForUpdate, DeleteForUpdate
<1>7. CASE InPlaceUpdateFails(o)
  BY <1>4, <1>7 DEF InPlaceUpdateFails, DeleteForUpdate
<1> QED BY <1>1, <1>2, <1>3, <1>5, <1>6, <1>7 DEF PodWrite

-----------------------------------------------------------------------------
(* In-place updates.                                                        *)

\* The reconcile opens the gate of a pod whose update is through.
LEMMA OpensGate ==
  ASSUME TypeOK, TrackInv, NEW o \in Ord, UpdateInPlaceReady(o)
  PROVE  checkInPlaceUpdateCompleted(pods[o])
<1>1. /\ At("replicas") /\ isCreated(job.snap[o]) /\ isCreated(pods[o])
      /\ NeedsWork(job.snap[o]) /\ ~isFailed(job.snap[o]) /\ ~MustWait(o)
      /\ NextReplica(o)
  BY DEF UpdateInPlaceReady, NextReplica, SetGate, WriteAccepted
<1>2. shouldUpdateInPlaceReady(job.snap[o])
  BY <1>1 DEF NeedsWork, MustWait
<1>3. checkInPlaceUpdateCompleted(job.snap[o]) /\ ~MayBePatched(o)
  BY <1>1, <1>2 DEF shouldUpdateInPlaceReady, MayBePatched, At
<1>4. Follows(o)
  BY <1>1 DEF TrackInv, FollowInv, At
<1> QED BY <1>1, <1>3, <1>4 DEF Follows, SamePod

\* When every reconcile starts from the pods as they are, the readiness gate
\* of a pod is never open while its in-place update is under way, although
\* the reconcile decides on copies and writes the gate and the image in two
\* calls, between which the kubelet, other deletions, errors and restarts
\* may come.
THEOREM GateAlwaysMeansUpdated ==
  ~CacheMayLag => (Spec => []GateMeansUpdated)
<1> SUFFICES ASSUME ~CacheMayLag
             PROVE  Spec => []GateMeansUpdated
  OBVIOUS
<1>1. Init => GateMeansUpdated
  BY DEF Init, GateMeansUpdated, Absent
<1>2. ASSUME TypeOK, TypeOK', TrackInv, GateMeansUpdated, [Next]_vars
      PROVE  GateMeansUpdated'
  <2> SUFFICES ASSUME NEW o \in Ord, pods'[o].gate = "True"
               PROVE  checkInPlaceUpdateCompleted(pods'[o])
    BY DEF GateMeansUpdated
  <2>0. /\ pods[o] \in Pod /\ pods'[o] \in Pod /\ PodShape(pods[o])
        /\ pods[o].gate = "True" => checkInPlaceUpdateCompleted(pods[o])
    BY <1>2 DEF TypeOK, TrackInv, ShapeInv, GateMeansUpdated
  <2>1. CASE pods'[o] = pods[o]
    BY <2>0, <2>1
  <2>2. ASSUME Survives(pods[o], pods'[o])
        PROVE  checkInPlaceUpdateCompleted(pods'[o])
    <3>1. pods[o].gate = "True"
      BY <2>2 DEF Survives, Absent
    <3> QED BY <2>0, <2>2, <3>1, SurvivesShape
  <2>3. CASE PodWrite(o) \/ InPlaceUpdateFails(o)
    <3>1. CASE pods'[o] = FreshPod(newVersionedStatefulSetPod(o))
      BY <3>1 DEF FreshPod, Absent
    <3>2. CASE UpdateInPlaceReady(o) /\ SameCopy(pods[o], pods'[o])
      BY <1>2, <3>2, OpensGate DEF SameCopy, checkInPlaceUpdateCompleted
    <3>3. CASE PatchPod(o) /\ pods'[o] = podInPlaceUpdate(pods[o], job.upd)
      <4>1. pods[o].gate # "True"
        BY <1>2, <3>3 DEF PatchPod, TrackInv, PatchInv
      <4> QED BY <2>0, <3>3, <4>1 DEF podInPlaceUpdate, Pod
    <3> QED BY <1>2, <2>1, <2>2, <2>3, <3>1, <3>2, <3>3, WriteEffects
  <2>4. CASE Kubelet(o) \/ Fault(o)
    <3>1. Survives(pods[o], pods'[o])
      BY <1>2, <2>4, EnvironmentSurvives DEF TypeOK
    <3> QED BY <2>2, <3>1
  <2> QED BY <1>2, <2>1, <2>3, <2>4, WhoWrites
<1> QED BY <1>1, <1>2, TypeCorrect, TrackInvariant, PTL DEF Spec

\* Nor is a pod patched while its last in-place update is under way: the pod
\* has not been patched since the reconcile looked at its copy.
THEOREM NeverPatchedTooEarly ==
  ~CacheMayLag => (Spec => NoPatchBeforeCompleted)
<1> SUFFICES ASSUME ~CacheMayLag
             PROVE  Spec => NoPatchBeforeCompleted
  OBVIOUS
<1> DEFINE P(o) == (/\ pods[o].rev # NoTemplate
                    /\ pods'[o].rev \notin {NoTemplate, pods[o].rev})
                   => checkInPlaceUpdateCompleted(pods[o])
<1>1. ASSUME TypeOK, TrackInv, [Next]_vars, NEW o \in Ord
      PROVE  P(o)
  <2> SUFFICES ASSUME pods[o].rev # NoTemplate,
                      pods'[o].rev \notin {NoTemplate, pods[o].rev}
               PROVE  checkInPlaceUpdateCompleted(pods[o])
    OBVIOUS
  <2>1. ~Survives(pods[o], pods'[o]) /\ ~SameCopy(pods[o], pods'[o])
    BY DEF Survives, SameCopy, Absent
  <2>2. PodWrite(o) \/ InPlaceUpdateFails(o)
    BY <1>1, <2>1, WhoWrites, EnvironmentSurvives DEF TypeOK
  <2>3. ~CreateStatefulPod(o)
    BY <1>1 DEF CreateStatefulPod, TrackInv, ShapeInv, PodShape, Absent
  <2>4. PatchPod(o)
    BY <1>1, <2>1, <2>2, <2>3, WriteEffects
  <2> QED BY <1>1, <2>4, PatchedPod
<1>2. TypeOK /\ TrackInv /\ [Next]_vars => \A o \in Ord : P(o)
  BY <1>1
<1>3. [][\A o \in Ord : P(o)]_vars => NoPatchBeforeCompleted
  BY PTL DEF NoPatchBeforeCompleted
<1> QED BY <1>2, <1>3, TypeCorrect, TrackInvariant, PTL DEF Spec

-----------------------------------------------------------------------------
(* The order of the loops.                                                  *)

\* The part of what a reconcile holds that its decisions depend on.
Held == <<job.set, job.cur, job.upd, job.old, job.snap>>

\* Besides its start and its writes of pods a reconcile ends, goes on to its
\* truncation, or passes over a pod it could not write.
LEMMA Moves ==
  ASSUME TypeOK, [Next]_vars, ~Reconcile,
         \A x \in Ord : ~PodWrite(x) /\ ~InPlaceUpdateFails(x)
  PROVE  \/ pos'.at = "idle" /\ UNCHANGED pods
         \/ /\ pos.at # "idle" /\ pos'.at = "truncate"
            /\ UNCHANGED <<pods, Held>> /\ job'.st = job.st
         \/ /\ UNCHANGED <<pods, Held>>
            /\ job'.st.replicas = job.st.replicas
            /\ job'.st.updated = job.st.updated
            /\ \E t \in Ord : InPlaceWrite(t) /\ pos' = [at |-> "update", i |-> t]
         \/ UNCHANGED <<pos, job>>
<1>0. job \in Job /\ job.st \in Counts
  BY DEF TypeOK, Job
<1>1. ASSUME UNCHANGED pods, pos.at # "idle", NEW D, EndOfSync(D)
      PROVE  \/ pos'.at = "idle" /\ UNCHANGED pods
             \/ /\ pos.at # "idle" /\ pos'.at = "truncate"
                /\ UNCHANGED <<pods, Held>> /\ job'.st = job.st
  BY <1>0, <1>1 DEF EndOfSync, Return, Goto, Job, Held
<1>2. CASE SkipStatus \/ UpdateStatefulSetStatus
  BY <1>1, <1>2, Positions DEF SkipStatus, UpdateStatefulSetStatus, apiVars
<1>3. CASE DeleteControllerRevision
  BY <1>1, <1>3 DEF DeleteControllerRevision, At
<1>4. CASE RejectedWrite
  <2>0. UNCHANGED pods
    BY <1>4 DEF RejectedWrite, apiVars
  <2>1. CASE Return
    BY <2>0, <2>1 DEF Return, Goto
  <2>2. CASE \E t \in Ord : /\ InPlaceWrite(t)
                            /\ job' = [job EXCEPT !.st.current = Acted(t)]
                            /\ Goto("update", t)
    BY <1>0, <2>0, <2>2 DEF Goto, Held, Job, Counts
  <2> QED BY <1>4, <2>1, <2>2 DEF RejectedWrite
<1>5. CASE StatusConflict \/ SyncError \/ Restart
  BY <1>5 DEF StatusConflict, SyncError, Restart, apiVars, Return, Goto, At
<1>6. CASE CacheSync \/ Edit \/ UNCHANGED vars
  BY <1>6 DEF CacheSync, Edit, vars, apiVars, procVars
<1>7. CASE \E o \in Ord : Kubelet(o) \/ Fault(o)
  BY <1>7, EnvironmentSurvives DEF procVars
<1> QED BY <1>2, <1>3, <1>4, <1>5, <1>6, <1>7 DEF Next, Worker

\* With OrderedReady a reconcile terminates one pod of the scale down, and
\* with OnDelete it never enters the update loop.
StageInv ==
  /\ At("condemned") => ~monotonic
  /\ pos.at \in {"update", "patch"} => job.set.updateType # "OnDelete"

\* Every step keeps the loops in their order.
LEMMA StageStep ==
  ASSUME TypeOK, StageInv, [Next]_vars
  PROVE  StageInv'
<1>1. ASSUME NEW x, InPlaceWrite(x) \/ NextUpdate(x)
      PROVE  job.set.updateType # "OnDelete"
  BY <1>1 DEF InPlaceWrite, NextUpdate, Updating, StageInv, At
<1>2. CASE Reconcile
  BY <1>2 DEF Reconcile, UpdateStatefulSet, Goto, StageInv, At
<1>3. CASE \E x \in Ord : PodWrite(x) \/ InPlaceUpdateFails(x)
  <2>1. PICK x \in Ord : PodWrite(x) \/ InPlaceUpdateFails(x)
    BY <1>3
  <2>2. job'.set = job.set
    BY <2>1, PodWriteFrame DEF TypeOK
  <2>3. CASE DeleteFailedPod(x) \/ CreateStatefulPod(x) \/ UpdateInPlaceReady(x)
    BY <2>3 DEF DeleteFailedPod, CreateStatefulPod, UpdateInPlaceReady, Goto,
                StageInv, At
  <2>4. CASE TerminateCondemned(x)
    <3>1. \/ pos'.at = "status"
          \/ pos'.at = "condemned" /\ ~monotonic
      BY <2>4 DEF TerminateCondemned, Goto
    <3> QED BY <2>2, <3>1 DEF StageInv, At, monotonic
  <2>5. CASE \/ TerminateForUpdate(x) \/ MarkNotReady(x) \/ PatchPod(x)
             \/ InPlaceUpdateFails(x)
    <3>1. InPlaceWrite(x) \/ NextUpdate(x)
      BY <2>5 DEF TerminateForUpdate, MarkNotReady, PatchPod,
                  InPlaceUpdateFails, InPlaceWrite
    <3>2. pos'.at \in {"update", "patch"}
      BY <2>5 DEF TerminateForUpdate, MarkNotReady, PatchPod,
                  InPlaceUpdateFails, DeleteForUpdate, Goto
    <3> QED BY <1>1, <2>2, <3>1, <3>2 DEF StageInv, At
  <2> QED BY <2>1, <2>3, <2>4, <2>5 DEF PodWrite
<1>4. CASE pos'.at = "idle" \/ pos'.at = "truncate"
  BY <1>4 DEF StageInv, At
<1>5. CASE /\ UNCHANGED <<pods, Held>>
           /\ \E t \in Ord : InPlaceWrite(t) /\ pos' = [at |-> "update", i |-> t]
  BY <1>1, <1>5 DEF Held, StageInv, At
<1>6. CASE UNCHANGED <<pos, job>>
  BY <1>6 DEF StageInv, At, monotonic
<1> QED BY <1>2, <1>3, <1>4, <1>5, <1>6, Moves

\* The loops keep their order in every reachable state.
LEMMA StageInvariant == Spec => []StageInv
<1>1. Init => StageInv
  BY DEF Init, StageInv, At
<1> QED BY <1>1, StageStep, TypeCorrect, PTL DEF Spec

\* A deletion by the reconcile of a pod that was not on its way out.
LEMMA Kills ==
  ASSUME TypeOK, TrackInv, [Next]_vars, NEW o \in Ord, ControllerKills(o)
  PROVE  /\ Survives(pods[o], pods'[o])
         /\ pos.at # "idle" /\ isCreated(job.snap[o]) /\ Follows(o)
         /\ \/ o \in Replicas /\ isFailed(job.snap[o])
            \/ TerminateCondemned(o)
            \/ NextUpdate(o) /\ ~shouldDoInPlaceUpdate(o)
            \/ InPlaceWrite(o) /\ ~isInPlaceOnly /\ o \in Replicas
<1>1. PodWrite(o) \/ InPlaceUpdateFails(o)
  BY WhoWrites DEF ControllerKills
<1>2. /\ ~SameCopy(pods[o], pods'[o])
      /\ pods'[o] # podInPlaceUpdate(pods[o], job.upd)
  BY DEF ControllerKills, SameCopy, isCreated, isTerminating,
         podInPlaceUpdate, TypeOK, Pod
<1>3. ~CreateStatefulPod(o)
  BY DEF CreateStatefulPod, ControllerKills
<1>4. /\ \/ DeleteFailedPod(o) \/ TerminateCondemned(o)
         \/ NextUpdate(o) /\ ~shouldDoInPlaceUpdate(o)
         \/ InPlaceWrite(o) /\ ~isInPlaceOnly
      /\ Survives(pods[o], pods'[o])
  BY <1>1, <1>2, <1>3, WriteEffects DEF ControllerKills
<1>5. pos.at # "idle"
  BY <1>1, PodWriteFrame DEF TypeOK
<1>6. Follows(o)
  BY <1>5 DEF TrackInv, FollowInv, At
<1>7. isCreated(job.snap[o])
  BY <1>6 DEF Follows, ControllerKills
<1>8. DeleteFailedPod(o) => o \in Replicas /\ isFailed(job.snap[o])
  BY DEF DeleteFailedPod, NextReplica
<1>9. InPlaceWrite(o) => o \in Replicas
  BY DEF InPlaceWrite, NextUpdate, TrackInv, PatchInv
<1> QED BY <1>4, <1>5, <1>6, <1>7, <1>8, <1>9

\* With OrderedReady a pod is terminated for scale down only when no higher
\* ordinal is left in the API server, although the reconcile looks at its
\* copies only: a pod it has no copy of is a replica.
THEOREM AlwaysScalesDownInOrder ==
  ~CacheMayLag => (Spec => ScaleDownInOrder)
<1> SUFFICES ASSUME ~CacheMayLag
             PROVE  Spec => ScaleDownInOrder
  OBVIOUS
<1> DEFINE P(o) == monotonic /\ ControllerKills(o) /\ o \notin Replicas =>
                     \A q \in Ord : q > o => ~isCreated(pods[q])
<1>1. ASSUME TypeOK, TrackInv, StageInv, [Next]_vars, NEW o \in Ord
      PROVE  P(o)
  <2> SUFFICES ASSUME monotonic, ControllerKills(o), o \notin Replicas,
                      NEW q \in Ord, q > o
               PROVE  ~isCreated(pods[q])
    OBVIOUS
  <2>1. TerminateCondemned(o)
    BY <1>1, Kills DEF NextUpdate
  <2>2. At("replicas")
    BY <1>1, <2>1 DEF TerminateCondemned, NextCondemned, Scaling, StageInv
  <2>3. q < Below
    BY <2>2, ReplicasAssumption DEF Below, At, Ord
  <2>4. ~Condemned(q)
    BY <2>1, <2>3 DEF TerminateCondemned, NextCondemned
  <2>5. q \notin Replicas
    <3>1. job.set.replicas \in Int
      BY <1>1, ReplicasAssumption DEF TypeOK, Job, SpecType
    <3> QED BY <3>1, ReplicasAssumption DEF Replicas, Ord
  <2>6. Follows(q)
    BY <1>1, <2>2 DEF TrackInv, FollowInv, At
  <2> QED BY <2>4, <2>5, <2>6 DEF Condemned, Follows
<1>2. TypeOK /\ TrackInv /\ StageInv /\ [Next]_vars => \A o \in Ord : P(o)
  BY <1>1
<1>3. [][\A o \in Ord : P(o)]_vars => ScaleDownInOrder
  BY PTL DEF ScaleDownInOrder
<1> QED BY <1>2, <1>3, TypeCorrect, TrackInvariant, StageInvariant, PTL DEF Spec

\* With OnDelete the controller leaves every replica alone that has not
\* failed, whatever its copy of the pod says meanwhile.
THEOREM AlwaysManualUpdates ==
  ~CacheMayLag => (Spec => OnlyManualUpdates)
<1> SUFFICES ASSUME ~CacheMayLag
             PROVE  Spec => OnlyManualUpdates
  OBVIOUS
<1> DEFINE P(o) == (/\ job.set.updateType = "OnDelete" /\ pos' # pos
                    /\ isCreated(pods[o]) /\ ~isFailed(pods[o])) =>
                      /\ pods'[o].rev = pods[o].rev
                      /\ pods'[o].term = pods[o].term
<1>1. ASSUME TypeOK, TrackInv, StageInv, [Next]_vars, NEW o \in Replicas
      PROVE  P(o)
  <2> SUFFICES ASSUME job.set.updateType = "OnDelete", pos' # pos,
                      isCreated(pods[o]), ~isFailed(pods[o]),
                      pods'[o] # pods[o]
               PROVE  /\ pods'[o].rev = pods[o].rev
                      /\ pods'[o].term = pods[o].term
    OBVIOUS
  <2>0. o \in Ord
    BY DEF Replicas
  <2>1. PodWrite(o) \/ InPlaceUpdateFails(o)
    BY <1>1, <2>0, WhoWrites
  <2>2. ~CreateStatefulPod(o)
    BY DEF CreateStatefulPod
  <2>3. ~PatchPod(o) /\ ~NextUpdate(o) /\ ~InPlaceWrite(o)
    BY <1>1 DEF PatchPod, StageInv, At, NextUpdate, Updating, InPlaceWrite
  <2>4. ~TerminateCondemned(o)
    BY DEF TerminateCondemned, NextCondemned, Condemned
  <2>5. ~DeleteFailedPod(o)
    <3> SUFFICES ASSUME DeleteFailedPod(o) PROVE FALSE
      OBVIOUS
    <3>1. At("replicas") /\ isFailed(job.snap[o]) /\ isCreated(job.snap[o])
      BY DEF DeleteFailedPod, NextReplica, isFailed, isCreated
    <3>2. Follows(o)
      BY <1>1, <2>0, <3>1 DEF TrackInv, FollowInv, At
    <3> QED BY <3>1, <3>2 DEF Follows, SamePod
  <2>6. SameCopy(pods[o], pods'[o])
    BY <1>1, <2>0, <2>1, <2>2, <2>3, <2>4, <2>5, WriteEffects
  <2> QED BY <2>6 DEF SameCopy
<1>2. TypeOK /\ TrackInv /\ StageInv /\ [Next]_vars => \A o \in Replicas : P(o)
  BY <1>1
<1>3. [][\A o \in Replicas : P(o)]_vars => OnlyManualUpdates
  BY PTL DEF OnlyManualUpdates
<1> QED BY <1>2, <1>3, TypeCorrect, TrackInvariant, StageInvariant, PTL DEF Spec
=============================================================================
