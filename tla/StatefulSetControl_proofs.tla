---------------------- MODULE StatefulSetControl_proofs ----------------------
(***************************************************************************)
(* Theorems about StatefulSetControl, for every value of its constants.    *)
(***************************************************************************)
EXTENDS StatefulSetControl, FiniteSetTheorems, TLAPS

-----------------------------------------------------------------------------
(* Typing of the operators the actions are built from.                      *)

\* The empty values are pods, jobs and expectations.
LEMMA EmptyTypes ==
  /\ Absent \in Pod
  /\ NoJob \in Job
  /\ NoExpectation \in [rev : MaybeTemplate, ords : SUBSET Ord]
<1>1. Absent \in Pod
  BY DEF Absent, Pod, Phases, MaybeTemplate
<1>2. NoJob \in Job
  BY <1>1, SpecsAssumption DEF NoJob, Job, MaybeTemplate, Counts
<1>3. NoExpectation \in [rev : MaybeTemplate, ords : SUBSET Ord]
  BY DEF NoExpectation, MaybeTemplate
<1> QED BY <1>1, <1>2, <1>3

\* A created pod is a pod.
LEMMA FreshPodType ==
  ASSUME NEW rev \in MaybeTemplate
  PROVE  FreshPod(rev) \in Pod
BY EmptyTypes DEF FreshPod, Absent, Pod, Phases, MaybeTemplate

\* Whatever the API server makes of a deleted pod is a pod.
LEMMA DeletedType ==
  ASSUME NEW p \in Pod, NEW q \in Deleted(p)
  PROVE  q \in Pod
<1>1. q = Absent \/ q = [p EXCEPT !.term = TRUE]
  BY DEF Deleted
<1> QED BY <1>1, EmptyTypes DEF Pod

\* Filling in the default partition keeps the type of a spec.
LEMMA DefaultType ==
  ASSUME NEW s \in SpecType
  PROVE  /\ checkSetDefaultVariable(s) \in SpecType
         /\ checkSetDefaultVariable(s).template = s.template
BY DEF checkSetDefaultVariable, SpecType

\* The counts of a list of pods are integers.
LEMMA CountsType ==
  ASSUME NEW cur, NEW upd, NEW snap
  PROVE  InitialCounts(cur, upd, snap) \in Counts
<1>1. IsFiniteSet(Ord)
  BY ReplicasAssumption, FS_Interval DEF Ord
<1>2. \A S \in SUBSET Ord : Cardinality(S) \in Nat
  BY <1>1, FS_Subset, FS_CardinalityType
<1> DEFINE live == {o \in Ord : isCreated(snap[o]) /\ ~isTerminating(snap[o])}
<1>3. /\ Cardinality({o \in Ord : isCreated(snap[o])}) \in Int
      /\ Cardinality({o \in Ord : isRunningAndReady(snap[o])}) \in Int
      /\ Cardinality({o \in live : snap[o].rev = cur}) \in Int
      /\ Cardinality({o \in live : snap[o].rev = upd}) \in Int
  BY <1>2
<1> QED BY <1>3 DEF InitialCounts, Counts

\* Counting a created or a deleted pod keeps the counts integers.
LEMMA AdjustType ==
  ASSUME NEW st \in Counts, NEW rev, NEW n \in Int, NEW r \in Int
  PROVE  Adjust(st, rev, n, r) \in Counts
BY DEF Adjust, Counts

\* The completed status has the type of a status.
LEMMA NewStatusType ==
  ASSUME job \in Job
  PROVE  NewStatus \in StatusType /\ NewStatus.current \in {job.cur, job.upd}
<1> DEFINE s == [current |-> job.cur, update |-> job.upd,
                 st |-> job.st, observed |-> job.gen]
<1>1. s \in StatusType
  BY DEF Job, StatusType
<1>2. CASE UpdateComplete(s.st)
  <2>1. NewStatus = [s EXCEPT !.current = s.update, !.st.current = s.st.updated]
    BY <1>2 DEF NewStatus, completeRollingUpdate
  <2> QED BY <2>1, <1>1 DEF StatusType, Counts
<1>3. CASE ~UpdateComplete(s.st)
  BY <1>3, <1>1 DEF NewStatus, completeRollingUpdate
<1> QED BY <1>2, <1>3

\* The revision of a pod the controller makes is one of the reconcile's two.
LEMMA VersionedRevision ==
  ASSUME NEW o
  PROVE  newVersionedStatefulSetPod(o) \in {job.cur, job.upd}
BY DEF newVersionedStatefulSetPod

\* Observing and recording expectations keeps their type.
LEMMA ExpectationTypes ==
  ASSUME expected \in [rev : MaybeTemplate, ords : SUBSET Ord],
         NEW upd \in MaybeTemplate
  PROVE  /\ \A snap : ObserveUpdated(upd, snap) \in
                        [rev : MaybeTemplate, ords : SUBSET Ord]
         /\ \A o \in Ord : ExpectUpdated(upd, o) \in
                        [rev : MaybeTemplate, ords : SUBSET Ord]
<1>1. ASSUME NEW S \in SUBSET Ord
      PROVE  Expect(upd, S) \in [rev : MaybeTemplate, ords : SUBSET Ord]
  BY EmptyTypes DEF Expect
<1>2. ASSUME NEW snap
      PROVE  ObserveUpdated(upd, snap) \in
               [rev : MaybeTemplate, ords : SUBSET Ord]
  <2>1. Expect(upd, {o \in expected.ords : snap[o].rev # upd}) \in
          [rev : MaybeTemplate, ords : SUBSET Ord]
    BY <1>1
  <2> QED BY <2>1, EmptyTypes DEF ObserveUpdated
<1>3. ASSUME NEW o \in Ord
      PROVE  ExpectUpdated(upd, o) \in [rev : MaybeTemplate, ords : SUBSET Ord]
  BY <1>1 DEF ExpectUpdated
<1> QED BY <1>2, <1>3

\* The updates a reconcile makes to what it holds keep the type of a job.
LEMMA JobUpdates ==
  ASSUME job \in Job, NEW o \in Ord
  PROVE  /\ \A p \in Pod, c \in Counts :
              [job EXCEPT !.snap[o] = p, !.st = c] \in Job
         /\ \A c \in Counts : [job EXCEPT !.st = c] \in Job
         /\ \A g \in {"Unset", "False", "True"} :
              [job EXCEPT !.snap[o].gate = g] \in Job
         /\ \A n \in Int : [job EXCEPT !.st.current = n] \in Job
         /\ \A D \in SUBSET Templates : [job EXCEPT !.doomed = D] \in Job
         /\ job.st \in Counts
         /\ job.snap[o] \in Pod
<1>1. /\ job.st \in Counts
      /\ job.snap \in [Ord -> Pod]
      /\ job.snap[o] \in Pod
  BY DEF Job
<1>2. ASSUME NEW p \in Pod, NEW c \in Counts
      PROVE  [job EXCEPT !.snap[o] = p, !.st = c] \in Job
  BY DEF Job
<1>3. ASSUME NEW c \in Counts PROVE [job EXCEPT !.st = c] \in Job
  BY DEF Job
<1>4. ASSUME NEW g \in {"Unset", "False", "True"}
      PROVE  [job EXCEPT !.snap[o].gate = g] \in Job
  <2>1. [job.snap[o] EXCEPT !.gate = g] \in Pod
    BY <1>1 DEF Pod
  <2>2. [job.snap EXCEPT ![o] = [job.snap[o] EXCEPT !.gate = g]] \in [Ord -> Pod]
    BY <1>1, <2>1
  <2>3. [job EXCEPT !.snap = [job.snap EXCEPT
                                ![o] = [job.snap[o] EXCEPT !.gate = g]]] \in Job
    BY <2>2 DEF Job
  <2> QED BY <2>3
<1>5. ASSUME NEW n \in Int PROVE [job EXCEPT !.st.current = n] \in Job
  <2>1. [job.st EXCEPT !.current = n] \in Counts
    BY <1>1 DEF Counts
  <2> QED BY <2>1 DEF Job
<1>6. ASSUME NEW D \in SUBSET Templates PROVE [job EXCEPT !.doomed = D] \in Job
  BY DEF Job
<1> QED BY <1>1, <1>2, <1>3, <1>4, <1>5, <1>6

-----------------------------------------------------------------------------
(* Type correctness.                                                        *)

\* Returning, or going on to the truncation, keeps position and job typed.
LEMMA EndTypes ==
  ASSUME TypeOK
  PROVE  /\ Return => /\ pos' \in [at : Stages, i : 0 .. MaxReplicas]
                      /\ job' \in Job
         /\ \A D \in SUBSET Templates :
              EndOfSync(D) => /\ pos' \in [at : Stages, i : 0 .. MaxReplicas]
                              /\ job' \in Job
<1>1. Return => /\ pos' \in [at : Stages, i : 0 .. MaxReplicas]
                /\ job' \in Job
  BY EmptyTypes, ReplicasAssumption DEF Return, Goto, Stages
<1>2. ASSUME NEW D \in SUBSET Templates, EndOfSync(D)
      PROVE  /\ pos' \in [at : Stages, i : 0 .. MaxReplicas]
             /\ job' \in Job
  <2>1. CASE D = {}
    BY <2>1, <1>1, <1>2 DEF EndOfSync
  <2>2. CASE D # {}
    <3>1. job' \in Job
      BY <1>2, <2>2 DEF EndOfSync, TypeOK, Job
    <3>2. pos' \in [at : Stages, i : 0 .. MaxReplicas]
      BY <1>2, <2>2, ReplicasAssumption DEF EndOfSync, Goto, Stages
    <3> QED BY <3>1, <3>2
  <2> QED BY <2>1, <2>2
<1> QED BY <1>1, <1>2

\* The controller's writes of a pod keep the types.
LEMMA PodWriteTypes ==
  ASSUME TypeOK, NEW o \in Ord, PodWrite(o)
  PROVE  TypeOK'
<1> USE DEF TypeOK
<1>0. /\ o \in 0 .. MaxReplicas
      /\ o + 1 \in 0 .. MaxReplicas
      /\ 0 \in 0 .. MaxReplicas
      /\ pods[o] \in Pod
      /\ job.cur \in MaybeTemplate
      /\ job.upd \in MaybeTemplate
      /\ job.st \in Counts
  BY ReplicasAssumption DEF Ord, Job
<1>1. Acted(o) \in Int
  BY <1>0 DEF Acted, Counts
<1>2. CASE DeleteFailedPod(o)
  <2>1. pods' \in [Ord -> Pod]
    BY <1>2, DeletedType, <1>0 DEF DeleteFailedPod
  <2>2. job' \in Job
    <3>1. Adjust(job.st, job.snap[o].rev, -1, -1) \in Counts
      BY <1>0, AdjustType
    <3> QED BY <1>2, <3>1, JobUpdates, EmptyTypes DEF DeleteFailedPod
  <2>3. pos' \in [at : Stages, i : 0 .. MaxReplicas]
    BY <1>2, <1>0 DEF DeleteFailedPod, Goto, Stages
  <2> QED BY <1>2, <2>1, <2>2, <2>3 DEF DeleteFailedPod, queueVars, budgetVars
<1>3. CASE CreateStatefulPod(o)
  <2> DEFINE rev == newVersionedStatefulSetPod(o)
  <2>1. FreshPod(rev) \in Pod
    BY VersionedRevision, FreshPodType, <1>0
  <2>2. pods' \in [Ord -> Pod]
    BY <1>3, <2>1 DEF CreateStatefulPod
  <2>3. Adjust(job.st, rev, 1, 1) \in Counts
    BY <1>0, AdjustType
  <2>4. job' = [job EXCEPT !.snap[o] = FreshPod(rev),
                           !.st = Adjust(job.st, rev, 1, 1)]
    BY <1>3 DEF CreateStatefulPod
  <2>5. job' \in Job
    BY <2>1, <2>3, <2>4, JobUpdates
  <2>6. pos' \in [at : Stages, i : 0 .. MaxReplicas]
    BY <1>3, <1>0 DEF CreateStatefulPod, Goto, Stages
  <2> QED BY <1>3, <2>2, <2>5, <2>6 DEF CreateStatefulPod, queueVars, budgetVars
<1>4. ASSUME NEW g \in {"False", "True"}, SetGate(o, g)
      PROVE  pods' \in [Ord -> Pod] /\ job' \in Job
  <2>1. [pods[o] EXCEPT !.gate = g] \in Pod
    BY <1>0 DEF Pod
  <2>2. pods' = [pods EXCEPT ![o] = [pods[o] EXCEPT !.gate = g]]
    BY <1>4 DEF SetGate
  <2>3. job' \in Job
    BY <1>4, JobUpdates DEF SetGate
  <2> QED BY <2>1, <2>2, <2>3
<1>5. CASE UpdateInPlaceReady(o)
  <2>1. pods' \in [Ord -> Pod] /\ job' \in Job
    BY <1>5, <1>4 DEF UpdateInPlaceReady
  <2>2. pos' \in [at : Stages, i : 0 .. MaxReplicas]
    BY <1>5, <1>0 DEF UpdateInPlaceReady, Goto, Stages
  <2> QED BY <1>5, <2>1, <2>2 DEF UpdateInPlaceReady, queueVars, budgetVars
<1>6. CASE TerminateCondemned(o)
  <2>1. pods' \in [Ord -> Pod]
    BY <1>6, DeletedType, <1>0 DEF TerminateCondemned
  <2>2. job' \in Job
    <3>1. Adjust(job.st, job.snap[o].rev, -1, 0) \in Counts
      BY <1>0, AdjustType
    <3> QED BY <1>6, <3>1, JobUpdates DEF TerminateCondemned
  <2>3. pos' \in [at : Stages, i : 0 .. MaxReplicas]
    BY <1>6, <1>0 DEF TerminateCondemned, Goto, Stages
  <2> QED BY <1>6, <2>1, <2>2, <2>3
          DEF TerminateCondemned, queueVars, budgetVars
<1>7. CASE TerminateForUpdate(o)
  <2>1. pods' \in [Ord -> Pod]
    BY <1>7, DeletedType, <1>0 DEF TerminateForUpdate, DeleteForUpdate
  <2>2. job' \in Job
    BY <1>7, <1>1, JobUpdates DEF TerminateForUpdate, DeleteForUpdate
  <2>3. pos' \in [at : Stages, i : 0 .. MaxReplicas]
    BY <1>7, <1>0 DEF TerminateForUpdate, DeleteForUpdate, Goto, Stages
  <2> QED BY <1>7, <2>1, <2>2, <2>3
          DEF TerminateForUpdate, queueVars, budgetVars
<1>8. CASE MarkNotReady(o)
  <2>1. pods' \in [Ord -> Pod] /\ job' \in Job
    BY <1>8, <1>4 DEF MarkNotReady
  <2>2. pos' \in [at : Stages, i : 0 .. MaxReplicas]
    BY <1>8, <1>0 DEF MarkNotReady, Goto, Stages
  <2> QED BY <1>8, <2>1, <2>2 DEF MarkNotReady, queueVars, budgetVars
<1>9. CASE PatchPod(o)
  <2>1. podInPlaceUpdate(pods[o], job.upd) \in Pod
    BY <1>0 DEF podInPlaceUpdate, Pod
  <2>2. pods' \in [Ord -> Pod]
    BY <1>9, <2>1 DEF PatchPod
  <2>3. job' \in Job
    BY <1>9, <1>1, JobUpdates DEF PatchPod
  <2>4. pos' \in [at : Stages, i : 0 .. MaxReplicas]
    BY <1>9, <1>0 DEF PatchPod, Goto, Stages
  <2>5. expected' \in [rev : MaybeTemplate, ords : SUBSET Ord]
    BY <1>9, <1>0, ExpectationTypes DEF PatchPod
  <2> QED BY <1>9, <2>2, <2>3, <2>4, <2>5 DEF PatchPod, queueVars, budgetVars
<1> QED BY <1>2, <1>3, <1>5, <1>6, <1>7, <1>8, <1>9 DEF PodWrite

\* So does the start of a reconcile.
LEMMA ReconcileTypes ==
  ASSUME TypeOK, Reconcile
  PROVE  TypeOK'
<1> USE DEF TypeOK
<1> DEFINE set == checkSetDefaultVariable(spec)
           upd == set.template
           cur == currentRevision(upd)
<1>1. set \in SpecType /\ upd \in Templates
  BY DefaultType DEF SpecType
<1>2. upd \in MaybeTemplate /\ cur \in MaybeTemplate
  BY <1>1 DEF currentRevision, StatusType, MaybeTemplate
<1>3. revision' \in [Templates -> Nat] /\ errors' \in Nat
  BY <1>1 DEF Reconcile, UpdateStatefulSet, getStatefulSetRevisions,
              CreateControllerRevision, UpdateControllerRevision, nextRevision
<1>4. expected' \in [rev : MaybeTemplate, ords : SUBSET Ord]
  BY <1>2, ExpectationTypes DEF Reconcile, UpdateStatefulSet
<1>5. job' \in Job
  <2>1. InitialCounts(cur, upd, cache) \in Counts
    BY CountsType
  <2>2. truncateHistory(cur, upd, cache) \in SUBSET Templates
    BY DEF truncateHistory, History
  <2>3. ListControllerRevisions \in SUBSET Templates
    BY DEF ListControllerRevisions
  <2>4. job' = [set |-> set, gen |-> generation, cur |-> cur, upd |-> upd,
                old |-> ListControllerRevisions,
                snap |-> cache, st |-> InitialCounts(cur, upd, cache),
                doomed |-> truncateHistory(cur, upd, cache)]
    BY DEF Reconcile, UpdateStatefulSet
  <2> HIDE DEF set, upd, cur
  <2> QED BY <1>1, <1>2, <2>1, <2>2, <2>3, <2>4 DEF Job
<1>6. pos' \in [at : Stages, i : 0 .. MaxReplicas]
  BY ReplicasAssumption DEF Reconcile, UpdateStatefulSet, Goto, Stages
<1>7. queued' = FALSE /\ UNCHANGED <<spec, generation, status, pods, cache,
                                     faults, restarts>>
  BY DEF Reconcile, UpdateStatefulSet
<1> QED BY <1>3, <1>4, <1>5, <1>6, <1>7

\* Every step keeps the types.
LEMMA TypeStep ==
  ASSUME TypeOK, [Next]_vars
  PROVE  TypeOK'
<1> USE DEF TypeOK
<1>0. job.doomed \in SUBSET Templates
  BY DEF Job
<1>1. CASE Reconcile
  BY <1>1, ReconcileTypes
<1>2. CASE \E o \in Ord : PodWrite(o)
  BY <1>2, PodWriteTypes
<1>3. ASSUME NEW t \in Ord
      PROVE  /\ t \in 0 .. MaxReplicas
             /\ Acted(t) \in Int
             /\ [job EXCEPT !.st.current = Acted(t)] \in Job
  <2>1. t \in 0 .. MaxReplicas /\ job.st \in Counts
    BY ReplicasAssumption DEF Ord, Job
  <2>2. Acted(t) \in Int
    BY <2>1 DEF Acted, Counts
  <2> QED BY <2>1, <2>2, JobUpdates
<1>4. CASE RejectedWrite
  <2>1. CASE Return
    BY <1>4, <2>1, EndTypes DEF RejectedWrite, apiVars, queueVars, budgetVars
  <2>2. CASE \E t \in Ord : /\ job' = [job EXCEPT !.st.current = Acted(t)]
                            /\ Goto("update", t)
    <3>1. job' \in Job /\ pos' \in [at : Stages, i : 0 .. MaxReplicas]
      BY <2>2, <1>3 DEF Goto, Stages
    <3> QED BY <1>4, <3>1 DEF RejectedWrite, apiVars, queueVars, budgetVars
  <2> QED BY <1>4, <2>1, <2>2 DEF RejectedWrite
<1>5. CASE SkipStatus \/ StatusConflict
  <2>1. pos' \in [at : Stages, i : 0 .. MaxReplicas] /\ job' \in Job
    BY <1>5, <1>0, EndTypes DEF SkipStatus, StatusConflict
  <2> QED BY <1>5, <2>1
          DEF SkipStatus, StatusConflict, apiVars, queueVars, budgetVars
<1>6. CASE UpdateStatefulSetStatus
  <2>1. pos' \in [at : Stages, i : 0 .. MaxReplicas] /\ job' \in Job
    BY <1>6, <1>0, EndTypes DEF UpdateStatefulSetStatus
  <2>2. status' \in StatusType
    BY <1>6, NewStatusType DEF UpdateStatefulSetStatus
  <2> QED BY <1>6, <2>1, <2>2 DEF UpdateStatefulSetStatus, budgetVars
<1>7. CASE DeleteControllerRevision
  <2>1. PICK t \in job.doomed :
               /\ revision' = [revision EXCEPT ![t] = 0]
               /\ EndOfSync(job.doomed \ {t})
               /\ UNCHANGED <<spec, generation, status, pods, queueVars,
                              expected, budgetVars>>
    BY <1>7 DEF DeleteControllerRevision
  <2>2. job.doomed \ {t} \in SUBSET Templates
    BY <1>0
  <2>3. pos' \in [at : Stages, i : 0 .. MaxReplicas] /\ job' \in Job
    BY <2>1, <2>2, EndTypes
  <2>4. revision' \in [Templates -> Nat]
    BY <2>1
  <2> QED BY <2>1, <2>3, <2>4 DEF queueVars, budgetVars
<1>8. CASE SyncError
  <2>0. /\ errors' \in Nat
        /\ UNCHANGED <<spec, generation, status, pods, revision, cache,
                       expected, faults, restarts>>
    BY <1>8 DEF SyncError, apiVars
  <2>1. CASE Return /\ UNCHANGED queued
    BY <2>0, <2>1, EndTypes
  <2>2. CASE queued' = FALSE /\ UNCHANGED <<pos, job>>
    BY <2>0, <2>2
  <2> QED BY <1>8, <2>1, <2>2 DEF SyncError
<1>9. CASE \E t \in Ord : InPlaceUpdateFails(t)
  <2>1. PICK t \in Ord : InPlaceUpdateFails(t)
    BY <1>9
  <2>2. pods' \in [Ord -> Pod]
    BY <2>1, DeletedType DEF InPlaceUpdateFails, DeleteForUpdate
  <2>3. job' \in Job /\ pos' \in [at : Stages, i : 0 .. MaxReplicas]
    BY <2>1, <1>3 DEF InPlaceUpdateFails, DeleteForUpdate, Goto, Stages
  <2> QED BY <2>1, <2>2, <2>3 DEF InPlaceUpdateFails, queueVars
<1>10. CASE CacheSync
  BY <1>10 DEF CacheSync, apiVars, procVars, budgetVars
<1>11. CASE Edit
  BY <1>11, SpecsAssumption DEF Edit, procVars, budgetVars
<1>12. CASE Restart
  BY <1>12, EndTypes, EmptyTypes DEF Restart, apiVars
<1>13. ASSUME NEW o \in Ord, NEW p \in Pod, SetPod(o, p),
              faults' \in Nat, UNCHANGED <<errors, restarts>>
       PROVE  TypeOK'
  BY <1>13 DEF SetPod, queueVars, procVars
<1>14. CASE \E o \in Ord : Kubelet(o)
  <2>1. PICK o \in Ord : Kubelet(o)
    BY <1>14
  <2>2. UNCHANGED <<faults, errors, restarts>>
    BY <2>1 DEF Kubelet, KubeletStart, KubeletReady, KubeletUnready,
                KubeletRemove, budgetVars
  <2>3. \E p \in Pod : SetPod(o, p)
    <3>0. pods[o] \in Pod
      OBVIOUS
    <3>1. CASE KubeletStart(o)
      <4>1. [pods[o] EXCEPT !.phase = "NotReady", !.image = pods[o].rev] \in Pod
        BY <3>0 DEF Pod, Phases
      <4> QED BY <3>1, <4>1 DEF KubeletStart
    <3>2. CASE KubeletReady(o)
      <4>1. [pods[o] EXCEPT !.phase = "Ready"] \in Pod
        BY <3>0 DEF Pod, Phases
      <4> QED BY <3>2, <4>1 DEF KubeletReady
    <3>3. CASE KubeletUnready(o)
      <4>1. [pods[o] EXCEPT !.phase = "NotReady"] \in Pod
        BY <3>0 DEF Pod, Phases
      <4> QED BY <3>3, <4>1 DEF KubeletUnready
    <3>4. CASE KubeletRemove(o)
      BY <3>4, EmptyTypes DEF KubeletRemove
    <3> QED BY <2>1, <3>1, <3>2, <3>3, <3>4 DEF Kubelet
  <2> QED BY <2>2, <2>3, <1>13
<1>15. CASE \E o \in Ord : Fault(o)
  <2>1. PICK o \in Ord : Fault(o)
    BY <1>15
  <2>2. faults' \in Nat /\ UNCHANGED <<errors, restarts>>
    BY <2>1 DEF Fault
  <2>3. \E p \in Pod : SetPod(o, p)
    <3>1. /\ pods[o] \in Pod
          /\ [pods[o] EXCEPT !.phase = "Failed"] \in Pod
          /\ [pods[o] EXCEPT !.phase = "NotReady"] \in Pod
      BY DEF Pod, Phases
    <3> QED BY <2>1, <3>1, DeletedType DEF Fault
  <2> QED BY <2>2, <2>3, <1>13
<1>16. CASE UNCHANGED vars
  BY <1>16 DEF vars, apiVars, queueVars, procVars, budgetVars
<1> QED BY <1>1, <1>2, <1>4, <1>5, <1>6, <1>7, <1>8, <1>9, <1>10, <1>11,
           <1>12, <1>14, <1>15, <1>16 DEF Next, Worker

\* The initial state has the types.
LEMMA TypeInit == Init => TypeOK
BY EmptyTypes, SpecsAssumption, ReplicasAssumption
   DEF Init, TypeOK, StatusType, MaybeTemplate, Counts, NoJob, Stages

\* Every reachable state of the control loop is well typed: in particular no
\* loop of a reconcile runs past an ordinal and no revision name is invented.
THEOREM TypeCorrect == Spec => []TypeOK
BY TypeInit, TypeStep, PTL DEF Spec

-----------------------------------------------------------------------------
(* The current revision is kept.  CurrentRevisionKept alone is not          *)
(* inductive: a status write stores a revision the reconcile chose before,  *)
(* and the truncation after it deletes what the reconcile marked before.    *)
(* So the two revisions a reconcile holds exist, and are not marked, for as *)
(* long as it runs; and until its status write the current one is the       *)
(* status's, if there is one.                                               *)

JobRevisionsKept ==
  /\ job.cur \in Templates /\ job.upd \in Templates
  /\ revision[job.cur] > 0 /\ revision[job.upd] > 0
  /\ job.cur \notin job.doomed /\ job.upd \notin job.doomed
  /\ status.current \in {NoTemplate, job.cur, job.upd}
  /\ ~At("truncate") => status.current \in {NoTemplate, job.cur}

RevisionInv == CurrentRevisionKept /\ (~At("idle") => JobRevisionsKept)

\* A reconcile that writes a pod or the status has begun, and has not come to
\* its truncation.
LEMMA Positions ==
  ASSUME NEW o
  PROVE  NextReplica(o) \/ NextCondemned(o) \/ NextUpdate(o)
           \/ InPlaceWrite(o) \/ StatusDue
         => pos.at \notin {"idle", "truncate"}
<1>1. Scaling => pos.at \in {"replicas", "condemned"}
  BY DEF Scaling, At
<1>2. Updating => pos.at \in {"replicas", "condemned", "update"}
  BY <1>1 DEF Updating, Scaled, At
<1>3. \A q : /\ NextReplica(q) => pos.at = "replicas"
             /\ NextCondemned(q) => Scaling
             /\ NextUpdate(q) => Updating
             /\ MustWait(q) => NextReplica(q)
  BY DEF NextReplica, NextCondemned, NextUpdate, MustWait, At
<1>4. InPlaceWrite(o) => NextUpdate(o) \/ pos.at = "patch"
  BY DEF InPlaceWrite, At
<1>5. StatusDue => \/ pos.at = "status" \/ Updating \/ Scaling
                   \/ \E q \in Ord : MustWait(q) \/ NextCondemned(q)
  BY DEF StatusDue, At, Scaled
<1> QED BY <1>1, <1>2, <1>3, <1>4, <1>5

\* A step that writes neither the status nor a revision keeps the invariant
\* when it ends the reconcile or leaves its revisions and marks alone.
LEMMA RevisionFrame ==
  ASSUME RevisionInv, UNCHANGED <<status, revision>>,
         \/ pos'.at = "idle"
         \/ /\ pos.at # "idle"
            /\ job'.cur = job.cur /\ job'.upd = job.upd
            /\ job'.doomed \subseteq job.doomed
            /\ pos.at = "truncate" => pos'.at = "truncate"
  PROVE  RevisionInv'
BY DEF RevisionInv, CurrentRevisionKept, JobRevisionsKept, At

\* What a reconcile may change of its job and position with a pod write.
LEMMA PodWriteFrame ==
  ASSUME NEW o \in Ord, job \in Job,
         PodWrite(o) \/ InPlaceUpdateFails(o)
  PROVE  /\ UNCHANGED <<status, revision, spec, generation>>
         /\ pos.at \notin {"idle", "truncate"}
         /\ pos'.at \notin {"idle", "truncate"}
         /\ job'.cur = job.cur /\ job'.upd = job.upd
         /\ job'.doomed = job.doomed /\ job'.set = job.set
<1> USE DEF Job
<1>1. CASE DeleteFailedPod(o)
  BY <1>1, Positions DEF DeleteFailedPod, Goto
<1>2. CASE CreateStatefulPod(o)
  BY <1>2, Positions DEF CreateStatefulPod, Goto
<1>3. CASE UpdateInPlaceReady(o)
  BY <1>3, Positions DEF UpdateInPlaceReady, SetGate, Goto
<1>4. CASE TerminateCondemned(o)
  BY <1>4, Positions DEF TerminateCondemned, Goto
<1>5. CASE TerminateForUpdate(o)
  BY <1>5, Positions DEF TerminateForUpdate, DeleteForUpdate, Goto
<1>6. CASE MarkNotReady(o)
  BY <1>6, Positions DEF MarkNotReady, SetGate, Goto
<1>7. CASE PatchPod(o)
  BY <1>7 DEF PatchPod, At, Goto
<1>8. CASE InPlaceUpdateFails(o)
  BY <1>8, Positions DEF InPlaceUpdateFails, DeleteForUpdate, Goto
<1> QED BY <1>1, <1>2, <1>3, <1>4, <1>5, <1>6, <1>7, <1>8 DEF PodWrite

\* The end of a sync leaves the reconcile's revisions alone.
LEMMA EndFrame ==
  ASSUME job \in Job, NEW D, EndOfSync(D)
  PROVE  \/ pos'.at = "idle"
         \/ /\ pos'.at = "truncate" /\ job'.doomed = D
            /\ job'.cur = job.cur /\ job'.upd = job.upd
BY DEF EndOfSync, Return, Goto, Job

\* The start of a reconcile establishes what its revisions promise.
LEMMA ReconcileRevisions ==
  ASSUME TypeOK, RevisionInv, Reconcile
  PROVE  RevisionInv'
<1> DEFINE upd == checkSetDefaultVariable(spec).template
           cur == currentRevision(upd)
           doomed == truncateHistory(cur, upd, cache)
<1>1. upd \in Templates /\ cur \in Templates
  <2>1. upd \in Templates
    BY DefaultType DEF TypeOK, SpecType
  <2> QED BY <2>1 DEF currentRevision, TypeOK, StatusType, MaybeTemplate
<1>2. /\ \A t \in Templates : revision'[t] >= revision[t]
      /\ revision'[upd] > 0
  BY <1>1 DEF Reconcile, UpdateStatefulSet, getStatefulSetRevisions,
              CreateControllerRevision, UpdateControllerRevision, nextRevision,
              ListControllerRevisions, IsLatest, TypeOK
<1>3. revision'[cur] > 0
  <2>1. revision'[cur] \in Nat /\ revision[cur] \in Nat
    BY <1>1, ReconcileTypes DEF TypeOK
  <2>2. CASE cur = upd
    BY <1>2, <2>2
  <2>3. CASE cur # upd
    <3>1. revision[cur] > 0 /\ revision'[cur] >= revision[cur]
      BY <1>1, <1>2, <2>3 DEF currentRevision
    <3> QED BY <2>1, <3>1
  <2> QED BY <2>2, <2>3
<1>4. cur \notin doomed /\ upd \notin doomed
  BY DEF truncateHistory, History
<1>5. status' = status /\ status.current \in {NoTemplate, cur}
  BY DEF Reconcile, currentRevision, RevisionInv, CurrentRevisionKept
<1>6. job'.cur = cur /\ job'.upd = upd /\ job'.doomed = doomed
  BY DEF Reconcile, UpdateStatefulSet
<1>7. pos'.at \in {"status", "replicas"}
  BY DEF Reconcile, UpdateStatefulSet, Goto
<1>8. CurrentRevisionKept'
  BY <1>3, <1>5 DEF CurrentRevisionKept
<1> HIDE DEF upd, cur, doomed
<1> QED BY <1>1, <1>2, <1>3, <1>4, <1>5, <1>6, <1>7, <1>8
        DEF RevisionInv, JobRevisionsKept, At

\* Every step keeps the revision invariant.
LEMMA RevisionStep ==
  ASSUME TypeOK, RevisionInv, [Next]_vars
  PROVE  RevisionInv'
<1>0. job \in Job
  BY DEF TypeOK
<1>1. CASE Reconcile
  BY <1>1, ReconcileRevisions
<1>2. CASE \E o \in Ord : PodWrite(o) \/ InPlaceUpdateFails(o)
  BY <1>0, <1>2, PodWriteFrame, RevisionFrame
<1>3. CASE RejectedWrite
  <2>1. CASE Return
    BY <1>3, <2>1, RevisionFrame DEF RejectedWrite, apiVars, Return, Goto
  <2>2. CASE \E t \in Ord : /\ InPlaceWrite(t)
                            /\ job' = [job EXCEPT !.st.current = Acted(t)]
                            /\ Goto("update", t)
    <3>1. /\ pos.at \notin {"idle", "truncate"}
          /\ job'.cur = job.cur /\ job'.upd = job.upd
          /\ job'.doomed = job.doomed
      BY <1>0, <2>2, Positions DEF Job
    <3> QED BY <1>3, <3>1, RevisionFrame DEF RejectedWrite, apiVars
  <2> QED BY <1>3, <2>1, <2>2 DEF RejectedWrite
<1>4. CASE SkipStatus
  <2>1. pos.at \notin {"idle", "truncate"} /\ UNCHANGED <<status, revision>>
    BY <1>4, Positions DEF SkipStatus, apiVars
  <2>2. EndOfSync(job.doomed)
    BY <1>4 DEF SkipStatus
  <2> QED BY <1>0, <2>1, <2>2, EndFrame, RevisionFrame
<1>5. CASE StatusConflict
  BY <1>5, RevisionFrame DEF StatusConflict, apiVars, Return, Goto
<1>6. CASE UpdateStatefulSetStatus
  <2>1. JobRevisionsKept
    BY <1>6, Positions DEF UpdateStatefulSetStatus, RevisionInv, At
  <2>2. status'.current \in {job.cur, job.upd} /\ revision' = revision
    BY <1>0, <1>6, NewStatusType DEF UpdateStatefulSetStatus
  <2>3. EndOfSync(job.doomed)
    BY <1>6 DEF UpdateStatefulSetStatus
  <2>4. CurrentRevisionKept'
    BY <2>1, <2>2 DEF CurrentRevisionKept, JobRevisionsKept
  <2>5. \/ pos'.at = "idle"
        \/ /\ pos'.at = "truncate" /\ job'.doomed = job.doomed
           /\ job'.cur = job.cur /\ job'.upd = job.upd
    BY <1>0, <2>3, EndFrame
  <2> QED BY <2>1, <2>2, <2>4, <2>5 DEF RevisionInv, JobRevisionsKept, At
<1>7. CASE DeleteControllerRevision
  <2>1. PICK t \in job.doomed :
               /\ At("truncate")
               /\ revision' = [revision EXCEPT ![t] = 0]
               /\ EndOfSync(job.doomed \ {t})
               /\ status' = status
    BY <1>7 DEF DeleteControllerRevision
  <2>2. JobRevisionsKept
    BY <2>1 DEF RevisionInv, At
  <2>3. /\ revision'[job.cur] = revision[job.cur]
        /\ revision'[job.upd] = revision[job.upd]
    BY <2>1, <2>2 DEF JobRevisionsKept, TypeOK
  <2>4. CurrentRevisionKept'
    BY <2>1, <2>2, <2>3 DEF CurrentRevisionKept, JobRevisionsKept
  <2>5. \/ pos'.at = "idle"
        \/ /\ pos'.at = "truncate" /\ job'.doomed = job.doomed \ {t}
           /\ job'.cur = job.cur /\ job'.upd = job.upd
    BY <1>0, <2>1, EndFrame
  <2> QED BY <2>1, <2>2, <2>3, <2>4, <2>5
          DEF RevisionInv, JobRevisionsKept, At
<1>8. CASE SyncError
  <2>1. UNCHANGED <<status, revision>>
    BY <1>8 DEF SyncError, apiVars
  <2>2. pos'.at = "idle"
    BY <1>8 DEF SyncError, Return, Goto, At
  <2> QED BY <2>1, <2>2, RevisionFrame
<1>9. CASE Restart
  BY <1>9, RevisionFrame DEF Restart, apiVars, Return, Goto
<1>10. ASSUME UNCHANGED <<status, revision, pos, job>>
       PROVE  RevisionInv'
  BY <1>10 DEF RevisionInv, CurrentRevisionKept, JobRevisionsKept, At
<1>11. CASE CacheSync \/ Edit \/ UNCHANGED vars
  BY <1>10, <1>11 DEF CacheSync, Edit, vars, apiVars, procVars
<1>12. CASE \E o \in Ord : Kubelet(o) \/ Fault(o)
  <2>1. ASSUME NEW o \in Ord, NEW p, SetPod(o, p)
        PROVE  UNCHANGED <<status, revision, pos, job>>
    BY <2>1 DEF SetPod, procVars
  <2> QED BY <1>10, <1>12, <2>1
          DEF Kubelet, KubeletStart, KubeletReady, KubeletUnready,
              KubeletRemove, Fault
<1> QED BY <1>1, <1>2, <1>3, <1>4, <1>5, <1>6, <1>7, <1>8, <1>9, <1>11, <1>12
        DEF Next, Worker

\* The revision invariant holds in every reachable state.
LEMMA RevisionInvariant == Spec => [](TypeOK /\ RevisionInv)
<1>1. Init => RevisionInv
  BY DEF Init, RevisionInv, CurrentRevisionKept, At
<1> QED BY <1>1, TypeInit, TypeStep, RevisionStep, PTL DEF Spec

\* However the writes of the controller, the user, the kubelets, errors and
\* restarts interleave, and however stale the cached pods are, truncateHistory
\* never deletes the revision status.currentRevision names.
THEOREM CurrentRevisionAlwaysKept == Spec => []CurrentRevisionKept
<1>1. RevisionInv => CurrentRevisionKept
  BY DEF RevisionInv
<1> QED BY <1>1, RevisionInvariant, PTL

-----------------------------------------------------------------------------
(* Canary releases.                                                         *)

\* A pod created below the partition is made from the revision the status
\* names, although the reconcile chose its revisions earlier and the template
\* may have changed since: by the revision invariant the reconcile's current
\* revision still is the status's, and it exists.
THEOREM CanaryAlwaysIsolated == Spec => CanaryIsolation
<1> DEFINE P(o) == (/\ ~isCreated(pods[o]) /\ isCreated(pods'[o])
                    /\ job.set.rollingUpdate /\ o < job.set.partition
                    /\ status.current # NoTemplate)
                   => pods'[o].rev = status.current
<1>1. ASSUME TypeOK, RevisionInv, [Next]_vars, NEW o \in Ord
      PROVE  P(o)
  <2> SUFFICES ASSUME ~isCreated(pods[o]), isCreated(pods'[o]),
                      job.set.rollingUpdate, o < job.set.partition,
                      status.current # NoTemplate
               PROVE  pods'[o].rev = status.current
    OBVIOUS
  <2> USE DEF TypeOK
  <2>1. ASSUME NEW q \in Ord, NEW p, pods' = [pods EXCEPT ![q] = p],
               isCreated(p) => isCreated(pods[q])
        PROVE  FALSE
    BY <2>1
  <2>2. ASSUME pods' = pods
        PROVE  FALSE
    BY <2>2
  <2>3. ASSUME NEW q \in Ord, CreateStatefulPod(q)
        PROVE  pods'[o].rev = status.current
    <3>1. q = o
      BY <2>3 DEF CreateStatefulPod
    <3>2. pods'[o] = FreshPod(job.cur)
      BY <2>3, <3>1 DEF CreateStatefulPod, newVersionedStatefulSetPod
    <3>3. pos.at \notin {"idle", "truncate"}
      BY <1>1, <2>3, PodWriteFrame DEF PodWrite
    <3>4. status.current = job.cur
      BY <1>1, <3>3 DEF RevisionInv, JobRevisionsKept, At
    <3> QED BY <3>2, <3>4 DEF FreshPod, Absent
  <2>4. ASSUME NEW q \in Ord, PodWrite(q) \/ InPlaceUpdateFails(q),
               ~CreateStatefulPod(q)
        PROVE  FALSE
    <3>1. CASE pods' = pods
      BY <2>2, <3>1
    <3>2. CASE DeleteFailedPod(q) \/ TerminateCondemned(q)
               \/ DeleteForUpdate(q)
      BY <2>1, <3>2 DEF DeleteFailedPod, TerminateCondemned, DeleteForUpdate
    <3>3. CASE UpdateInPlaceReady(q) \/ MarkNotReady(q)
      <4>1. /\ pods' = [pods EXCEPT ![q] = [pods[q] EXCEPT !.gate = pods'[q].gate]]
            /\ isCreated(pods[q])
        BY <3>3 DEF UpdateInPlaceReady, MarkNotReady, SetGate, WriteAccepted, Pod
      <4> QED BY <2>1, <4>1
    <3>4. CASE PatchPod(q)
      BY <2>1, <3>4 DEF PatchPod, WriteAccepted
    <3> QED BY <2>4, <3>1, <3>2, <3>3, <3>4
            DEF PodWrite, InPlaceUpdateFails, TerminateForUpdate
  <2>5. CASE \E q \in Ord : Kubelet(q) \/ Fault(q)
    <3>1. PICK q \in Ord : Kubelet(q) \/ Fault(q)
      BY <2>5
    <3>2. CASE KubeletRemove(q)
      BY <2>1, <3>2 DEF KubeletRemove, SetPod, isCreated, Absent
    <3>3. CASE ~KubeletRemove(q)
      <4>1. isCreated(pods[q])
        BY <3>1, <3>3 DEF Kubelet, KubeletStart, KubeletReady,
                          KubeletUnready, Fault, isCreated
      <4>2. \E p : pods' = [pods EXCEPT ![q] = p]
        BY <3>1, <3>3 DEF Kubelet, KubeletStart, KubeletReady,
                          KubeletUnready, Fault, SetPod
      <4> QED BY <2>1, <4>1, <4>2
    <3> QED BY <3>2, <3>3
  <2>6. CASE \/ Reconcile \/ RejectedWrite \/ SkipStatus
             \/ UpdateStatefulSetStatus \/ StatusConflict
             \/ DeleteControllerRevision \/ SyncError \/ CacheSync \/ Edit
             \/ Restart \/ UNCHANGED vars
    <3>1. pods' = pods
      BY <2>6 DEF Reconcile, RejectedWrite, SkipStatus,
                  UpdateStatefulSetStatus, StatusConflict,
                  DeleteControllerRevision, SyncError, CacheSync, Edit,
                  Restart, vars, apiVars
    <3> QED BY <2>2, <3>1
  <2> QED BY <1>1, <2>3, <2>4, <2>5, <2>6 DEF Next, Worker
<1>2. TypeOK /\ RevisionInv /\ [Next]_vars => \A o \in Ord : P(o)
  BY <1>1
<1>3. [][\A o \in Ord : P(o)]_vars => CanaryIsolation
  BY PTL DEF CanaryIsolation
<1> QED BY <1>2, <1>3, RevisionInvariant, PTL DEF Spec

-----------------------------------------------------------------------------
(* The revisions of the pods are kept, when a reconcile starts from the     *)
(* pods as they are.  What it has marked for deletion no pod uses, neither  *)
(* then nor for as long as it runs: it only makes pods of its own two       *)
(* revisions.                                                               *)

PodRevisionsKept(o) ==
  isCreated(pods[o]) => /\ pods[o].rev \in Templates
                        /\ revision[pods[o].rev] > 0
                        /\ ~At("idle") => pods[o].rev \notin job.doomed

PodRevisionInv == \A o \in Ord : PodRevisionsKept(o)

\* A step leaves a pod's revision alone, or gives it one of the reconcile's.
LEMMA PodStep ==
  ASSUME TypeOK, [Next]_vars, NEW o \in Ord, isCreated(pods'[o])
  PROVE  \/ isCreated(pods[o]) /\ pods'[o].rev = pods[o].rev
         \/ /\ \E q \in Ord : PodWrite(q) \/ InPlaceUpdateFails(q)
            /\ pods'[o].rev \in {job.cur, job.upd}
<1> USE DEF TypeOK
<1>1. CASE pods' = pods
  BY <1>1
<1>2. ASSUME NEW q \in Ord, NEW p, pods' = [pods EXCEPT ![q] = p],
             isCreated(p) => isCreated(pods[q]) /\ p.rev = pods[q].rev
      PROVE  isCreated(pods[o]) /\ pods'[o].rev = pods[o].rev
  BY <1>2
<1>3. ASSUME NEW q \in Ord, NEW p \in Deleted(pods[q]),
             isCreated(pods[q])
      PROVE  isCreated(p) => isCreated(pods[q]) /\ p.rev = pods[q].rev
  <2>1. p = Absent \/ p = [pods[q] EXCEPT !.term = TRUE]
    BY DEF Deleted
  <2> QED BY <1>3, <2>1 DEF isCreated, Absent, Pod
<1>4. ASSUME NEW q \in Ord, PodWrite(q) \/ InPlaceUpdateFails(q)
      PROVE  \/ isCreated(pods[o]) /\ pods'[o].rev = pods[o].rev
             \/ pods'[o].rev \in {job.cur, job.upd}
  <2>1. CASE CreateStatefulPod(q)
    <3>1. FreshPod(newVersionedStatefulSetPod(q)).rev \in {job.cur, job.upd}
      BY VersionedRevision DEF FreshPod, Absent
    <3> QED BY <2>1, <3>1 DEF CreateStatefulPod
  <2>2. CASE DeleteFailedPod(q) \/ TerminateCondemned(q) \/ DeleteForUpdate(q)
    <3>1. PICK p \in Deleted(pods[q]) : pods' = [pods EXCEPT ![q] = p]
      BY <2>2 DEF DeleteFailedPod, TerminateCondemned, DeleteForUpdate
    <3>2. isCreated(pods[q])
      BY <2>2 DEF DeleteFailedPod, TerminateCondemned, DeleteForUpdate
    <3> QED BY <3>1, <3>2, <1>2, <1>3
  <2>3. CASE UpdateInPlaceReady(q) \/ MarkNotReady(q)
    <3>1. PICK g : pods' = [pods EXCEPT ![q] = [pods[q] EXCEPT !.gate = g]]
      BY <2>3 DEF UpdateInPlaceReady, MarkNotReady, SetGate
    <3>2. /\ isCreated(pods[q])
          /\ [pods[q] EXCEPT !.gate = g].rev = pods[q].rev
      BY <2>3 DEF UpdateInPlaceReady, MarkNotReady, SetGate, WriteAccepted, Pod
    <3> QED BY <3>1, <3>2, <1>2
  <2>4. CASE PatchPod(q)
    <3>1. podInPlaceUpdate(pods[q], job.upd).rev = job.upd
      BY DEF podInPlaceUpdate, Pod
    <3> QED BY <2>4, <3>1 DEF PatchPod, WriteAccepted
  <2> QED BY <1>1, <1>4, <2>1, <2>2, <2>3, <2>4
          DEF PodWrite, InPlaceUpdateFails, TerminateForUpdate
<1>5. CASE \E q \in Ord : Kubelet(q) \/ Fault(q)
  <2>1. PICK q \in Ord : Kubelet(q) \/ Fault(q)
    BY <1>5
  <2>2. ASSUME NEW f \in Phases, NEW i,
               SetPod(q, [pods[q] EXCEPT !.phase = f, !.image = i]),
               isCreated(pods[q])
        PROVE  isCreated(pods[o]) /\ pods'[o].rev = pods[o].rev
    <3>1. [pods[q] EXCEPT !.phase = f, !.image = i].rev = pods[q].rev
      BY DEF Pod
    <3> QED BY <1>2, <2>2, <3>1 DEF SetPod
  <2>3. ASSUME NEW f \in Phases, SetPod(q, [pods[q] EXCEPT !.phase = f]),
               isCreated(pods[q])
        PROVE  isCreated(pods[o]) /\ pods'[o].rev = pods[o].rev
    <3>1. [pods[q] EXCEPT !.phase = f].rev = pods[q].rev
      BY DEF Pod
    <3> QED BY <1>2, <2>3, <3>1 DEF SetPod
  <2>4. CASE KubeletRemove(q)
    BY <1>2, <2>4 DEF KubeletRemove, SetPod, isCreated, Absent
  <2>5. CASE KubeletStart(q)
    BY <2>2, <2>5 DEF KubeletStart, isCreated, Phases
  <2>6. CASE KubeletReady(q) \/ KubeletUnready(q)
    BY <2>3, <2>6 DEF KubeletReady, KubeletUnready, isCreated, Phases
  <2>7. CASE Fault(q)
    <3>1. CASE \E p \in Deleted(pods[q]) : SetPod(q, p)
      BY <1>2, <1>3, <2>7, <3>1 DEF Fault, SetPod
    <3> QED BY <2>3, <2>7, <3>1 DEF Fault, Phases
  <2> QED BY <2>1, <2>4, <2>5, <2>6, <2>7 DEF Kubelet
<1>6. CASE \/ Reconcile \/ RejectedWrite \/ SkipStatus
           \/ UpdateStatefulSetStatus \/ StatusConflict
           \/ DeleteControllerRevision \/ SyncError \/ CacheSync \/ Edit
           \/ Restart \/ UNCHANGED vars
  <2>1. pods' = pods
    BY <1>6 DEF Reconcile, RejectedWrite, SkipStatus,
                UpdateStatefulSetStatus, StatusConflict,
                DeleteControllerRevision, SyncError, CacheSync, Edit,
                Restart, vars, apiVars
  <2> QED BY <1>1, <2>1
<1> QED BY <1>4, <1>5, <1>6 DEF Next, Worker

\* After its start a reconcile marks no further revision, and deletes only
\* what it has marked.
LEMMA MarksFrame ==
  ASSUME TypeOK, [Next]_vars, ~Reconcile
  PROVE  /\ pos'.at # "idle" =>
              pos.at # "idle" /\ job'.doomed \subseteq job.doomed
         /\ \A t \in Templates : revision'[t] # revision[t] =>
              pos.at # "idle" /\ t \in job.doomed
<1>0. job \in Job
  BY DEF TypeOK
<1>1. CASE \E o \in Ord : PodWrite(o) \/ InPlaceUpdateFails(o)
  BY <1>0, <1>1, PodWriteFrame
<1>2. CASE RejectedWrite
  <2>1. CASE Return
    BY <1>2, <2>1 DEF RejectedWrite, apiVars, Return, Goto
  <2>2. CASE \E t \in Ord : /\ InPlaceWrite(t)
                            /\ job' = [job EXCEPT !.st.current = Acted(t)]
    BY <1>0, <1>2, <2>2, Positions DEF RejectedWrite, apiVars, Job
  <2> QED BY <1>2, <2>1, <2>2 DEF RejectedWrite
<1>3. CASE SkipStatus \/ UpdateStatefulSetStatus
  <2>1. pos.at # "idle" /\ revision' = revision /\ EndOfSync(job.doomed)
    BY <1>3, Positions DEF SkipStatus, UpdateStatefulSetStatus, apiVars
  <2> QED BY <1>0, <2>1, EndFrame
<1>4. CASE DeleteControllerRevision
  <2>1. PICK t \in job.doomed :
               /\ At("truncate")
               /\ revision' = [revision EXCEPT ![t] = 0]
               /\ EndOfSync(job.doomed \ {t})
    BY <1>4 DEF DeleteControllerRevision
  <2> QED BY <1>0, <2>1, EndFrame DEF At, TypeOK
<1>5. CASE StatusConflict \/ SyncError \/ Restart
  BY <1>5 DEF StatusConflict, SyncError, Restart, apiVars, Return, Goto, At
<1>6. CASE CacheSync \/ Edit \/ UNCHANGED vars
  BY <1>6 DEF CacheSync, Edit, vars, apiVars, procVars
<1>7. CASE \E o \in Ord : Kubelet(o) \/ Fault(o)
  BY <1>7 DEF Kubelet, KubeletStart, KubeletReady, KubeletUnready,
              KubeletRemove, Fault, SetPod, procVars
<1> QED BY <1>1, <1>2, <1>3, <1>4, <1>5, <1>6, <1>7 DEF Next, Worker

\* A reconcile that starts from the pods as they are marks none of their
\* revisions.
LEMMA ReconcilePods ==
  ASSUME TypeOK, PodRevisionInv, Reconcile, ~CacheMayLag
  PROVE  PodRevisionInv'
<1> SUFFICES ASSUME NEW o \in Ord, isCreated(pods'[o])
             PROVE  /\ pods'[o].rev \in Templates
                    /\ revision'[pods'[o].rev] > 0
                    /\ pods'[o].rev \notin job'.doomed
  BY DEF PodRevisionInv, PodRevisionsKept
<1> DEFINE r == pods[o].rev
<1>1. pods' = pods /\ cache = pods
  BY DEF Reconcile
<1>2. r \in Templates /\ revision[r] > 0
  BY <1>1 DEF PodRevisionInv, PodRevisionsKept
<1>3. r \notin job'.doomed
  <2>1. \E cur, upd : job'.doomed = truncateHistory(cur, upd, cache)
    BY DEF Reconcile, UpdateStatefulSet
  <2> QED BY <1>1, <2>1 DEF truncateHistory, History
<1>4. revision'[r] > 0
  <2>1. revision'[r] >= revision[r]
    <3>1. checkSetDefaultVariable(spec).template \in Templates
      BY DefaultType DEF TypeOK, SpecType
    <3> QED BY <1>2, <3>1 DEF Reconcile, UpdateStatefulSet,
                              getStatefulSetRevisions, nextRevision,
                              CreateControllerRevision,
                              UpdateControllerRevision, IsLatest, TypeOK
  <2>2. revision'[r] \in Nat /\ revision[r] \in Nat
    BY <1>2, ReconcileTypes DEF TypeOK
  <2> QED BY <1>2, <2>1, <2>2
<1> QED BY <1>1, <1>2, <1>3, <1>4

\* Every step keeps the revisions of the pods.
LEMMA PodRevisionStep ==
  ASSUME TypeOK, RevisionInv, PodRevisionInv, [Next]_vars, ~CacheMayLag
  PROVE  PodRevisionInv'
<1>1. CASE Reconcile
  BY <1>1, ReconcilePods
<1>2. CASE ~Reconcile
  <2> SUFFICES ASSUME NEW o \in Ord, isCreated(pods'[o])
               PROVE  /\ pods'[o].rev \in Templates
                      /\ revision'[pods'[o].rev] > 0
                      /\ pos'.at # "idle" => pods'[o].rev \notin job'.doomed
    BY DEF PodRevisionInv, PodRevisionsKept, At
  <2>1. CASE isCreated(pods[o]) /\ pods'[o].rev = pods[o].rev
    <3>1. /\ pods[o].rev \in Templates
          /\ revision[pods[o].rev] > 0
          /\ pos.at # "idle" => pods[o].rev \notin job.doomed
      BY <2>1 DEF PodRevisionInv, PodRevisionsKept, At
    <3> QED BY <1>2, <2>1, <3>1, MarksFrame
  <2>2. CASE /\ \E q \in Ord : PodWrite(q) \/ InPlaceUpdateFails(q)
             /\ pods'[o].rev \in {job.cur, job.upd}
    <3>1. /\ UNCHANGED revision
          /\ pos.at # "idle"
          /\ job'.doomed = job.doomed
      BY <2>2, PodWriteFrame DEF TypeOK
    <3>2. JobRevisionsKept
      BY <3>1 DEF RevisionInv, At
    <3> QED BY <2>2, <3>1, <3>2 DEF JobRevisionsKept
  <2> QED BY <2>1, <2>2, PodStep
<1> QED BY <1>1, <1>2

\* The revisions of the pods are kept in every reachable state.
LEMMA PodRevisionInvariant == ~CacheMayLag => (Spec => []PodRevisionInv)
<1> SUFFICES ASSUME ~CacheMayLag
             PROVE  Spec => []PodRevisionInv
  OBVIOUS
<1>1. Init => PodRevisionInv
  BY DEF Init, PodRevisionInv, PodRevisionsKept, isCreated, Absent
<1>2. TypeOK /\ RevisionInv /\ PodRevisionInv /\ [Next]_vars => PodRevisionInv'
  BY PodRevisionStep
<1> QED BY <1>1, <1>2, RevisionInvariant, PTL DEF Spec

\* When every reconcile starts from the pods as they are, truncateHistory
\* never deletes the revision of a pod, whatever happens to the pods, to the
\* spec and to the process between the listing and the deletion.
THEOREM LiveRevisionsAlwaysKept ==
  ~CacheMayLag => (Spec => []LiveRevisionsKept)
<1> SUFFICES ASSUME ~CacheMayLag
             PROVE  Spec => []LiveRevisionsKept
  OBVIOUS
<1>1. PodRevisionInv => LiveRevisionsKept
  BY DEF PodRevisionInv, PodRevisionsKept, LiveRevisionsKept
<1> QED BY <1>1, PodRevisionInvariant, PTL
=============================================================================
