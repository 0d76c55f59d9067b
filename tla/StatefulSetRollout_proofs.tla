---------------------- MODULE StatefulSetRollout_proofs ----------------------
(***************************************************************************)
(* StatefulSetControl implements Rollout, and what that rests on: the      *)
(* counts of a reconcile are those of its copies, and every copy is of a   *)
(* revision the reconcile has listed.  Then the order of a roll-out that   *)
(* recreates pods, and its budget.                                         *)
(***************************************************************************)
EXTENDS StatefulSetTracking_proofs

-----------------------------------------------------------------------------
(* The revisions of the copies are listed.                                  *)

Listed == job.old \cup {job.upd}

KnownInv ==
  ~At("idle") =>
    /\ job.cur \in Listed
    /\ \A o \in Ord : isCreated(job.snap[o]) => job.snap[o].rev \in Listed

\* What the writes of a reconcile do to its copies and its counts.
LEMMA CopyEffects ==
  ASSUME TypeOK, TrackInv, NEW x \in Ord, PodWrite(x) \/ InPlaceUpdateFails(x)
  PROVE  /\ job'.old = job.old
         /\ \/ /\ job'.snap = job.snap
               /\ job'.st.replicas = job.st.replicas
               /\ job'.st.updated \in {job.st.updated, job.st.updated - 1}
            \/ /\ \E s : /\ job'.snap = [job.snap EXCEPT ![x] = s]
                         /\ isCreated(job.snap[x])
                         /\ SameCopy(job.snap[x], s)
               /\ job'.st = job.st
            \/ /\ isFailed(job.snap[x])
               /\ job'.snap = [job.snap EXCEPT ![x] = Absent]
               /\ job'.st = Adjust(job.st, job.snap[x].rev, -1, -1)
            \/ \E rev \in {job.cur, job.upd} :
                 /\ ~isCreated(job.snap[x])
                 /\ job'.snap = [job.snap EXCEPT ![x] = FreshPod(rev)]
                 /\ job'.st = Adjust(job.st, rev, 1, 1)
<1>0. /\ job \in Job /\ job.st \in Counts /\ job.snap \in [Ord -> Pod]
      /\ job.snap[x] \in Pod
  BY DEF TypeOK, Job
<1>1. CASE DeleteFailedPod(x)
  BY <1>0, <1>1 DEF DeleteFailedPod, Job
<1>2. CASE CreateStatefulPod(x)
  <2> DEFINE rev == newVersionedStatefulSetPod(x)
  <2>1. rev \in {job.cur, job.upd}
    BY VersionedRevision
  <2>2. /\ ~isCreated(job.snap[x]) /\ job'.old = job.old
        /\ job'.snap = [job.snap EXCEPT ![x] = FreshPod(rev)]
        /\ job'.st = Adjust(job.st, rev, 1, 1)
    BY <1>0, <1>2 DEF CreateStatefulPod, Job
  <2> HIDE DEF rev
  <2> QED BY <2>1, <2>2
<1>3. CASE UpdateInPlaceReady(x) \/ MarkNotReady(x)
  <2>1. PICK g : SetGate(x, g)
    BY <1>3 DEF UpdateInPlaceReady, MarkNotReady
  <2> DEFINE s == [job.snap[x] EXCEPT !.gate = g]
  <2>2. /\ job'.snap = [job.snap EXCEPT ![x] = s]
        /\ job'.st = job.st /\ job'.old = job.old
    BY <1>0, <2>1 DEF SetGate, Job
  <2>3. isCreated(job.snap[x])
    <3>1. pos.at # "idle"
      BY <1>3, Positions DEF UpdateInPlaceReady, MarkNotReady
    <3> QED BY <1>3, <3>1, PatchedCopy DEF UpdateInPlaceReady, MarkNotReady
  <2>4. SameCopy(job.snap[x], s)
    BY <1>0, <2>3 DEF SameCopy, Pod
  <2> QED BY <2>2, <2>3, <2>4
<1>4. CASE TerminateCondemned(x)
  <2>1. /\ job'.snap = job.snap /\ job'.old = job.old
        /\ job'.st = Adjust(job.st, job.snap[x].rev, -1, 0)
    BY <1>0, <1>4 DEF TerminateCondemned, Job
  <2> QED BY <1>0, <2>1 DEF Adjust, Counts
<1>5. CASE TerminateForUpdate(x) \/ PatchPod(x) \/ InPlaceUpdateFails(x)
  <2>1. job' = [job EXCEPT !.st.current = Acted(x)]
    BY <1>5 DEF TerminateForUpdate, PatchPod, InPlaceUpdateFails,
                DeleteForUpdate
  <2> QED BY <1>0, <2>1 DEF Job, Counts
<1> QED BY <1>1, <1>2, <1>3, <1>4, <1>5 DEF PodWrite

\* Every step keeps the copies' revisions listed.
LEMMA KnownStep ==
  ASSUME TypeOK, TrackInv, PodRevisionInv, KnownInv, [Next]_vars, ~CacheMayLag
  PROVE  KnownInv'
<1>1. CASE Reconcile
  <2> DEFINE upd == checkSetDefaultVariable(spec).template
  <2>1. /\ job'.snap = pods /\ job'.old = ListControllerRevisions
        /\ job'.upd = upd /\ job'.cur = currentRevision(upd)
    BY <1>1 DEF Reconcile, UpdateStatefulSet
  <2>2. job'.cur \in job'.old \cup {job'.upd}
    <3>1. status.current \in MaybeTemplate
      BY DEF TypeOK, StatusType
    <3> QED BY <2>1, <3>1
            DEF currentRevision, ListControllerRevisions, MaybeTemplate
  <2>3. ASSUME NEW o \in Ord, isCreated(pods[o])
        PROVE  pods[o].rev \in job'.old
    BY <2>1, <2>3 DEF PodRevisionInv, PodRevisionsKept, ListControllerRevisions
  <2> QED BY <2>1, <2>2, <2>3 DEF KnownInv, Listed
<1>2. CASE \E x \in Ord : PodWrite(x) \/ InPlaceUpdateFails(x)
  <2>1. PICK x \in Ord : PodWrite(x) \/ InPlaceUpdateFails(x)
    BY <1>2
  <2>2. /\ pos.at # "idle" /\ job'.cur = job.cur /\ job'.upd = job.upd
        /\ job'.old = job.old /\ job.snap \in [Ord -> Pod]
    BY <2>1, PodWriteFrame, CopyEffects DEF TypeOK, Job
  <2>3. /\ job.cur \in Listed
        /\ \A o \in Ord : isCreated(job.snap[o]) => job.snap[o].rev \in Listed
    BY <2>2 DEF KnownInv, At
  <2>4. Listed' = Listed
    BY <2>2 DEF Listed
  <2>5. ASSUME NEW o \in Ord, isCreated(job'.snap[o])
        PROVE  job'.snap[o].rev \in Listed
    <3>1. CASE job'.snap[o] = job.snap[o]
      BY <2>3, <2>5, <3>1
    <3>2. CASE SameCopy(job.snap[o], job'.snap[o])
      BY <2>3, <2>5, <3>2 DEF SameCopy
    <3>3. CASE job'.snap[o] = Absent
      BY <2>5, <3>3 DEF Absent, isCreated
    <3>4. CASE \E rev \in {job.cur, job.upd} : job'.snap[o] = FreshPod(rev)
      <4>1. job'.snap[o].rev \in {job.cur, job.upd}
        BY <3>4 DEF FreshPod, Absent
      <4> QED BY <2>3, <4>1 DEF Listed
    <3> QED BY <2>1, <2>2, <3>1, <3>2, <3>3, <3>4, CopyEffects
  <2> QED BY <2>2, <2>3, <2>4, <2>5 DEF KnownInv
<1>3. CASE pos'.at = "idle"
  BY <1>3 DEF KnownInv, At
<1>4. ASSUME UNCHANGED Held, pos.at # "idle"
      PROVE  KnownInv'
  BY <1>4 DEF KnownInv, Held, Listed, At
<1>5. CASE UNCHANGED <<pos, job>>
  BY <1>5 DEF KnownInv, Listed, At
<1> QED BY <1>1, <1>2, <1>3, <1>4, <1>5, Moves, Positions

\* The copies' revisions are listed in every reachable state.
LEMMA KnownInvariant == ~CacheMayLag => (Spec => []KnownInv)
<1> SUFFICES ASSUME ~CacheMayLag
             PROVE  Spec => []KnownInv
  OBVIOUS
<1>1. Init => KnownInv
  BY DEF Init, KnownInv, At
<1>2. TypeOK /\ TrackInv /\ PodRevisionInv /\ KnownInv /\ [Next]_vars => KnownInv'
  BY KnownStep
<1> QED BY <1>1, <1>2, TypeCorrect, TrackInvariant, PodRevisionInvariant, PTL
        DEF Spec

\* As long as templates differ in an image only, an InPlaceOnly update
\* deletes no replica unless it failed: the revision the pod runs is listed,
\* so the update finds its starting point, and no error makes it fall back
\* to recreating the pod.
THEOREM InPlaceOnlyKeepsPods ==
  ASSUME ~CacheMayLag,
         \A t, u \in Templates : t # u => <<t, u>> \in ImageOnly
  PROVE  Spec => InPlaceOnlyNeverRecreates
<1> DEFINE P(o) == ControllerKills(o) /\ isInPlaceOnly => isFailed(pods[o])
<1>1. ASSUME TypeOK, RevisionInv, TrackInv, KnownInv, [Next]_vars,
             NEW o \in Replicas
      PROVE  P(o)
  <2> SUFFICES ASSUME ControllerKills(o), isInPlaceOnly, ~isFailed(pods[o])
               PROVE  FALSE
    OBVIOUS
  <2>0. o \in Ord
    BY DEF Replicas
  <2>1. pos.at # "idle" /\ isCreated(job.snap[o]) /\ Follows(o)
    BY <1>1, <2>0, Kills
  <2>2. ~isFailed(job.snap[o])
    BY <2>1 DEF Follows, SamePod, ControllerKills
  <2>3. ~TerminateCondemned(o)
    BY DEF TerminateCondemned, NextCondemned, Condemned
  <2>4. NextUpdate(o) /\ ~shouldDoInPlaceUpdate(o)
    BY <1>1, <2>0, <2>2, <2>3, Kills
  <2>5. job.snap[o].rev # job.upd
    BY <2>4 DEF NextUpdate, Outdated
  <2>6. job.snap[o].rev \in job.old
    BY <1>1, <2>0, <2>1, <2>5 DEF KnownInv, Listed, At
  <2>7. job.upd \in Templates /\ job.old \subseteq Templates
    BY <1>1, <2>1 DEF RevisionInv, JobRevisionsKept, At, TypeOK, Job
  <2> QED BY <2>4, <2>5, <2>6, <2>7 DEF shouldDoInPlaceUpdate, isInPlaceOnly
<1>2. TypeOK /\ RevisionInv /\ TrackInv /\ KnownInv /\ [Next]_vars =>
        \A o \in Replicas : P(o)
  BY <1>1
<1>3. [][\A o \in Replicas : P(o)]_vars => InPlaceOnlyNeverRecreates
  BY PTL DEF InPlaceOnlyNeverRecreates
<1>4. /\ Spec => []TrackInv
      /\ Spec => []KnownInv
  BY TrackInvariant, KnownInvariant
<1> QED BY <1>2, <1>3, <1>4, RevisionInvariant, PTL DEF Spec

-----------------------------------------------------------------------------
(* A completed roll-out is one.                                             *)

Copied == {o \in Ord : isCreated(job.snap[o])}

Updated ==
  {o \in Copied : ~isTerminating(job.snap[o]) /\ job.snap[o].rev = job.upd}

\* A reconcile counts every copy it has, and no copy as updated that is not.
CountInv ==
  ~At("idle") => /\ job.st.replicas = Cardinality(Copied)
                 /\ job.st.updated <= Cardinality(Updated)

\* The sets that are counted are finite.
LEMMA CountedSets ==
  /\ IsFiniteSet(Copied) /\ Cardinality(Copied) \in Nat
  /\ IsFiniteSet(Updated) /\ Cardinality(Updated) \in Nat
  /\ Updated \subseteq Copied
<1>1. IsFiniteSet(Ord)
  BY ReplicasAssumption, FS_Interval DEF Ord
<1>2. Copied \subseteq Ord /\ Updated \subseteq Ord
  BY DEF Copied, Updated
<1> QED BY <1>1, <1>2, FS_Subset, FS_CardinalityType DEF Updated

\* Every step keeps the counts those of the copies.
LEMMA CountStep ==
  ASSUME TypeOK, TypeOK', TrackInv, CountInv, [Next]_vars
  PROVE  CountInv'
<1>0. /\ job.st \in Counts /\ job'.st \in Counts
      /\ job.snap \in [Ord -> Pod] /\ job'.snap \in [Ord -> Pod]
  BY DEF TypeOK, Job
<1>1. CASE Reconcile
  <2>1. \E cur : /\ job'.st = InitialCounts(cur, job'.upd, cache)
                 /\ job'.snap = cache
    BY <1>1 DEF Reconcile, UpdateStatefulSet
  <2>2. Copied' = {o \in Ord : isCreated(cache[o])}
    BY <2>1 DEF Copied
  <2>3. Updated' = {o \in {n \in Ord : isCreated(cache[n])
                                       /\ ~isTerminating(cache[n])} :
                      cache[o].rev = job'.upd}
    BY <2>1 DEF Updated, Copied
  <2>4. /\ job'.st.replicas = Cardinality(Copied')
        /\ job'.st.updated = Cardinality(Updated')
    BY <2>1, <2>2, <2>3 DEF InitialCounts
  <2> QED BY <1>0, <2>4 DEF CountInv, Counts
<1>2. CASE \E x \in Ord : PodWrite(x) \/ InPlaceUpdateFails(x)
  <2>1. PICK x \in Ord : PodWrite(x) \/ InPlaceUpdateFails(x)
    BY <1>2
  <2>2. pos.at # "idle" /\ job'.upd = job.upd /\ job'.cur = job.cur
    BY <2>1, PodWriteFrame DEF TypeOK
  <2>3. /\ job.st.replicas = Cardinality(Copied)
        /\ job.st.updated <= Cardinality(Updated)
    BY <2>2 DEF CountInv, At
  <2>4. /\ job.st.replicas \in Int /\ job.st.updated \in Int
        /\ job'.st.replicas \in Int /\ job'.st.updated \in Int
    BY <1>0 DEF Counts
  <2>5. CASE /\ job'.snap = job.snap
             /\ job'.st.replicas = job.st.replicas
             /\ job'.st.updated \in {job.st.updated, job.st.updated - 1}
    <3>1. Copied' = Copied /\ Updated' = Updated
      BY <2>2, <2>5 DEF Copied, Updated
    <3> QED BY <2>3, <2>4, <2>5, <3>1, CountedSets DEF CountInv
  <2>6. CASE /\ \E s : /\ job'.snap = [job.snap EXCEPT ![x] = s]
                       /\ isCreated(job.snap[x])
                       /\ SameCopy(job.snap[x], s)
             /\ job'.st = job.st
    <3>1. \A o \in Ord : /\ isCreated(job'.snap[o]) <=> isCreated(job.snap[o])
                         /\ isTerminating(job'.snap[o]) <=>
                              isTerminating(job.snap[o])
                         /\ job'.snap[o].rev = job.snap[o].rev
      BY <1>0, <2>6 DEF SameCopy, isCreated, isTerminating
    <3>2. Copied' = Copied
      BY <3>1 DEF Copied
    <3>3. Updated' = Updated
      BY <2>2, <3>1, <3>2 DEF Updated, Copied
    <3> QED BY <2>3, <2>6, <3>2, <3>3 DEF CountInv
  <2>7. CASE /\ isFailed(job.snap[x])
             /\ job'.snap = [job.snap EXCEPT ![x] = Absent]
             /\ job'.st = Adjust(job.st, job.snap[x].rev, -1, -1)
    <3>1. x \in Copied /\ Copied' = Copied \ {x} /\ Updated' = Updated \ {x}
      BY <1>0, <2>2, <2>7 DEF Copied, Updated, isFailed, isCreated, Absent
    <3>2. Cardinality(Copied') = Cardinality(Copied) - 1
      BY <3>1, CountedSets, FS_RemoveElement
    <3>3. \/ x \notin Updated /\ Cardinality(Updated') = Cardinality(Updated)
          \/ /\ x \in Updated /\ job.snap[x].rev = job.upd
             /\ Cardinality(Updated') = Cardinality(Updated) - 1
      BY <3>1, CountedSets, FS_RemoveElement DEF Updated
    <3>4. /\ job'.st.replicas = job.st.replicas - 1
          /\ job'.st.updated <= job.st.updated
          /\ job.snap[x].rev = job.upd => job'.st.updated = job.st.updated - 1
      BY <2>4, <2>7 DEF Adjust
    <3> QED BY <2>3, <2>4, <3>2, <3>3, <3>4, CountedSets DEF CountInv
  <2>8. CASE \E rev \in {job.cur, job.upd} :
               /\ ~isCreated(job.snap[x])
               /\ job'.snap = [job.snap EXCEPT ![x] = FreshPod(rev)]
               /\ job'.st = Adjust(job.st, rev, 1, 1)
    <3>1. PICK rev \in {job.cur, job.upd} :
                 /\ ~isCreated(job.snap[x])
                 /\ job'.snap = [job.snap EXCEPT ![x] = FreshPod(rev)]
                 /\ job'.st = Adjust(job.st, rev, 1, 1)
      BY <2>8
    <3>2. /\ isCreated(FreshPod(rev)) /\ ~isTerminating(FreshPod(rev))
          /\ FreshPod(rev).rev = rev
      BY DEF FreshPod, Absent, isCreated, isTerminating
    <3>3. x \notin Copied /\ Copied' = Copied \cup {x}
      BY <1>0, <3>1, <3>2 DEF Copied
    <3>4. Cardinality(Copied') = Cardinality(Copied) + 1
      BY <3>3, CountedSets, FS_AddElement
    <3>5. x \notin Updated
      BY <3>3, CountedSets
    <3>6. CASE rev = job.upd
      <4>1. Updated' = Updated \cup {x}
        BY <1>0, <2>2, <3>1, <3>2, <3>3, <3>6 DEF Updated, Copied
      <4>2. Cardinality(Updated') = Cardinality(Updated) + 1
        BY <3>5, <4>1, CountedSets, FS_AddElement
      <4>3. /\ job'.st.replicas = job.st.replicas + 1
            /\ job'.st.updated = job.st.updated + 1
        BY <3>1, <3>6 DEF Adjust
      <4> QED BY <2>3, <2>4, <3>4, <4>2, <4>3, CountedSets DEF CountInv
    <3>7. CASE rev # job.upd
      <4>1. Updated' = Updated
        BY <1>0, <2>2, <3>1, <3>2, <3>3, <3>7 DEF Updated, Copied
      <4>2. /\ job'.st.replicas = job.st.replicas + 1
            /\ job'.st.updated = job.st.updated
        BY <3>1, <3>7 DEF Adjust
      <4> QED BY <2>3, <3>4, <4>1, <4>2 DEF CountInv
    <3> QED BY <3>6, <3>7
  <2> QED BY <2>1, <2>5, <2>6, <2>7, <2>8, CopyEffects
<1>3. CASE pos'.at = "idle"
  BY <1>3 DEF CountInv, At
<1>4. ASSUME UNCHANGED Held, pos.at # "idle",
             job'.st.replicas = job.st.replicas,
             job'.st.updated = job.st.updated
      PROVE  CountInv'
  <2>1. Copied' = Copied /\ Updated' = Updated
    BY <1>4 DEF Held, Copied, Updated
  <2> QED BY <1>4, <2>1 DEF CountInv, At
<1>5. CASE UNCHANGED <<pos, job>>
  <2>1. Copied' = Copied /\ Updated' = Updated
    BY <1>5 DEF Copied, Updated
  <2> QED BY <1>5, <2>1 DEF CountInv, At
<1> QED BY <1>1, <1>2, <1>3, <1>4, <1>5, Moves, Positions

\* The counts are those of the copies in every reachable state.
LEMMA CountInvariant == ~CacheMayLag => (Spec => []CountInv)
<1> SUFFICES ASSUME ~CacheMayLag
             PROVE  Spec => []CountInv
  OBVIOUS
<1>1. Init => CountInv
  BY DEF Init, CountInv, At
<1>2. TypeOK /\ TypeOK' /\ TrackInv /\ CountInv /\ [Next]_vars => CountInv'
  BY CountStep
<1> QED BY <1>1, <1>2, TypeCorrect, TrackInvariant, PTL DEF Spec

\* A status write that moves the current revision is one of a reconcile all
\* of whose copies are updated, and so are the pods.
LEMMA Completes ==
  ASSUME TypeOK, RevisionInv, TrackInv, CountInv, UpdateStatefulSetStatus,
         status'.current # status.current, status.current # NoTemplate
  PROVE  \A o \in Ord : isCreated(pods[o]) /\ ~isTerminating(pods[o]) =>
           pods[o].rev = status'.current
<1> DEFINE s == [current |-> job.cur, update |-> job.upd,
                 st |-> job.st, observed |-> job.gen]
<1>1. pos.at \notin {"idle", "truncate"}
  BY Positions DEF UpdateStatefulSetStatus
<1>2. status.current = job.cur
  BY <1>1 DEF RevisionInv, JobRevisionsKept, At
<1>3. status' = completeRollingUpdate(s)
  BY DEF UpdateStatefulSetStatus, NewStatus
<1>4. UpdateComplete(job.st) /\ status'.current = job.upd
  BY <1>2, <1>3 DEF completeRollingUpdate
<1>5. Cardinality(Copied) <= Cardinality(Updated)
  BY <1>1, <1>4 DEF UpdateComplete, CountInv, At
<1>6. Updated = Copied
  <2>1. Cardinality(Updated) <= Cardinality(Copied)
    BY CountedSets, FS_Subset
  <2>2. Cardinality(Updated) = Cardinality(Copied)
    BY <1>5, <2>1, CountedSets
  <2> QED BY <2>2, CountedSets, FS_Subset
<1>7. ASSUME NEW o \in Ord, isCreated(pods[o]), ~isTerminating(pods[o])
      PROVE  pods[o].rev = job.upd
  <2>1. Follows(o)
    BY <1>1 DEF TrackInv, FollowInv, At
  <2>2. o \in Updated
    BY <1>6, <1>7, <2>1 DEF Follows, Copied
  <2> QED BY <1>7, <2>1, <2>2 DEF Follows, SamePod, Updated, Copied
<1> QED BY <1>4, <1>7

\* Only the status write changes the status.
LEMMA WhoSettles ==
  ASSUME TypeOK, [Next]_vars, status' # status
  PROVE  UpdateStatefulSetStatus
<1>1. CASE \E x \in Ord : PodWrite(x) \/ InPlaceUpdateFails(x)
  BY <1>1, PodWriteFrame DEF TypeOK
<1>2. CASE \E x \in Ord : Kubelet(x) \/ Fault(x)
  BY <1>2, EnvironmentSurvives
<1>3. CASE \/ Reconcile \/ RejectedWrite \/ SkipStatus \/ StatusConflict
           \/ DeleteControllerRevision \/ SyncError \/ CacheSync \/ Edit
           \/ Restart \/ UNCHANGED vars
  BY <1>3 DEF Reconcile, RejectedWrite, SkipStatus, StatusConflict,
              DeleteControllerRevision, SyncError, CacheSync, Edit, Restart,
              vars, apiVars
<1> QED BY <1>1, <1>2, <1>3 DEF Next, Worker

\* status.currentRevision moves only when every live pod runs the new
\* revision, although the counts it is decided on are those of copies, made
\* before the pods were patched, deleted and created.
THEOREM CompletionAlwaysSound ==
  ~CacheMayLag => (Spec => CompletionSound)
<1> SUFFICES ASSUME ~CacheMayLag
             PROVE  Spec => CompletionSound
  OBVIOUS
<1> DEFINE P == status'.current # status.current /\ status.current # NoTemplate =>
                  \A o \in Ord : isCreated(pods[o]) /\ ~isTerminating(pods[o]) =>
                    pods[o].rev = status'.current
<1>1. TypeOK /\ RevisionInv /\ TrackInv /\ CountInv /\ [Next]_vars => P
  BY WhoSettles, Completes
<1>2. [][P]_vars => CompletionSound
  BY PTL DEF CompletionSound
<1> QED BY <1>1, <1>2, RevisionInvariant, TrackInvariant, CountInvariant, PTL
        DEF Spec

-----------------------------------------------------------------------------
(* The refinement.                                                          *)

Running == [o \in Ord |-> LiveRevision(pods[o])]

\* A pod that survives runs its revision, or nothing.
LEMMA SurvivorRuns ==
  ASSUME NEW p, NEW q, Survives(p, q)
  PROVE  LiveRevision(q) \in {LiveRevision(p), NoTemplate}
BY DEF Survives, LiveRevision, Absent, isCreated, isTerminating

\* A step that changes one pod changes what that ordinal runs.
LEMMA RunningStep ==
  ASSUME TypeOK, NEW x \in Ord, NEW p, pods' = [pods EXCEPT ![x] = p]
  PROVE  /\ Running' = [Running EXCEPT ![x] = LiveRevision(p)]
         /\ Running[x] = LiveRevision(pods[x])
BY DEF Running, TypeOK

\* A surviving pod is a removal or a stutter.
LEMMA RemovalRefines ==
  ASSUME TypeOK, NEW x \in Ord, NEW p, pods' = [pods EXCEPT ![x] = p],
         Survives(pods[x], p), UNCHANGED <<spec, status, revision>>
  PROVE  [R!Next]_(R!vars)
<1>1. ListControllerRevisions' = ListControllerRevisions
  BY DEF ListControllerRevisions
<1>2. CASE LiveRevision(p) = LiveRevision(pods[x])
  <2>1. Running' = Running
    BY <1>2, RunningStep DEF Running
  <2> QED BY <1>1, <2>1 DEF R!vars, Running
<1>3. CASE LiveRevision(p) = NoTemplate /\ LiveRevision(pods[x]) # NoTemplate
  <2>1. /\ Running[x] # NoTemplate
        /\ Running' = [Running EXCEPT ![x] = NoTemplate]
    BY <1>3, RunningStep
  <2>2. R!Remove(x)
    BY <1>1, <2>1 DEF R!Remove, Running
  <2> QED BY <2>2 DEF R!Next
<1> QED BY <1>2, <1>3, SurvivorRuns

\* A write of a pod creates, moves or removes one, or changes nothing that
\* counts.
LEMMA PodWriteRefines ==
  ASSUME TypeOK, RevisionInv, TrackInv, PodRevisionInv, NEW x \in Ord,
         PodWrite(x) \/ InPlaceUpdateFails(x)
  PROVE  [R!Next]_(R!vars)
<1>0. pods \in [Ord -> Pod] /\ pods[x] \in Pod
  BY DEF TypeOK
<1>1. UNCHANGED <<spec, status, revision>> /\ pos.at # "idle"
  BY PodWriteFrame DEF TypeOK
<1>2. ListControllerRevisions' = ListControllerRevisions
  BY <1>1 DEF ListControllerRevisions
<1>3. job.cur \in ListControllerRevisions /\ job.upd \in ListControllerRevisions
  BY <1>1 DEF RevisionInv, JobRevisionsKept, At, ListControllerRevisions
<1>4. pods' = pods \/ \E p : pods' = [pods EXCEPT ![x] = p]
  BY DEF PodWrite, InPlaceUpdateFails, DeleteFailedPod, CreateStatefulPod,
         UpdateInPlaceReady, MarkNotReady, SetGate, TerminateCondemned,
         TerminateForUpdate, DeleteForUpdate, PatchPod
<1>5. pods' = [pods EXCEPT ![x] = pods'[x]]
  BY <1>0, <1>4
<1>6. /\ Running' = [Running EXCEPT ![x] = LiveRevision(pods'[x])]
      /\ Running[x] = LiveRevision(pods[x])
  BY <1>5, RunningStep
<1>7. CASE LiveRevision(pods'[x]) = LiveRevision(pods[x])
  <2>1. Running' = Running
    BY <1>6, <1>7 DEF Running
  <2> QED BY <1>1, <1>2, <2>1 DEF R!vars, Running
<1>8. CASE CreateStatefulPod(x)
           /\ pods'[x] = FreshPod(newVersionedStatefulSetPod(x))
  <2>1. LiveRevision(pods[x]) = NoTemplate
    BY <1>8 DEF CreateStatefulPod, LiveRevision
  <2>2. LiveRevision(pods'[x]) = newVersionedStatefulSetPod(x)
    BY <1>8 DEF FreshPod, Absent, LiveRevision, isCreated, isTerminating
  <2>3. LiveRevision(pods'[x]) \in ListControllerRevisions
    BY <1>3, <2>2, VersionedRevision
  <2>4. R!Create(x)
    BY <1>1, <1>2, <1>6, <2>1, <2>3 DEF R!Create, Running
  <2> QED BY <2>4 DEF R!Next
<1>9. CASE SameCopy(pods[x], pods'[x])
  BY <1>7, <1>9 DEF SameCopy, LiveRevision, isCreated, isTerminating
<1>10. CASE /\ isCreated(pods[x])
            /\ pods'[x] = podInPlaceUpdate(pods[x], job.upd)
  <2>1. /\ pods'[x].rev = job.upd /\ pods'[x].phase = pods[x].phase
        /\ pods'[x].term = pods[x].term
    BY <1>0, <1>10 DEF podInPlaceUpdate, Pod
  <2>2. CASE isTerminating(pods[x])
    BY <1>7, <2>1, <2>2 DEF LiveRevision, isCreated, isTerminating
  <2>3. CASE ~isTerminating(pods[x])
    <3>1. /\ LiveRevision(pods[x]) = pods[x].rev
          /\ LiveRevision(pods'[x]) = job.upd
      BY <1>10, <2>1, <2>3 DEF LiveRevision, isCreated, isTerminating
    <3>2. pods[x].rev # NoTemplate
      BY <1>10, TemplateAssumption DEF PodRevisionInv, PodRevisionsKept
    <3>3. R!Move(x)
      BY <1>1, <1>2, <1>3, <1>6, <3>1, <3>2 DEF R!Move, Running
    <3> QED BY <3>3 DEF R!Next
  <2> QED BY <2>2, <2>3
<1>11. CASE Survives(pods[x], pods'[x])
  BY <1>1, <1>5, <1>11, RemovalRefines
<1> QED BY <1>7, <1>8, <1>9, <1>10, <1>11, WriteEffects

\* The start of a reconcile records the revision that is asked for.
LEMMA ReconcileRefines ==
  ASSUME TypeOK, Reconcile
  PROVE  [R!Next]_(R!vars)
<1> DEFINE upd == checkSetDefaultVariable(spec).template
<1>1. upd = spec.template /\ upd \in Templates
  BY DefaultType DEF TypeOK, SpecType
<1>2. UNCHANGED <<spec, status, pods>>
  BY DEF Reconcile
<1>3. Running' = Running
  BY <1>2 DEF Running
<1>4. \/ revision' = revision
      \/ nextRevision(upd)
  BY DEF Reconcile, UpdateStatefulSet, getStatefulSetRevisions,
         CreateControllerRevision, UpdateControllerRevision
<1>5. CASE revision' = revision
  BY <1>2, <1>3, <1>5 DEF R!vars, Running, ListControllerRevisions
<1>6. CASE nextRevision(upd)
  <2>1. ListControllerRevisions' = ListControllerRevisions \cup {upd}
    BY <1>1, <1>6 DEF nextRevision, ListControllerRevisions, TypeOK
  <2>2. R!Record
    BY <1>1, <1>2, <1>3, <2>1 DEF R!Record, Running
  <2> QED BY <2>2 DEF R!Next
<1> QED BY <1>4, <1>5, <1>6

\* The status write settles the set at a revision, or at the one it is at.
LEMMA StatusRefines ==
  ASSUME TypeOK, RevisionInv, TrackInv, CountInv, UpdateStatefulSetStatus
  PROVE  [R!Next]_(R!vars)
<1>1. UNCHANGED <<spec, pods, revision>>
  BY DEF UpdateStatefulSetStatus
<1>2. Running' = Running /\ ListControllerRevisions' = ListControllerRevisions
  BY <1>1 DEF Running, ListControllerRevisions
<1>3. CASE status'.current = status.current
  BY <1>1, <1>2, <1>3 DEF R!vars, Running
<1>4. CASE status'.current # status.current
  <2>1. status'.current \in {job.cur, job.upd}
    BY NewStatusType DEF UpdateStatefulSetStatus, TypeOK
  <2>2. JobRevisionsKept
    BY Positions DEF UpdateStatefulSetStatus, RevisionInv, At
  <2>3. status'.current \in ListControllerRevisions
    BY <2>1, <2>2 DEF JobRevisionsKept, ListControllerRevisions
  <2>4. status.current # NoTemplate =>
          \A o \in Ord : Running[o] \in {NoTemplate, status'.current}
    BY <1>4, Completes DEF Running, LiveRevision
  <2>5. R!Settle(status'.current)
    BY <1>1, <1>2, <2>3, <2>4 DEF R!Settle, Running
  <2> QED BY <2>3, <2>5 DEF R!Next, ListControllerRevisions
<1> QED BY <1>3, <1>4

\* The truncation forgets a revision that nothing needs.
LEMMA TruncationRefines ==
  ASSUME TypeOK, RevisionInv, PodRevisionInv, DeleteControllerRevision
  PROVE  [R!Next]_(R!vars)
<1>1. PICK t \in job.doomed :
             /\ At("truncate")
             /\ revision' = [revision EXCEPT ![t] = 0]
             /\ UNCHANGED <<spec, status, pods>>
  BY DEF DeleteControllerRevision
<1>2. t \in Templates
  BY DEF TypeOK, Job
<1>3. t # status.current
  BY <1>1, <1>2, TemplateAssumption DEF RevisionInv, JobRevisionsKept, At
<1>4. \A o \in Ord : Running[o] # t
  BY <1>1, <1>2, TemplateAssumption
     DEF Running, LiveRevision, PodRevisionInv, PodRevisionsKept, At
<1>5. ListControllerRevisions' = ListControllerRevisions \ {t}
  BY <1>1, <1>2 DEF ListControllerRevisions, TypeOK
<1>6. Running' = Running
  BY <1>1 DEF Running
<1>7. R!Forget(t)
  BY <1>1, <1>3, <1>4, <1>5, <1>6 DEF R!Forget, Running
<1> QED BY <1>2, <1>7 DEF R!Next

\* Every step of the control loop and its environment is a step of the
\* roll-out, or none.
LEMMA StepRefines ==
  ASSUME TypeOK, TypeOK', RevisionInv, TrackInv, PodRevisionInv, CountInv,
         [Next]_vars
  PROVE  [R!Next]_(R!vars)
<1>1. CASE \E x \in Ord : PodWrite(x) \/ InPlaceUpdateFails(x)
  BY <1>1, PodWriteRefines
<1>2. CASE \E x \in Ord : Kubelet(x) \/ Fault(x)
  <2>1. PICK x \in Ord : Kubelet(x) \/ Fault(x)
    BY <1>2
  <2> QED BY <2>1, EnvironmentSurvives, RemovalRefines
<1>3. CASE Edit
  <2>1. UNCHANGED <<status, pods, revision>>
    BY <1>3 DEF Edit
  <2>2. Running' = Running /\ ListControllerRevisions' = ListControllerRevisions
    BY <2>1 DEF Running, ListControllerRevisions
  <2>3. spec'.template \in Templates
    BY DEF TypeOK, SpecType
  <2>4. R!Publish
    BY <2>1, <2>2, <2>3 DEF R!Publish, Running
  <2> QED BY <2>4 DEF R!Next
<1>4. CASE \/ RejectedWrite \/ SkipStatus \/ StatusConflict \/ SyncError
           \/ CacheSync \/ Restart \/ UNCHANGED vars
  <2>1. UNCHANGED <<spec, status, pods, revision>>
    BY <1>4 DEF RejectedWrite, SkipStatus, StatusConflict, SyncError,
                CacheSync, Restart, vars, apiVars
  <2> QED BY <2>1 DEF R!vars, ListControllerRevisions
<1> QED BY <1>1, <1>2, <1>3, <1>4, ReconcileRefines, StatusRefines,
           TruncationRefines DEF Next, Worker

\* The control loop implements the abstract roll-out, for every number of
\* replicas, every set of templates and specifications and every history
\* limit: a pod only ever runs a recorded revision, no revision in use is
\* forgotten, and the set is declared to be at a revision only when every
\* live pod runs it, however the writes of a reconcile interleave with the
\* user, the kubelets, faults, errors and restarts.
THEOREM RolloutImplemented ==
  ~CacheMayLag => (Spec => ImplementsRollout)
<1> SUFFICES ASSUME ~CacheMayLag
             PROVE  Spec => ImplementsRollout
  OBVIOUS
<1>1. Init => R!Init
  <2> SUFFICES ASSUME Init PROVE R!Init
    OBVIOUS
  <2>1. spec.template \in Templates /\ status.current = NoTemplate
    BY SpecsAssumption DEF Init, SpecType
  <2>2. ListControllerRevisions = {}
    BY DEF Init, ListControllerRevisions
  <2>3. \A o \in Ord : LiveRevision(pods[o]) = NoTemplate
    BY DEF Init, LiveRevision, isCreated, Absent
  <2>4. [o \in Ord |-> LiveRevision(pods[o])] = [o \in Ord |-> NoTemplate]
    BY <2>3
  <2> QED BY <2>1, <2>2, <2>4 DEF R!Init
<1>2. /\ TypeOK /\ TypeOK' /\ RevisionInv /\ TrackInv /\ PodRevisionInv
      /\ CountInv /\ [Next]_vars
      => [R!Next]_(R!vars)
  BY StepRefines
<1> QED BY <1>1, <1>2, RevisionInvariant, TrackInvariant,
           PodRevisionInvariant, CountInvariant, PTL
        DEF Spec, ImplementsRollout, R!Spec

-----------------------------------------------------------------------------
(* What OrderedReady promises about healthy pods, when pods are recreated:  *)
(* no template differs from another in an image only, so no pod is patched  *)
(* in place.  (A pod that was patched is ready until the kubelet restarts   *)
(* it, and the loops pass it as if it would stay so: with in-place updates  *)
(* the promises below do not hold.)                                         *)

\* A pod that runs, runs its revision; a ready one stays so by itself.
SteadyInv ==
  /\ ~At("patch")
  /\ \A o \in Ord :
       /\ pods[o].phase \in {"NotReady", "Ready"} => pods[o].image = pods[o].rev
       /\ pods[o].phase = "Ready" /\ HasGate => pods[o].gate = "True"
       /\ pods[o].last = NoTemplate
       /\ faults = 0 => ~isFailed(pods[o])

\* Nothing is updated in place.
LEMMA NothingInPlace ==
  ASSUME ImageOnly = {}, SteadyInv, NEW o
  PROVE  ~shouldDoInPlaceUpdate(o) /\ ~InPlaceWrite(o) /\ ~PatchPod(o)
BY DEF shouldDoInPlaceUpdate, InPlaceWrite, PatchPod, SteadyInv

\* A kubelet leaves a healthy pod alone, and every running one on its
\* revision.
LEMMA KubeletSteady ==
  ASSUME TypeOK, SteadyInv, NEW o \in Ord, Kubelet(o)
  PROVE  /\ faults' = faults
         /\ isHealthy(pods[o]) => pods'[o] = pods[o]
         /\ pods'[o].phase \in {"NotReady", "Ready"} =>
              pods'[o].image = pods'[o].rev
         /\ pods'[o].phase = "Ready" /\ HasGate => pods'[o].gate = "True"
         /\ pods'[o].last = NoTemplate
         /\ isFailed(pods'[o]) => isFailed(pods[o])
<1>0. /\ pods \in [Ord -> Pod] /\ pods[o] \in Pod /\ pods[o].last = NoTemplate
      /\ pods[o].phase \in {"NotReady", "Ready"} => pods[o].image = pods[o].rev
      /\ pods[o].phase = "Ready" /\ HasGate => pods[o].gate = "True"
  BY DEF TypeOK, SteadyInv
<1>1. faults' = faults
  BY DEF Kubelet, KubeletStart, KubeletReady, KubeletUnready, KubeletRemove,
         budgetVars
<1>2. CASE KubeletStart(o)
  <2>1. /\ pods[o].phase = "Pending"
        /\ pods'[o] = [pods[o] EXCEPT !.phase = "NotReady", !.image = pods[o].rev]
    BY <1>0, <1>2 DEF KubeletStart, SetPod
  <2>2. /\ pods'[o].phase = "NotReady" /\ pods'[o].image = pods[o].rev
        /\ pods'[o].rev = pods[o].rev /\ pods'[o].last = pods[o].last
    BY <1>0, <2>1 DEF Pod
  <2> QED BY <1>0, <1>1, <2>1, <2>2
          DEF isHealthy, isRunningAndReady, isFailed
<1>3. CASE KubeletReady(o)
  <2>1. /\ pods[o].phase = "NotReady" /\ (HasGate => pods[o].gate = "True")
        /\ pods'[o] = [pods[o] EXCEPT !.phase = "Ready"]
    BY <1>0, <1>3 DEF KubeletReady, SetPod
  <2>2. /\ pods'[o].phase = "Ready" /\ pods'[o].image = pods[o].image
        /\ pods'[o].rev = pods[o].rev /\ pods'[o].last = pods[o].last
        /\ pods'[o].gate = pods[o].gate
    BY <1>0, <2>1 DEF Pod
  <2> QED BY <1>0, <1>1, <2>1, <2>2
          DEF isHealthy, isRunningAndReady, isFailed
<1>4. ~KubeletUnready(o)
  BY <1>0 DEF KubeletUnready
<1>5. CASE KubeletRemove(o)
  <2>1. pods[o].term /\ pods'[o] = Absent
    BY <1>0, <1>5 DEF KubeletRemove, SetPod
  <2> QED BY <1>1, <2>1 DEF isHealthy, isTerminating, Absent, isFailed
<1> QED BY <1>2, <1>3, <1>4, <1>5 DEF Kubelet

\* The count of faults only grows, and with every fault.
LEMMA FaultsCounted ==
  ASSUME TypeOK, [Next]_vars, faults' = 0
  PROVE  faults = 0 /\ \A x \in Ord : ~Fault(x)
<1>0. faults \in Nat
  BY DEF TypeOK
<1>1. ASSUME NEW x \in Ord, Fault(x) PROVE FALSE
  BY <1>0, <1>1 DEF Fault
<1>2. CASE \E x \in Ord : PodWrite(x) \/ InPlaceUpdateFails(x)
  <2>1. UNCHANGED faults
    BY <1>2 DEF PodWrite, DeleteFailedPod, CreateStatefulPod,
                UpdateInPlaceReady, TerminateCondemned, TerminateForUpdate,
                MarkNotReady, PatchPod, InPlaceUpdateFails, budgetVars
  <2> QED BY <1>1, <2>1
<1>3. CASE \/ Reconcile \/ RejectedWrite \/ SkipStatus
           \/ UpdateStatefulSetStatus \/ StatusConflict
           \/ DeleteControllerRevision \/ SyncError \/ CacheSync \/ Edit
           \/ Restart \/ UNCHANGED vars
  <2>1. UNCHANGED faults
    BY <1>3 DEF Reconcile, RejectedWrite, SkipStatus,
                UpdateStatefulSetStatus, StatusConflict,
                DeleteControllerRevision, SyncError, CacheSync, Edit,
                Restart, vars, budgetVars
  <2> QED BY <1>1, <2>1
<1>4. CASE \E x \in Ord : Kubelet(x)
  <2>1. UNCHANGED faults
    BY <1>4 DEF Kubelet, KubeletStart, KubeletReady, KubeletUnready,
                KubeletRemove, budgetVars
  <2> QED BY <1>1, <2>1
<1> QED BY <1>1, <1>2, <1>3, <1>4 DEF Next, Worker

\* Every step keeps the pods steady.
LEMMA SteadyStep ==
  ASSUME ImageOnly = {}, TypeOK, TypeOK', TrackInv, SteadyInv, [Next]_vars
  PROVE  SteadyInv'
<1>1. ~At("patch")'
  <2>1. CASE \E x \in Ord : PodWrite(x) \/ InPlaceUpdateFails(x)
    BY <2>1, NothingInPlace
       DEF PodWrite, DeleteFailedPod, CreateStatefulPod, UpdateInPlaceReady,
           TerminateCondemned, TerminateForUpdate, DeleteForUpdate,
           MarkNotReady, InPlaceUpdateFails, Goto, At
  <2>2. CASE Reconcile
    BY <2>2 DEF Reconcile, UpdateStatefulSet, Goto, At
  <2> QED BY <2>1, <2>2, Moves DEF At, SteadyInv
<1>2. ASSUME NEW o \in Ord
      PROVE  /\ pods'[o].phase \in {"NotReady", "Ready"} =>
                  pods'[o].image = pods'[o].rev
             /\ pods'[o].phase = "Ready" /\ HasGate => pods'[o].gate = "True"
             /\ pods'[o].last = NoTemplate
             /\ faults' = 0 => ~isFailed(pods'[o])
  <2>0. /\ pods \in [Ord -> Pod] /\ pods[o] \in Pod
        /\ pods[o].phase \in {"NotReady", "Ready"} => pods[o].image = pods[o].rev
        /\ pods[o].phase = "Ready" /\ HasGate => pods[o].gate = "True"
        /\ pods[o].last = NoTemplate
        /\ faults = 0 => ~isFailed(pods[o])
    BY DEF TypeOK, SteadyInv
  <2>1. faults' = 0 => faults = 0 /\ \A x \in Ord : ~Fault(x)
    BY FaultsCounted
  <2>2. CASE pods'[o] = pods[o]
    BY <2>0, <2>1, <2>2
  <2>3. ASSUME NEW p \in Deleted(pods[o]), pods'[o] = p
        PROVE  /\ p.phase \in {"NotReady", "Ready"} => p.image = p.rev
               /\ p.phase = "Ready" /\ HasGate => p.gate = "True"
               /\ p.last = NoTemplate
               /\ isFailed(p) => isFailed(pods[o])
    <3>1. p = Absent \/ p = [pods[o] EXCEPT !.term = TRUE]
      BY DEF Deleted
    <3> QED BY <2>0, <3>1 DEF Absent, Pod, isFailed
  <2>4. CASE PodWrite(o) \/ InPlaceUpdateFails(o)
    <3>1. CASE \E p \in Deleted(pods[o]) : pods' = [pods EXCEPT ![o] = p]
      BY <2>0, <2>1, <2>3, <3>1
    <3>2. CASE CreateStatefulPod(o)
      BY <2>0, <3>2 DEF CreateStatefulPod, FreshPod, Absent, isFailed
    <3>3. CASE UpdateInPlaceReady(o)
      <4>1. pods'[o] = [pods[o] EXCEPT !.gate = "True"]
        BY <2>0, <3>3 DEF UpdateInPlaceReady, SetGate
      <4>2. /\ pods'[o].phase = pods[o].phase /\ pods'[o].gate = "True"
            /\ pods'[o].image = pods[o].image /\ pods'[o].rev = pods[o].rev
            /\ pods'[o].last = pods[o].last
        BY <2>0, <4>1 DEF Pod
      <4> QED BY <2>0, <2>1, <4>2 DEF isFailed
    <3> QED BY <2>4, <3>1, <3>2, <3>3, NothingInPlace
            DEF PodWrite, DeleteFailedPod, TerminateCondemned, MarkNotReady,
                TerminateForUpdate, DeleteForUpdate, InPlaceUpdateFails
  <2>5. CASE Kubelet(o)
    BY <2>0, <2>5, KubeletSteady
  <2>6. CASE Fault(o)
    <3>1. faults' # 0
      BY <2>1, <2>6
    <3>2. CASE SetPod(o, [pods[o] EXCEPT !.phase = "Failed"])
      BY <2>0, <3>1, <3>2 DEF SetPod, Pod
    <3>3. CASE /\ pods[o].phase = "Ready"
               /\ SetPod(o, [pods[o] EXCEPT !.phase = "NotReady"])
      BY <2>0, <3>1, <3>3 DEF SetPod, Pod
    <3>4. CASE \E p \in Deleted(pods[o]) : SetPod(o, p)
      BY <2>0, <2>3, <3>1, <3>4 DEF SetPod
    <3> QED BY <2>6, <3>2, <3>3, <3>4 DEF Fault
  <2> QED BY <2>2, <2>4, <2>5, <2>6, WhoWrites
<1> QED BY <1>1, <1>2 DEF SteadyInv

-----------------------------------------------------------------------------
(* The loops find healthy pods, and leave them so.                          *)

\* With OrderedReady the replicas the replica loop has passed are healthy,
\* and so are all of them in the update loop.
PassedHealthy ==
  monotonic =>
    \A q \in Replicas : (At("replicas") /\ q < pos.i) \/ At("update") =>
      isHealthy(job.snap[q])

\* The update loop has deleted o.
UpdateDeleted(o) ==
  At("update") /\ o >= pos.i /\ job.snap[o].rev # job.upd

\* A replica found healthy is healthy until the update loop deletes it.
HealthyStay ==
  faults = 0 /\ pos.at \in {"replicas", "condemned", "update"} =>
    \A o \in Replicas :
      isHealthy(job.snap[o]) => isHealthy(pods[o]) \/ UpdateDeleted(o)

\* The replicas below the one the loop comes to next are healthy.
LEMMA BelowHealthy ==
  ASSUME TypeOK, PassedHealthy, monotonic, At("replicas"),
         NEW o \in 0 .. MaxReplicas, Passed(o), NEW q \in Replicas, q < o
  PROVE  isHealthy(job.snap[q])
<1>1. q \in Int /\ pos.i \in Int
  BY ReplicasAssumption DEF Replicas, Ord, TypeOK
<1>2. CASE q < pos.i
  BY <1>2 DEF PassedHealthy
<1>3. CASE q >= pos.i
  BY <1>3 DEF Passed, NeedsWork
<1> QED BY <1>1, <1>2, <1>3

\* In the update loop all replicas are.
LEMMA UpdatingHealthy ==
  ASSUME TypeOK, StageInv, PassedHealthy, monotonic, Updating, NEW q \in Replicas
  PROVE  isHealthy(job.snap[q])
<1>1. CASE At("update")
  BY <1>1 DEF PassedHealthy
<1>2. CASE ~At("update")
  <2>1. At("replicas") /\ Passed(MaxReplicas)
    BY <1>2 DEF Updating, Scaled, Scaling, StageInv
  <2>2. MaxReplicas \in 0 .. MaxReplicas /\ q < MaxReplicas
    BY ReplicasAssumption DEF Replicas, Ord
  <2> QED BY <2>1, <2>2, BelowHealthy
<1> QED BY <1>1, <1>2

\* Every step keeps the passed replicas healthy in the reconcile's copies.
LEMMA PassedStep ==
  ASSUME ImageOnly = {}, TypeOK, SteadyInv, StageInv, PassedHealthy,
         [Next]_vars
  PROVE  PassedHealthy'
<1>0. job \in Job /\ job.snap \in [Ord -> Pod]
  BY DEF TypeOK, Job
<1>1. CASE Reconcile
  <2>1. \/ pos'.at = "status"
        \/ pos'.at = "replicas" /\ pos'.i = 0
    BY <1>1 DEF Reconcile, UpdateStatefulSet, Goto
  <2>2. \A q \in Ord : ~(q < 0)
    BY ReplicasAssumption DEF Ord
  <2> QED BY <2>1, <2>2 DEF PassedHealthy, At, Replicas
<1>2. CASE \E x \in Ord : PodWrite(x) \/ InPlaceUpdateFails(x)
  <2>1. PICK x \in Ord : PodWrite(x) \/ InPlaceUpdateFails(x)
    BY <1>2
  <2>2. job'.set = job.set
    BY <2>1, PodWriteFrame DEF TypeOK
  <2>3. Replicas' = Replicas /\ (monotonic' <=> monotonic)
    BY <2>2 DEF Replicas, monotonic
  <2>4. /\ x \in Int /\ x \in 0 .. MaxReplicas
        /\ \A q \in Replicas : q \in Ord /\ q \in Int
    BY ReplicasAssumption DEF Replicas, Ord
  <2>5. CASE pos'.at = "status" \/ pos'.at = "condemned"
    BY <2>5 DEF PassedHealthy, At
  <2>6. ASSUME monotonic, NextReplica(x), NEW s,
               job'.snap = [job.snap EXCEPT ![x] = s],
               \/ pos' = [at |-> "replicas", i |-> x]
               \/ pos' = [at |-> "replicas", i |-> x + 1] /\ isHealthy(s)
        PROVE  PassedHealthy'
    <3>1. ASSUME NEW q \in Replicas, q < x PROVE isHealthy(job'.snap[q])
      <4>1. isHealthy(job.snap[q])
        BY <2>4, <2>6, <3>1, BelowHealthy DEF NextReplica
      <4> QED BY <1>0, <2>4, <2>6, <3>1, <4>1
    <3>2. job'.snap[x] = s
      BY <1>0, <2>6
    <3> QED BY <2>3, <2>4, <2>6, <3>1, <3>2 DEF PassedHealthy, At
  <2>7. CASE DeleteFailedPod(x)
    <3>1. /\ NextReplica(x) /\ pos' = [at |-> "replicas", i |-> x]
          /\ job'.snap = [job.snap EXCEPT ![x] = Absent]
      BY <1>0, <2>7 DEF DeleteFailedPod, Goto, Job
    <3> QED BY <2>3, <2>6, <3>1 DEF PassedHealthy
  <2>8. CASE CreateStatefulPod(x)
    <3>1. monotonic => pos'.at = "status"
      BY <2>8 DEF CreateStatefulPod, Goto
    <3> QED BY <2>3, <2>5, <3>1 DEF PassedHealthy
  <2>9. CASE UpdateInPlaceReady(x)
    <3> DEFINE s == [job.snap[x] EXCEPT !.gate = "True"]
    <3>1. /\ NextReplica(x) /\ ~MustWait(x)
          /\ isCreated(job.snap[x]) /\ ~isFailed(job.snap[x])
          /\ job'.snap = [job.snap EXCEPT ![x] = s]
          /\ \/ pos'.at = "status"
             \/ /\ pos' = [at |-> "replicas", i |-> x + 1]
                /\ monotonic => isRunningAndReady(job.snap[x])
      BY <1>0, <2>9 DEF UpdateInPlaceReady, SetGate, Goto, Job
    <3>2. CASE pos'.at = "status" \/ ~monotonic
      BY <2>3, <2>5, <3>2 DEF PassedHealthy
    <3>3. CASE pos'.at # "status" /\ monotonic
      <4>1. isHealthy(job.snap[x])
        BY <3>1, <3>3 DEF MustWait, isHealthy
      <4>2. isHealthy(s)
        BY <1>0, <4>1 DEF isHealthy, isRunningAndReady, isTerminating, Pod
      <4> QED BY <2>6, <3>1, <3>3, <4>2
    <3> QED BY <3>2, <3>3
  <2>10. CASE TerminateCondemned(x)
    BY <2>5, <2>10 DEF TerminateCondemned, Goto
  <2>11. CASE TerminateForUpdate(x)
    <3>1. Updating /\ pos'.at = "update" /\ job'.snap = job.snap
      BY <1>0, <2>11 DEF TerminateForUpdate, NextUpdate, DeleteForUpdate,
                         Goto, Job
    <3> QED BY <2>3, <3>1, UpdatingHealthy DEF PassedHealthy, At
  <2> QED BY <2>1, <2>7, <2>8, <2>9, <2>10, <2>11, NothingInPlace
          DEF PodWrite, MarkNotReady, InPlaceUpdateFails
<1>3. CASE pos'.at = "idle" \/ pos'.at = "truncate"
  BY <1>3 DEF PassedHealthy, At
<1>4. CASE UNCHANGED <<pos, job>>
  BY <1>4 DEF PassedHealthy, At, Replicas, monotonic
<1> QED BY <1>1, <1>2, <1>3, <1>4, Moves, NothingInPlace

\* Every step leaves the replicas found healthy as they are, or deletes one
\* for its update.
LEMMA HealthyStep ==
  ASSUME ImageOnly = {}, ~CacheMayLag, TypeOK, SteadyInv, HealthyStay,
         [Next]_vars
  PROVE  HealthyStay'
<1> SUFFICES ASSUME faults' = 0,
                    pos'.at \in {"replicas", "condemned", "update"},
                    NEW o \in Replicas', isHealthy(job'.snap[o])
             PROVE  isHealthy(pods'[o]) \/ UpdateDeleted(o)'
  BY DEF HealthyStay
<1>0. /\ job \in Job /\ job.snap \in [Ord -> Pod] /\ pods \in [Ord -> Pod]
      /\ o \in Ord /\ o \in Int /\ pos.i \in Int
  BY ReplicasAssumption DEF TypeOK, Job, Replicas, Ord
<1>1. faults = 0 /\ \A x \in Ord : ~Fault(x)
  BY FaultsCounted
<1>2. CASE Reconcile
  BY <1>2 DEF Reconcile, UpdateStatefulSet
<1>3. CASE \E x \in Ord : PodWrite(x) \/ InPlaceUpdateFails(x)
  <2>1. PICK x \in Ord : PodWrite(x) \/ InPlaceUpdateFails(x)
    BY <1>3
  <2>2. job'.set = job.set /\ job'.upd = job.upd
    BY <2>1, PodWriteFrame DEF TypeOK
  <2>3. o \in Replicas
    BY <2>2 DEF Replicas
  <2>4. pos.at \in {"replicas", "condemned", "update"}
    BY <2>1, NothingInPlace
       DEF PodWrite, DeleteFailedPod, CreateStatefulPod, UpdateInPlaceReady,
           TerminateCondemned, TerminateForUpdate, MarkNotReady,
           InPlaceUpdateFails, NextReplica, NextCondemned, NextUpdate,
           Updating, Scaled, Scaling, At
  <2>5. isHealthy(job.snap[o]) => isHealthy(pods[o]) \/ UpdateDeleted(o)
    BY <1>1, <2>3, <2>4 DEF HealthyStay
  <2>6. CASE DeleteFailedPod(x) \/ CreateStatefulPod(x) \/ UpdateInPlaceReady(x)
    <3>1. ~UpdateDeleted(o)
      BY <2>6 DEF UpdateDeleted, DeleteFailedPod, CreateStatefulPod,
                  UpdateInPlaceReady, NextReplica, At
    <3>2. CASE DeleteFailedPod(x)
      <4>1. /\ job'.snap = [job.snap EXCEPT ![x] = Absent]
            /\ \E p : pods' = [pods EXCEPT ![x] = p]
        BY <1>0, <3>2 DEF DeleteFailedPod, Job
      <4>2. o # x
        BY <1>0, <4>1 DEF Absent, isHealthy, isRunningAndReady
      <4> QED BY <1>0, <2>5, <3>1, <4>1, <4>2
    <3>3. CASE CreateStatefulPod(x)
      <4>1. \E r : /\ job'.snap = [job.snap EXCEPT ![x] = FreshPod(r)]
                   /\ \E p : pods' = [pods EXCEPT ![x] = p]
        BY <1>0, <3>3 DEF CreateStatefulPod, Job
      <4>2. o # x
        BY <1>0, <4>1 DEF FreshPod, Absent, isHealthy, isRunningAndReady
      <4> QED BY <1>0, <2>5, <3>1, <4>1, <4>2
    <3>4. CASE UpdateInPlaceReady(x)
      <4>1. /\ job'.snap = [job.snap EXCEPT
                              ![x] = [job.snap[x] EXCEPT !.gate = "True"]]
            /\ pods' = [pods EXCEPT ![x] = [pods[x] EXCEPT !.gate = "True"]]
        BY <1>0, <3>4 DEF UpdateInPlaceReady, SetGate, Job
      <4>2. /\ isHealthy(job'.snap[o]) <=> isHealthy(job.snap[o])
            /\ isHealthy(pods'[o]) <=> isHealthy(pods[o])
        BY <1>0, <4>1 DEF isHealthy, isRunningAndReady, isTerminating, Pod
      <4> QED BY <2>5, <3>1, <4>2
    <3> QED BY <2>6, <3>2, <3>3, <3>4
  <2>7. CASE TerminateCondemned(x)
    <3>1. /\ job'.snap = job.snap /\ x \notin Replicas
          /\ \E p : pods' = [pods EXCEPT ![x] = p]
      BY <1>0, <2>7 DEF TerminateCondemned, NextCondemned, Condemned, Job
    <3>2. ~UpdateDeleted(o)
      BY <2>7 DEF UpdateDeleted, TerminateCondemned, NextCondemned, Scaling, At
    <3> QED BY <1>0, <2>3, <2>5, <3>1, <3>2
  <2>8. CASE TerminateForUpdate(x)
    <3>0. x \in Int
      BY ReplicasAssumption DEF Ord
    <3>1. /\ job'.snap = job.snap /\ pos' = [at |-> "update", i |-> x]
          /\ \E p : pods' = [pods EXCEPT ![x] = p]
      BY <1>0, <2>8 DEF TerminateForUpdate, DeleteForUpdate, Goto, Job
    <3>4. job.snap[x].rev # job.upd /\ (At("update") => x < pos.i)
      BY <2>8 DEF TerminateForUpdate, NextUpdate, Outdated, Below, At
    <3>2. CASE o = x
      BY <2>2, <3>0, <3>1, <3>2, <3>4 DEF UpdateDeleted, At
    <3>3. CASE o # x
      <4>1. pods'[o] = pods[o] /\ isHealthy(job.snap[o])
        BY <1>0, <3>1, <3>3
      <4>2. UpdateDeleted(o) => UpdateDeleted(o)'
        BY <1>0, <2>2, <3>0, <3>1, <3>4 DEF UpdateDeleted, At
      <4> QED BY <2>5, <4>1, <4>2
    <3> QED BY <3>2, <3>3
  <2> QED BY <2>1, <2>6, <2>7, <2>8, NothingInPlace
          DEF PodWrite, MarkNotReady, InPlaceUpdateFails
<1>4. CASE /\ UNCHANGED <<pos, job>>
           /\ \A x \in Ord : ~PodWrite(x) /\ ~InPlaceUpdateFails(x)
  <2>1. o \in Replicas /\ (UpdateDeleted(o)' <=> UpdateDeleted(o))
    BY <1>4 DEF Replicas, UpdateDeleted, At
  <2>2. isHealthy(pods[o]) \/ UpdateDeleted(o)
    BY <1>1, <1>4, <2>1 DEF HealthyStay
  <2>3. isHealthy(pods[o]) => pods'[o] = pods[o]
    BY <1>0, <1>1, <1>4, KubeletSteady, WhoWrites
  <2> QED BY <2>1, <2>2, <2>3
<1> QED BY <1>2, <1>3, <1>4, Moves, NothingInPlace

\* All of this holds in every reachable state.
LEMMA OrderInvariant ==
  ASSUME ImageOnly = {}, ~CacheMayLag
  PROVE  Spec => [](SteadyInv /\ PassedHealthy /\ HealthyStay)
<1>1. Init => SteadyInv /\ PassedHealthy /\ HealthyStay
  BY DEF Init, SteadyInv, PassedHealthy, HealthyStay, Absent, isFailed, At
<1>2. /\ TypeOK /\ TypeOK' /\ TrackInv /\ StageInv
      /\ SteadyInv /\ PassedHealthy /\ HealthyStay /\ [Next]_vars
      => (SteadyInv /\ PassedHealthy /\ HealthyStay)'
  BY SteadyStep, PassedStep, HealthyStep
<1>3. Spec => []TrackInv
  BY TrackInvariant
<1> QED BY <1>1, <1>2, <1>3, TypeCorrect, StageInvariant, PTL DEF Spec

\* With OrderedReady, when pods are recreated and unless one was broken or
\* deleted from outside, a pod is created only when all of its predecessors
\* are running and ready in the API server, not just in the copies the loop
\* looks at.
THEOREM AlwaysScalesUpInOrder ==
  ASSUME ImageOnly = {}, ~CacheMayLag
  PROVE  Spec => ScaleUpInOrder
<1> DEFINE P(o) == (/\ monotonic /\ faults = 0
                    /\ ~isCreated(pods[o]) /\ isCreated(pods'[o])) =>
                     \A q \in Ord : q < o => isHealthy(pods[q])
<1>1. ASSUME TypeOK, SteadyInv, PassedHealthy, HealthyStay, [Next]_vars,
             NEW o \in Ord
      PROVE  P(o)
  <2> SUFFICES ASSUME monotonic, faults = 0,
                      ~isCreated(pods[o]), isCreated(pods'[o]),
                      NEW q \in Ord, q < o
               PROVE  isHealthy(pods[q])
    OBVIOUS
  <2>1. CreateStatefulPod(o)
    <3>1. ~Survives(pods[o], pods'[o])
      BY DEF Survives, isCreated, Absent
    <3>2. PodWrite(o) \/ InPlaceUpdateFails(o)
      BY <1>1, <3>1, WhoWrites, EnvironmentSurvives DEF TypeOK
    <3> QED BY <1>1, <3>1, <3>2, WriteEffects
  <2>2. At("replicas") /\ o \in Replicas /\ Passed(o)
    BY <2>1 DEF CreateStatefulPod, NextReplica
  <2>3. q \in Replicas /\ o \in 0 .. MaxReplicas
    BY <1>1, <2>2, ReplicasAssumption DEF Replicas, Ord, TypeOK, Job, SpecType
  <2>4. isHealthy(job.snap[q])
    BY <1>1, <2>2, <2>3, BelowHealthy
  <2> QED BY <1>1, <2>2, <2>3, <2>4 DEF HealthyStay, UpdateDeleted, At
<1>2. TypeOK /\ SteadyInv /\ PassedHealthy /\ HealthyStay /\ [Next]_vars =>
        \A o \in Ord : P(o)
  BY <1>1
<1>3. [][\A o \in Ord : P(o)]_vars => ScaleUpInOrder
  BY PTL DEF ScaleUpInOrder
<1>4. Spec => [](SteadyInv /\ PassedHealthy /\ HealthyStay)
  BY OrderInvariant
<1> QED BY <1>2, <1>3, <1>4, TypeCorrect, PTL DEF Spec

-----------------------------------------------------------------------------
(* The budget of the rolling update.                                        *)

\* A budget of zero is none: the loop looks at the last replica before it
\* counts.
AllowsOne(s) == s.maxUnavailable.value >= 1

BudgetInv == AllowsOne(spec) /\ (~At("idle") => AllowsOne(job.set))

\* A reconcile's budget is one it was given.
LEMMA BudgetStep ==
  ASSUME TypeOK, BudgetInv, [Next]_vars,
         \A s \in Specs \cup InitSpecs : AllowsOne(s)
  PROVE  BudgetInv'
<1>1. AllowsOne(spec')
  <2>1. CASE Edit
    BY <2>1 DEF Edit
  <2>2. CASE \E x \in Ord : PodWrite(x) \/ InPlaceUpdateFails(x)
    BY <2>2, PodWriteFrame DEF TypeOK, BudgetInv
  <2>3. CASE \E x \in Ord : Kubelet(x) \/ Fault(x)
    BY <2>3, EnvironmentSurvives DEF BudgetInv
  <2>4. CASE \/ Reconcile \/ RejectedWrite \/ SkipStatus
             \/ UpdateStatefulSetStatus \/ StatusConflict
             \/ DeleteControllerRevision \/ SyncError \/ CacheSync
             \/ Restart \/ UNCHANGED vars
    <3>1. spec' = spec
      BY <2>4 DEF Reconcile, RejectedWrite, SkipStatus,
                  UpdateStatefulSetStatus, StatusConflict,
                  DeleteControllerRevision, SyncError, CacheSync, Restart,
                  vars, apiVars
    <3> QED BY <3>1 DEF BudgetInv
  <2> QED BY <2>1, <2>2, <2>3, <2>4 DEF Next, Worker
<1>2. pos'.at # "idle" => AllowsOne(job'.set)
  <2>1. CASE Reconcile
    <3>1. job'.set = checkSetDefaultVariable(spec)
      BY <2>1 DEF Reconcile, UpdateStatefulSet
    <3>2. checkSetDefaultVariable(spec).maxUnavailable = spec.maxUnavailable
      BY DEF checkSetDefaultVariable, TypeOK, SpecType
    <3> QED BY <3>1, <3>2 DEF BudgetInv, AllowsOne
  <2>2. CASE \E x \in Ord : PodWrite(x) \/ InPlaceUpdateFails(x)
    BY <2>2, PodWriteFrame DEF TypeOK, BudgetInv, At
  <2>3. CASE pos.at # "idle" /\ job'.set = job.set
    BY <2>3 DEF BudgetInv, At
  <2>4. CASE UNCHANGED <<pos, job>>
    BY <2>4 DEF BudgetInv, At
  <2> QED BY <2>1, <2>2, <2>3, <2>4, Moves, Positions DEF Held
<1> QED BY <1>1, <1>2 DEF BudgetInv, At

\* The budget in pods is at least one, percentages being rounded up.
LEMMA BudgetPositive ==
  ASSUME TypeOK, AllowsOne(job.set), NEW o \in Replicas
  PROVE  maxUnavailable >= 1 /\ maxUnavailable \in Int
<1> DEFINE v == job.set.maxUnavailable.value
           r == job.set.replicas
<1>1. v \in Nat /\ r \in Nat /\ r >= 1 /\ v >= 1
  BY ReplicasAssumption DEF TypeOK, Job, SpecType, Replicas, Ord, AllowsOne
<1>2. v * r \in Nat /\ v * r >= 1
  BY <1>1
<1> HIDE DEF v, r
<1>3. ASSUME NEW n \in Nat, n >= 1
      PROVE  (n + 99) \div 100 >= 1 /\ (n + 99) \div 100 \in Int
  BY <1>3
<1>4. (v * r + 99) \div 100 >= 1 /\ (v * r + 99) \div 100 \in Int
  BY <1>2, <1>3
<1> QED BY <1>1, <1>4 DEF maxUnavailable, v, r

\* With OrderedReady, when pods are recreated and unless one was broken or
\* deleted from outside, the rolling update takes down a serving pod only
\* while fewer than maxUnavailable of the other replicas are down in the API
\* server; the loop counts its copies, which do not show what it deleted.
THEOREM BudgetAlwaysKept ==
  ASSUME ImageOnly = {}, ~CacheMayLag,
         \A s \in Specs \cup InitSpecs : AllowsOne(s)
  PROVE  Spec => UpdateBudget
<1> DEFINE P(o) == monotonic /\ faults = 0 /\ ControllerDisrupts(o) =>
                     Cardinality({q \in Replicas \ {o} : ~Serves(pods[q])})
                       < maxUnavailable
<1>1. ASSUME TypeOK, TrackInv, StageInv, SteadyInv, PassedHealthy,
             HealthyStay, BudgetInv, [Next]_vars, NEW o \in Replicas
      PROVE  P(o)
  <2> SUFFICES ASSUME monotonic, faults = 0, ControllerDisrupts(o)
               PROVE  Cardinality({q \in Replicas \ {o} : ~Serves(pods[q])})
                        < maxUnavailable
    OBVIOUS
  <2> DEFINE Down == {q \in Replicas \ {o} : ~Serves(pods[q])}
  <2>0. /\ o \in Ord /\ o \in Int /\ pos.i \in Int
        /\ \A q \in Replicas : q \in Ord /\ q \in Int
    BY <1>1, ReplicasAssumption DEF Replicas, Ord, TypeOK
  <2>1. /\ Serves(pods[o]) /\ isHealthy(pods[o]) /\ ~Serves(pods'[o])
        /\ pos' # pos /\ pods[o].phase = "Ready"
    BY DEF ControllerDisrupts, Serves, isHealthy, isRunningAndReady
  <2>2. NextUpdate(o)
    <3>1. PodWrite(o) \/ InPlaceUpdateFails(o)
      BY <1>1, <2>0, <2>1, WhoWrites
    <3>2. ~CreateStatefulPod(o)
      BY <2>1 DEF CreateStatefulPod, isCreated
    <3>3. ~SameCopy(pods[o], pods'[o])
      BY <2>1 DEF SameCopy, Serves, isHealthy, isRunningAndReady,
                  isTerminating, checkInPlaceUpdateCompleted
    <3>4. ~TerminateCondemned(o)
      BY DEF TerminateCondemned, NextCondemned, Condemned
    <3>5. ~DeleteFailedPod(o)
      <4> SUFFICES ASSUME DeleteFailedPod(o) PROVE FALSE
        OBVIOUS
      <4>1. At("replicas") /\ isFailed(job.snap[o]) /\ isCreated(job.snap[o])
        BY DEF DeleteFailedPod, NextReplica, isFailed, isCreated
      <4>2. Follows(o)
        BY <1>1, <2>0, <4>1 DEF TrackInv, FollowInv, At
      <4> QED BY <2>1, <4>1, <4>2 DEF Follows, SamePod, isFailed, isCreated
    <3> QED BY <1>1, <2>0, <2>1, <3>1, <3>2, <3>3, <3>4, <3>5, WriteEffects,
               NothingInPlace
  <2>3. Updating /\ o < Below /\ Reached(o)
    BY <2>2 DEF NextUpdate
  <2>4. pos.at \in {"replicas", "condemned", "update"}
    BY <2>3 DEF Updating, Scaled, Scaling, At
  <2>5. ASSUME NEW q \in Down
        PROVE  q \in UnavailableAbove(o)
    <3>1. isHealthy(job.snap[q])
      BY <1>1, <2>3, UpdatingHealthy
    <3>2. ~isHealthy(pods[q])
      BY <1>1, <2>0, <2>5 DEF Serves, checkInPlaceUpdateCompleted, SteadyInv
    <3>3. UpdateDeleted(q)
      BY <1>1, <2>4, <3>1, <3>2 DEF HealthyStay
    <3>4. q > o
      <4>1. pos.at = "update" /\ q >= pos.i /\ q \in Int
        BY <2>0, <3>3 DEF UpdateDeleted, At
      <4>2. o < pos.i
        BY <2>3, <4>1 DEF Below
      <4> QED BY <2>0, <4>1, <4>2
    <3> QED BY <3>3, <3>4 DEF UnavailableAbove, Unavailable, UpdateDeleted
  <2>6. maxUnavailable >= 1 /\ maxUnavailable \in Int
    BY <1>1, <2>4, BudgetPositive DEF BudgetInv, At
  <2>7. /\ IsFiniteSet(UnavailableAbove(o)) /\ IsFiniteSet(Down)
        /\ Cardinality(Down) \in Nat /\ Cardinality(UnavailableAbove(o)) \in Nat
        /\ Cardinality(Down) <= Cardinality(UnavailableAbove(o))
    <3>1. IsFiniteSet(Ord)
      BY ReplicasAssumption, FS_Interval DEF Ord
    <3>2. UnavailableAbove(o) \subseteq Ord /\ Down \subseteq UnavailableAbove(o)
      BY <2>5 DEF UnavailableAbove, Replicas
    <3>3. IsFiniteSet(UnavailableAbove(o))
      BY <3>1, <3>2, FS_Subset
    <3> HIDE DEF Down
    <3> QED BY <3>2, <3>3, FS_Subset, FS_CardinalityType
  <2>8. CASE Cardinality(UnavailableAbove(o)) < maxUnavailable
    BY <2>6, <2>7, <2>8
  <2>9. CASE o + 1 = job.set.replicas
    <3>1. ASSUME NEW q \in Replicas PROVE ~(q > o)
      <4>1. q \in Int /\ q < o + 1
        BY <2>0, <2>9 DEF Replicas
      <4> QED BY <2>0, <4>1
    <3>2. UnavailableAbove(o) = {}
      BY <3>1 DEF UnavailableAbove
    <3> QED BY <2>6, <2>7, <3>2, FS_EmptySet
  <2> QED BY <2>3, <2>8, <2>9 DEF Reached
<1>2. /\ TypeOK /\ TrackInv /\ StageInv /\ SteadyInv /\ PassedHealthy
      /\ HealthyStay /\ BudgetInv /\ [Next]_vars
      => \A o \in Replicas : P(o)
  BY <1>1
<1>3. [][\A o \in Replicas : P(o)]_vars => UpdateBudget
  BY PTL DEF UpdateBudget
<1>4. Init => BudgetInv
  BY DEF Init, BudgetInv, At
<1>5. TypeOK /\ BudgetInv /\ [Next]_vars => BudgetInv'
  BY BudgetStep
<1>6. /\ Spec => []TrackInv
      /\ Spec => [](SteadyInv /\ PassedHealthy /\ HealthyStay)
  BY TrackInvariant, OrderInvariant
<1> QED BY <1>2, <1>3, <1>4, <1>5, <1>6, TypeCorrect, StageInvariant, PTL
        DEF Spec
=============================================================================
