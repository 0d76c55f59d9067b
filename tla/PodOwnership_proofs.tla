------------------------- MODULE PodOwnership_proofs -------------------------
(***************************************************************************)
(* Who owns a pod, for every number of sets, names and ordinals: variables *)
(* keep their types, an owner is the set the name of the pod says, a pod   *)
(* mounts only claims that exist, and a set that is deleted without its    *)
(* pods does not take one back.                                            *)
(*                                                                         *)
(* None of it is inductive.  What a reconcile writes rests on what it read *)
(* steps ago: the uid it holds must still be one of the set of its name    *)
(* and the claims it has seen to must exist unless one failed (JobInv),    *)
(* and the pods it goes on to adopt must still be without owner and of its *)
(* name (ClaimInv).  That a pod is not taken back needs what the was of a  *)
(* pod says of the sets (WasInv).                                          *)
(***************************************************************************)
EXTENDS PodOwnership, FiniteSetTheorems, SequenceTheorems, TLAPS

-----------------------------------------------------------------------------
(* The invariant.                                                           *)

Specs == SetSpecs \cup {InitSets[s] : s \in DOMAIN InitSets}

ClaimNames == Seq(STRING)

PodType == [made : 0 .. MaxEdits, owner : Nat, matches : BOOLEAN,
            label : BOOLEAN, volumes : SUBSET ClaimNames, was : Nat]

JobType == [key : SetNames \cup PodNames \cup {<<>>},
            name : SetNames \cup {<<>>}, uid : Nat,
            spec : Specs \cup {NoJob.spec}, deleting : BOOLEAN,
            orphans : SUBSET (SetNames \cup PodNames),
            listed : SUBSET [name : PodNames, pod : PodType],
            todo : SUBSET (SetNames \cup PodNames), mine : SUBSET PodNames,
            can : {"unknown", "yes", "no"}, failed : BOOLEAN, i : Nat,
            done : SUBSET ClaimNames]

Stages == {"idle", "fresh", "adopt", "list", "claim", "replicas", "history"}

\* The sets, in the store and in the cache.  A uid belongs to one name for
\* ever.
SetsInv ==
  /\ sets \in [SetNames -> Optional(SetType)]
  /\ setCache \in [SetNames -> Optional(SetType)]
  /\ names \in Seq(SetNames)
  /\ edits \in 0 .. MaxEdits
  /\ Len(names) <= Cardinality(DOMAIN InitSets) + edits
  /\ \A s \in SetNames : \A set \in sets[s] \cup setCache[s] :
       set.uid \in 1 .. Len(names) /\ names[set.uid] = s

\* The pods, with the two invariants that are the point.
PodsInv ==
  /\ pods \in [PodNames -> Optional(PodType)]
  /\ \A n \in PodNames : \A p \in pods[n] :
       p.owner <= Len(names) /\ p.was <= Len(names)
  /\ OwnerIsParent /\ ClaimsBeforePods

RevisionsInv == revisions \in [SetNames -> Optional(0 .. Len(names))]

\* The worker: it holds the uid of the set it works for, and unless a call
\* failed the claims it has seen to exist.
JobInv ==
  /\ queue \subseteq SetNames \cup PodNames
  /\ at \in Stages
  /\ job \in JobType
  /\ job.i <= job.spec.replicas
  /\ at # "idle" => /\ job.key \in SetNames \cup PodNames
                    /\ job.name \in SetNames
                    /\ job.uid \in 1 .. Len(names) /\ names[job.uid] = job.name
  /\ job.failed \/ job.done \subseteq claims
  /\ faults \in 0 .. MaxFaults

\* What is left to adopt is an orphan still, and of the name of the set.
ClaimInv ==
  at = "claim" =>
    \A n \in job.todo \cap job.orphans :
      /\ n \in PodNames /\ isMemberOf(job.name, n)
      /\ \A p \in pods[n] : p.owner = 0

IInv == SetsInv /\ PodsInv /\ RevisionsInv /\ JobInv /\ ClaimInv

\* A set that let a pod go because it is deleted stays so, and the answer
\* the worker has of canAdoptFunc is not about such a set.
WasInv ==
  /\ \A n \in PodNames : \A p \in pods[n] : p.was # 0 =>
       \A s \in SetNames : \A set \in sets[s] :
         set.uid = p.was => set.deletion # "No"
  /\ at \in {"fresh", "adopt", "list"} => job.can = "unknown"
  /\ at = "claim" /\ job.can = "yes" =>
       \A n \in job.todo \cap job.orphans : \A p \in pods[n] :
         p.was # job.uid

-----------------------------------------------------------------------------
(* Optional values, names and claims.                                       *)

\* An optional value that is there is the one it holds.
LEMMA OptionalValue ==
  ASSUME NEW S, NEW o \in Optional(S)
  PROVE  /\ \A x \in o : x \in S /\ o = {x} /\ The(o) = x
         /\ o # {} => The(o) \in o
  BY DEF Optional, The

\* What may be held by an optional value.
LEMMA OptionalMade ==
  ASSUME NEW S
  PROVE  {} \in Optional(S) /\ \A x \in S : {x} \in Optional(S)
  BY DEF Optional

\* The name a pod is given is one whose parent is the set.
LEMMA PodNameIsMember ==
  ASSUME NEW s \in SetNames, NEW o \in Ordinals
  PROVE  getPodName(s, o) \in PodNames /\ isMemberOf(s, getPodName(s, o))
<1> DEFINE e == Numeral(o)
           n == Append(s, e)
<1>1. s \in Seq(STRING) /\ s # <<>>
  BY SetsAssumption
<1>2. Len(s) \in Nat \ {0}
  BY <1>1, EmptySeq
<1>3. e \in STRING /\ e \in ToSet(Numerals)
  BY NumeralsAssumption DEF Ordinals, Numeral, ToSet
<1>4. /\ n \in Seq(STRING) /\ Len(n) = Len(s) + 1
      /\ \A i \in 1 .. Len(s) : n[i] = s[i]
      /\ n[Len(s) + 1] = e
  BY <1>1, <1>3, AppendProperties
<1>5. Last(n) = e
  BY <1>4 DEF Last
<1>6. Front(n) = s
  BY <1>1, <1>2, <1>3, <1>4 DEF Front
<1>7. HasParent(n)
  BY <1>2, <1>3, <1>4, <1>5 DEF HasParent, IsNumber
<1> QED
  BY <1>6, <1>7 DEF getPodName, PodNames, isMemberOf

\* The claims of a pod are among the names of claims.
LEMMA ClaimsNamed ==
  ASSUME JobInv, at # "idle", NEW o \in Ordinals
  PROVE  getPersistentVolumeClaims(o) \subseteq ClaimNames
<1>1. job.spec.claims \subseteq STRING /\ job.name \in SetNames
  BY SetsAssumption DEF JobInv, JobType, Specs, NoJob
<1>2. Append(job.name, Numeral(o)) \in Seq(STRING)
  BY <1>1, SetsAssumption, NumeralsAssumption, AppendProperties
     DEF Ordinals, Numeral
<1>3. \A c \in STRING : <<c>> \o Append(job.name, Numeral(o)) \in Seq(STRING)
  BY <1>2
<1> QED
  BY <1>1, <1>3 DEF getPersistentVolumeClaims, ClaimNames,
     getPersistentVolumeClaimName

\* The sets that exist at first are numbered.
LEMMA NamesAtFirst ==
  LET f == SetToSeq(DOMAIN InitSets)
  IN /\ f \in Seq(SetNames) /\ Len(f) = Cardinality(DOMAIN InitSets)
     /\ Cardinality(DOMAIN InitSets) \in Nat
     /\ \A s \in DOMAIN InitSets : \E u \in 1 .. Len(f) : f[u] = s
<1> DEFINE D == DOMAIN InitSets
           k == Cardinality(D)
           f == SetToSeq(D)
<1>1. IsFiniteSet(D) /\ k \in Nat
  BY SetsAssumption, FS_CardinalityType
<1>2. IsFiniteSet(1 .. k) /\ Cardinality(1 .. k) = k
  BY <1>1, FS_Interval
<1>3. PICK g : g \in Bijection(1 .. k, D)
  BY <1>1, <1>2, FS_SameCardinalityBij DEF ExistsBijection
<1>4. g \in [1 .. k -> D] /\ IsInjective(g)
  BY <1>3 DEF Bijection, Injection, IsInjective
<1>5. f \in [1 .. k -> D] /\ IsInjective(f)
  BY <1>4 DEF SetToSeq
<1>6. f \in Injection(1 .. k, D)
  BY <1>5 DEF Injection
<1>7. f \in Surjection(1 .. k, D)
  BY <1>1, <1>2, <1>6, FS_Injection
<1>8. f \in Seq(SetNames) /\ Len(f) = k
  BY <1>1, <1>5, SetsAssumption
<1> QED
  BY <1>1, <1>7, <1>8 DEF Surjection

-----------------------------------------------------------------------------
(* The steps, one part of the invariant at a time.                          *)

\* Writing one set keeps what is known of the sets.
LEMMA SetWrite ==
  ASSUME SetsInv, edits' \in edits .. MaxEdits,
         names' \in Seq(SetNames), Len(names') \in Len(names) .. Len(names) + 1,
         Len(names') <= Cardinality(DOMAIN InitSets) + edits',
         \A u \in 1 .. Len(names) : names'[u] = names[u],
         setCache' = setCache,
         NEW s \in SetNames, NEW o \in Optional(SetType), PutSet(s, o),
         \A set \in o : set.uid \in 1 .. Len(names') /\ names'[set.uid] = s
  PROVE  SetsInv'
<1>1. sets' \in [SetNames -> Optional(SetType)]
  BY DEF SetsInv, PutSet
<1>2. ASSUME NEW t \in SetNames, NEW set \in sets'[t] \cup setCache'[t]
      PROVE  set.uid \in 1 .. Len(names') /\ names'[set.uid] = t
  BY DEF SetsInv, PutSet
<1> QED
  BY <1>1, <1>2, BoundsAssumption DEF SetsInv

\* Sets are written by users, by the garbage collector and by nobody else.
LEMMA SetsStep ==
  ASSUME SetsInv, [Next]_vars
  PROVE  SetsInv'
<1> USE BoundsAssumption
<1>0. Len(names) \in Nat /\ Cardinality(DOMAIN InitSets) \in Nat
  BY NamesAtFirst DEF SetsInv
<1>1. ASSUME NEW s \in SetNames, CreateSet(s) PROVE SetsInv'
  <2>1. PICK spec \in SetSpecs :
          PutSet(s, {[uid |-> Len(names'), spec |-> spec, deletion |-> "No"]})
    BY <1>1 DEF CreateSet
  <2>2. /\ names' = Append(names, s) /\ edits' = edits + 1 /\ edits < MaxEdits
        /\ setCache' = setCache
    BY <1>1 DEF CreateSet, Edits
  <2>3. names' \in Seq(SetNames) /\ Len(names') = Len(names) + 1
        /\ (\A u \in 1 .. Len(names) : names'[u] = names[u])
        /\ names'[Len(names)+1] = s
    BY <2>2, AppendProperties DEF SetsInv
  <2>4. /\ edits' \in edits .. MaxEdits
        /\ Len(names') <= Cardinality(DOMAIN InitSets) + edits'
        /\ Len(names') \in Len(names) .. Len(names) + 1
    BY <2>2, <2>3, <1>0 DEF SetsInv
  <2>5. Len(names') \in Uids
    BY <2>4, <2>3, <1>0 DEF Uids, SetsInv
  <2>6. {[uid |-> Len(names'), spec |-> spec, deletion |-> "No"]} \in Optional(SetType)
    BY <2>5 DEF Optional, SetType
  <2> DEFINE o == {[uid |-> Len(names'), spec |-> spec, deletion |-> "No"]}
  <2>7. \A set \in o : set.uid \in 1 .. Len(names') /\ names'[set.uid] = s
    BY <2>3, <1>0
  <2> QED
    BY <2>1, <2>2, <2>3, <2>4, <2>6, <2>7, SetWrite
<1>2. ASSUME NEW s \in SetNames, EditSet(s) \/ DeleteSet(s) \/ RemoveSet(s)
      PROVE SetsInv'
  <2>1. /\ names' = names /\ setCache' = setCache
        /\ edits' \in edits .. MaxEdits
    BY <1>2 DEF EditSet, DeleteSet, RemoveSet, Edits, SetsInv
  <2>2. PICK o : /\ PutSet(s, o)
                 /\ \/ o = {}
                    \/ \E set \in sets[s], spec \in SetSpecs :
                         o = {[set EXCEPT !.spec = spec]}
                    \/ \E set \in sets[s] : o = {[set EXCEPT !.deletion = "Orphan"]}
    BY <1>2, Zenon DEF EditSet, DeleteSet, RemoveSet
  <2>3. /\ o \in Optional(SetType)
        /\ \A set \in o : set.uid \in 1 .. Len(names) /\ names[set.uid] = s
    <3>1. \A set \in sets[s] : set \in SetType /\ set.uid \in 1 .. Len(names)
                               /\ names[set.uid] = s
      BY OptionalValue DEF SetsInv
    <3>2. CASE o = {}
      BY <3>2, OptionalMade
    <3>3. ASSUME NEW set \in sets[s], NEW spec \in SetSpecs,
                 o = {[set EXCEPT !.spec = spec]}
          PROVE  <2>3!1 /\ <2>3!2
      <4>1. [set EXCEPT !.spec = spec] \in SetType
            /\ [set EXCEPT !.spec = spec].uid = set.uid
        BY <3>1 DEF SetType
      <4> QED
        BY <3>1, <3>3, <4>1, OptionalMade
    <3>4. ASSUME NEW set \in sets[s], o = {[set EXCEPT !.deletion = "Orphan"]}
          PROVE  <2>3!1 /\ <2>3!2
      <4>1. [set EXCEPT !.deletion = "Orphan"] \in SetType
            /\ [set EXCEPT !.deletion = "Orphan"].uid = set.uid
        BY <3>1 DEF SetType
      <4> QED
        BY <3>1, <3>4, <4>1, OptionalMade
    <3> QED
      BY <2>2, <3>2, <3>3, <3>4
  <2> QED
    BY <2>1, <2>2, <2>3, <1>0, SetWrite DEF SetsInv
<1>3. CASE SyncSets
  BY <1>3 DEF SyncSets, storeVars, SetsInv
<1>4. ASSUME NEW n \in PodNames, EditPod(n) PROVE SetsInv'
  BY <1>4, <1>0 DEF EditPod, Edits, SetsInv
<1>5. CASE UNCHANGED <<sets, setCache, names, edits>>
  BY <1>5 DEF SetsInv
<1>6. CASE Worker
  BY <1>5, <1>6, Zenon DEF Worker, Reconcile, CheckUID, AdoptionRefused,
     AdoptControllerRevision, TruncateHistory, ListPods, MayNotAdopt,
     RecheckDeletionTimestamp, AdoptPod, ReleasePod, DeleteStatefulPod,
     UpdateStatefulSet, CreateClaim, CreateStatefulPod, UpdateStatefulPod,
     PodsDone, EndOfSync, storeVars
<1>7. CASE CallFails
  BY <1>5, <1>7 DEF CallFails, storeVars
<1>8. ASSUME NEW n, OrphanPod(n) \/ CollectPod(n)
                    \/ OrphanRevision(n) \/ CollectRevision(n)
      PROVE  SetsInv'
  BY <1>5, <1>8 DEF OrphanPod, CollectPod, OrphanRevision, CollectRevision
<1>9. CASE UNCHANGED vars
  BY <1>5, <1>9 DEF vars, storeVars
<1> QED
  BY <1>1, <1>2, <1>3, <1>4, <1>6, <1>7, <1>8, <1>9
     DEF Next, User, Collector

\* Writing one pod keeps what is known of the pods.
LEMMA PodWrite ==
  ASSUME PodsInv, NEW n \in PodNames, NEW o \in Optional(PodType),
         pods' = [pods EXCEPT ![n] = o], names' = names, claims' = claims,
         \A q \in o : /\ q.owner <= Len(names) /\ q.was <= Len(names)
                      /\ q.owner # 0 => HasParent(n) /\ names[q.owner] = Front(n)
                      /\ q.volumes \subseteq claims
  PROVE  PodsInv'
<1>1. pods' \in [PodNames -> Optional(PodType)]
  BY DEF PodsInv
<1>2. ASSUME NEW m \in PodNames, NEW q \in pods'[m]
      PROVE  /\ q.owner <= Len(names') /\ q.was <= Len(names')
             /\ q.owner # 0 => HasParent(m) /\ names'[q.owner] = Front(m)
             /\ q.volumes \subseteq claims'
  BY DEF PodsInv, OwnerIsParent, ClaimsBeforePods
<1> QED
  BY <1>1, <1>2 DEF PodsInv, OwnerIsParent, ClaimsBeforePods

\* What is known of one pod.
LEMMA OnePod ==
  ASSUME PodsInv, NEW n \in PodNames, NEW p \in pods[n]
  PROVE  /\ p \in PodType /\ pods[n] = {p} /\ The(pods[n]) = p
         /\ p.owner <= Len(names) /\ p.was <= Len(names)
         /\ p.owner # 0 => HasParent(n) /\ names[p.owner] = Front(n)
         /\ p.volumes \subseteq claims
<1>1. pods[n] \in Optional(PodType)
  BY DEF PodsInv
<1> QED
  BY <1>1, OptionalValue DEF PodsInv, OwnerIsParent, ClaimsBeforePods

\* Pods that are deleted.
LEMMA PodDeleted ==
  ASSUME PodsInv, NEW n \in PodNames, PutPod(n, {}), UNCHANGED <<names, claims>>
  PROVE  PodsInv'
<1>1. {} \in Optional(PodType)
  BY OptionalMade
<1>2. pods' = [pods EXCEPT ![n] = {}] /\ names' = names /\ claims' = claims
  BY DEF PutPod
<1> DEFINE o == {}
<1>3. o \in Optional(PodType) /\ pods' = [pods EXCEPT ![n] = o]
      /\ \A q \in o : FALSE
  BY <1>1, <1>2
<1> HIDE DEF o
<1> QED
  BY <1>2, <1>3, PodWrite

\* Pods that are given another owner, or are written and keep theirs: the
\* volumes stay.
LEMMA PodRewritten ==
  ASSUME PodsInv, NEW n \in PodNames, NEW p \in pods[n], NEW q \in PodType,
         PutPod(n, {q}), UNCHANGED <<names, claims>>,
         q.volumes = p.volumes,
         q.was \in {p.was, p.owner},
         \/ q.owner \in {0, p.owner}
         \/ /\ q.owner \in 1 .. Len(names)
            /\ HasParent(n) /\ names[q.owner] = Front(n)
  PROVE  PodsInv'
<1>1. /\ p \in PodType
      /\ p.owner <= Len(names) /\ p.was <= Len(names)
      /\ p.owner # 0 => HasParent(n) /\ names[p.owner] = Front(n)
      /\ p.volumes \subseteq claims
  BY OnePod
<1>2. q.was <= Len(names)
  BY <1>1
<1>3. 0 <= Len(names)
  BY <1>1 DEF PodType
<1>4. q.owner <= Len(names)
  BY <1>1, <1>3
<1>5. q.owner # 0 => HasParent(n) /\ names[q.owner] = Front(n)
  BY <1>1
<1> DEFINE o == {q}
<1>6. o \in Optional(PodType)
  BY OptionalMade
<1>7. pods' = [pods EXCEPT ![n] = o] /\ names' = names /\ claims' = claims
  BY DEF PutPod
<1>8. \A r \in o : r = q
  OBVIOUS
<1> HIDE DEF o
<1> QED
  BY <1>1, <1>2, <1>4, <1>5, <1>6, <1>7, <1>8, PodWrite

\* The worker, the users and the garbage collector write pods.
LEMMA PodsStep ==
  ASSUME IInv, [Next]_vars
  PROVE  PodsInv'
<1> USE DEF IInv
<1>0. Len(names) \in Nat /\ PodsInv /\ SetsInv /\ JobInv /\ ClaimInv
  BY DEF SetsInv
<1>1. ASSUME NEW n \in PodNames, AdoptPod(n) PROVE PodsInv'
  <2>1. CASE SameUID(n)
    <3>1. PICK p \in pods[n] : TRUE
      BY <2>1 DEF SameUID
    <3> DEFINE q == [p EXCEPT !.owner = job.uid]
    <3>2. The(pods[n]) = p /\ p \in PodType
      BY <3>1, OnePod
    <3>3. PutPod(n, {q}) /\ UNCHANGED <<names, claims>>
      BY <1>1, <2>1, <3>2 DEF AdoptPod
    <3>4. job.uid \in 1 .. Len(names) /\ HasParent(n) /\ names[job.uid] = Front(n)
      BY <1>1 DEF AdoptPod, ClaimInv, JobInv, isMemberOf
    <3>5. q \in PodType /\ q.volumes = p.volumes /\ q.was = p.was
          /\ q.owner = job.uid
      BY <3>2, <3>4, <1>0 DEF PodType
    <3> HIDE DEF q
    <3> QED
      BY <3>3, <3>4, <3>5, PodRewritten
  <2>2. CASE ~SameUID(n)
    BY <1>1, <2>2 DEF AdoptPod, PodsInv, OwnerIsParent, ClaimsBeforePods
  <2> QED
    BY <2>1, <2>2
<1>2. ASSUME NEW n \in PodNames, ReleasePod(n) PROVE PodsInv'
  <2>1. CASE SameUID(n)
    <3>1. PICK p \in pods[n] : TRUE
      BY <2>1 DEF SameUID
    <3> DEFINE q == [p EXCEPT !.owner = 0]
    <3>2. The(pods[n]) = p /\ p \in PodType
      BY <3>1, OnePod
    <3>3. PutPod(n, {q}) /\ UNCHANGED <<names, claims>>
      BY <1>2, <2>1, <3>2 DEF ReleasePod
    <3>5. q \in PodType /\ q.volumes = p.volumes /\ q.was = p.was
          /\ q.owner = 0
      BY <3>2 DEF PodType
    <3> HIDE DEF q
    <3> QED
      BY <3>3, <3>5, PodRewritten
  <2>2. CASE ~SameUID(n)
    BY <1>2, <2>2 DEF ReleasePod, PodsInv, OwnerIsParent, ClaimsBeforePods
  <2> QED
    BY <2>1, <2>2
<1>3. ASSUME NEW o \in Ordinals, CreateStatefulPod(o) PROVE PodsInv'
  <2> DEFINE q == newStatefulSetPod(o)
  <2>1. at = "replicas" /\ ~job.failed /\ ~Replica(o) /\ ClaimsToSee(o) = {}
        /\ PutPod(Pod(o), {q}) /\ UNCHANGED <<names, claims>>
    BY <1>3 DEF CreateStatefulPod, ClaimsExist, NextReplica
  <2>2. /\ job.name \in SetNames
        /\ job.uid \in 1 .. Len(names) /\ names[job.uid] = job.name
        /\ job.done \subseteq claims
    BY <2>1 DEF JobInv
  <2>3. Pod(o) \in PodNames /\ HasParent(Pod(o)) /\ Front(Pod(o)) = job.name
    BY <2>2, PodNameIsMember DEF Pod, isMemberOf
  <2>4. getPersistentVolumeClaims(o) \subseteq claims
    BY <2>1, <2>2 DEF ClaimsToSee
  <2>5. getPersistentVolumeClaims(o) \subseteq ClaimNames
    BY <2>1, ClaimsNamed
  <2>6. q \in PodType
    BY <2>2, <2>5, <1>0, BoundsAssumption DEF newStatefulSetPod, PodType
  <2>7. q.owner = job.uid /\ q.was = 0 /\ q.volumes = getPersistentVolumeClaims(o)
    BY DEF newStatefulSetPod
  <2> HIDE DEF q
  <2>8. q.owner <= Len(names) /\ q.was <= Len(names)
    BY <2>2, <2>7, <1>0
  <2> DEFINE opt == {q}
  <2>9. opt \in Optional(PodType) /\ \A r \in opt : r = q
    BY <2>6, OptionalMade
  <2>10. pods' = [pods EXCEPT ![Pod(o)] = opt] /\ names' = names /\ claims' = claims
    BY <2>1 DEF PutPod
  <2> HIDE DEF opt
  <2> QED
    BY <2>2, <2>3, <2>4, <2>7, <2>8, <2>9, <2>10, PodWrite
<1>4. ASSUME NEW o \in Ordinals, UpdateStatefulPod(o) PROVE PodsInv'
  <2>1. job.name \in SetNames
    BY <1>4 DEF UpdateStatefulPod, ClaimsExist, NextReplica, JobInv
  <2>2. Pod(o) \in PodNames
    BY <2>1, PodNameIsMember DEF Pod
  <2>3. PICK p \in pods[Pod(o)] : TRUE
    BY <1>4 DEF UpdateStatefulPod
  <2> DEFINE q == [p EXCEPT !.label = TRUE]
  <2>4. The(pods[Pod(o)]) = p /\ p \in PodType
    BY <2>2, <2>3, OnePod
  <2>5. PutPod(Pod(o), {q}) /\ UNCHANGED <<names, claims>>
    BY <1>4, <2>4 DEF UpdateStatefulPod
  <2>6. q \in PodType /\ q.volumes = p.volumes /\ q.was = p.was
        /\ q.owner = p.owner
    BY <2>4 DEF PodType
  <2> HIDE DEF q
  <2> QED
    BY <2>2, <2>5, <2>6, PodRewritten
<1>5. ASSUME NEW n \in PodNames, DeleteStatefulPod(n) \/ CollectPod(n)
      PROVE  PodsInv'
  BY <1>5, PodDeleted DEF DeleteStatefulPod, CollectPod
<1>6. ASSUME NEW n \in PodNames, EditPod(n) PROVE PodsInv'
  <2>1. UNCHANGED <<names, claims>> /\ edits' = edits + 1 /\ edits < MaxEdits
    BY <1>6 DEF EditPod, Edits
  <2>2. CASE PutPod(n, {})
    BY <2>1, <2>2, PodDeleted
  <2>3. ASSUME NEW p \in pods[n], PutPod(n, {[p EXCEPT !.matches = FALSE]})
        PROVE  PodsInv'
    <3> DEFINE q == [p EXCEPT !.matches = FALSE]
    <3>1. p \in PodType
      BY OnePod
    <3>2. q \in PodType /\ q.volumes = p.volumes /\ q.was = p.was
          /\ q.owner = p.owner
      BY <3>1 DEF PodType
    <3>3. PutPod(n, {q})
      BY <2>3
    <3> HIDE DEF q
    <3> QED
      BY <2>1, <3>2, <3>3, PodRewritten
  <2>4. ASSUME PutPod(n, {[made |-> edits', owner |-> 0, matches |-> TRUE,
                           label |-> FALSE, volumes |-> {}, was |-> 0]})
        PROVE  PodsInv'
    <3> DEFINE q == [made |-> edits', owner |-> 0, matches |-> TRUE,
                     label |-> FALSE, volumes |-> {}, was |-> 0]
    <3>1. edits' \in 0 .. MaxEdits
      BY <2>1, BoundsAssumption DEF SetsInv
    <3>2. q \in PodType
      BY <3>1 DEF PodType
    <3>3. q.owner = 0 /\ q.was = 0 /\ q.volumes = {}
      OBVIOUS
    <3>4. PutPod(n, {q})
      BY <2>4
    <3> HIDE DEF q
    <3>5. q.owner <= Len(names) /\ q.was <= Len(names)
      BY <3>3, <1>0
    <3> QED
      BY <2>1, <3>2, <3>3, <3>4, <3>5, OptionalMade, PodWrite DEF PutPod
  <2> QED
    BY <1>6, <2>2, <2>3, <2>4 DEF EditPod
<1>7. ASSUME NEW n \in PodNames, OrphanPod(n) PROVE PodsInv'
  <2>1. PICK p \in pods[n] : PutPod(n, {[p EXCEPT !.owner = 0, !.was = p.owner]})
    BY <1>7 DEF OrphanPod
  <2> DEFINE q == [p EXCEPT !.owner = 0, !.was = p.owner]
  <2>2. p \in PodType
    BY OnePod
  <2>3. q \in PodType /\ q.volumes = p.volumes /\ q.was = p.owner
        /\ q.owner = 0
    BY <2>2 DEF PodType
  <2>4. PutPod(n, {q}) /\ UNCHANGED <<names, claims>>
    BY <1>7, <2>1 DEF OrphanPod
  <2> HIDE DEF q
  <2> QED
    BY <2>3, <2>4, PodRewritten
<1>8. ASSUME NEW o \in Ordinals, NEW c, CreateClaim(o, c) PROVE PodsInv'
  BY <1>8 DEF CreateClaim, PodsInv, OwnerIsParent, ClaimsBeforePods
<1>9. ASSUME NEW s \in SetNames, CreateSet(s) PROVE PodsInv'
  <2>1. /\ names' = Append(names, s)
        /\ UNCHANGED <<pods, claims>>
    BY <1>9 DEF CreateSet
  <2>2. Len(names') = Len(names) + 1
        /\ (\A u \in 1 .. Len(names) : names'[u] = names[u])
    BY <2>1, AppendProperties DEF SetsInv
  <2>3. ASSUME NEW n \in PodNames, NEW p \in pods'[n]
        PROVE  /\ p.owner <= Len(names') /\ p.was <= Len(names')
               /\ p.owner # 0 => HasParent(n) /\ names'[p.owner] = Front(n)
               /\ p.volumes \subseteq claims'
    <3>1. /\ p.owner \in Nat /\ p.was \in Nat
          /\ p.owner <= Len(names) /\ p.was <= Len(names)
          /\ p.owner # 0 => HasParent(n) /\ names[p.owner] = Front(n)
          /\ p.volumes \subseteq claims
      BY <2>1, OnePod DEF PodType
    <3>2. p.owner <= Len(names') /\ p.was <= Len(names')
      BY <3>1, <2>2, <1>0
    <3>3. p.owner # 0 => names'[p.owner] = names[p.owner]
      BY <3>1, <2>2, <1>0
    <3> QED
      BY <3>1, <3>2, <3>3, <2>1
  <2> QED
    BY <2>1, <2>3 DEF PodsInv, OwnerIsParent, ClaimsBeforePods
<1>10. CASE UNCHANGED <<pods, names, claims>>
  BY <1>10 DEF PodsInv, OwnerIsParent, ClaimsBeforePods
<1>11. CASE Worker
  <2>2. \/ UNCHANGED <<pods, names, claims>>
        \/ \E n \in PodNames : AdoptPod(n) \/ ReleasePod(n) \/ DeleteStatefulPod(n)
        \/ \E o \in Ordinals :
             \/ \E c \in ClaimsToSee(o) : CreateClaim(o, c)
             \/ CreateStatefulPod(o) \/ UpdateStatefulPod(o)
    BY <1>11, Zenon DEF Worker, Reconcile, CheckUID, AdoptionRefused,
       AdoptControllerRevision, TruncateHistory, ListPods, MayNotAdopt,
       RecheckDeletionTimestamp, UpdateStatefulSet, PodsDone, EndOfSync,
       storeVars
  <2> QED
    BY <1>1, <1>2, <1>3, <1>4, <1>5, <1>8, <1>10, <2>2
<1>12. CASE CallFails \/ SyncSets
  BY <1>10, <1>12 DEF CallFails, SyncSets, storeVars
<1>13. ASSUME NEW s, EditSet(s) \/ DeleteSet(s) \/ RemoveSet(s)
                     \/ OrphanRevision(s) \/ CollectRevision(s)
       PROVE  PodsInv'
  BY <1>10, <1>13 DEF EditSet, DeleteSet, RemoveSet, OrphanRevision,
     CollectRevision
<1>14. CASE UNCHANGED vars
  BY <1>10, <1>14 DEF vars, storeVars
<1> QED
  BY <1>5, <1>6, <1>7, <1>9, <1>11, <1>12, <1>13, <1>14
     DEF Next, User, Collector

\* Owners of revisions are uids that were given.
LEMMA RevisionsStep ==
  ASSUME IInv, [Next]_vars
  PROVE  RevisionsInv'
<1> DEFINE Owners(k) == Optional(0 .. k)
<1>0. /\ Len(names) \in Nat /\ SetsInv /\ JobInv
      /\ revisions \in [SetNames -> Owners(Len(names))]
  BY DEF IInv, SetsInv, RevisionsInv
<1>1. {} \in Owners(Len(names)) /\ {0} \in Owners(Len(names))
      /\ \A u \in 1 .. Len(names) : {u} \in Owners(Len(names))
  BY <1>0 DEF Optional
<1>2. \A o \in Owners(Len(names)) : o \in Owners(Len(names) + 1)
  BY <1>0 DEF Optional
<1> HIDE DEF Owners
<1>3. ASSUME NEW s \in SetNames, CreateSet(s) PROVE RevisionsInv'
  <2>1. names' = Append(names, s) /\ UNCHANGED revisions
    BY <1>3 DEF CreateSet
  <2>2. Len(names') = Len(names) + 1
    BY <2>1, AppendProperties, <1>0 DEF SetsInv
  <2>3. revisions' \in [SetNames -> Owners(Len(names'))]
    BY <1>0, <1>2, <2>1, <2>2
  <2> QED
    BY <2>3 DEF RevisionsInv, Owners
<1>4. ASSUME names' = names, NEW r \in SetNames, NEW o \in Owners(Len(names)),
             revisions' = [revisions EXCEPT ![r] = o]
      PROVE  RevisionsInv'
  <2>1. revisions' \in [SetNames -> Owners(Len(names'))]
    BY <1>0, <1>4
  <2> QED
    BY <2>1 DEF RevisionsInv, Owners
<1>5. ASSUME NEW r \in SetNames, AdoptControllerRevision(r) PROVE RevisionsInv'
  <2>1. {job.uid} \in Owners(Len(names))
    BY <1>0, <1>1, <1>5 DEF AdoptControllerRevision, JobInv
  <2> QED
    BY <1>4, <1>5, <2>1 DEF AdoptControllerRevision
<1>6. ASSUME NEW r \in SetNames,
             TruncateHistory(r) \/ OrphanRevision(r) \/ CollectRevision(r)
      PROVE  RevisionsInv'
  BY <1>1, <1>4, <1>6 DEF TruncateHistory, OrphanRevision, CollectRevision
<1>7. CASE UNCHANGED <<revisions, names>>
  BY <1>7 DEF IInv, RevisionsInv
<1>8. CASE UpdateStatefulSet
  <2>1. CASE job.failed
    BY <1>7, <1>8, <2>1 DEF UpdateStatefulSet
  <2>2. CASE ~job.failed
    <3> DEFINE o == IF revisions[job.name] = {} THEN {job.uid}
                    ELSE revisions[job.name]
    <3>1. job.name \in SetNames /\ {job.uid} \in Owners(Len(names))
      BY <1>0, <1>1, <1>8 DEF UpdateStatefulSet, JobInv
    <3>2. o \in Owners(Len(names))
      BY <1>0, <3>1
    <3>3. names' = names /\ revisions' = [revisions EXCEPT ![job.name] = o]
      BY <1>8, <2>2 DEF UpdateStatefulSet
    <3> HIDE DEF o
    <3> QED
      BY <1>4, <3>1, <3>2, <3>3
  <2> QED
    BY <2>1, <2>2
<1>9. CASE Worker
  <2>1. \/ UNCHANGED <<revisions, names>> \/ UpdateStatefulSet
        \/ \E r \in SetNames : AdoptControllerRevision(r) \/ TruncateHistory(r)
    BY <1>9, Zenon DEF Worker, Reconcile, CheckUID, AdoptionRefused, ListPods,
       MayNotAdopt, RecheckDeletionTimestamp, AdoptPod, ReleasePod,
       DeleteStatefulPod, CreateClaim, CreateStatefulPod, UpdateStatefulPod,
       PodsDone, EndOfSync, storeVars
  <2> QED
    BY <1>5, <1>6, <1>7, <1>8, <2>1
<1>10. CASE CallFails \/ SyncSets
  BY <1>7, <1>10 DEF CallFails, SyncSets, storeVars
<1>11. ASSUME NEW s, \/ EditSet(s) \/ DeleteSet(s) \/ RemoveSet(s) \/ EditPod(s)
                     \/ OrphanPod(s) \/ CollectPod(s)
       PROVE  RevisionsInv'
  BY <1>7, <1>11 DEF EditSet, DeleteSet, RemoveSet, EditPod, OrphanPod, CollectPod
<1>12. CASE UNCHANGED vars
  BY <1>7, <1>12 DEF vars, storeVars
<1> QED
  BY <1>3, <1>6, <1>9, <1>10, <1>11, <1>12 DEF Next, User, Collector

\* The worker without work.
LEMMA NoJobType ==
  /\ NoJob \in JobType
  /\ NoJob.i = 0 /\ NoJob.spec.replicas = 0 /\ NoJob.done = {}
  /\ NoJob.can = "unknown" /\ NoJob.failed = FALSE
<1> DEFINE none == [replicas |-> 0, claims |-> {}]
<1>1. NoJob = [key |-> <<>>, name |-> <<>>, uid |-> 0, spec |-> none,
               deleting |-> FALSE, orphans |-> {}, listed |-> {}, todo |-> {},
               mine |-> {}, can |-> "unknown", failed |-> FALSE, i |-> 0,
               done |-> {}]
  BY DEF NoJob
<1>2. none.replicas = 0
  OBVIOUS
<1> HIDE DEF none
<1> QED
  BY <1>1, <1>2 DEF JobType

\* Where the worker holds the set and the claims it held, what it knows of
\* them stays true: uids keep their names and no claim is ever deleted.
LEMMA JobKept ==
  ASSUME IInv, [Next]_vars
  PROVE  /\ \A u \in 1 .. Len(names) : u \in 1 .. Len(names')
                                       /\ names'[u] = names[u]
         /\ claims \subseteq claims'
<1>1. names \in Seq(SetNames) /\ Len(names) \in Nat
  BY DEF IInv, SetsInv
<1>2. ASSUME NEW s \in SetNames, names' = Append(names, s)
      PROVE  \A u \in 1 .. Len(names) : u \in 1 .. Len(names')
                                        /\ names'[u] = names[u]
  BY <1>1, <1>2, AppendProperties
<1>3. names' = names \/ \E s \in SetNames : names' = Append(names, s)
  BY Zenon DEF Next, Worker, User, Collector, vars, storeVars,
     Reconcile, CheckUID, AdoptionRefused, AdoptControllerRevision,
     TruncateHistory, ListPods, MayNotAdopt, RecheckDeletionTimestamp,
     AdoptPod, ReleasePod, DeleteStatefulPod, UpdateStatefulSet, CreateClaim,
     CreateStatefulPod, UpdateStatefulPod, PodsDone, EndOfSync, CallFails,
     CreateSet, EditSet, DeleteSet, EditPod, OrphanPod, CollectPod,
     OrphanRevision, CollectRevision, RemoveSet, SyncSets
<1>4. claims' = claims \/ \E c : claims' = claims \cup {c}
  BY Zenon DEF Next, Worker, User, Collector, vars, storeVars,
     Reconcile, CheckUID, AdoptionRefused, AdoptControllerRevision,
     TruncateHistory, ListPods, MayNotAdopt, RecheckDeletionTimestamp,
     AdoptPod, ReleasePod, DeleteStatefulPod, UpdateStatefulSet, CreateClaim,
     CreateStatefulPod, UpdateStatefulPod, PodsDone, EndOfSync, CallFails,
     CreateSet, EditSet, DeleteSet, EditPod, OrphanPod, CollectPod,
     OrphanRevision, CollectRevision, RemoveSet, SyncSets
<1> QED
  BY <1>1, <1>2, <1>3, <1>4

\* The part of JobInv that a step of somebody else, or one that does not
\* touch the set the worker holds, keeps.
LEMMA SameSet ==
  ASSUME IInv, [Next]_vars, at # "idle",
         job'.key = job.key, job'.name = job.name, job'.uid = job.uid
  PROVE  /\ job'.key \in SetNames \cup PodNames /\ job'.name \in SetNames
         /\ job'.uid \in 1 .. Len(names') /\ names'[job'.uid] = job'.name
  BY JobKept DEF IInv, JobInv

\* A worker that is done knows nothing.
LEMMA Finished ==
  ASSUME IInv, [Next]_vars, Finish, queue' \subseteq SetNames \cup PodNames,
         faults' \in 0 .. MaxFaults
  PROVE  JobInv'
<1>1. at' = "idle" /\ job' \in JobType /\ job'.i = 0
      /\ job'.spec.replicas = 0 /\ job'.done = {}
  BY NoJobType DEF Finish
<1> QED
  BY <1>1 DEF JobInv, Stages

\* Steps of the worker that change a few fields of its job.
LEMMA JobEdited ==
  ASSUME IInv, [Next]_vars, at # "idle", at' \in Stages, job' \in JobType,
         job'.key = job.key, job'.name = job.name, job'.uid = job.uid,
         job'.i <= job'.spec.replicas,
         job'.failed \/ job'.done \subseteq claims',
         queue' \subseteq SetNames \cup PodNames,
         faults' \in 0 .. MaxFaults
  PROVE  JobInv'
  BY SameSet DEF JobInv

\* A job that comes to the next replica.
LEMMA JobPassed ==
  ASSUME job \in JobType, NEW k \in Nat, job' = [job EXCEPT !.i = k, !.done = {}]
  PROVE  /\ job' \in JobType
         /\ job'.key = job.key /\ job'.name = job.name /\ job'.uid = job.uid
         /\ job'.i = k /\ job'.spec = job.spec
         /\ job'.done = {} /\ job'.failed = job.failed
  BY DEF JobType

\* The steps of the worker.
LEMMA JobStep ==
  ASSUME IInv, [Next]_vars
  PROVE  JobInv'
<1>0. /\ queue \subseteq SetNames \cup PodNames /\ faults \in 0 .. MaxFaults
      /\ at \in Stages /\ job \in JobType /\ job.i <= job.spec.replicas
      /\ job.failed \/ job.done \subseteq claims
      /\ at # "idle" => job.name \in SetNames /\ job.key \in SetNames \cup PodNames
      /\ claims \subseteq claims'
  BY JobKept DEF IInv, JobInv
<1>1. ASSUME NEW key, key \in SetNames \cup PodNames, Reconcile(key)
      PROVE  JobInv'
  <2> DEFINE name == realReconcileName(key)
             set == The(setCache[name])
             listed == ListControllerRevisions(set.uid)
  <2>1. queue' \subseteq SetNames \cup PodNames /\ faults' = faults
        /\ names' = names /\ claims' = claims
    BY <1>0, <1>1 DEF Reconcile, storeVars
  <2>2. CASE name \notin SetNames \/ setCache[name] = {}
    BY <1>1, <2>1, <2>2 DEF Reconcile, IInv, JobInv
  <2>3. CASE name \in SetNames /\ setCache[name] # {}
    <3>1. /\ job' = [NoJob EXCEPT !.key = key, !.name = name, !.uid = set.uid,
                       !.spec = set.spec, !.deleting = set.deletion # "No",
                       !.todo = listed, !.orphans = Orphans(listed)]
          /\ at' \in {"list", "fresh"}
      BY <1>1, <2>3 DEF Reconcile, Goto
    <3>2. set \in setCache[name] /\ set \in SetType
      BY <2>3, OptionalValue DEF IInv, SetsInv
    <3>3. /\ set.uid \in 1 .. Len(names) /\ names[set.uid] = name
          /\ Len(names) \in Nat
      BY <2>3, <3>2 DEF IInv, SetsInv
    <3>4. listed \subseteq SetNames /\ Orphans(listed) \subseteq SetNames
      BY DEF ListControllerRevisions, Orphans
    <3>5. set.spec \in Specs /\ set.spec.replicas \in Nat
      BY <3>2, SetsAssumption, NumeralsAssumption DEF SetType, Specs
    <3> DEFINE d == (set.deletion # "No")
    <3>6. d \in BOOLEAN
      BY Zenon
    <3>7. job' = [NoJob EXCEPT !.key = key, !.name = name, !.uid = set.uid,
                       !.spec = set.spec, !.deleting = d,
                       !.todo = listed, !.orphans = Orphans(listed)]
      BY <3>1
    <3> HIDE DEF set, listed, d, name
    <3>8. /\ job' \in JobType /\ job'.key = key /\ job'.name = name
          /\ job'.uid = set.uid
          /\ job'.i = NoJob.i /\ job'.spec = set.spec /\ job'.done = NoJob.done
      <4> DEFINE new ==
            [key |-> key, name |-> name, uid |-> set.uid, spec |-> set.spec,
             deleting |-> d,
             orphans |-> Orphans(listed), listed |-> {}, todo |-> listed,
             mine |-> {}, can |-> "unknown", failed |-> FALSE, i |-> 0,
             done |-> {}]
      <4>1. job' = new
        BY <3>7 DEF NoJob
      <4>2. /\ set.uid \in Nat /\ name \in SetNames \cup {<<>>}
            /\ key \in SetNames \cup PodNames \cup {<<>>}
            /\ set.spec \in Specs \cup {NoJob.spec}
            /\ listed \in SUBSET (SetNames \cup PodNames)
            /\ Orphans(listed) \in SUBSET (SetNames \cup PodNames)
        BY <1>1, <2>3, <3>3, <3>4, <3>5
      <4>3. d \in BOOLEAN
        BY <3>6
      <4>4. /\ {} \in SUBSET [name : PodNames, pod : PodType]
            /\ {} \in SUBSET PodNames /\ {} \in SUBSET ClaimNames
            /\ FALSE \in BOOLEAN /\ 0 \in Nat
            /\ "unknown" \in {"unknown", "yes", "no"}
        OBVIOUS
      <4>5. new \in JobType
        BY <4>2, <4>3, <4>4, Zenon DEF JobType
      <4> QED
        BY <4>1, <4>5, NoJobType
    <3> QED
      BY <1>1, <2>1, <2>3, <3>1, <3>3, <3>5, <3>8, <1>0, NoJobType DEF JobInv, Stages
  <2> QED
    BY <2>2, <2>3
<1>2. CASE CheckUID
  <2>1. CASE Retry
    BY <1>0, <1>2, <2>1, Finished DEF CheckUID, Retry
  <2>2. CASE at' = "adopt" /\ UNCHANGED <<job, queue>>
    BY <1>0, <1>2, <2>2, JobEdited DEF CheckUID, Stages
  <2> QED
    BY <1>2, <2>1, <2>2 DEF CheckUID, Goto
<1>3. CASE AdoptionRefused
  BY <1>0, <1>3, Finished DEF AdoptionRefused, Retry
<1>4. ASSUME NEW t \in SUBSET (SetNames \cup PodNames), at # "idle",
             at' \in Stages, job' = [job EXCEPT !.todo = t],
             faults' = faults, queue' \subseteq SetNames \cup PodNames
      PROVE  JobInv'
  <2>1. /\ job' \in JobType
        /\ job'.key = job.key /\ job'.name = job.name /\ job'.uid = job.uid
        /\ job'.i = job.i /\ job'.spec = job.spec /\ job'.done = job.done
        /\ job'.failed = job.failed
    BY <1>0, <1>4 DEF JobType
  <2> QED
    BY <1>0, <1>4, <2>1, JobEdited
<1>5. ASSUME NEW r, AdoptControllerRevision(r) \/ TruncateHistory(r)
      PROVE  JobInv'
  <2>1. /\ job.todo \ {r} \in SUBSET (SetNames \cup PodNames)
        /\ job' = [job EXCEPT !.todo = job.todo \ {r}]
        /\ at # "idle" /\ at' \in Stages /\ faults' = faults /\ queue' = queue
    BY <1>0, <1>5 DEF AdoptControllerRevision, TruncateHistory, Goto, Stages,
       JobType
  <2> QED
    BY <1>0, <1>4, <2>1
<1>6. CASE ListPods
  <2> DEFINE ls == {[name |-> n, pod |-> The(pods[n])] :
                      n \in {n \in PodNames : pods[n] # {}}}
             ms == {n \in PodNames : /\ pods[n] # {} /\ Owned(The(pods[n]))
                                     /\ Claimable(n, The(pods[n]))}
             os == IF job.deleting THEN {} ELSE ToAdopt(pods)
             ts == IF job.deleting THEN {} ELSE ToAdopt(pods) \cup ToRelease(pods)
  <2>1. /\ job' = [job EXCEPT !.listed = ls, !.mine = ms, !.orphans = os,
                              !.todo = ts]
        /\ at = "list" /\ at' = "claim" /\ UNCHANGED <<queue, faults>>
    BY <1>6 DEF ListPods, Goto
  <2>2. ls \subseteq [name : PodNames, pod : PodType]
    <3>1. \A n \in PodNames : pods[n] # {} => The(pods[n]) \in PodType
      BY OptionalValue DEF IInv, PodsInv
    <3> QED
      BY <3>1
  <2>3. ms \subseteq PodNames /\ os \subseteq SetNames \cup PodNames
        /\ ts \subseteq SetNames \cup PodNames
    BY DEF ToAdopt, ToRelease
  <2> HIDE DEF ls, ms, os, ts
  <2>4. /\ job' \in JobType
        /\ job'.key = job.key /\ job'.name = job.name /\ job'.uid = job.uid
        /\ job'.i = job.i /\ job'.spec = job.spec /\ job'.done = job.done
        /\ job'.failed = job.failed
    BY <1>0, <2>1, <2>2, <2>3 DEF JobType
  <2> QED
    BY <1>0, <2>1, <2>4, JobEdited DEF Stages
<1>7. CASE RecheckDeletionTimestamp
  <2>1. /\ job' = [job EXCEPT !.can = Recheck] /\ Recheck \in {"yes", "no"}
        /\ at = "claim" /\ UNCHANGED <<at, queue, faults>>
    BY <1>7 DEF RecheckDeletionTimestamp, Recheck
  <2>2. /\ job' \in JobType
        /\ job'.key = job.key /\ job'.name = job.name /\ job'.uid = job.uid
        /\ job'.i = job.i /\ job'.spec = job.spec /\ job'.done = job.done
        /\ job'.failed = job.failed
    BY <1>0, <2>1 DEF JobType
  <2> QED
    BY <1>0, <2>1, <2>2, JobEdited DEF Stages
<1>8. ASSUME NEW ts \in SUBSET (SetNames \cup PodNames), NEW f \in BOOLEAN,
             job' = [job EXCEPT !.todo = ts, !.failed = f], job.failed => f,
             at # "idle", at' = at, queue' \subseteq SetNames \cup PodNames,
             faults' \in 0 .. MaxFaults
      PROVE  JobInv'
  <2>1. /\ job' \in JobType
        /\ job'.key = job.key /\ job'.name = job.name /\ job'.uid = job.uid
        /\ job'.i = job.i /\ job'.spec = job.spec /\ job'.done = job.done
        /\ job'.failed = f
    BY <1>0, <1>8 DEF JobType
  <2> QED
    BY <1>0, <1>8, <2>1, JobEdited
<1>9. CASE MayNotAdopt
  <2>1. /\ job.todo \ job.orphans \in SUBSET (SetNames \cup PodNames)
        /\ job' = [job EXCEPT !.todo = job.todo \ job.orphans, !.failed = TRUE]
        /\ at = "claim" /\ UNCHANGED <<at, queue, faults>>
    BY <1>0, <1>9 DEF MayNotAdopt, JobType
  <2> QED
    BY <1>0, <1>8, <2>1
<1>10. ASSUME NEW n \in PodNames, AdoptPod(n) PROVE JobInv'
  <2>0. /\ at = "claim" /\ at' = at /\ faults' = faults
        /\ queue' \subseteq SetNames \cup PodNames
        /\ job.todo \ {n} \in SUBSET (SetNames \cup PodNames)
        /\ job.mine \cup {n} \in SUBSET PodNames
    BY <1>0, <1>10 DEF AdoptPod, PutPod, JobType
  <2>1. CASE job' = [job EXCEPT !.todo = job.todo \ {n}, !.mine = job.mine \cup {n}]
    <3>1. /\ job' \in JobType
          /\ job'.key = job.key /\ job'.name = job.name /\ job'.uid = job.uid
          /\ job'.i = job.i /\ job'.spec = job.spec /\ job'.done = job.done
          /\ job'.failed = job.failed
      BY <1>0, <2>0, <2>1 DEF JobType
    <3> QED
      BY <1>0, <2>0, <3>1, JobEdited
  <2>2. CASE job' = [job EXCEPT !.todo = job.todo \ {n}, !.failed = TRUE]
    BY <1>0, <1>8, <2>0, <2>2
  <2> QED
    BY <1>10, <2>1, <2>2 DEF AdoptPod
<1>11. ASSUME NEW n \in PodNames, ReleasePod(n) PROVE JobInv'
  <2> DEFINE f == job.failed \/ (pods[n] # {} /\ ~SameUID(n))
  <2>1. /\ at = "claim" /\ at' = at /\ faults' = faults
        /\ queue' \subseteq SetNames \cup PodNames
        /\ job.todo \ {n} \in SUBSET (SetNames \cup PodNames)
        /\ job' = [job EXCEPT !.todo = job.todo \ {n}, !.failed = f]
    BY <1>0, <1>11 DEF ReleasePod, PutPod, JobType
  <2>2. f \in BOOLEAN /\ (job.failed => f)
    BY <1>0 DEF JobType
  <2> HIDE DEF f
  <2> QED
    BY <1>0, <1>8, <2>1, <2>2
<1>12. CASE UpdateStatefulSet
  <2>1. CASE job.failed
    BY <1>0, <1>12, <2>1, Finished DEF UpdateStatefulSet
  <2>2. CASE ~job.failed
    <3> DEFINE ts == ListControllerRevisions(job.uid) \ {job.name}
    <3>1. /\ ts \in SUBSET (SetNames \cup PodNames)
          /\ job' = [job EXCEPT !.todo = ts]
          /\ at = "claim" /\ at' \in Stages /\ UNCHANGED <<queue, faults>>
      BY <1>12, <2>2 DEF UpdateStatefulSet, ListControllerRevisions, Goto, Stages
    <3> HIDE DEF ts
    <3> QED
      BY <1>0, <1>4, <3>1
  <2> QED
    BY <2>1, <2>2
<1>13. ASSUME NEW o \in Ordinals, NEW c \in ClaimsToSee(o), CreateClaim(o, c)
       PROVE  JobInv'
  <2>1. /\ job' = [job EXCEPT !.done = job.done \cup {c}]
        /\ claims' = claims \cup {c}
        /\ at = "replicas" /\ UNCHANGED <<at, queue, faults>>
    BY <1>13 DEF CreateClaim, NextReplica
  <2>2. c \in ClaimNames
    BY <2>1, ClaimsNamed DEF ClaimsToSee, IInv
  <2>3. /\ job' \in JobType
        /\ job'.key = job.key /\ job'.name = job.name /\ job'.uid = job.uid
        /\ job'.i = job.i /\ job'.spec = job.spec
        /\ job'.done = job.done \cup {c} /\ job'.failed = job.failed
    BY <1>0, <2>1, <2>2 DEF JobType
  <2> QED
    BY <1>0, <2>1, <2>3, JobEdited
<1>14. ASSUME NEW o \in Ordinals, CreateStatefulPod(o) \/ UpdateStatefulPod(o)
       PROVE  JobInv'
  <2>1. /\ job' = [job EXCEPT !.i = o + 1, !.done = {}]
        /\ at = "replicas" /\ UNCHANGED <<at, faults>>
        /\ o < job.spec.replicas /\ queue' = queue \cup {Pod(o)}
    BY <1>14 DEF CreateStatefulPod, UpdateStatefulPod, ClaimsExist, NextReplica,
       Passed, PutPod
  <2>2. Pod(o) \in PodNames
    BY <1>0, <2>1, PodNameIsMember DEF Pod
  <2>3. o \in Nat /\ job.spec.replicas \in Nat
    BY <1>0, SetsAssumption, NumeralsAssumption, NoJobType
       DEF Ordinals, JobType, Specs
  <2>4. /\ job' \in JobType
        /\ job'.key = job.key /\ job'.name = job.name /\ job'.uid = job.uid
        /\ job'.i = o + 1 /\ job'.spec = job.spec
        /\ job'.done = {} /\ job'.failed = job.failed
    <3> DEFINE k == o + 1
    <3>1. k \in Nat /\ job' = [job EXCEPT !.i = k, !.done = {}]
      BY <2>1, <2>3
    <3> HIDE DEF k
    <3>2. /\ job' \in JobType
          /\ job'.key = job.key /\ job'.name = job.name /\ job'.uid = job.uid
          /\ job'.i = k /\ job'.spec = job.spec
          /\ job'.done = {} /\ job'.failed = job.failed
      BY <1>0, <3>1, JobPassed
    <3> QED
      BY <3>2 DEF k
  <2>5. job'.i <= job'.spec.replicas
    BY <2>1, <2>3, <2>4
  <2> QED
    BY <1>0, <2>1, <2>2, <2>4, <2>5, JobEdited
<1>15. ASSUME NEW n \in PodNames, DeleteStatefulPod(n) PROVE JobInv'
  <2>1. /\ job' = [job EXCEPT !.mine = job.mine \ {n}]
        /\ at = "replicas" /\ UNCHANGED <<at, faults>>
        /\ queue' = queue \cup {n}
    BY <1>15 DEF DeleteStatefulPod, Scaling, PutPod
  <2>2. /\ job' \in JobType
        /\ job'.key = job.key /\ job'.name = job.name /\ job'.uid = job.uid
        /\ job'.i = job.i /\ job'.spec = job.spec /\ job'.done = job.done
        /\ job'.failed = job.failed
    BY <1>0, <2>1 DEF JobType
  <2> QED
    BY <1>0, <2>1, <2>2, JobEdited
<1>16. CASE PodsDone
  <2>1. at = "replicas" /\ at' = "history" /\ UNCHANGED <<job, queue, faults>>
    BY <1>16 DEF PodsDone, Scaling, Goto
  <2> QED
    BY <1>0, <2>1, JobEdited DEF Stages
<1>17. CASE EndOfSync
  BY <1>0, <1>17, Finished DEF EndOfSync
<1>18. CASE CallFails
  <2>1. faults' \in 0 .. MaxFaults
    <3>1. faults' = faults + 1 /\ faults < MaxFaults
      BY <1>18 DEF CallFails
    <3> QED
      BY <1>0, <3>1, BoundsAssumption
  <2>2. CASE at \in {"fresh", "adopt"} /\ Retry
    BY <1>0, <2>1, <2>2, Finished DEF Retry
  <2>3. CASE Finish /\ UNCHANGED queue
    BY <1>0, <2>1, <2>3, Finished
  <2>4. ASSUME at = "claim", NEW n \in job.todo, UNCHANGED <<queue, at>>,
               job' = [job EXCEPT !.todo = @ \ {n}, !.failed = TRUE]
        PROVE  JobInv'
    <3>1. job.todo \ {n} \in SUBSET (SetNames \cup PodNames)
      BY <1>0 DEF JobType
    <3> QED
      BY <1>0, <1>8, <2>1, <2>4, <3>1
  <2>5. ASSUME at = "replicas", NEW o \in Ordinals, NEW c \in ClaimsToSee(o),
               job' = [job EXCEPT !.done = @ \cup {c}, !.failed = TRUE],
               UNCHANGED <<at, queue>>
        PROVE  JobInv'
    <3>1. c \in ClaimNames
      BY <2>5, ClaimsNamed DEF ClaimsToSee, IInv
    <3>2. /\ job' \in JobType
          /\ job'.key = job.key /\ job'.name = job.name /\ job'.uid = job.uid
          /\ job'.i = job.i /\ job'.spec = job.spec /\ job'.failed = TRUE
      BY <1>0, <2>5, <3>1 DEF JobType
    <3> QED
      BY <1>0, <2>1, <2>5, <3>2, JobEdited
  <2> QED
    BY <1>18, <2>2, <2>3, <2>4, <2>5, Zenon DEF CallFails
<1>19. ASSUME UNCHANGED <<at, job, faults>>,
              queue' \subseteq SetNames \cup PodNames
       PROVE  JobInv'
  <2>1. CASE at = "idle"
    BY <1>0, <1>19, <2>1 DEF JobInv
  <2>2. CASE at # "idle"
    BY <1>0, <1>19, <2>2, JobEdited
  <2> QED
    BY <2>1, <2>2
<1>20. CASE User \/ Collector
  <2>1. UNCHANGED <<at, job, faults>>
        /\ (queue' = queue \/ \E n \in PodNames : queue' = queue \cup {n})
    BY <1>20, Zenon DEF User, Collector, CreateSet, EditSet, DeleteSet, EditPod,
       Edits, OrphanPod, CollectPod, OrphanRevision, CollectRevision, RemoveSet,
       workVars, PutPod
  <2> QED
    BY <1>0, <1>19, <2>1
<1>21. CASE SyncSets \/ UNCHANGED vars
  <2>1. UNCHANGED <<at, job, faults>> /\ queue' \subseteq SetNames \cup PodNames
    BY <1>0, <1>21 DEF SyncSets, vars, workVars
  <2> QED
    BY <1>19, <2>1
<1> QED
  BY <1>1, <1>2, <1>3, <1>5, <1>6, <1>7, <1>9, <1>10, <1>11, <1>12, <1>13,
     <1>14, <1>15, <1>16, <1>17, <1>18, <1>20, <1>21, Zenon DEF Next, Worker

\* No set has uid 0, and a uid is that of one set.
LEMMA OneUid ==
  ASSUME SetsInv, NEW s \in SetNames, NEW set \in sets[s],
         NEW t \in SetNames, NEW other \in sets[t], other.uid = set.uid
  PROVE  s = t /\ set = other
<1>1. sets[s] \in Optional(SetType) /\ sets[t] \in Optional(SetType) /\ s = t
  BY DEF SetsInv
<1> QED
  BY <1>1, OptionalValue

\* The sets that leave: their uids are not 0.
LEMMA LeavingUid ==
  ASSUME SetsInv, NEW u \in Leaving
  PROVE  /\ u # 0
         /\ \E s \in SetNames : \E set \in sets[s] :
              set.uid = u /\ set.deletion = "Orphan"
<1>1. PICK s \in SetNames : /\ \E set \in sets[s] : set.deletion = "Orphan"
                            /\ u = The(sets[s]).uid
  BY DEF Leaving
<1>2. PICK set \in sets[s] : set.deletion = "Orphan"
  BY <1>1
<1>3. sets[s] \in Optional(SetType)
  BY DEF SetsInv
<1>4. The(sets[s]) = set
  BY <1>2, <1>3, OptionalValue
<1>5. set.uid # 0
  BY DEF SetsInv
<1> QED
  BY <1>1, <1>2, <1>4, <1>5

\* While pods are claimed nobody gives an orphan that is left to adopt an
\* owner, and nobody takes one from it.
LEMMA StillOrphan ==
  ASSUME IInv, [Next]_vars, at = "claim", at' = "claim",
         NEW n \in job'.todo \cap job'.orphans
  PROVE  /\ n \in job.todo \cap job.orphans
         /\ job'.key = job.key /\ job'.name = job.name /\ job'.uid = job.uid
         /\ job'.can = job.can \/ RecheckDeletionTimestamp
         /\ \A q \in pods'[n] :
              /\ q.owner = 0
              /\ q.was = 0 \/ \E p \in pods[n] : q.was = p.was
<1> DEFINE Kept == /\ job'.key = job.key /\ job'.name = job.name /\ job'.uid = job.uid
                   /\ job'.can = job.can
                   /\ job'.orphans = job.orphans /\ job'.todo \subseteq job.todo
<1> DEFINE Same == pods'[n] = pods[n]
<1>0. /\ job \in JobType /\ SetsInv /\ PodsInv /\ ClaimInv
      /\ pods \in [PodNames -> Optional(PodType)]
      /\ DOMAIN pods = PodNames
  BY DEF IInv, JobInv, PodsInv
<1>1. \A m \in job.todo \cap job.orphans : m \in PodNames
        /\ \A p \in pods[m] : p.owner = 0
  BY <1>0 DEF ClaimInv
<1>2. ASSUME Kept, Same
      PROVE  /\ n \in job.todo \cap job.orphans
             /\ \A q \in pods'[n] : q.owner = 0
                                    /\ \E p \in pods[n] : q.was = p.was
  BY <1>1, <1>2
<1>3. CASE RecheckDeletionTimestamp
  <2>1. /\ job'.key = job.key /\ job'.name = job.name /\ job'.uid = job.uid
        /\ job'.orphans = job.orphans /\ job'.todo = job.todo
        /\ pods' = pods
    BY <1>0, <1>3 DEF RecheckDeletionTimestamp, JobType, storeVars
  <2> QED
    BY <1>1, <1>3, <2>1
<1>4. ASSUME NEW m \in PodNames, AdoptPod(m) PROVE Kept /\ Same
  <2>1. \/ job' = [job EXCEPT !.todo = @ \ {m}, !.mine = @ \cup {m}]
        \/ job' = [job EXCEPT !.todo = @ \ {m}, !.failed = TRUE]
    BY <1>4, Zenon DEF AdoptPod
  <2>2. Kept /\ m \notin job'.todo
    <3>1. CASE job' = [job EXCEPT !.todo = @ \ {m}, !.mine = @ \cup {m}]
      BY <1>0, <3>1 DEF JobType
    <3>2. CASE job' = [job EXCEPT !.todo = @ \ {m}, !.failed = TRUE]
      BY <1>0, <3>2 DEF JobType
    <3> QED
      BY <2>1, <3>1, <3>2
  <2>3. n # m
    BY <2>2
  <2>4. Same
    BY <1>0, <1>1, <1>4, <2>2, <2>3 DEF AdoptPod, PutPod
  <2> QED
    BY <2>2, <2>4
<1>5. ASSUME NEW m \in PodNames, ReleasePod(m) PROVE Kept /\ Same
  <2>1. Kept /\ m \notin job'.orphans
    BY <1>0, <1>5 DEF ReleasePod, JobType
  <2>2. n # m
    BY <2>1
  <2>3. Same
    BY <1>0, <1>1, <1>5, <2>1, <2>2 DEF ReleasePod, PutPod
  <2> QED
    BY <2>1, <2>3
<1>6. CASE MayNotAdopt
  BY <1>0, <1>2, <1>6 DEF MayNotAdopt, JobType, storeVars
<1>7. CASE CallFails
  <2>1. PICK m \in job.todo : job' = [job EXCEPT !.todo = @ \ {m}, !.failed = TRUE]
    BY <1>7 DEF CallFails, Retry, Finish
  <2>2. Kept
    BY <1>0, <2>1 DEF JobType
  <2>3. pods' = pods
    BY <1>7 DEF CallFails, storeVars
  <2> QED
    BY <1>2, <2>2, <2>3
<1>8. ASSUME NEW m \in PodNames, EditPod(m) \/ OrphanPod(m) \/ CollectPod(m)
      PROVE  /\ n \in job.todo \cap job.orphans
             /\ job' = job
             /\ \A q \in pods'[n] :
                  /\ q.owner = 0
                  /\ q.was = 0 \/ \E p \in pods[n] : q.was = p.was
  <2>1. job' = job
    BY <1>8 DEF EditPod, OrphanPod, CollectPod, Edits
  <2>2. n \in PodNames /\ \A p \in pods[n] : p.owner = 0 /\ p \in PodType
    BY <1>1, <2>1, OnePod, <1>0
  <2>3. ASSUME NEW q \in pods'[n]
        PROVE  q.owner = 0 /\ (q.was = 0 \/ \E p \in pods[n] : q.was = p.was)
    <3>1. CASE n # m
      <4>1. pods'[n] = pods[n]
        BY <1>0, <1>8, <2>2, <3>1 DEF EditPod, OrphanPod, CollectPod, PutPod
      <4> QED
        BY <2>2, <4>1
    <3>2. CASE n = m
      <4>1. CASE CollectPod(m)
        BY <1>0, <2>2, <2>3, <3>2, <4>1 DEF CollectPod, PutPod
      <4>2. CASE OrphanPod(m)
        BY <1>0, <2>2, <3>2, <4>2, LeavingUid DEF OrphanPod
      <4>3. CASE EditPod(m)
        <5>1. \/ pods' = [pods EXCEPT ![m] = {}]
              \/ \E p \in pods[m] : pods' = [pods EXCEPT ![m] = {[p EXCEPT !.matches = FALSE]}]
              \/ pods' = [pods EXCEPT ![m] =
                   {[made |-> edits', owner |-> 0, matches |-> TRUE,
                     label |-> FALSE, volumes |-> {}, was |-> 0]}]
          BY <4>3 DEF EditPod, PutPod
        <5>2. ASSUME NEW p \in pods[m],
                     pods' = [pods EXCEPT ![m] = {[p EXCEPT !.matches = FALSE]}]
              PROVE  q.owner = 0 /\ q.was = p.was
          <6>1. q = [p EXCEPT !.matches = FALSE]
            BY <1>0, <2>2, <2>3, <3>2, <5>2
          <6> QED
            BY <2>2, <3>2, <6>1 DEF PodType
        <5> QED
          BY <1>0, <2>2, <2>3, <3>2, <5>1, <5>2
      <4> QED
        BY <1>8, <4>1, <4>2, <4>3
    <3> QED
      BY <3>1, <3>2
  <2> QED
    BY <2>1, <2>3
<1>9. CASE UNCHANGED <<job, pods>>
  BY <1>2, <1>9
<1>10. ASSUME Worker
       PROVE  \/ RecheckDeletionTimestamp \/ MayNotAdopt
              \/ \E m \in PodNames : AdoptPod(m) \/ ReleasePod(m)
  BY <1>10 DEF Worker, Reconcile, CheckUID, AdoptionRefused,
     AdoptControllerRevision, TruncateHistory, ListPods,
     DeleteStatefulPod, UpdateStatefulSet, CreateClaim, CreateStatefulPod,
     UpdateStatefulPod, PodsDone, EndOfSync, Goto, Finish, Scaling, SyncFails,
     ClaimsExist, NextReplica
<1>11. ASSUME User \/ Collector \/ SyncSets \/ UNCHANGED vars
       PROVE  \/ UNCHANGED <<job, pods>>
              \/ \E m \in PodNames : EditPod(m) \/ OrphanPod(m) \/ CollectPod(m)
  BY <1>11, Zenon DEF User, Collector, SyncSets, CreateSet, EditSet, DeleteSet,
     Edits, OrphanRevision, CollectRevision, RemoveSet, workVars, storeVars, vars
<1> QED
  BY <1>2, <1>3, <1>4, <1>5, <1>6, <1>7, <1>8, <1>9, <1>10, <1>11 DEF Next

\* Pods come to the stage of claims when they are listed.
LEMMA IntoClaim ==
  ASSUME [Next]_vars, at # "claim", at' = "claim"
  PROVE  ListPods
  BY DEF Next, Worker, User, Collector, vars, workVars,
     Reconcile, CheckUID, AdoptionRefused, AdoptControllerRevision,
     TruncateHistory, ListPods, MayNotAdopt, RecheckDeletionTimestamp,
     AdoptPod, ReleasePod, DeleteStatefulPod, UpdateStatefulSet, CreateClaim,
     CreateStatefulPod, UpdateStatefulPod, PodsDone, EndOfSync, CallFails,
     CreateSet, EditSet, DeleteSet, EditPod, Edits, OrphanPod, CollectPod,
     OrphanRevision, CollectRevision, RemoveSet, SyncSets, Goto, Finish, Retry

\* What is left to adopt stays so.
LEMMA ClaimStep ==
  ASSUME IInv, [Next]_vars
  PROVE  ClaimInv'
<1> SUFFICES ASSUME at' = "claim", NEW n \in job'.todo \cap job'.orphans
             PROVE  /\ n \in PodNames /\ isMemberOf(job'.name, n)
                    /\ \A p \in pods'[n] : p.owner = 0
  BY DEF ClaimInv, isMemberOf
<1>1. CASE at = "claim"
  <2>1. n \in job.todo \cap job.orphans /\ job'.name = job.name
        /\ \A q \in pods'[n] : q.owner = 0
    BY <1>1, StillOrphan
  <2> QED
    BY <1>1, <2>1 DEF IInv, ClaimInv
<1>2. CASE at # "claim"
  <2>1. ListPods
    BY <1>2, IntoClaim
  <2>2. /\ job \in JobType /\ pods \in [PodNames -> Optional(PodType)]
    BY DEF IInv, JobInv, PodsInv
  <2>3. job'.name = job.name /\ job'.orphans \subseteq ToAdopt(pods)
        /\ pods' = pods
    BY <2>1, <2>2 DEF ListPods, JobType, storeVars
  <2>4. n \in PodNames /\ The(pods[n]).owner = 0 /\ isMemberOf(job.name, n)
    BY <2>3 DEF ToAdopt, Claimable
  <2>5. \A p \in pods[n] : The(pods[n]) = p
    BY <2>2, <2>4, OptionalValue
  <2> QED
    BY <2>3, <2>4, <2>5
<1> QED
  BY <1>1, <1>2

\* The invariant holds at first.
LEMMA InvAtFirst == Init => IInv
<1> SUFFICES ASSUME Init PROVE IInv
  OBVIOUS
<1>1. /\ names \in Seq(SetNames) /\ Len(names) = Cardinality(DOMAIN InitSets)
      /\ Len(names) \in Nat
      /\ \A s \in DOMAIN InitSets : \E u \in DOMAIN names : names[u] = s
  BY NamesAtFirst DEF Init
<1>2. ASSUME NEW s \in DOMAIN InitSets
      PROVE  LET u == CHOOSE u \in DOMAIN names : names[u] = s
             IN  u \in 1 .. Len(names) /\ names[u] = s
  BY <1>1
<1>3. SetsInv
  <2> DEFINE U(s) == CHOOSE u \in DOMAIN names : names[u] = s
             New(s) == [uid |-> U(s), spec |-> InitSets[s], deletion |-> "No"]
  <2>1. /\ sets = [s \in SetNames |->
                     IF s \in DOMAIN InitSets THEN {New(s)} ELSE {}]
        /\ setCache = sets /\ edits = 0
    BY DEF Init
  <2>2. ASSUME NEW s \in DOMAIN InitSets
        PROVE  /\ New(s).uid \in 1 .. Len(names) /\ names[New(s).uid] = s
               /\ New(s) \in SetType
    <3>1. U(s) \in 1 .. Len(names) /\ names[U(s)] = s
      BY <1>2
    <3>2. U(s) \in Uids
      BY <1>1, <3>1, BoundsAssumption DEF Uids
    <3> HIDE DEF U
    <3> QED
      BY <3>1, <3>2 DEF SetType
  <2> HIDE DEF New
  <2>3. ASSUME NEW s \in SetNames
        PROVE  /\ sets[s] \in Optional(SetType)
               /\ \A set \in sets[s] : set.uid \in 1 .. Len(names)
                                       /\ names[set.uid] = s
    <3>1. CASE s \in DOMAIN InitSets
      <4>1. {New(s)} \in Optional(SetType)
        BY <2>2, <3>1, OptionalMade
      <4> QED
        BY <2>1, <2>2, <3>1, <4>1
    <3>2. CASE s \notin DOMAIN InitSets
      BY <2>1, <3>2, OptionalMade
    <3> QED
      BY <3>1, <3>2
  <2> QED
    <3>1. sets \in [SetNames -> Optional(SetType)]
      BY <2>1, <2>3
    <3>2. edits \in 0 .. MaxEdits
          /\ Len(names) <= Cardinality(DOMAIN InitSets) + edits
      BY <1>1, <2>1, BoundsAssumption
    <3> QED
      BY <1>1, <2>1, <2>3, <3>1, <3>2 DEF SetsInv
<1>4. PodsInv
  <2>1. pods = [n \in PodNames |-> {}]
    BY DEF Init
  <2> QED
    BY <2>1, OptionalMade DEF PodsInv, OwnerIsParent, ClaimsBeforePods
<1>5. RevisionsInv
  <2>1. revisions = [s \in SetNames |-> {}] /\ {} \in Optional(0 .. Len(names))
    BY OptionalMade DEF Init
  <2> QED
    BY <2>1 DEF RevisionsInv
<1>6. JobInv
  BY NoJobType, SetsAssumption, BoundsAssumption DEF Init, JobInv, Stages
<1>7. ClaimInv
  BY DEF Init, ClaimInv
<1> QED
  BY <1>3, <1>4, <1>5, <1>6, <1>7 DEF IInv

\* IInv is an invariant.
LEMMA Invariance == Spec => []IInv
<1>1. IInv /\ [Next]_vars => IInv'
  <2> SUFFICES ASSUME IInv, [Next]_vars PROVE IInv'
    OBVIOUS
  <2>1. SetsInv' BY SetsStep DEF IInv
  <2>2. PodsInv' BY PodsStep
  <2>3. RevisionsInv' BY RevisionsStep
  <2>4. JobInv' BY JobStep
  <2>5. ClaimInv' BY ClaimStep
  <2> QED
    BY <2>1, <2>2, <2>3, <2>4, <2>5 DEF IInv
<1> QED
  BY InvAtFirst, <1>1, PTL DEF Spec

\* Whatever is deleted, released or adopted, and however stale the cache, a
\* pod is owned by the set its name says.
THEOREM OwnerAlwaysParent == Spec => []OwnerIsParent
<1>1. IInv => OwnerIsParent
  BY DEF IInv, PodsInv
<1> QED
  BY <1>1, Invariance, PTL

\* Whichever calls fail, a pod that is stored mounts claims that exist.
THEOREM ClaimsAlwaysFirst == Spec => []ClaimsBeforePods
<1>1. IInv => ClaimsBeforePods
  BY DEF IInv, PodsInv
<1> QED
  BY <1>1, Invariance, PTL

\* Variables keep their types: uids stay within what users can create, the
\* loop of a reconcile within the replicas of the set it read.
THEOREM TypeCorrect == Spec => []TypeOK
<1>1. ASSUME IInv PROVE TypeOK
  <2>1. /\ sets \in [SetNames -> Optional(SetType)]
        /\ setCache \in [SetNames -> Optional(SetType)]
        /\ revisions \in [SetNames -> Optional(0 .. Len(names))]
        /\ edits \in 0 .. MaxEdits
    BY <1>1 DEF IInv, SetsInv, RevisionsInv
  <2>2. ToSet(names) \subseteq SetNames
    BY <1>1 DEF IInv, SetsInv, ToSet
  <2>3. ASSUME NEW n \in PodNames, NEW p \in pods[n]
        PROVE  /\ pods[n] = {p} /\ DOMAIN p = PodFields
               /\ p.made \in 0 .. MaxEdits
               /\ {p.owner, p.was} \subseteq 0 .. Len(names)
    <3>1. /\ p \in PodType /\ pods[n] = {p}
          /\ p.owner <= Len(names) /\ p.was <= Len(names)
      BY <1>1, OnePod DEF IInv
    <3>2. DOMAIN p = PodFields
      BY <3>1 DEF PodType, PodFields
    <3>3. p.made \in 0 .. MaxEdits /\ p.owner \in Nat /\ p.was \in Nat
      BY <3>1 DEF PodType
    <3>4. Len(names) \in Nat
      BY <1>1 DEF IInv, SetsInv
    <3> QED
      BY <3>1, <3>2, <3>3, <3>4
  <2>4. /\ queue \subseteq SetNames \cup PodNames
        /\ job \in JobType /\ job.i <= job.spec.replicas
        /\ faults \in 0 .. MaxFaults
    BY <1>1 DEF IInv, JobInv
  <2>5. /\ job.mine \cup job.todo \subseteq SetNames \cup PodNames
        /\ job.i \in Nat /\ job.spec \in Specs \cup {NoJob.spec}
    BY <2>4 DEF JobType
  <2>6. job.spec.replicas \in Nat
    BY <2>5, SetsAssumption, NumeralsAssumption, NoJobType DEF Specs
  <2>7. job.i \in 0 .. job.spec.replicas
    BY <2>4, <2>5, <2>6
  <2> QED
    BY <2>1, <2>2, <2>3, <2>4, <2>5, <2>7 DEF TypeOK
<1>2. IInv => TypeOK
  BY <1>1
<1> QED
  BY <1>2, Invariance, PTL

-----------------------------------------------------------------------------
(* Pods are not taken back.                                                 *)

\* What the was of a pod may become: it stays, it is 0, or a set that is
\* being deleted has just let the pod go.
LEMMA WasOf ==
  ASSUME IInv, [Next]_vars, NEW n \in PodNames, NEW q \in pods'[n]
  PROVE  \/ q.was = 0
         \/ \E p \in pods[n] : q.was = p.was
         \/ q.was \in Leaving
<1> DEFINE Origin(m, x) == \/ x.was = 0
                           \/ \E p \in pods[m] : x.was = p.was
                           \/ x.was \in Leaving
<1>0. /\ PodsInv /\ pods \in [PodNames -> Optional(PodType)]
      /\ at # "idle" => job.name \in SetNames
      /\ \A m \in PodNames : \A p \in pods[m] : p \in PodType /\ The(pods[m]) = p
  BY OnePod DEF IInv, PodsInv, JobInv
<1>1. ASSUME NEW m \in PodNames, NEW x, PutPod(m, {x}), Origin(m, x)
      PROVE  Origin(n, q)
  <2>1. CASE m = n
    BY <1>0, <1>1, <2>1 DEF PutPod
  <2>2. CASE m # n
    BY <1>0, <1>1, <2>2 DEF PutPod
  <2> QED
    BY <2>1, <2>2
<1>2. ASSUME NEW m \in PodNames, PutPod(m, {}) PROVE Origin(n, q)
  BY <1>0, <1>2 DEF PutPod
<1>3. CASE pods' = pods
  BY <1>3
<1>4. ASSUME NEW m \in PodNames, AdoptPod(m) \/ ReleasePod(m)
      PROVE  Origin(n, q)
  <2>1. CASE ~SameUID(m)
    BY <1>3, <1>4, <2>1 DEF AdoptPod, ReleasePod
  <2>2. CASE SameUID(m)
    <3>1. PICK p \in pods[m] : TRUE
      BY <2>2 DEF SameUID
    <3>2. p \in PodType /\ The(pods[m]) = p
      BY <1>0
    <3>3. /\ [p EXCEPT !.owner = job.uid].was = p.was
          /\ [p EXCEPT !.owner = 0].was = p.was
      BY <3>2 DEF PodType
    <3>4. \/ PutPod(m, {[p EXCEPT !.owner = job.uid]})
          \/ PutPod(m, {[p EXCEPT !.owner = 0]})
      BY <1>4, <2>2, <3>2 DEF AdoptPod, ReleasePod
    <3> QED
      BY <1>1, <3>3, <3>4
  <2> QED
    BY <2>1, <2>2
<1>5. ASSUME NEW o \in Ordinals, CreateStatefulPod(o) PROVE Origin(n, q)
  <2>1. PutPod(Pod(o), {newStatefulSetPod(o)}) /\ job.name \in SetNames
    BY <1>0, <1>5 DEF CreateStatefulPod, ClaimsExist, NextReplica
  <2>2. Pod(o) \in PodNames
    BY <2>1, PodNameIsMember DEF Pod
  <2>3. newStatefulSetPod(o).was = 0
    BY DEF newStatefulSetPod
  <2> QED
    BY <1>1, <2>1, <2>2, <2>3
<1>6. ASSUME NEW o \in Ordinals, UpdateStatefulPod(o) PROVE Origin(n, q)
  <2>1. job.name \in SetNames
    BY <1>0, <1>6 DEF UpdateStatefulPod, ClaimsExist, NextReplica
  <2>2. Pod(o) \in PodNames
    BY <2>1, PodNameIsMember DEF Pod
  <2>3. PICK p \in pods[Pod(o)] : TRUE
    BY <1>6 DEF UpdateStatefulPod
  <2>4. p \in PodType /\ The(pods[Pod(o)]) = p
    BY <1>0, <2>2
  <2>5. [p EXCEPT !.label = TRUE].was = p.was
    BY <2>4 DEF PodType
  <2>6. PutPod(Pod(o), {[p EXCEPT !.label = TRUE]})
    BY <1>6, <2>4 DEF UpdateStatefulPod
  <2> QED
    BY <1>1, <2>2, <2>5, <2>6
<1>7. ASSUME NEW m \in PodNames, DeleteStatefulPod(m) \/ CollectPod(m)
      PROVE  Origin(n, q)
  BY <1>2, <1>7 DEF DeleteStatefulPod, CollectPod
<1>8. ASSUME NEW m \in PodNames, EditPod(m) PROVE Origin(n, q)
  <2>1. ASSUME NEW p \in pods[m], PutPod(m, {[p EXCEPT !.matches = FALSE]})
        PROVE  Origin(n, q)
    <3>1. [p EXCEPT !.matches = FALSE].was = p.was
      BY <1>0 DEF PodType
    <3> QED
      BY <1>1, <2>1, <3>1
  <2>2. ASSUME PutPod(m, {[made |-> edits', owner |-> 0, matches |-> TRUE,
                           label |-> FALSE, volumes |-> {}, was |-> 0]})
        PROVE  Origin(n, q)
    BY <1>1, <2>2
  <2> QED
    BY <1>2, <1>8, <2>1, <2>2 DEF EditPod
<1>9. ASSUME NEW m \in PodNames, OrphanPod(m) PROVE Origin(n, q)
  <2>1. PICK p \in pods[m] : /\ p.owner \in Leaving
          /\ PutPod(m, {[p EXCEPT !.owner = 0, !.was = p.owner]})
    BY <1>9 DEF OrphanPod
  <2>2. [p EXCEPT !.owner = 0, !.was = p.owner].was = p.owner
    BY <1>0 DEF PodType
  <2> QED
    BY <1>1, <2>1, <2>2
<1>10. \/ pods' = pods
       \/ \E m \in PodNames :
            \/ AdoptPod(m) \/ ReleasePod(m) \/ DeleteStatefulPod(m)
            \/ CollectPod(m) \/ EditPod(m) \/ OrphanPod(m)
       \/ \E o \in Ordinals : CreateStatefulPod(o) \/ UpdateStatefulPod(o)
  BY Zenon DEF Next, Worker, User, Collector, vars, storeVars,
     Reconcile, CheckUID, AdoptionRefused, AdoptControllerRevision,
     TruncateHistory, ListPods, MayNotAdopt, RecheckDeletionTimestamp,
     UpdateStatefulSet, CreateClaim, PodsDone, EndOfSync, CallFails,
     CreateSet, EditSet, DeleteSet, OrphanRevision, CollectRevision,
     RemoveSet, SyncSets
<1> QED
  BY <1>3, <1>4, <1>5, <1>6, <1>7, <1>8, <1>9, <1>10

\* A set with a uid that was given before, and not deleted, was there before
\* and not deleted.
LEMMA LiveBefore ==
  ASSUME IInv, [Next]_vars, NEW s \in SetNames, NEW set \in sets'[s],
         set.deletion = "No", set.uid <= Len(names)
  PROVE  \E old \in sets[s] : old.uid = set.uid /\ old.deletion = "No"
<1>0. /\ sets \in [SetNames -> Optional(SetType)] /\ SetsInv
      /\ \A t \in SetNames : \A old \in sets[t] : old \in SetType
      /\ names \in Seq(SetNames) /\ Len(names) \in Nat
  BY OptionalValue DEF IInv, SetsInv
<1>1. ASSUME NEW t \in SetNames, CreateSet(t)
      PROVE  \E old \in sets[s] : old.uid = set.uid /\ old.deletion = "No"
  <2>1. PICK spec \in SetSpecs :
          PutSet(t, {[uid |-> Len(names'), spec |-> spec, deletion |-> "No"]})
    BY <1>1 DEF CreateSet
  <2>2. Len(names') = Len(names) + 1
    BY <1>0, <1>1, AppendProperties DEF CreateSet
  <2>3. s # t
    BY <1>0, <2>1, <2>2 DEF PutSet
  <2>4. sets'[s] = sets[s]
    BY <1>0, <2>1, <2>3 DEF PutSet
  <2> QED
    BY <2>4
<1>2. ASSUME NEW t \in SetNames, EditSet(t)
      PROVE  \E old \in sets[s] : old.uid = set.uid /\ old.deletion = "No"
  <2>1. PICK old \in sets[t], spec \in SetSpecs :
          PutSet(t, {[old EXCEPT !.spec = spec]})
    BY <1>2 DEF EditSet
  <2>2. [old EXCEPT !.spec = spec].uid = old.uid
        /\ [old EXCEPT !.spec = spec].deletion = old.deletion
    BY <1>0 DEF SetType
  <2> QED
    BY <1>0, <2>1, <2>2 DEF PutSet
<1>3. ASSUME NEW t \in SetNames, DeleteSet(t)
      PROVE  \E old \in sets[s] : old.uid = set.uid /\ old.deletion = "No"
  <2>1. PICK old \in sets[t] :
          PutSet(t, {}) \/ PutSet(t, {[old EXCEPT !.deletion = "Orphan"]})
    BY <1>3 DEF DeleteSet
  <2>2. [old EXCEPT !.deletion = "Orphan"].deletion = "Orphan"
    BY <1>0 DEF SetType
  <2>3. s # t
    BY <1>0, <2>1, <2>2 DEF PutSet
  <2> QED
    BY <1>0, <2>1, <2>3 DEF PutSet
<1>4. ASSUME NEW t \in SetNames, RemoveSet(t)
      PROVE  \E old \in sets[s] : old.uid = set.uid /\ old.deletion = "No"
  BY <1>0, <1>4 DEF RemoveSet, PutSet
<1>5. \/ sets' = sets
      \/ \E t \in SetNames :
           CreateSet(t) \/ EditSet(t) \/ DeleteSet(t) \/ RemoveSet(t)
  BY Zenon DEF Next, Worker, User, Collector, vars, storeVars,
     Reconcile, CheckUID, AdoptionRefused, AdoptControllerRevision,
     TruncateHistory, ListPods, MayNotAdopt, RecheckDeletionTimestamp,
     AdoptPod, ReleasePod, DeleteStatefulPod, UpdateStatefulSet, CreateClaim,
     CreateStatefulPod, UpdateStatefulPod, PodsDone, EndOfSync, CallFails,
     EditPod, OrphanPod, CollectPod, OrphanRevision, CollectRevision, SyncSets
<1> QED
  BY <1>1, <1>2, <1>3, <1>4, <1>5

\* A pod is given an owner by adoption, and by nothing else.
LEMMA OnlyAdopted ==
  ASSUME IInv, [Next]_vars, NEW n \in PodNames,
         NEW p \in pods[n], NEW q \in pods'[n], p.owner = 0, q.owner # 0
  PROVE  AdoptPod(n) /\ q.owner = job.uid
<1>0. /\ pods \in [PodNames -> Optional(PodType)]
      /\ at # "idle" => job.name \in SetNames
      /\ \A m \in PodNames : \A r \in pods[m] :
           r \in PodType /\ The(pods[m]) = r /\ pods[m] = {r}
  BY OnePod DEF IInv, PodsInv, JobInv
<1>1. ASSUME NEW m \in PodNames, NEW x, PutPod(m, {x})
      PROVE  n = m /\ q = x
  <2>1. CASE m = n
    BY <1>0, <1>1, <2>1 DEF PutPod
  <2>2. CASE m # n
    BY <1>0, <1>1, <2>2 DEF PutPod
  <2> QED
    BY <2>1, <2>2
<1>2. ASSUME NEW m \in PodNames, PutPod(m, {}) PROVE FALSE
  BY <1>0, <1>2 DEF PutPod
<1>3. pods' # pods
  BY <1>0
<1>4. ASSUME NEW m \in PodNames, AdoptPod(m) PROVE m = n /\ q.owner = job.uid
  <2>1. PutPod(m, {[The(pods[m]) EXCEPT !.owner = job.uid]})
    BY <1>3, <1>4 DEF AdoptPod
  <2> DEFINE x == [The(pods[m]) EXCEPT !.owner = job.uid]
  <2> HIDE DEF x
  <2>0. m = n /\ q = x
    BY <1>1, <2>1 DEF x
  <2>2. m = n /\ q = [p EXCEPT !.owner = job.uid]
    BY <1>0, <2>0 DEF x
  <2> QED
    BY <1>0, <2>2 DEF PodType
<1>5. ASSUME NEW m \in PodNames, ReleasePod(m) PROVE FALSE
  <2>1. PutPod(m, {[The(pods[m]) EXCEPT !.owner = 0]})
    BY <1>3, <1>5 DEF ReleasePod
  <2>2. m = n /\ q = [p EXCEPT !.owner = 0]
    BY <1>0, <1>1, <2>1
  <2> QED
    BY <1>0, <2>2 DEF PodType
<1>6. ASSUME NEW o \in Ordinals, CreateStatefulPod(o) \/ UpdateStatefulPod(o)
      PROVE  FALSE
  <2>1. job.name \in SetNames
    BY <1>0, <1>6 DEF CreateStatefulPod, UpdateStatefulPod, ClaimsExist,
       NextReplica
  <2>2. Pod(o) \in PodNames
    BY <2>1, PodNameIsMember DEF Pod
  <2>3. CASE CreateStatefulPod(o)
    BY <1>1, <2>2, <2>3 DEF CreateStatefulPod
  <2>4. CASE UpdateStatefulPod(o)
    <3>1. PutPod(Pod(o), {[The(pods[Pod(o)]) EXCEPT !.label = TRUE]})
      BY <2>4 DEF UpdateStatefulPod
    <3>2. q = [p EXCEPT !.label = TRUE]
      BY <1>0, <1>1, <2>2, <3>1
    <3> QED
      BY <1>0, <3>2 DEF PodType
  <2> QED
    BY <1>6, <2>3, <2>4
<1>7. ASSUME NEW m \in PodNames, DeleteStatefulPod(m) \/ CollectPod(m)
      PROVE  FALSE
  BY <1>2, <1>7 DEF DeleteStatefulPod, CollectPod
<1>8. ASSUME NEW m \in PodNames, EditPod(m) PROVE FALSE
  <2>1. ASSUME NEW r \in pods[m], PutPod(m, {[r EXCEPT !.matches = FALSE]})
        PROVE  FALSE
    <3> DEFINE x == [r EXCEPT !.matches = FALSE]
    <3>2. PutPod(m, {x})
      BY <2>1
    <3> HIDE DEF x
    <3>3. m = n /\ q = x
      BY <1>1, <3>2
    <3>1. q = [p EXCEPT !.matches = FALSE]
      BY <1>0, <3>3 DEF x
    <3> QED
      BY <1>0, <3>1 DEF PodType
  <2>2. ASSUME PutPod(m, {[made |-> edits', owner |-> 0, matches |-> TRUE,
                           label |-> FALSE, volumes |-> {}, was |-> 0]})
        PROVE  FALSE
    <3> DEFINE x == [made |-> edits', owner |-> 0, matches |-> TRUE,
                     label |-> FALSE, volumes |-> {}, was |-> 0]
    <3>2. PutPod(m, {x}) /\ x.owner = 0
      BY <2>2
    <3> HIDE DEF x
    <3> QED
      BY <1>1, <3>2
  <2> QED
    BY <1>2, <1>8, <2>1, <2>2 DEF EditPod
<1>9. ASSUME NEW m \in PodNames, OrphanPod(m) PROVE FALSE
  <2>1. PICK r \in pods[m] : PutPod(m, {[r EXCEPT !.owner = 0, !.was = r.owner]})
    BY <1>9 DEF OrphanPod
  <2>2. q = [r EXCEPT !.owner = 0, !.was = r.owner]
    BY <1>1, <2>1
  <2> QED
    BY <1>0, <2>2 DEF PodType
<1>10. \/ pods' = pods
       \/ \E m \in PodNames :
            \/ AdoptPod(m) \/ ReleasePod(m) \/ DeleteStatefulPod(m)
            \/ CollectPod(m) \/ EditPod(m) \/ OrphanPod(m)
       \/ \E o \in Ordinals : CreateStatefulPod(o) \/ UpdateStatefulPod(o)
  BY Zenon DEF Next, Worker, User, Collector, vars, storeVars,
     Reconcile, CheckUID, AdoptionRefused, AdoptControllerRevision,
     TruncateHistory, ListPods, MayNotAdopt, RecheckDeletionTimestamp,
     UpdateStatefulSet, CreateClaim, PodsDone, EndOfSync, CallFails,
     CreateSet, EditSet, DeleteSet, OrphanRevision, CollectRevision,
     RemoveSet, SyncSets
<1> QED
  BY <1>3, <1>4, <1>5, <1>6, <1>7, <1>8, <1>9, <1>10

\* The answer of canAdoptFunc is not there before it is asked for.
LEMMA NotAskedYet ==
  ASSUME IInv, [Next]_vars, at' \in {"fresh", "adopt", "list"},
         at \in {"fresh", "adopt", "list"} => job.can = "unknown"
  PROVE  job'.can = "unknown"
<1>0. job \in JobType
  BY DEF IInv, JobInv
<1>1. ASSUME NEW key, Reconcile(key) PROVE job'.can = "unknown"
  <2> DEFINE name == realReconcileName(key)
             set == The(setCache[name])
             listed == ListControllerRevisions(set.uid)
  <2>1. job' = [NoJob EXCEPT !.key = key, !.name = name, !.uid = set.uid,
                  !.spec = set.spec, !.deleting = set.deletion # "No",
                  !.todo = listed, !.orphans = Orphans(listed)]
    BY <1>1 DEF Reconcile
  <2> HIDE DEF name, set, listed
  <2> QED
    BY <2>1 DEF NoJob
<1>2. ASSUME NEW r, AdoptControllerRevision(r) PROVE job'.can = job.can
  BY <1>0, <1>2 DEF AdoptControllerRevision, JobType
<1>3. \/ \E key : Reconcile(key)
      \/ \E r : AdoptControllerRevision(r)
      \/ job' = job /\ at \in {"fresh", "adopt", "list"}
  BY DEF Next, Worker, User, Collector, vars, workVars,
     CheckUID, AdoptionRefused, TruncateHistory, ListPods, MayNotAdopt,
     RecheckDeletionTimestamp, AdoptPod, ReleasePod, DeleteStatefulPod,
     UpdateStatefulSet, CreateClaim, CreateStatefulPod, UpdateStatefulPod,
     PodsDone, EndOfSync, CallFails, CreateSet, EditSet, DeleteSet, EditPod,
     Edits, OrphanPod, CollectPod, OrphanRevision, CollectRevision, RemoveSet,
     SyncSets, Goto, Finish, Retry, Scaling, ClaimsExist, NextReplica
<1> QED
  BY <1>1, <1>2, <1>3 DEF AdoptControllerRevision

\* WasInv is kept when sets are read as they are.
LEMMA WasStep ==
  ASSUME ~CacheMayLag, IInv, WasInv, [Next]_vars
  PROVE  WasInv'
<1>0. /\ SetsInv /\ PodsInv /\ Len(names) \in Nat
      /\ pods \in [PodNames -> Optional(PodType)] /\ job \in JobType
  BY DEF IInv, SetsInv, PodsInv, JobInv
<1>1. ASSUME NEW n \in PodNames, NEW q \in pods'[n], q.was # 0,
             NEW s \in SetNames, NEW set \in sets'[s], set.uid = q.was,
             set.deletion = "No"
      PROVE  FALSE
  <2>1. CASE \E p \in pods[n] : q.was = p.was
    <3>1. PICK p \in pods[n] : q.was = p.was
      BY <2>1
    <3>2. set.uid <= Len(names)
      BY <1>0, <1>1, <3>1 DEF PodsInv
    <3>3. PICK old \in sets[s] : old.uid = set.uid /\ old.deletion = "No"
      BY <1>1, <3>2, LiveBefore
    <3> QED
      BY <1>1, <3>1, <3>3 DEF WasInv
  <2>2. CASE q.was \in Leaving
    <3>1. PICK t \in SetNames : \E x \in sets[t] :
            x.uid = q.was /\ x.deletion = "Orphan"
      BY <1>0, <2>2, LeavingUid
    <3>2. PICK x \in sets[t] : x.uid = q.was /\ x.deletion = "Orphan"
      BY <3>1
    <3>3. set.uid <= Len(names)
      BY <1>0, <1>1, <3>2 DEF SetsInv
    <3>4. PICK old \in sets[s] : old.uid = set.uid /\ old.deletion = "No"
      BY <1>1, <3>3, LiveBefore
    <3>5. x = old
      BY <1>0, <1>1, <3>2, <3>4, OneUid
    <3> QED
      BY <3>2, <3>4, <3>5
  <2> QED
    BY <1>1, <2>1, <2>2, WasOf
<1>2. at' \in {"fresh", "adopt", "list"} => job'.can = "unknown"
  BY NotAskedYet DEF WasInv
<1>3. ASSUME at' = "claim", job'.can = "yes",
             NEW n \in job'.todo \cap job'.orphans, NEW q \in pods'[n]
      PROVE  q.was # job'.uid
  <2>1. CASE at # "claim"
    <3>1. ListPods
      BY <1>3, <2>1, IntoClaim
    <3>2. job.can = "unknown" /\ job'.can = job.can
      BY <1>0, <3>1 DEF ListPods, WasInv, JobType
    <3> QED
      BY <1>3, <3>2
  <2>2. CASE at = "claim"
    <3>1. /\ n \in job.todo \cap job.orphans /\ job'.uid = job.uid
          /\ job'.can = job.can \/ RecheckDeletionTimestamp
          /\ q.was = 0 \/ \E p \in pods[n] : q.was = p.was
      BY <1>3, <2>2, StillOrphan
    <3>2. n \in PodNames /\ job.uid # 0
      BY <2>2, <3>1 DEF IInv, ClaimInv, JobInv
    <3>3. CASE job'.can = job.can
      BY <1>3, <2>2, <3>1, <3>2, <3>3 DEF WasInv
    <3>4. CASE RecheckDeletionTimestamp
      <4>1. job' = [job EXCEPT !.can = Recheck] /\ MayRead
        BY <3>4 DEF RecheckDeletionTimestamp
      <4>2. Recheck = "yes" /\ setCache = sets
        BY <1>0, <1>3, <4>1 DEF JobType, MayRead
      <4>3. PICK set \in sets[job.name] : set.uid = job.uid /\ set.deletion = "No"
        BY <4>2 DEF Recheck
      <4>4. job.name \in SetNames
        BY <2>2 DEF IInv, JobInv
      <4>5. \A p \in pods[n] : p.was # job.uid
        BY <3>2, <4>3, <4>4 DEF WasInv
      <4> QED
        BY <3>1, <3>2, <4>5
    <3> QED
      BY <3>1, <3>3, <3>4
  <2> QED
    BY <2>1, <2>2
<1> QED
  BY <1>1, <1>2, <1>3 DEF WasInv

\* canAdoptFunc does its work where it reads the set as it is, as its comment
\* asks for: a set that let a pod go because it is deleted never adopts it
\* again.  (With a cache that lags it does: StaleAdoption.)
THEOREM NeverReadopted ==
  ASSUME ~CacheMayLag
  PROVE  Spec => NotReadopted
<1> DEFINE P == \A n \in PodNames : \A p \in pods[n], q \in pods'[n] :
                  p.owner = 0 /\ q.owner # 0 => q.owner # p.was
<1>1. Init => WasInv
  BY DEF Init, WasInv
<1>2. IInv /\ WasInv /\ [Next]_vars => WasInv'
  BY WasStep
<1>3. IInv /\ WasInv /\ [Next]_vars => P
  <2> SUFFICES ASSUME IInv, WasInv, [Next]_vars,
                      NEW n \in PodNames, NEW p \in pods[n], NEW q \in pods'[n],
                      p.owner = 0, q.owner # 0
               PROVE  q.owner # p.was
    OBVIOUS
  <2>1. AdoptPod(n) /\ q.owner = job.uid
    BY OnlyAdopted
  <2>2. at = "claim" /\ job.can = "yes" /\ n \in job.todo \cap job.orphans
    BY <2>1 DEF AdoptPod
  <2> QED
    BY <2>1, <2>2 DEF WasInv
<1>4. Spec => []IInv
  BY Invariance
<1>5. [][P]_vars => NotReadopted
  BY PTL DEF NotReadopted
<1> HIDE DEF P
<1> QED
  BY <1>1, <1>2, <1>3, <1>4, <1>5, PTL DEF Spec
=============================================================================
