---------------------------- MODULE PodOwnership ----------------------------
(***************************************************************************)
(* Several StatefulSets of one namespace, whose selectors overlap, and who *)
(* owns what: the keys of the work queue (realReconcileName), adoption of  *)
(* revisions and pods and release of pods (statefulset_controller.go,      *)
(* revision_control.go, realpod_control.go), and the identity and the      *)
(* claims of a pod (stateful_pod_control.go, stateful_set_utils.go), with  *)
(* users who delete sets and keep their pods, and the garbage collector.   *)
(*                                                                         *)
(* The sets use the Parallel policy and OnDelete, their templates differ   *)
(* and do not change, pods run as soon as they exist, and the limit of the *)
(* history is 0, as it is when it is left out: StatefulSetControl has      *)
(* order, updates, pods that fail and status.  One action is one call to   *)
(* the API server.  An optional value is a set with at most one element.   *)
(* A name is the sequence of its parts between dashes.                     *)
(***************************************************************************)
EXTENDS Integers, FiniteSets, SequencesExt

CONSTANTS
  SetNames,     \* names of StatefulSets
  Numerals,     \* the numerals of the ordinals 0, 1, ...
  TooLong,      \* numerals that do not fit in 32 bits
  SetSpecs,     \* what the user may ask for, [replicas, claims]
  InitSets,     \* the sets that exist at first, and what they ask for
  Strays,       \* names of pods users create by hand
  CacheMayLag,  \* may a set be read from the cache before it is current?
  MaxEdits,     \* bound on what users do,
  MaxFaults,    \* on failing calls,
  MaxDisturbances  \* and on both together

Ordinals == 0 .. Len(Numerals) - 1
Numeral(o) == Numerals[o + 1]

ASSUME NumeralsAssumption ==
  /\ Numerals \in Seq(STRING)
  /\ ToSet(Numerals) \cap TooLong = {}
  /\ Cardinality(ToSet(Numerals)) = Len(Numerals)
ASSUME SetsAssumption ==
  /\ IsFiniteSet(DOMAIN InitSets) /\ DOMAIN InitSets \subseteq SetNames
  /\ SetNames \subseteq Seq(STRING) \ {<<>>}
  /\ SetSpecs \cup {InitSets[s] : s \in DOMAIN InitSets}
       \subseteq [replicas : 0 .. Len(Numerals), claims : SUBSET STRING]
ASSUME BoundsAssumption ==
  CacheMayLag \in BOOLEAN /\ {MaxEdits, MaxFaults, MaxDisturbances} \subseteq Nat

VARIABLES
  \* --- the API server
  sets,      \* the StatefulSets
  revisions, \* owner of the ControllerRevision of each set, 0 for none
  pods,      \* the pods
  claims,    \* names of the PersistentVolumeClaims
  names,     \* names[u]: the name of the set with uid u
  \* --- the process
  setCache,  \* the sets as its informer delivered them last
  queue,     \* the keys in the work queue: names of sets and of pods
  at, job,   \* where the running reconcile is and what it holds
  \* --- how much of the budget is spent
  edits, faults

storeVars == <<sets, revisions, pods, claims, names>>
workVars == <<queue, at, job>>
vars == <<storeVars, setCache, workVars, edits, faults>>

MayDisturb == edits + faults < MaxDisturbances

-----------------------------------------------------------------------------
(* Names.                                                                   *)

IsNumber(part) == part \in ToSet(Numerals) \cup TooLong

\* A name that ends in a number has a parent; the others have none.
HasParent(name) == Len(name) > 1 /\ IsNumber(Last(name))

\* Mutant: a set claims every pod whose name begins with its own.
MemberByPrefix(set, name) == Len(set) < Len(name) /\ IsPrefix(set, name)

isMemberOf(set, name) == HasParent(name) /\ Front(name) = set

\* -1: there is no number, or it is too long.
getOrdinal(name) ==
  IF HasParent(name) /\ Last(name) \notin TooLong
  THEN (CHOOSE k \in DOMAIN Numerals : Numerals[k] = Last(name)) - 1
  ELSE -1

getPodName(set, o) == Append(set, Numeral(o))

getPersistentVolumeClaimName(set, claim, o) == <<claim>> \o Append(set, Numeral(o))

\* Mutant: the key is taken as it is.
TakesKey(key) == key

\* The set a key stands for: the key of a pod is cut, and so is that of a
\* set whose name ends in a number.
realReconcileName(key) == IF getOrdinal(key) >= 0 THEN Front(key) ELSE key

PodNames == {getPodName(s, o) : s \in SetNames, o \in Ordinals} \cup Strays

-----------------------------------------------------------------------------
(* Objects and the work queue.                                              *)

Optional(S) == {{}} \cup {{x} : x \in S}
The(option) == CHOOSE x \in option : TRUE

Uids == 0 .. Cardinality(DOMAIN InitSets) + MaxEdits

\* deletion: "Orphan" from the user's request until the garbage collector is
\* done; a set deleted in the background is gone at once.
SetType == [uid : Uids, spec : SetSpecs \cup {InitSets[s] : s \in DOMAIN InitSets},
            deletion : {"No", "Orphan"}]

\* made: tells pods of one name apart, 0 for those of the controller; owner:
\* uid of the controller, 0 for none; matches: do its labels match the
\* selector?  label: does it carry its name as a label?  was: the set whose
\* deletion orphaned it last.
PodFields == {"made", "owner", "matches", "label", "volumes", "was"}

\* Every write of a pod is an event for its name.
PutPod(name, pod) ==
  /\ pods' = [pods EXCEPT ![name] = pod]
  /\ queue' = queue \cup {name}

PutSet(name, set) == sets' = [sets EXCEPT ![name] = set]

\* What is read of the sets is current, or what came last to the cache.
MayRead == CacheMayLag \/ setCache = sets

-----------------------------------------------------------------------------
(* A reconcile.                                                             *)

\* key: what the worker took from the queue; name, uid, spec, deleting: the
\* set as read; orphans, listed: revisions and
\* pods as they were listed; todo: what is left to adopt, to release or, in
\* the end, to delete from the history; mine: the pods claimed; can: the
\* answer of canAdoptFunc; failed: did a call fail that does not end the loop
\* it is in?  i: the next ordinal; done: the claims seen to for it.
NoJob == [key |-> <<>>, name |-> <<>>, uid |-> 0, spec |-> [replicas |-> 0, claims |-> {}],
          deleting |-> FALSE, orphans |-> {}, listed |-> {}, todo |-> {},
          mine |-> {}, can |-> "unknown", failed |-> FALSE, i |-> 0,
          done |-> {}]

Goto(stage) == at' = stage
Finish == at' = "idle" /\ job' = NoJob

\* An error of adoptOrphanRevisions, unlike those of the rest, is returned
\* and the key is tried again, as it came.
Retry == Finish /\ queue' = queue \cup {job.key}

\* Revisions without owner, and those the set owns.
ListControllerRevisions(uid) ==
  {s \in SetNames : revisions[s] \in {{0}, {uid}}}

Orphans(listed) == {s \in listed : revisions[s] = {0}}

Reconcile(key) ==
  LET name == realReconcileName(key)
  IN /\ at = "idle"
     /\ key \in queue /\ MayRead
     /\ queue' = queue \ {key}
     /\ IF name \notin SetNames \/ setCache[name] = {} THEN UNCHANGED <<at, job>>
        ELSE LET set == The(setCache[name])
                 listed == ListControllerRevisions(set.uid)
             IN /\ job' = [NoJob EXCEPT !.key = key, !.name = name,
                             !.uid = set.uid, !.spec = set.spec,
                             !.deleting = set.deletion # "No",
                             !.todo = listed, !.orphans = Orphans(listed)]
                /\ Goto(IF Orphans(listed) = {} THEN "list" ELSE "fresh")
     /\ UNCHANGED <<storeVars, setCache, edits, faults>>

\* adoptOrphanRevisions: is it still the same set?
CheckUID ==
  /\ at = "fresh" /\ MayRead
  /\ IF \E s \in setCache[job.name] : s.uid = job.uid
     THEN Goto("adopt") /\ UNCHANGED <<job, queue>>
     ELSE Retry
  /\ UNCHANGED <<storeVars, setCache, edits, faults>>

\* AdoptControllerRevision of an orphan; the loop ends with the last one.
AdoptControllerRevision(r) ==
  /\ at = "adopt"
  /\ r \in job.todo \cap job.orphans
  /\ revisions[r] = {0}
  /\ revisions' = [revisions EXCEPT ![r] = {job.uid}]
  /\ job' = [job EXCEPT !.todo = @ \ {r}]
  /\ Goto(IF job.todo = {r} THEN "list" ELSE "adopt")
  /\ UNCHANGED <<sets, pods, claims, names, setCache, queue, edits, faults>>

\* The loop comes to a revision the set owns already, or one that was
\* adopted or deleted by others since.
AdoptionRefused ==
  /\ at = "adopt"
  /\ \E r \in job.todo : r \notin job.orphans \/ revisions[r] # {0}
  /\ Retry
  /\ UNCHANGED <<storeVars, setCache, edits, faults>>

Claimable(name, pod) == pod.matches /\ isMemberOf(job.name, name)

Owned(pod) == pod.owner = job.uid

ToRelease(ps) == {n \in PodNames : /\ ps[n] # {} /\ Owned(The(ps[n]))
                                   /\ ~Claimable(n, The(ps[n]))}
ToAdopt(ps) == {n \in PodNames : /\ ps[n] # {} /\ The(ps[n]).owner = 0
                                 /\ Claimable(n, The(ps[n]))}

\* getPodsForStatefulSet lists the pods and goes through them.  A set that is
\* being deleted adopts and releases nothing.
ListPods ==
  /\ at = "list"
  /\ job' = [job EXCEPT
       !.listed = {[name |-> n, pod |-> The(pods[n])] :
                     n \in {n \in PodNames : pods[n] # {}}},
       !.mine = {n \in PodNames : /\ pods[n] # {} /\ Owned(The(pods[n]))
                                  /\ Claimable(n, The(pods[n]))},
       !.orphans = IF job.deleting THEN {} ELSE ToAdopt(pods),
       !.todo = IF job.deleting THEN {} ELSE ToAdopt(pods) \cup ToRelease(pods)]
  /\ Goto("claim")
  /\ UNCHANGED <<storeVars, setCache, queue, edits, faults>>

\* Mutant: the set that was read first is trusted.
TrustsFirstRead == "yes"

\* canAdoptFunc reads the set again: it must be the same one, not deleted.
Recheck ==
  IF \E s \in setCache[job.name] : s.uid = job.uid /\ s.deletion = "No"
  THEN "yes" ELSE "no"

RecheckDeletionTimestamp ==
  /\ at = "claim"
  /\ job.can = "unknown" /\ MayRead
  /\ job.todo \cap job.orphans # {}
  /\ job' = [job EXCEPT !.can = Recheck]
  /\ UNCHANGED <<storeVars, setCache, queue, at, edits, faults>>

\* Is the pod the one that was listed under its name?
Listed(n) == (CHOOSE l \in job.listed : l.name = n).pod
SameUID(n) == \E p \in pods[n] : p.made = Listed(n).made

\* PatchPod for an orphan.  A pod that is gone counts as adopted; one that
\* was replaced cannot be.
AdoptPod(n) ==
  /\ at = "claim"
  /\ n \in job.todo \cap job.orphans
  /\ job.can = "yes"
  /\ IF SameUID(n) THEN PutPod(n, {[The(pods[n]) EXCEPT !.owner = job.uid]})
     ELSE UNCHANGED <<pods, queue>>
  /\ job' = IF SameUID(n) \/ pods[n] = {}
            THEN [job EXCEPT !.todo = @ \ {n}, !.mine = @ \cup {n}]
            ELSE [job EXCEPT !.todo = @ \ {n}, !.failed = TRUE]
  /\ UNCHANGED <<sets, revisions, claims, names, setCache, at, edits, faults>>

MayNotAdopt ==
  /\ at = "claim"
  /\ job.can = "no"
  /\ job.todo \cap job.orphans # {}
  /\ job' = [job EXCEPT !.todo = @ \ job.orphans, !.failed = TRUE]
  /\ UNCHANGED <<storeVars, setCache, queue, at, edits, faults>>

\* PatchPod for a pod that does not belong to the set any more.
ReleasePod(n) ==
  /\ at = "claim"
  /\ n \in job.todo \ job.orphans
  /\ IF SameUID(n) THEN PutPod(n, {[The(pods[n]) EXCEPT !.owner = 0]})
     ELSE UNCHANGED <<pods, queue>>
  /\ job' = [job EXCEPT !.todo = @ \ {n},
                        !.failed = @ \/ (pods[n] # {} /\ ~SameUID(n))]
  /\ UNCHANGED <<sets, revisions, claims, names, setCache, at, edits, faults>>

\* ClaimPods is through: after an error Reconcile answers nil.  Otherwise the
\* sync lists the revisions again and stores that of the set, unless one of
\* its name exists.  The others are history; a set that is being deleted
\* goes straight to it.
UpdateStatefulSet ==
  /\ at = "claim"
  /\ job.todo = {}
  /\ IF job.failed THEN Finish /\ UNCHANGED revisions
     ELSE /\ revisions' = [revisions EXCEPT ![job.name] =
                             IF @ = {} THEN {job.uid} ELSE @]
          /\ job' = [job EXCEPT
                       !.todo = ListControllerRevisions(job.uid) \ {job.name}]
          /\ Goto(IF job.deleting THEN "history" ELSE "replicas")
  /\ UNCHANGED <<sets, pods, claims, names, setCache, queue, edits, faults>>

-----------------------------------------------------------------------------
(* The replica loop.                                                        *)

Pod(o) == getPodName(job.name, o)
Replica(o) == Pod(o) \in job.mine
Copy(o) == Listed(Pod(o))

getPersistentVolumeClaims(o) ==
  {getPersistentVolumeClaimName(job.name, c, o) : c \in job.spec.claims}

identityMatches(o) == Copy(o).label
storageMatches(o) == getPersistentVolumeClaims(o) \subseteq Copy(o).volumes

NeedsWork(o) == Replica(o) => ~identityMatches(o) \/ ~storageMatches(o)

NextReplica(o) ==
  /\ at = "replicas"
  /\ o >= job.i /\ o < job.spec.replicas
  /\ NeedsWork(o)
  /\ \A q \in job.i .. o - 1 : ~NeedsWork(q)

\* createPersistentVolumeClaims: the claims of ordinal o it has not come to.
ClaimsToSee(o) ==
  IF Replica(o) => ~storageMatches(o)
  THEN getPersistentVolumeClaims(o) \ job.done
  ELSE {}

\* A claim that is not found is created, one that is found is left alone.
CreateClaim(o, c) ==
  /\ NextReplica(o)
  /\ c \in ClaimsToSee(o)
  /\ claims' = claims \cup {c}
  /\ job' = [job EXCEPT !.done = @ \cup {c}]
  /\ UNCHANGED <<sets, revisions, pods, names, setCache, queue, at, edits,
                 faults>>

\* Mutant: the pod is created although a claim could not be.
ClaimsTried(o) == NextReplica(o) /\ ClaimsToSee(o) = {}

ClaimsExist(o) == NextReplica(o) /\ ClaimsToSee(o) = {} /\ ~job.failed

\* Mutant: the loop passes over one replica.
SkipsOne(o) == job' = [job EXCEPT !.i = o + 2, !.done = {}]

Passed(o) == job' = [job EXCEPT !.i = o + 1, !.done = {}]

\* initIdentity writes the label, updateStorage the volumes.
newStatefulSetPod(o) ==
  [made |-> 0, owner |-> job.uid, matches |-> TRUE, label |-> TRUE,
   volumes |-> getPersistentVolumeClaims(o), was |-> 0]

CreateStatefulPod(o) ==
  /\ ClaimsExist(o)
  /\ ~Replica(o)
  /\ pods[Pod(o)] = {}
  /\ PutPod(Pod(o), {newStatefulSetPod(o)})
  /\ Passed(o)
  /\ UNCHANGED <<sets, revisions, claims, names, setCache, at, edits, faults>>

\* UpdateStatefulPod writes the label; the API server takes no other volumes.
UpdateStatefulPod(o) ==
  /\ ClaimsExist(o)
  /\ Replica(o)
  /\ storageMatches(o)
  /\ pods[Pod(o)] # {}
  /\ PutPod(Pod(o), {[The(pods[Pod(o)]) EXCEPT !.label = TRUE]})
  /\ Passed(o)
  /\ UNCHANGED <<sets, revisions, claims, names, setCache, at, edits, faults>>

\* Ordinals at or above the replicas go, the highest first; names whose
\* number is too long are left alone.
Condemned == {n \in job.mine : getOrdinal(n) >= job.spec.replicas}

Scaling == at = "replicas" /\ \A o \in Ordinals : ~NextReplica(o)

Highest(n) == \A m \in Condemned : getOrdinal(m) <= getOrdinal(n)

DeleteStatefulPod(n) ==
  /\ Scaling
  /\ n \in Condemned /\ Highest(n)
  /\ pods[n] # {}
  /\ PutPod(n, {})
  /\ job' = [job EXCEPT !.mine = @ \ {n}]
  /\ UNCHANGED <<sets, revisions, claims, names, setCache, at, edits, faults>>

\* A claim failed, the pod to create exists or has other volumes, or the pod
\* to write is gone: the sync ends and Reconcile answers nil.
SyncFails ==
  \/ \E o \in Ordinals :
       /\ NextReplica(o) /\ ClaimsToSee(o) = {}
       /\ \/ job.failed
          \/ Replica(o) /\ (~storageMatches(o) \/ pods[Pod(o)] = {})
          \/ ~Replica(o) /\ pods[Pod(o)] # {}
  \/ \E n \in Condemned : Scaling /\ Highest(n) /\ pods[n] = {}

PodsDone ==
  /\ Scaling
  /\ Condemned = {}
  /\ job.todo # {}
  /\ Goto("history")
  /\ UNCHANGED <<storeVars, setCache, queue, job, edits, faults>>

\* truncateHistory deletes what was listed, an orphan too.
TruncateHistory(r) ==
  /\ at = "history"
  /\ r \in job.todo
  /\ revisions[r] # {}
  /\ revisions' = [revisions EXCEPT ![r] = {}]
  /\ job' = [job EXCEPT !.todo = @ \ {r}]
  /\ UNCHANGED <<sets, pods, claims, names, setCache, queue, at, edits, faults>>

EndOfSync ==
  /\ \/ SyncFails
     \/ Scaling /\ Condemned = {} /\ job.todo = {}
     \/ at = "history" /\ (job.todo = {} \/ \E r \in job.todo : revisions[r] = {})
  /\ Finish
  /\ UNCHANGED <<storeVars, setCache, queue, edits, faults>>

\* A failing call.  For a claim: it exists and is not in the cache yet, or
\* any other error; the other claims are tried, the pod is not.
CallFails ==
  /\ faults < MaxFaults /\ MayDisturb
  /\ faults' = faults + 1
  /\ \/ at \in {"fresh", "adopt"} /\ Retry
     \/ at \in {"list", "history"} /\ Finish /\ UNCHANGED queue
     \/ /\ at = "claim"
        /\ \E n \in job.todo : job' = [job EXCEPT !.todo = @ \ {n}, !.failed = TRUE]
        /\ UNCHANGED <<queue, at>>
     \/ /\ at = "replicas"
        /\ \/ \E o \in Ordinals : \E c \in ClaimsToSee(o) :
                /\ NextReplica(o)
                /\ job' = [job EXCEPT !.done = @ \cup {c}, !.failed = TRUE]
                /\ UNCHANGED at
           \/ (\A o \in Ordinals : NextReplica(o) => ClaimsToSee(o) = {}) /\ Finish
        /\ UNCHANGED queue
  /\ UNCHANGED <<storeVars, setCache, edits>>

-----------------------------------------------------------------------------
(* The users.                                                               *)

Edits ==
  /\ edits < MaxEdits /\ MayDisturb
  /\ edits' = edits + 1
  /\ UNCHANGED <<faults, at, job, setCache>>

CreateSet(s) ==
  /\ Edits
  /\ sets[s] = {}
  /\ names' = Append(names, s)
  /\ \E spec \in SetSpecs :
       PutSet(s, {[uid |-> Len(names'), spec |-> spec, deletion |-> "No"]})
  /\ UNCHANGED <<revisions, pods, claims, queue>>

EditSet(s) ==
  /\ Edits
  /\ \E set \in sets[s], spec \in SetSpecs :
       set.spec # spec /\ PutSet(s, {[set EXCEPT !.spec = spec]})
  /\ UNCHANGED <<revisions, pods, claims, names, queue>>

\* The set is deleted with everything it owns, or without.
DeleteSet(s) ==
  /\ Edits
  /\ \E set \in sets[s] :
       /\ set.deletion = "No"
       /\ PutSet(s, {}) \/ PutSet(s, {[set EXCEPT !.deletion = "Orphan"]})
  /\ UNCHANGED <<revisions, pods, claims, names, queue>>

\* A pod is deleted, loses the label the selector asks for, or is created by
\* hand.
EditPod(n) ==
  /\ Edits
  /\ \/ pods[n] # {} /\ PutPod(n, {})
     \/ \E p \in pods[n] : p.matches /\ PutPod(n, {[p EXCEPT !.matches = FALSE]})
     \/ /\ pods[n] = {} /\ n \in Strays
        /\ PutPod(n, {[made |-> edits', owner |-> 0, matches |-> TRUE,
                       label |-> FALSE, volumes |-> {}, was |-> 0]})
  /\ UNCHANGED <<sets, revisions, claims, names>>

-----------------------------------------------------------------------------
(* The garbage collector and the informers.                                 *)

Alive == {The(sets[s]).uid : s \in {s \in SetNames : sets[s] # {}}}
Leaving == {The(sets[s]).uid : s \in {s \in SetNames :
              \E set \in sets[s] : set.deletion = "Orphan"}}

\* Of a set deleted without its pods, the owner references are removed.
OrphanPod(n) ==
  /\ \E p \in pods[n] : p.owner \in Leaving
       /\ PutPod(n, {[p EXCEPT !.owner = 0, !.was = p.owner]})
  /\ UNCHANGED <<sets, revisions, claims, names, setCache, at, job, edits,
                 faults>>

OrphanRevision(r) ==
  /\ \E u \in revisions[r] : u \in Leaving
  /\ revisions' = [revisions EXCEPT ![r] = {0}]
  /\ UNCHANGED <<sets, pods, claims, names, setCache, workVars, edits, faults>>

\* Then the set goes.
RemoveSet(s) ==
  /\ \E set \in sets[s] :
       /\ set.deletion = "Orphan"
       /\ \A n \in PodNames : \A p \in pods[n] : p.owner # set.uid
       /\ \A r \in SetNames : revisions[r] # {set.uid}
  /\ PutSet(s, {})
  /\ UNCHANGED <<revisions, pods, claims, names, setCache, workVars, edits,
                 faults>>

\* What has an owner that is gone is deleted.
CollectPod(n) ==
  /\ \E p \in pods[n] : p.owner \notin Alive \cup {0}
  /\ PutPod(n, {})
  /\ UNCHANGED <<sets, revisions, claims, names, setCache, at, job, edits,
                 faults>>

CollectRevision(r) ==
  /\ \E u \in revisions[r] : u \notin Alive \cup {0}
  /\ revisions' = [revisions EXCEPT ![r] = {}]
  /\ UNCHANGED <<sets, pods, claims, names, setCache, workVars, edits, faults>>

SyncSets ==
  /\ setCache # sets
  /\ setCache' = sets
  /\ queue' = queue \cup {s \in SetNames : setCache[s] # sets[s]}
  /\ UNCHANGED <<storeVars, at, job, edits, faults>>

-----------------------------------------------------------------------------
Init ==
  /\ names = SetToSeq(DOMAIN InitSets)
  /\ sets = [s \in SetNames |->
       IF s \in DOMAIN InitSets
       THEN {[uid |-> CHOOSE u \in DOMAIN names : names[u] = s,
              spec |-> InitSets[s], deletion |-> "No"]}
       ELSE {}]
  /\ revisions = [s \in SetNames |-> {}]
  /\ pods = [n \in PodNames |-> {}]
  /\ claims = {}
  /\ setCache = sets
  /\ queue = DOMAIN InitSets
  /\ at = "idle" /\ job = NoJob
  /\ edits = 0 /\ faults = 0

Worker ==
  \/ \E key \in SetNames \cup PodNames : Reconcile(key)
  \/ CheckUID \/ AdoptionRefused
  \/ \E r \in SetNames : AdoptControllerRevision(r) \/ TruncateHistory(r)
  \/ ListPods \/ RecheckDeletionTimestamp \/ MayNotAdopt
  \/ \E n \in PodNames : AdoptPod(n) \/ ReleasePod(n) \/ DeleteStatefulPod(n)
  \/ UpdateStatefulSet
  \/ \E o \in Ordinals :
       \/ \E c \in ClaimsToSee(o) : CreateClaim(o, c)
       \/ CreateStatefulPod(o) \/ UpdateStatefulPod(o)
  \/ PodsDone \/ EndOfSync

User ==
  \/ \E s \in SetNames : CreateSet(s) \/ EditSet(s) \/ DeleteSet(s)
  \/ \E n \in PodNames : EditPod(n)

Collector ==
  \/ \E n \in PodNames : OrphanPod(n) \/ CollectPod(n)
  \/ \E r \in SetNames : OrphanRevision(r) \/ CollectRevision(r) \/ RemoveSet(r)

Next == Worker \/ CallFails \/ User \/ Collector \/ SyncSets

\* The worker, the informers and the garbage collector keep running.  A list
\* of revisions comes from a cache in random order, so an orphan is not for
\* ever behind a revision that is owned.
Fairness ==
  /\ WF_vars(Worker) /\ WF_vars(Collector)
  /\ WF_vars(SyncSets)
  /\ \A r \in SetNames : SF_vars(AdoptControllerRevision(r))

Spec == Init /\ [][Next]_vars
FairSpec == Spec /\ Fairness

-----------------------------------------------------------------------------
(* Properties.                                                              *)

\* Every variable keeps its type: an owner is the uid of a set there was,
\* what a reconcile has claimed are pods, and its loop stays within the
\* replicas.
TypeOK ==
  /\ sets \in [SetNames -> Optional(SetType)]
  /\ setCache \in [SetNames -> Optional(SetType)]
  /\ ToSet(names) \subseteq SetNames
  /\ \A n \in PodNames : \A p \in pods[n] :
       /\ pods[n] = {p} /\ DOMAIN p = PodFields
       /\ p.made \in 0 .. MaxEdits /\ {p.owner, p.was} \subseteq 0 .. Len(names)
  /\ revisions \in [SetNames -> Optional(0 .. Len(names))]
  /\ queue \subseteq SetNames \cup PodNames
  /\ job.mine \cup job.todo \subseteq SetNames \cup PodNames
  /\ job.i \in 0 .. job.spec.replicas
  /\ edits \in 0 .. MaxEdits /\ faults \in 0 .. MaxFaults

\* A pod is owned by the set of which its name says so, even when the name of
\* one set begins with that of another and their selectors match the same
\* pods.
OwnerIsParent ==
  \A n \in PodNames : \A p \in pods[n] :
    p.owner # 0 => HasParent(n) /\ names[p.owner] = Front(n)

\* A stored pod mounts only claims that exist: they are created before it,
\* whichever call fails.
ClaimsBeforePods ==
  \A n \in PodNames : \A p \in pods[n] : p.volumes \subseteq claims

\* "If any adoptions are attempted, we should first recheck for deletion with
\* an uncached quorum read" (getPodsForStatefulSet): a pod that was orphaned
\* because its set is deleted without its pods is never adopted by that set
\* again.  It would be collected with it.
NotReadopted ==
  [][\A n \in PodNames : \A p \in pods[n], q \in pods'[n] :
       p.owner = 0 /\ q.owner # 0 => q.owner # p.was]_vars

\* Pod n of set s cannot be made by the controller: its name is taken by a
\* pod with other labels or with other volumes.
Obstructed(s, n) ==
  \E p \in pods[n] :
    \/ ~p.matches
    \/ ~({getPersistentVolumeClaimName(s, c, getOrdinal(n)) :
            c \in The(sets[s]).spec.claims} \subseteq p.volumes)

HasItsPods(s) ==
  LET set == The(sets[s])
  IN \A o \in Ordinals :
       LET n == getPodName(s, o)
       IN IF o < set.spec.replicas
          THEN \E p \in pods[n] : p.owner = set.uid /\ p.label
          ELSE \A p \in pods[n] : p.owner # set.uid

\* Every set whose name does not end in a number comes to own the pods it
\* asks for, and no others: whatever was deleted with or without its pods,
\* released or created by hand before.  A failing call, which is not retried,
\* and a pod in the way are the exceptions.
PodsOwned ==
  <>[](\A s \in SetNames :
         \/ faults > 0
         \/ sets[s] = {} \/ s[Len(s)] \in ToSet(Numerals)
         \/ \E set \in sets[s] : set.deletion # "No"
         \/ \E o \in Ordinals : Obstructed(s, getPodName(s, o))
         \/ HasItsPods(s))
=============================================================================
