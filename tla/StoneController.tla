--------------------------- MODULE StoneController ---------------------------
(***************************************************************************)
(* The reconciler of one Stone (stone_controller.go): a StatefulSet and a  *)
(* service for each group the strategy selects, an annotation with the     *)
(* spec, and the status.  The StatefulSet controller appears as what a     *)
(* Stone sees of it: a set's status that follows its spec.                 *)
(*                                                                         *)
(* One action is one write to the API server together with the Gets before *)
(* it.  Comparing a set with the copy read earlier stands for comparing    *)
(* resource versions.  A set keeps its size and its containers; the parts  *)
(* of its spec that are the same for every Stone are left out.             *)
(***************************************************************************)
EXTENDS Integers, Sequences, FiniteSets, Functions

CONSTANTS
  Groups,      \* group names
  MaxGroups,   \* the longest list of groups
  Templates,   \* containers of a pod template
  Specs,       \* the specifications the user may write
  InitSpec,    \* the one the Stone is created with
  NoSpec,      \* no annotation
  MaxEdits, MaxFaults, MaxFailures   \* bounds on the environment

\* "Other": a strategy the code does not know.
Strategies == {"Alpha", "Beta", "Omega", "Release", "Other"}

\* machines: the length of the group's zoneset.
CoordinatesGroup == [group : Groups, machines : Nat, replicas : Nat]

SpecType == [strategy : Strategies, template : Templates,
             coordinates : Seq(CoordinatesGroup), ports : BOOLEAN]

\* "stone-index-group", without the Stone's own name.
Names == (1 .. MaxGroups) \X Groups
statefulSetName(s, i) == <<i, s.coordinates[i].group>>

\* status: status.replicas, which the StatefulSet controller writes.
NoSet == [size |-> -1]
StatefulSet == [size : Nat, template : Templates, status : Nat]
Exists(set) == set # NoSet

ASSUME StoneAssumption ==
  /\ MaxGroups \in Nat
  /\ Specs \subseteq SpecType
  /\ InitSpec \in SpecType
  /\ NoSpec \notin SpecType
  /\ \A s \in Specs \cup {InitSpec} : Len(s.coordinates) <= MaxGroups
  /\ MaxEdits \in Nat /\ MaxFaults \in Nat /\ MaxFailures \in Nat

VARIABLES
  \* --- the API server
  spec,        \* the Stone's spec
  generation,  \* how often the user wrote it
  annotation,  \* the annotation "spec"
  status,      \* the Stone's status
  sets,        \* the StatefulSet of each name
  services,    \* the names that have a service
  \* --- the controller
  queued,      \* is the Stone's key in the work queue?
  pos,         \* where the running reconcile is, [at, i]
  job,         \* the Stone it read and the sets as last read
  \* --- history and budget
  asked,       \* <<name, size>> of everything the user has asked for
  faults, failures

stoneVars == <<spec, generation, annotation, status>>
ownedVars == <<sets, services>>
procVars == <<queued, pos, job>>
ghostVars == <<asked, faults, failures>>
vars == <<stoneVars, ownedVars, procVars, ghostVars>>

Stages == {"idle", "get", "sets", "services", "status"}
At(stage) == pos.at = stage
Goto(stage, i) == pos' = [at |-> stage, i |-> i]

NoJob == [spec |-> InitSpec, gen |-> 0, read |-> [n \in Names |-> NoSet]]

\* An error is returned and requeues the key.
Retry == Goto("idle", 0) /\ job' = NoJob /\ queued' = TRUE

-----------------------------------------------------------------------------
(* The strategy.                                                            *)

\* Mutant: an unknown strategy is left as it is, and treated like Beta.
KeepsOther(s) == s

\* getStatefulSet changes an unknown strategy to Alpha when it comes to the
\* first group.
Normalised(s) ==
  IF s.strategy = "Other" /\ s.coordinates # <<>>
  THEN [s EXCEPT !.strategy = "Alpha"] ELSE s

\* The groups that get a set: Alpha takes the first only.
Selected(s) ==
  {i \in DOMAIN s.coordinates : s.strategy = "Alpha" => i = 1}

\* Mutant: off by one at the number of machines.
OneMachineLess(s, i) ==
  CASE s.strategy = "Omega"   -> s.coordinates[i].machines - 1
    [] s.strategy = "Release" -> s.coordinates[i].replicas
    [] OTHER                  -> 1

\* The size of the set of group i.
Size(s, i) ==
  CASE s.strategy = "Omega"   -> s.coordinates[i].machines
    [] s.strategy = "Release" -> s.coordinates[i].replicas
    [] OTHER                  -> 1

SelectedNames(s) == {statefulSetName(s, i) : i \in Selected(s)}

\* What a spec asks for, as the samples' stone.md has it: Alpha, also for want
\* of another strategy, one pod of the first group; Beta one of each group;
\* Omega one for each machine; Release what the group says.
AskedBy(s) ==
  LET OfEach(size(_)) ==
        {<<statefulSetName(s, i), size(s.coordinates[i])>> :
           i \in DOMAIN s.coordinates}
  IN CASE s.strategy = "Release" -> OfEach(LAMBDA g : g.replicas)
       [] s.strategy = "Omega"   -> OfEach(LAMBDA g : g.machines)
       [] s.strategy = "Beta"    -> OfEach(LAMBDA g : 1)
       [] OTHER -> {p \in OfEach(LAMBDA g : 1) : p[1][1] = 1}

-----------------------------------------------------------------------------
(* The reconcile.                                                           *)

Reconcile ==
  /\ At("idle")
  /\ queued
  /\ queued' = FALSE
  /\ job' = [NoJob EXCEPT !.spec = spec, !.gen = generation]
  /\ Goto("get", 0)
  /\ UNCHANGED <<stoneVars, ownedVars, ghostVars>>

\* getStatefulSet: the selected sets are read, a missing one is made up.
getStatefulSet ==
  LET ste == Normalised(job.spec)
      read(n) == IF n \in SelectedNames(ste) THEN sets[n] ELSE NoSet
  IN /\ At("get")
     /\ job' = [job EXCEPT !.spec = ste, !.read = [n \in Names |-> read(n)]]
     /\ Goto("sets", 1)
     /\ UNCHANGED <<stoneVars, ownedVars, queued, ghostVars>>

\* The group the loop over the selected sets is at.
AtGroup(stage) == At(stage) /\ pos.i \in Selected(job.spec)
Through(stage) == At(stage) /\ pos.i \notin Selected(job.spec)

HereName == statefulSetName(job.spec, pos.i)

\* Mutant: the size is compared, the containers are not.
OutdatedSize == sets[HereName].size # Size(job.spec, pos.i)

\* Does updateStatefulSet have something to write?
Outdated ==
  \/ sets[HereName].size # Size(job.spec, pos.i)
  \/ sets[HereName].template # job.spec.template

\* updateStatefulSet: the set is missing.  It can be created only from an
\* object that was made up, not from one that was read.
CreateStatefulSet ==
  /\ AtGroup("sets")
  /\ ~Exists(sets[HereName])
  /\ IF Exists(job.read[HereName])
     THEN Retry /\ UNCHANGED sets
     ELSE /\ sets' = [sets EXCEPT ![HereName] =
                        [size |-> Size(job.spec, pos.i),
                         template |-> job.spec.template, status |-> 0]]
          /\ queued' = TRUE
          /\ Goto("sets", pos.i + 1)
          /\ UNCHANGED job
  /\ UNCHANGED <<stoneVars, services, ghostVars>>

\* updateStatefulSet: the set is as wanted, or is written.  A write of an
\* object that was made up is an error; after a conflict syncStatefulSet reads
\* all sets again.
updateStatefulSet ==
  /\ AtGroup("sets")
  /\ Exists(sets[HereName])
  /\ IF Outdated /\ ~Exists(job.read[HereName])
     THEN Retry /\ UNCHANGED sets
     ELSE /\ IF ~Outdated
             THEN Goto("sets", pos.i + 1) /\ UNCHANGED <<sets, queued>>
             ELSE IF sets[HereName] # job.read[HereName]
                  THEN Goto("get", 0) /\ UNCHANGED <<sets, queued>>
                  ELSE /\ sets' = [sets EXCEPT
                             ![HereName].size = Size(job.spec, pos.i),
                             ![HereName].template = job.spec.template]
                       /\ queued' = TRUE
                       /\ Goto("sets", pos.i + 1)
          /\ UNCHANGED job
  /\ UNCHANGED <<stoneVars, services, ghostVars>>

SetsDone ==
  /\ Through("sets")
  /\ Goto("services", 1)
  /\ UNCHANGED <<stoneVars, ownedVars, queued, job, ghostVars>>

\* updateService: only a service with a port is made.
updateService ==
  /\ AtGroup("services")
  /\ services' = IF job.spec.ports THEN services \cup {HereName} ELSE services
  /\ Goto("services", pos.i + 1)
  /\ UNCHANGED <<stoneVars, sets, queued, job, ghostVars>>

\* Mutant: the write does not depend on what was read.
Overwrites == TRUE

\* Is the Stone as the round has read it?  A retry within updateStone sends
\* the same object, so after a conflict all of them fail.
Unedited == generation = job.gen

\* updateStone, first write: the annotation, and with it the spec as the
\* round holds it.
UpdateSpec ==
  /\ Through("services")
  /\ IF Unedited
     THEN /\ annotation' = job.spec
          /\ spec' = job.spec
          /\ queued' = (queued \/ <<spec, annotation>> # <<job.spec, job.spec>>)
          /\ Goto("status", 0)
          /\ UNCHANGED job
     ELSE Retry /\ UNCHANGED <<spec, annotation>>
  /\ UNCHANGED <<generation, status, ownedVars, ghostVars>>

\* A set that is made up has no replicas yet.
StatusReplicas(n) == IF Exists(sets[n]) THEN sets[n].status ELSE 0

ExpectStatus(s) ==
  [replicas    |-> SumFunction([n \in SelectedNames(s) |-> StatusReplicas(n)]),
   statefulSet |-> Cardinality(SelectedNames(s))]

\* updateStone, second write: the status.
UpdateStatus ==
  /\ At("status")
  /\ IF Unedited
     THEN /\ status' = ExpectStatus(job.spec)
          /\ queued' = (queued \/ status # ExpectStatus(job.spec))
          /\ Goto("idle", 0)
          /\ job' = NoJob
     ELSE Retry /\ UNCHANGED status
  /\ UNCHANGED <<spec, generation, annotation, ownedVars, ghostVars>>

\* A call fails and its error is returned, or the process restarts.
Fails ==
  /\ failures < MaxFailures
  /\ failures' = failures + 1
  /\ ~At("idle")
  /\ Retry
  /\ UNCHANGED <<stoneVars, ownedVars, asked, faults>>

-----------------------------------------------------------------------------
(* The environment.                                                         *)

\* The user writes another spec.
Edit ==
  /\ generation <= MaxEdits
  /\ \E s \in Specs \ {spec} :
       /\ spec' = s
       /\ asked' = asked \cup AskedBy(s)
  /\ generation' = generation + 1
  /\ queued' = TRUE
  /\ UNCHANGED <<annotation, status, ownedVars, pos, job, faults, failures>>

\* The StatefulSet controller has made, or removed, the pods of a set.
SetSync(n) ==
  /\ Exists(sets[n])
  /\ sets[n].status # sets[n].size
  /\ sets' = [sets EXCEPT ![n].status = sets[n].size]
  /\ queued' = TRUE
  /\ UNCHANGED <<stoneVars, services, pos, job, ghostVars>>

\* Someone else deletes a set.
Fault ==
  /\ faults < MaxFaults
  /\ faults' = faults + 1
  /\ \E n \in Names : /\ Exists(sets[n])
                      /\ sets' = [sets EXCEPT ![n] = NoSet]
  /\ queued' = TRUE
  /\ UNCHANGED <<stoneVars, services, pos, job, asked, failures>>

-----------------------------------------------------------------------------
Init ==
  /\ spec = InitSpec
  /\ generation = 1
  /\ annotation = NoSpec
  /\ status = [replicas |-> 0, statefulSet |-> 0]
  /\ sets = [n \in Names |-> NoSet]
  /\ services = {}
  /\ queued = TRUE
  /\ pos = [at |-> "idle", i |-> 0]
  /\ job = NoJob
  /\ asked = AskedBy(InitSpec)
  /\ faults = 0 /\ failures = 0

Worker ==
  \/ Reconcile \/ getStatefulSet
  \/ CreateStatefulSet \/ updateStatefulSet \/ SetsDone
  \/ updateService \/ UpdateSpec \/ UpdateStatus

Next ==
  \/ Worker
  \/ Fails
  \/ Edit
  \/ Fault
  \/ \E n \in Names : SetSync(n)

\* The worker and the StatefulSet controller keep running; nothing else has
\* to happen.
Spec == Init /\ [][Next]_vars
FairSpec ==
  Spec /\ WF_vars(Worker) /\ \A n \in Names : WF_vars(SetSync(n))

-----------------------------------------------------------------------------
(* Properties.                                                              *)

\* Every variable keeps its type: in particular the loops over the groups
\* stay within the list, whose strategy changes under them.
TypeOK ==
  /\ spec \in SpecType
  /\ generation \in Nat
  /\ annotation \in SpecType \cup {NoSpec}
  /\ status \in [replicas : Nat, statefulSet : Nat]
  /\ sets \in [Names -> StatefulSet \cup {NoSet}]
  /\ services \subseteq Names
  /\ queued \in BOOLEAN
  /\ pos \in [at : Stages, i : 0 .. MaxGroups + 1]
  /\ job \in [spec : SpecType, gen : Nat,
              read : [Names -> StatefulSet \cup {NoSet}]]
  /\ asked \subseteq Names \X Nat
  /\ faults \in Nat /\ failures \in Nat

\* No set ever has a size nobody asked for: whatever round is stale, fails or
\* reads its sets again, group and size are those of one spec of the user,
\* and Alpha, which an unknown strategy becomes, publishes one pod of the
\* first group and nothing else.
OnlyAsked ==
  \A n \in Names : Exists(sets[n]) => <<n, sets[n].size>> \in asked

\* updateStone writes the whole Stone back.  It never undoes an edit: all it
\* may change of a spec is an unknown strategy, into Alpha.
EditsSurvive == [][pos' # pos => spec' \in {spec, Normalised(spec)}]_vars

\* The selected groups have a set of the right size and containers and, if
\* the spec has a port, a service; the spec is remembered and the status adds
\* up the sets.
RolledOut ==
  /\ annotation = spec
  /\ \A i \in Selected(spec) :
       LET n == statefulSetName(spec, i)
       IN /\ Exists(sets[n])
          /\ sets[n].size = Size(spec, i)
          /\ sets[n].template = spec.template
          /\ spec.ports => n \in services
  /\ status = ExpectStatus(spec)

\* Once edits and faults stop, the Stone is rolled out and stays so, whatever
\* call failed and however often the StatefulSet controller's writes collide
\* with its own.
EventuallyRolledOut == <>[]RolledOut
=============================================================================
