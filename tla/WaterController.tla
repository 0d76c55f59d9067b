--------------------------- MODULE WaterController ---------------------------
(***************************************************************************)
(* The reconciler of one Water (water_controller.go): a deployment for     *)
(* each coordinate, a service, an annotation that remembers the spec the   *)
(* last round applied, from which the next round learns what to delete,    *)
(* and the status.                                                         *)
(*                                                                         *)
(* One action is one call to the API server, or one Get that finds nothing *)
(* to do.  Reads are fresh.  The pod template is left out: it is copied    *)
(* into a deployment that is created and never looked at again.            *)
(***************************************************************************)
EXTENDS Integers, Sequences, Functions

CONSTANTS
  Coordinate,   \* [zone, rack, host, replicas]; a zone or a rack is the
                \* sequence of its parts between dashes
  Lower,        \* strings.ToLower of a part
  Specs,        \* the specifications the user may write, [strategy, coords]
  InitSpec,     \* the one the Water is created with
  NoSpec,       \* no annotation
  MaxEdits, MaxFaults, MaxFailures   \* bounds on the environment

Strategies == {"Alpha", "Beta", "Omega", "Release"}
SpecType == [strategy : Strategies, coords : Seq(Coordinate)]

\* Mutant: the comparison looks at the replicas too.
EqualIfSameSize(c, d) == c = d

\* Identity of a place: everything but the number of replicas.
Equal(c, d) == <<c.zone, c.rack, c.host>> = <<d.zone, d.rack, d.host>>

In(coords, c) == \E i \in DOMAIN coords : Equal(coords[i], c)

\* The coordinates of one list that are not in the other.
Difference(s1, s2) ==
  {s1[i] : i \in {i \in DOMAIN s1 : ~In(s2, s1[i])}} \cup
  {s2[i] : i \in {i \in DOMAIN s2 : ~In(s1, s2[i])}}

\* "zone-rack", cut at its dashes.
coordinateName(c) == c.zone \o c.rack

\* "water-zone-rack" in lower case, without the Water's own name.
deploymentName(c) ==
  [i \in DOMAIN coordinateName(c) |-> Lower[coordinateName(c)[i]]]

Names == {deploymentName(c) : c \in Coordinate}
NamesOf(coords) == {deploymentName(coords[i]) : i \in DOMAIN coords}

\* The zone a pod must run in and the place it prefers.
organizationNodeAffinity(c) ==
  [required |-> c.zone, preferred |-> <<c.zone, c.rack, c.host>>]
Affinity == {organizationNodeAffinity(c) : c \in Coordinate}

NoDeployment == [size |-> -1]
Deployment == [size : Nat, affinity : Affinity] \cup {NoDeployment}

Exists(d) == d # NoDeployment

ASSUME WaterAssumption ==
  /\ \A c \in Coordinate : c.replicas \in Nat
  /\ Specs \subseteq SpecType
  /\ InitSpec \in SpecType
  /\ NoSpec \notin SpecType
  /\ MaxEdits \in Nat /\ MaxFaults \in Nat /\ MaxFailures \in Nat

VARIABLES
  \* --- the API server
  spec,         \* the Water's spec
  generation,   \* how often it was written
  annotation,   \* the annotation "spec"
  status,       \* the Water's status
  deployments,  \* the deployment of each name
  service,      \* does the service exist?
  \* --- the controller
  queued,       \* is the Water's key in the work queue?
  pos,          \* where the running reconcile is, [at, i]
  job,          \* the instance it read, [spec, annotation, gen]
  \* --- history and budget
  interrupted,  \* the names of specs replaced before they were remembered
  faults, failures

waterVars == <<spec, generation, annotation, status>>
ownedVars == <<deployments, service>>
procVars == <<queued, pos, job>>
ghostVars == <<interrupted, faults, failures>>
vars == <<waterVars, ownedVars, procVars, ghostVars>>

NoJob == [spec |-> InitSpec, annotation |-> NoSpec, gen |-> 0]
NoStatus == [desiredReplicas |-> 0, alreadyReplicas |-> 0,
             desiredDeployment |-> 0, alreadyDeployment |-> 0]

Stages == {"idle", "clean", "deploy", "annotate", "status"}
Goto(stage, i) == pos' = [at |-> stage, i |-> i]

\* Mutant: an error is not requeued.
Forget == Goto("idle", 0) /\ job' = NoJob /\ UNCHANGED queued

\* The reconcile answers nil, or an error, which requeues the key.
Done == Goto("idle", 0) /\ job' = NoJob /\ UNCHANGED queued
Retry == Goto("idle", 0) /\ job' = NoJob /\ queued' = TRUE

-----------------------------------------------------------------------------
(* The reconcile.                                                           *)

Reconcile ==
  /\ pos.at = "idle"
  /\ queued
  /\ queued' = FALSE
  /\ job' = [spec |-> spec, annotation |-> annotation, gen |-> generation]
  /\ Goto("clean", 1)
  /\ UNCHANGED <<waterVars, ownedVars, ghostVars>>

Remembered == IF job.annotation = NoSpec THEN <<>> ELSE job.annotation.coords

\* Mutant: the two lists are swapped.
SwapsLists(c) ==
  /\ Difference(Remembered, job.spec.coords) # {}
  /\ In(job.spec.coords, c)
  /\ ~In(Remembered, c)

\* Is c a place the remembered spec had and the new one has not?
Obsolete(c) ==
  /\ Difference(Remembered, job.spec.coords) # {}
  /\ In(Remembered, c)
  /\ ~In(job.spec.coords, c)

\* updateCleanOldDeployment, one remembered coordinate.
updateCleanOldDeployment ==
  /\ pos.at = "clean"
  /\ pos.i \in DOMAIN Remembered
  /\ LET c == Remembered[pos.i]
     IN IF Obsolete(c) /\ Exists(deployments[deploymentName(c)])
        THEN /\ deployments' = [deployments EXCEPT
                                  ![deploymentName(c)] = NoDeployment]
             /\ queued' = TRUE
        ELSE UNCHANGED <<deployments, queued>>
  /\ Goto("clean", pos.i + 1)
  /\ UNCHANGED <<waterVars, service, job, ghostVars>>

Cleaned ==
  /\ pos.at = "clean"
  /\ pos.i \notin DOMAIN Remembered
  /\ Goto("deploy", 1)
  /\ UNCHANGED <<waterVars, ownedVars, queued, job, ghostVars>>

\* The size of the deployment of coordinate i; Alpha takes the first only.
Selected(s, i) == s.strategy = "Alpha" => i = 1
Size(s, i) == IF s.strategy = "Release" THEN s.coords[i].replicas ELSE 1

\* updateDeployment of the coordinate at hand: the old one keeps everything
\* but its size.
updateDeployment ==
  LET c == job.spec.coords[pos.i]
      old == deployments[deploymentName(c)]
      new == IF Exists(old) THEN [old EXCEPT !.size = Size(job.spec, pos.i)]
             ELSE [size |-> Size(job.spec, pos.i),
                   affinity |-> organizationNodeAffinity(c)]
  IN /\ pos.at = "deploy"
     /\ pos.i \in DOMAIN job.spec.coords
     /\ IF Selected(job.spec, pos.i) /\ old # new
        THEN /\ deployments' = [deployments EXCEPT ![deploymentName(c)] = new]
             /\ queued' = TRUE
        ELSE UNCHANGED <<deployments, queued>>
     /\ Goto("deploy", pos.i + 1)
     /\ UNCHANGED <<waterVars, service, job, ghostVars>>

\* createService, after the last coordinate: nothing watches services.
createService ==
  /\ pos.at = "deploy"
  /\ pos.i \notin DOMAIN job.spec.coords
  /\ service' = TRUE
  /\ Goto("annotate", 0)
  /\ UNCHANGED <<waterVars, deployments, queued, job, ghostVars>>

\* annotationWater: a retry sends the same object, so after a conflict all
\* of them fail.
annotationWater ==
  /\ pos.at = "annotate"
  /\ IF generation = job.gen
     THEN /\ annotation' = job.spec
          /\ queued' = (queued \/ annotation # job.spec)
          /\ Goto("status", 0)
          /\ UNCHANGED job
     ELSE Retry /\ UNCHANGED annotation
  /\ UNCHANGED <<spec, generation, status, ownedVars, ghostVars>>

\* The status updateWater computes from the deployments it finds.
ExpectStatus(coords) ==
  LET size(i) == deployments[deploymentName(coords[i])].size
  IN [desiredReplicas   |-> SumFunction([i \in DOMAIN coords |-> coords[i].replicas]),
      alreadyReplicas   |-> SumFunction([i \in DOMAIN coords |-> size(i)]),
      desiredDeployment |-> Len(coords),
      alreadyDeployment |-> Len(coords)]

\* Mutant: a deployment that is not found is counted all the same.
CountsMissing(coords) == FALSE

\* Does one of the coordinates have no deployment?
Missing(coords) ==
  \E i \in DOMAIN coords : ~Exists(deployments[deploymentName(coords[i])])

\* updateWater: nothing to write, or a deployment is missing and the status
\* stays as it is.
SkipStatus ==
  /\ pos.at = "status"
  /\ \/ Missing(job.spec.coords)
     \/ status = ExpectStatus(job.spec.coords)
  /\ Done
  /\ UNCHANGED <<waterVars, ownedVars, ghostVars>>

\* updateWater: the status is stored, whose event requeues the key, or the
\* write conflicts, and the error does.
updateWater ==
  /\ pos.at = "status"
  /\ ~Missing(job.spec.coords)
  /\ status # ExpectStatus(job.spec.coords)
  /\ status' = IF generation = job.gen THEN ExpectStatus(job.spec.coords)
               ELSE status
  /\ Retry
  /\ UNCHANGED <<spec, generation, annotation, ownedVars, ghostVars>>

\* A call fails and its error is returned, or the process restarts: either
\* way the key is in the queue and the round starts anew.
Fails ==
  /\ failures < MaxFailures
  /\ failures' = failures + 1
  /\ pos.at # "idle"
  /\ Retry
  /\ UNCHANGED <<waterVars, ownedVars, interrupted, faults>>

-----------------------------------------------------------------------------
(* The environment.                                                         *)

\* The user writes another spec.
Edit ==
  /\ generation <= MaxEdits
  /\ \E s \in Specs \ {spec} : spec' = s
  /\ generation' = generation + 1
  /\ interrupted' = IF annotation = spec THEN interrupted
                    ELSE interrupted \cup NamesOf(spec.coords)
  /\ queued' = TRUE
  /\ UNCHANGED <<annotation, status, ownedVars, pos, job, faults, failures>>

\* Someone else deletes a deployment, or scales it to nothing.
Fault ==
  /\ faults < MaxFaults
  /\ faults' = faults + 1
  /\ \E n \in Names :
       /\ Exists(deployments[n])
       /\ \/ deployments' = [deployments EXCEPT ![n] = NoDeployment]
          \/ deployments' = [deployments EXCEPT ![n].size = 0]
  /\ queued' = TRUE
  /\ UNCHANGED <<waterVars, service, pos, job, interrupted, failures>>

-----------------------------------------------------------------------------
Init ==
  /\ spec = InitSpec
  /\ generation = 1
  /\ annotation = NoSpec
  /\ status = NoStatus
  /\ deployments = [n \in Names |-> NoDeployment]
  /\ service = FALSE
  /\ queued = TRUE
  /\ pos = [at |-> "idle", i |-> 0]
  /\ job = NoJob
  /\ interrupted = {}
  /\ faults = 0 /\ failures = 0

Worker ==
  \/ Reconcile \/ updateCleanOldDeployment \/ Cleaned \/ updateDeployment
  \/ createService \/ annotationWater \/ SkipStatus \/ updateWater

Next == Worker \/ Fails \/ Edit \/ Fault

\* The worker keeps running; nothing else has to happen.
Spec == Init /\ [][Next]_vars
FairSpec == Spec /\ WF_vars(Worker)

-----------------------------------------------------------------------------
(* Properties.                                                              *)

\* Every variable keeps its type: the loops stay within the lists they run
\* over and a status never counts a deployment that is not there.
TypeOK ==
  /\ spec \in SpecType
  /\ generation \in Nat
  /\ annotation \in SpecType \cup {NoSpec}
  /\ status \in [desiredReplicas : Nat, alreadyReplicas : Nat,
                 desiredDeployment : Nat, alreadyDeployment : Nat]
  /\ deployments \in [Names -> Deployment]
  /\ service \in BOOLEAN
  /\ queued \in BOOLEAN
  /\ pos \in [at : Stages, i : Nat]
  /\ job \in [spec : SpecType, annotation : SpecType \cup {NoSpec}, gen : Nat]
  /\ interrupted \subseteq Names
  /\ faults \in Nat /\ failures \in Nat

\* No deployment is lost track of, whatever fails between two calls: each is
\* named by the spec, or by the annotation, from which the next round deletes
\* it.  The exception are the names of a spec the user replaced before its
\* round had written the annotation.
Accounted ==
  \A n \in Names : Exists(deployments[n]) =>
    \/ n \in NamesOf(spec.coords)
    \/ annotation # NoSpec /\ n \in NamesOf(annotation.coords)
    \/ n \in interrupted

\* The controller never deletes the deployment of a place that the old spec
\* and the new one both have, however their sizes, order or strategy differ.
PlacesThatStay ==
  [][\A i \in DOMAIN job.spec.coords :
       LET c == job.spec.coords[i]
       IN (/\ pos' # pos
           /\ \E j \in DOMAIN Remembered :
                /\ Remembered[j].zone = c.zone
                /\ Remembered[j].rack = c.rack
                /\ Remembered[j].host = c.host
           /\ Exists(deployments[deploymentName(c)]))
          => Exists(deployments'[deploymentName(c)])]_vars

\* The selected coordinates have their deployments, of the right size and,
\* unless a replaced spec left one behind, in the right place; the spec is
\* remembered, the service exists, and the status is that of the deployments
\* when all of them exist.
Applied ==
  /\ service
  /\ annotation = spec
  /\ \A i \in DOMAIN spec.coords : Selected(spec, i) =>
       LET c == spec.coords[i]
           d == deployments[deploymentName(c)]
       IN /\ Exists(d)
          /\ d.size = Size(spec, i)
          /\ deploymentName(c) \notin interrupted =>
               d.affinity = organizationNodeAffinity(c)
  /\ Missing(spec.coords) \/ status = ExpectStatus(spec.coords)

\* Once edits and faults stop, the spec is applied and stays so, whatever
\* call failed meanwhile.  "Release: Full deployment" of a Water that "can be
\* specific to a machine in a rack in a zone" is the instance for that
\* strategy.
Deployed == <>[]Applied
=============================================================================
