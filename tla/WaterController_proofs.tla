------------------------ MODULE WaterController_proofs ------------------------
(***************************************************************************)
(* No deployment of a Water is lost track of: Accounted is an invariant of *)
(* the reconciler, for every set of coordinates and specifications.        *)
(*                                                                         *)
(* Accounted alone is not inductive.  A round that creates deployments     *)
(* must be creating ones that are accounted for, although the spec may     *)
(* have been replaced since it was read (Grounded), and when it overwrites *)
(* the annotation nothing that only the old annotation named may be left   *)
(* (Swept), which the clean up establishes coordinate by coordinate.       *)
(***************************************************************************)
EXTENDS WaterController, SequenceTheorems, Sums_proofs

\* The types the argument needs; the status plays no part in it.
Types ==
  /\ spec \in SpecType
  /\ generation \in Nat
  /\ annotation \in SpecType \cup {NoSpec}
  /\ deployments \in [Names -> Deployment]
  /\ pos \in [at : Stages, i : Nat]
  /\ pos.at = "clean" => pos.i >= 1
  /\ job \in [spec : SpecType, annotation : SpecType \cup {NoSpec}, gen : Nat]
  /\ interrupted \subseteq Names

Annotated == IF annotation = NoSpec THEN {} ELSE NamesOf(annotation.coords)
Known == NamesOf(spec.coords) \cup Annotated \cup interrupted

AllKnown == \A n \in Names : Exists(deployments[n]) => n \in Known

\* What a round in progress will deploy is known, and as long as nobody has
\* replaced the spec it works on the spec and the annotation as they are.
Grounded ==
  pos.at # "idle" =>
    /\ job.gen <= generation
    /\ NamesOf(job.spec.coords) \subseteq Known
    /\ job.gen = generation => job.spec = spec
    /\ job.gen = generation /\ pos.at # "status" => job.annotation = annotation

\* The names of the remembered coordinates the clean up has yet to visit.
Unvisited ==
  IF pos.at = "clean"
  THEN {deploymentName(Remembered[j]) :
          j \in {j \in DOMAIN Remembered : j >= pos.i}}
  ELSE {}

Swept ==
  pos.at \in {"clean", "deploy", "annotate"} /\ job.gen = generation =>
    \A n \in Names : Exists(deployments[n]) =>
      n \in NamesOf(job.spec.coords) \cup interrupted \cup Unvisited

IInv == Types /\ AllKnown /\ Grounded /\ Swept

\* Every coordinate of a list has a name among Names (deploymentName).
LEMMA NamesOfType ==
  ASSUME NEW coords \in Seq(Coordinate)
  PROVE  /\ \A i \in DOMAIN coords : coords[i] \in Coordinate
         /\ \A i \in DOMAIN coords : deploymentName(coords[i]) \in Names
         /\ NamesOf(coords) \subseteq Names
<1>1. \A i \in DOMAIN coords : coords[i] \in Coordinate
  OBVIOUS
<1>2. \A i \in DOMAIN coords : deploymentName(coords[i]) \in Names
  BY <1>1 DEF Names
<1> QED
  BY <1>1, <1>2 DEF NamesOf

\* Equal places have the same deployment: the host, which Equal compares too,
\* is no part of the name.
LEMMA EqualNames ==
  ASSUME NEW c \in Coordinate, NEW d \in Coordinate, Equal(c, d)
  PROVE  deploymentName(c) = deploymentName(d)
<1>1. c.zone = d.zone /\ c.rack = d.rack
  BY DEF Equal
<1> QED
  BY <1>1 DEF deploymentName, coordinateName

\* A remembered coordinate that updateCleanOldDeployment leaves alone has the
\* name of a coordinate of the new spec.
LEMMA KeptIsNamed ==
  ASSUME Types, NEW i \in DOMAIN Remembered, ~Obsolete(Remembered[i])
  PROVE  deploymentName(Remembered[i]) \in NamesOf(job.spec.coords)
<1> DEFINE c == Remembered[i]
           new == job.spec.coords
<1>1. Remembered \in Seq(Coordinate) /\ new \in Seq(Coordinate)
  BY DEF Types, SpecType, Remembered
<1>2. c \in Coordinate
  BY <1>1, NamesOfType
<1>3. In(Remembered, c)
  BY DEF In, Equal
<1>4. In(new, c)
  <2>1. CASE Difference(Remembered, new) = {}
    <3>1. i \notin {j \in DOMAIN Remembered : ~In(new, Remembered[j])}
      BY <2>1 DEF Difference
    <3> QED
      BY <3>1
  <2>2. CASE Difference(Remembered, new) # {}
    BY <2>2, <1>3 DEF Obsolete
  <2> QED
    BY <2>1, <2>2
<1>5. PICK k \in DOMAIN new : Equal(new[k], c)
  BY <1>4 DEF In
<1>6. deploymentName(new[k]) = deploymentName(c)
  BY <1>1, <1>2, <1>5, NamesOfType, EqualNames
<1> QED
  BY <1>6 DEF NamesOf

\* The invariant holds when the Water is created.
LEMMA InitInv == Init => IInv
<1> SUFFICES ASSUME Init PROVE IInv
  OBVIOUS
<1>1. Types
  BY WaterAssumption
  DEF Init, Types, NoJob, Stages, Deployment, NoDeployment
<1> QED
  BY <1>1 DEF Init, IInv, AllKnown, Grounded, Swept, Exists

\* A step that leaves Water, deployments and the round alone keeps it.
LEMMA StutterInv == IInv /\ UNCHANGED vars => IInv'
BY DEF IInv, vars, waterVars, ownedVars, procVars, ghostVars, Types, AllKnown,
       Known, Annotated, Grounded, Swept, Unvisited, Remembered, Exists

\* Known depends on the spec, the annotation and the replaced specs only.
LEMMA KnownStays ==
  ASSUME UNCHANGED <<spec, annotation, interrupted>>
  PROVE  Known' = Known
BY DEF Known, Annotated

\* A round begins with the Water as it is and nothing visited.
LEMMA ReconcileInv == IInv /\ Reconcile => IInv'
<1> SUFFICES ASSUME IInv, Reconcile PROVE IInv'
  OBVIOUS
<1> USE DEF IInv, Reconcile, waterVars, ownedVars, ghostVars, Goto
<1>1. Types'
  BY DEF Types, Stages
<1>2. Known' = Known
  BY KnownStays
<1>3. AllKnown'
  BY <1>2 DEF AllKnown, Exists
<1>4. Grounded'
  BY <1>2 DEF Grounded, Known, Types
<1>5. Swept'
  <2>1. Remembered' = (IF annotation = NoSpec THEN <<>> ELSE annotation.coords)
    BY DEF Remembered
  <2>2. Annotated \subseteq Unvisited'
    <3>1. CASE annotation = NoSpec
      BY <3>1 DEF Annotated
    <3>2. CASE annotation # NoSpec
      <4>1. Remembered' = annotation.coords /\ Annotated = NamesOf(annotation.coords)
        BY <3>2, <2>1 DEF Annotated
      <4>2. annotation.coords \in Seq(Coordinate)
        BY <3>2 DEF Types, SpecType
      <4>3. \A j \in DOMAIN annotation.coords : j >= 1
        BY <4>2
      <4>4. Unvisited' = {deploymentName(annotation.coords[j]) :
                            j \in {j \in DOMAIN annotation.coords : j >= 1}}
        BY <4>1 DEF Unvisited
      <4> QED
        BY <4>1, <4>3, <4>4 DEF NamesOf
    <3> QED
      BY <3>1, <3>2
  <2> QED
    BY <2>2 DEF Swept, AllKnown, Known, Exists
<1> QED
  BY <1>1, <1>3, <1>4, <1>5

\* A step of the round that writes neither the Water nor a deployment, and
\* does not change what is unvisited.
LEMMA QuietInv ==
  ASSUME IInv, Types',
         UNCHANGED <<spec, generation, annotation, deployments, interrupted>>,
         \/ pos'.at = "idle"
         \/ /\ job' = job
            /\ pos.at # "idle"
            /\ pos'.at = "status" \/ pos.at # "status"
            /\ pos'.at = "status" \/ Unvisited' = Unvisited
            /\ pos'.at = "status" \/ pos.at \in {"clean", "deploy", "annotate"}
  PROVE  IInv'
<1>1. Known' = Known
  BY KnownStays
<1>2. AllKnown'
  BY <1>1 DEF IInv, AllKnown, Exists
<1>3. Grounded'
  BY <1>1 DEF IInv, Grounded
<1>4. Swept'
  BY DEF IInv, Swept, Exists
<1> QED
  BY <1>2, <1>3, <1>4 DEF IInv

\* updateCleanOldDeployment deletes, or skips only what the new spec names: one
\* more remembered coordinate is visited.
LEMMA CleanInv == IInv /\ updateCleanOldDeployment => IInv'
<1> SUFFICES ASSUME IInv, updateCleanOldDeployment PROVE IInv'
  OBVIOUS
<1> DEFINE c == Remembered[pos.i]
           n == deploymentName(c)
<1> USE DEF IInv
<1>1. /\ pos.at = "clean" /\ pos.i \in DOMAIN Remembered
      /\ pos' = [at |-> "clean", i |-> pos.i + 1]
      /\ UNCHANGED <<spec, generation, annotation, job, interrupted>>
  BY DEF updateCleanOldDeployment, Goto, waterVars, ghostVars
<1>2. Remembered \in Seq(Coordinate) /\ Remembered' = Remembered
  BY <1>1 DEF Remembered, Types, SpecType
<1>3. n \in Names
  BY <1>1, <1>2, NamesOfType
<1>4. /\ \A m \in Names : Exists(deployments'[m]) => Exists(deployments[m])
      /\ deployments' \in [Names -> Deployment]
      /\ Obsolete(c) => ~Exists(deployments'[n])
  <2>1. CASE Obsolete(c) /\ Exists(deployments[n])
    <3>1. deployments' = [deployments EXCEPT ![n] = NoDeployment]
      BY <2>1 DEF updateCleanOldDeployment
    <3> QED
      BY <3>1, <1>3 DEF Types, Deployment, Exists
  <2>2. CASE ~(Obsolete(c) /\ Exists(deployments[n]))
    <3>1. deployments' = deployments
      BY <2>2 DEF updateCleanOldDeployment
    <3> QED
      BY <3>1, <2>2 DEF Types, Exists
  <2> QED
    BY <2>1, <2>2
<1>5. Types'
  BY <1>1, <1>4 DEF Types, Stages
<1>6. Known' = Known
  BY <1>1, KnownStays
<1>7. AllKnown'
  BY <1>4, <1>6 DEF AllKnown
<1>8. Grounded'
  BY <1>1, <1>6 DEF Grounded
<1>9. Swept'
  <2> SUFFICES ASSUME job.gen = generation, NEW m \in Names,
                      Exists(deployments'[m]),
                      m \notin NamesOf(job.spec.coords), m \notin interrupted
               PROVE  m \in Unvisited'
    BY <1>1 DEF Swept
  <2>1. m \in Unvisited
    BY <1>1, <1>4 DEF Swept
  <2>2. PICK j \in DOMAIN Remembered :
          j >= pos.i /\ m = deploymentName(Remembered[j])
    BY <2>1, <1>1 DEF Unvisited
  <2>3. j # pos.i
    <3>1. CASE Obsolete(c)
      BY <3>1, <2>2, <1>4
    <3>2. CASE ~Obsolete(c)
      BY <3>2, <2>2, <1>1, KeptIsNamed
    <3> QED
      BY <3>1, <3>2
  <2>4. j \in Nat /\ pos.i \in Nat
    BY <1>2 DEF Types
  <2>5. j >= pos.i + 1
    BY <2>2, <2>3, <2>4
  <2> QED
    BY <1>1, <1>2, <2>2, <2>5 DEF Unvisited
<1> QED
  BY <1>5, <1>7, <1>8, <1>9

\* After the last remembered coordinate nothing obsolete is left.
LEMMA CleanedInv == IInv /\ Cleaned => IInv'
<1> SUFFICES ASSUME IInv, Cleaned PROVE IInv'
  OBVIOUS
<1>1. /\ pos.at = "clean" /\ pos.i \notin DOMAIN Remembered
      /\ pos' = [at |-> "deploy", i |-> 1]
      /\ UNCHANGED <<spec, generation, annotation, deployments, job,
                     interrupted>>
  BY DEF Cleaned, Goto, waterVars, ownedVars, ghostVars
<1>2. Types'
  BY <1>1 DEF IInv, Types, Stages
<1>3. Remembered \in Seq(Coordinate)
  BY DEF IInv, Remembered, Types, SpecType
<1>4. \A j \in DOMAIN Remembered : ~(j >= pos.i)
  <2>1. pos.i \in Nat /\ pos.i >= 1
    BY <1>1 DEF IInv, Types
  <2>2. DOMAIN Remembered = 1 .. Len(Remembered) /\ Len(Remembered) \in Nat
    BY <1>3
  <2> QED
    BY <1>1, <2>1, <2>2
<1>5. Unvisited = {} /\ Unvisited' = {}
  BY <1>1, <1>4 DEF Unvisited
<1> QED
  BY <1>1, <1>2, <1>5, QuietInv

\* updateDeployment creates or resizes only what the round's spec names.
LEMMA DeployInv == IInv /\ updateDeployment => IInv'
<1> SUFFICES ASSUME IInv, updateDeployment PROVE IInv'
  OBVIOUS
<1> DEFINE c == job.spec.coords[pos.i]
           n == deploymentName(c)
<1> USE DEF IInv
<1>1. /\ pos.at = "deploy" /\ pos.i \in DOMAIN job.spec.coords
      /\ pos' = [at |-> "deploy", i |-> pos.i + 1]
      /\ UNCHANGED <<spec, generation, annotation, job, interrupted>>
  BY DEF updateDeployment, Goto, waterVars, ghostVars
<1>2. job.spec.coords \in Seq(Coordinate)
  BY DEF Types, SpecType
<1>3. c \in Coordinate /\ n \in Names /\ n \in NamesOf(job.spec.coords)
  BY <1>1, <1>2, NamesOfType DEF NamesOf
<1>4. Size(job.spec, pos.i) \in Nat
  BY <1>3, WaterAssumption DEF Size
<1>5. /\ deployments' \in [Names -> Deployment]
      /\ \A m \in Names \ {n} : deployments'[m] = deployments[m]
  <2> DEFINE size == Size(job.spec, pos.i)
             fresh == [size |-> size, affinity |-> organizationNodeAffinity(c)]
             grown == [deployments[n] EXCEPT !.size = size]
  <2>1. \/ deployments' = deployments
        \/ deployments' = [deployments EXCEPT ![n] = fresh]
        \/ /\ Exists(deployments[n])
           /\ deployments' = [deployments EXCEPT ![n] = grown]
    BY DEF updateDeployment
  <2>2. fresh \in Deployment
    BY <1>3, <1>4 DEF Deployment, Affinity
  <2>3. Exists(deployments[n]) => grown \in Deployment
    <3> SUFFICES ASSUME Exists(deployments[n]) PROVE grown \in Deployment
      OBVIOUS
    <3>1. deployments[n] \in [size : Nat, affinity : Affinity]
      BY <1>3 DEF Types, Deployment, Exists
    <3> QED
      BY <3>1, <1>4 DEF Deployment
  <2> HIDE DEF fresh, grown
  <2> QED
    BY <2>1, <2>2, <2>3, <1>3 DEF Types
<1>6. Types'
  BY <1>1, <1>5 DEF Types, Stages
<1>7. Known' = Known
  BY <1>1, KnownStays
<1>8. AllKnown'
  BY <1>1, <1>3, <1>5, <1>7 DEF AllKnown, Grounded, Exists
<1>9. Grounded'
  BY <1>1, <1>7 DEF Grounded
<1>10. Swept'
  BY <1>1, <1>3, <1>5 DEF Swept, Unvisited, Exists
<1> QED
  BY <1>6, <1>8, <1>9, <1>10

\* createService touches no deployment.
LEMMA ServiceInv == IInv /\ createService => IInv'
<1> SUFFICES ASSUME IInv, createService PROVE IInv'
  OBVIOUS
<1>1. /\ pos.at = "deploy" /\ pos' = [at |-> "annotate", i |-> 0]
      /\ UNCHANGED <<spec, generation, annotation, deployments, job,
                     interrupted>>
  BY DEF createService, Goto, waterVars, ghostVars
<1>2. Types'
  BY <1>1 DEF IInv, Types, Stages
<1>3. Unvisited = {} /\ Unvisited' = {}
  BY <1>1 DEF Unvisited
<1> QED
  BY <1>1, <1>2, <1>3, QuietInv

\* A round that ends, for whatever reason, without having written the spec,
\* the annotation or a deployment.
LEMMA EndInv ==
  ASSUME IInv, Goto("idle", 0), job' = NoJob,
         UNCHANGED <<spec, generation, annotation, deployments, interrupted>>
  PROVE  IInv'
<1>1. Types'
  BY WaterAssumption DEF IInv, Types, Stages, Goto, NoJob
<1> QED
  BY <1>1, QuietInv DEF Goto

\* annotationWater: without a conflict the spec takes the place of the old
\* annotation, whose names are no longer needed; with one the round ends.
LEMMA AnnotateInv == IInv /\ annotationWater => IInv'
<1> SUFFICES ASSUME IInv, annotationWater PROVE IInv'
  OBVIOUS
<1>1. /\ pos.at = "annotate"
      /\ UNCHANGED <<spec, generation, deployments, interrupted>>
  BY DEF annotationWater, ownedVars, ghostVars
<1>2. CASE generation # job.gen
  BY <1>1, <1>2, EndInv DEF annotationWater, Retry
<1>3. CASE generation = job.gen
  <2> USE DEF IInv
  <2>1. /\ annotation' = job.spec /\ job' = job
        /\ pos' = [at |-> "status", i |-> 0]
    BY <1>3 DEF annotationWater, Goto
  <2>2. job.spec = spec /\ spec # NoSpec
    BY <1>1, <1>3, WaterAssumption DEF Grounded, Types
  <2>3. Types'
    BY <1>1, <2>1 DEF Types, Stages
  <2>4. /\ Known' = NamesOf(spec.coords) \cup interrupted
        /\ NamesOf(job.spec.coords) \subseteq Known'
    BY <1>1, <2>1, <2>2 DEF Known, Annotated
  <2>5. AllKnown'
    BY <1>1, <1>3, <2>2, <2>4 DEF AllKnown, Swept, Unvisited, Exists
  <2>6. Grounded'
    BY <1>1, <1>3, <2>1, <2>2, <2>4 DEF Grounded
  <2>7. Swept'
    BY <2>1 DEF Swept
  <2> QED
    BY <2>3, <2>5, <2>6, <2>7
<1> QED
  BY <1>2, <1>3

\* An edit leaves the names of the replaced spec in the annotation or in
\* interrupted, and makes the round in progress a stale one.
LEMMA EditInv == IInv /\ Edit => IInv'
<1> SUFFICES ASSUME IInv, Edit PROVE IInv'
  OBVIOUS
<1> USE DEF IInv
<1>1. /\ spec' \in SpecType
      /\ generation' = generation + 1 /\ generation \in Nat
      /\ UNCHANGED <<annotation, deployments, pos, job>>
  BY WaterAssumption DEF Edit, ownedVars, Types
<1>2. NamesOf(spec.coords) \subseteq Names
  BY NamesOfType DEF Types, SpecType
<1>3. interrupted' \subseteq Names
  BY <1>2 DEF Edit, Types
<1>4. Known \subseteq Known'
  <2>1. Annotated' = Annotated
    BY <1>1 DEF Annotated
  <2>2. interrupted \subseteq interrupted'
    BY DEF Edit
  <2>3. NamesOf(spec.coords) \subseteq Annotated \cup interrupted'
    <3>1. CASE annotation = spec
      BY <3>1, WaterAssumption DEF Annotated, Types
    <3>2. CASE annotation # spec
      BY <3>2 DEF Edit
    <3> QED
      BY <3>1, <3>2
  <2> QED
    BY <2>1, <2>2, <2>3 DEF Known
<1>5. Types'
  BY <1>1, <1>3 DEF Types
<1>6. AllKnown'
  BY <1>1, <1>4 DEF AllKnown, Exists
<1>7. pos.at # "idle" => job.gen < generation'
  BY <1>1 DEF Grounded, Types
<1>8. Grounded'
  BY <1>1, <1>4, <1>7 DEF Grounded, Types
<1>9. Swept'
  BY <1>1, <1>7 DEF Swept, Types
<1> QED
  BY <1>5, <1>6, <1>8, <1>9

\* What others do to a deployment adds none.
LEMMA FaultInv == IInv /\ Fault => IInv'
<1> SUFFICES ASSUME IInv, Fault PROVE IInv'
  OBVIOUS
<1> USE DEF IInv
<1>1. UNCHANGED <<spec, generation, annotation, pos, job, interrupted>>
  BY DEF Fault, waterVars
<1>2. PICK n \in Names :
        /\ Exists(deployments[n])
        /\ \/ deployments' = [deployments EXCEPT ![n] = NoDeployment]
           \/ deployments' = [deployments EXCEPT ![n].size = 0]
  BY DEF Fault
<1>3. /\ deployments' \in [Names -> Deployment]
      /\ \A m \in Names : Exists(deployments'[m]) => Exists(deployments[m])
  <2>1. deployments[n] \in [size : Nat, affinity : Affinity]
    BY <1>2 DEF Types, Deployment, Exists
  <2>2. [deployments[n] EXCEPT !.size = 0] \in Deployment
    BY <2>1 DEF Deployment
  <2>3. NoDeployment \in Deployment
    BY DEF Deployment
  <2> QED
    BY <1>2, <2>2, <2>3 DEF Types, Exists
<1>4. Types'
  BY <1>1, <1>3 DEF Types
<1>5. Known' = Known
  BY <1>1, KnownStays
<1>6. AllKnown'
  BY <1>3, <1>5 DEF AllKnown
<1>7. Grounded'
  BY <1>1, <1>5 DEF Grounded
<1>8. Swept'
  BY <1>1, <1>3 DEF Swept, Unvisited, Remembered
<1> QED
  BY <1>4, <1>6, <1>7, <1>8

\* Every step keeps the invariant, one action at a time.
LEMMA NextInv == IInv /\ [Next]_vars => IInv'
<1> SUFFICES ASSUME IInv, [Next]_vars PROVE IInv'
  OBVIOUS
<1>1. CASE Reconcile
  BY <1>1, ReconcileInv
<1>2. CASE updateCleanOldDeployment
  BY <1>2, CleanInv
<1>3. CASE Cleaned
  BY <1>3, CleanedInv
<1>4. CASE updateDeployment
  BY <1>4, DeployInv
<1>5. CASE createService
  BY <1>5, ServiceInv
<1>6. CASE annotationWater
  BY <1>6, AnnotateInv
<1>7. CASE SkipStatus
  BY <1>7, EndInv DEF SkipStatus, Done, waterVars, ownedVars, ghostVars
<1>8. CASE updateWater
  BY <1>8, EndInv DEF updateWater, Retry, ownedVars, ghostVars
<1>9. CASE Fails
  BY <1>9, EndInv DEF Fails, Retry, waterVars, ownedVars
<1>10. CASE Edit
  BY <1>10, EditInv
<1>11. CASE Fault
  BY <1>11, FaultInv
<1>12. CASE UNCHANGED vars
  BY <1>12, StutterInv
<1> QED
  BY <1>1, <1>2, <1>3, <1>4, <1>5, <1>6, <1>7, <1>8, <1>9, <1>10, <1>11,
     <1>12 DEF Next, Worker

\* No deployment is lost track of, whatever call fails, whenever the process
\* restarts and the user edits: the clean up of water_controller.go reaches
\* every deployment but those of a spec replaced before it was remembered.
THEOREM DeploymentsAccounted == Spec => []Accounted
<1>1. IInv => Accounted
  BY DEF IInv, AllKnown, Accounted, Known, Annotated
<1> QED
  BY InitInv, NextInv, <1>1, PTL DEF Spec

-----------------------------------------------------------------------------
(* The places that stay.                                                    *)

\* No spec has two machines whose deployments have the same name.  The code
\* does not ask for it: a name has the zone and the rack but not the host, so
\* that the clean up of one of two machines deletes what both share.
OneMachinePerName ==
  \A s \in Specs \cup {InitSpec} : \A i, j \in DOMAIN s.coords :
    deploymentName(s.coords[i]) = deploymentName(s.coords[j])
      => Equal(s.coords[i], s.coords[j])

\* What is stored, remembered and worked on is what the user wrote.
Written ==
  LET All == Specs \cup {InitSpec}
  IN /\ spec \in All /\ job.spec \in All
     /\ annotation \in All \cup {NoSpec} /\ job.annotation \in All \cup {NoSpec}

\* Written holds in every behaviour.
LEMMA AlwaysWritten == Spec => [](IInv /\ Written)
<1> DEFINE All == Specs \cup {InitSpec}
<1>1. Init => Written
  BY DEF Init, Written, NoJob
<1>2. IInv /\ Written /\ [Next]_vars => Written'
  <2> SUFFICES ASSUME Written, [Next]_vars PROVE Written'
    OBVIOUS
  <2>1. UNCHANGED spec \/ spec' \in Specs
    BY Zenon DEF Next, Worker, vars, waterVars, Reconcile,
       updateCleanOldDeployment, Cleaned, updateDeployment, createService,
       annotationWater, SkipStatus, updateWater, Fails, Edit, Fault
  <2>2. UNCHANGED annotation \/ annotation' = job.spec
    BY Zenon DEF Next, Worker, vars, waterVars, Reconcile,
       updateCleanOldDeployment, Cleaned, updateDeployment, createService,
       annotationWater, SkipStatus, updateWater, Fails, Edit, Fault
  <2>3. \/ UNCHANGED job \/ job' = NoJob
        \/ job' = [spec |-> spec, annotation |-> annotation, gen |-> generation]
    BY Zenon DEF Next, Worker, vars, procVars, Done, Retry, Reconcile,
       updateCleanOldDeployment, Cleaned, updateDeployment, createService,
       annotationWater, SkipStatus, updateWater, Fails, Edit, Fault
  <2> QED
    BY <2>1, <2>2, <2>3 DEF Written, NoJob
<1> QED
  BY <1>1, <1>2, InitInv, NextInv, PTL DEF Spec

\* The clean up (updateCleanOldDeployment) never deletes the deployment of a
\* place that the remembered spec and the new one both have, provided no spec
\* has two machines of one rack.
THEOREM PlacesAlwaysStay ==
  ASSUME OneMachinePerName
  PROVE  Spec => PlacesThatStay
<1> DEFINE P == \A i \in DOMAIN job.spec.coords :
                  LET c == job.spec.coords[i]
                  IN (/\ pos' # pos
                      /\ \E j \in DOMAIN Remembered :
                           /\ Remembered[j].zone = c.zone
                           /\ Remembered[j].rack = c.rack
                           /\ Remembered[j].host = c.host
                      /\ Exists(deployments[deploymentName(c)]))
                     => Exists(deployments'[deploymentName(c)])
<1>1. IInv /\ Written /\ [Next]_vars => P
  <2> SUFFICES ASSUME IInv, Written, [Next]_vars, pos' # pos,
                      NEW i \in DOMAIN job.spec.coords,
                      NEW j \in DOMAIN Remembered,
                      Remembered[j].zone = job.spec.coords[i].zone,
                      Remembered[j].rack = job.spec.coords[i].rack,
                      Remembered[j].host = job.spec.coords[i].host,
                      Exists(deployments[deploymentName(job.spec.coords[i])])
               PROVE  Exists(deployments'[deploymentName(job.spec.coords[i])])
    OBVIOUS
  <2> DEFINE c == job.spec.coords[i]
  <2>1. /\ Remembered \in Seq(Coordinate) /\ job.spec.coords \in Seq(Coordinate)
        /\ deployments \in [Names -> Deployment]
    BY DEF IInv, Types, SpecType, Remembered
  <2>2. c \in Coordinate /\ deploymentName(c) \in Names
    BY <2>1, NamesOfType
  <2>3. \/ UNCHANGED deployments
        \/ updateCleanOldDeployment
        \/ updateDeployment
    BY Zenon DEF Next, Worker, vars, ownedVars, procVars, Reconcile, Cleaned,
       createService, annotationWater, SkipStatus, updateWater, Fails, Edit,
       Fault
  <2>4. CASE updateCleanOldDeployment
    <3> DEFINE d == Remembered[pos.i]
    <3>1. /\ pos.i \in DOMAIN Remembered
          /\ \/ UNCHANGED deployments
             \/ /\ Obsolete(d)
                /\ deployments' = [deployments EXCEPT
                                     ![deploymentName(d)] = NoDeployment]
      BY <2>4, Zenon DEF updateCleanOldDeployment
    <3>2. d \in Coordinate /\ Remembered[j] \in Coordinate
      BY <2>1, <3>1, NamesOfType
    <3>3. ASSUME Obsolete(d), deploymentName(d) = deploymentName(c) PROVE FALSE
      <4>1. Equal(Remembered[j], c)
        BY DEF Equal
      <4>2. deploymentName(Remembered[j]) = deploymentName(d)
        BY <2>2, <3>2, <3>3, <4>1, EqualNames
      <4>3. /\ job.annotation \in Specs \cup {InitSpec}
            /\ Remembered = job.annotation.coords
        <5>1. job.annotation # NoSpec
          BY DEF Remembered
        <5> QED
          BY <5>1 DEF Written, Remembered
      <4>4. Equal(Remembered[j], d)
        BY <3>1, <4>2, <4>3 DEF OneMachinePerName
      <4>5. Equal(c, d)
        BY <4>1, <4>4 DEF Equal
      <4>6. In(job.spec.coords, d)
        BY <4>5 DEF In
      <4> QED
        BY <3>3, <4>6 DEF Obsolete
    <3>4. CASE UNCHANGED deployments
      BY <3>4
    <3>5. CASE /\ Obsolete(d)
               /\ deployments' = [deployments EXCEPT
                                    ![deploymentName(d)] = NoDeployment]
      <4>1. deploymentName(d) # deploymentName(c)
        BY <3>3, <3>5
      <4> QED
        BY <2>1, <2>2, <3>5, <4>1
    <3> QED
      BY <3>1, <3>4, <3>5
  <2>5. CASE updateDeployment
    <3> DEFINE e == job.spec.coords[pos.i]
               old == deployments[deploymentName(e)]
               s == Size(job.spec, pos.i)
               new == IF Exists(old) THEN [old EXCEPT !.size = s]
                      ELSE [size |-> s, affinity |-> organizationNodeAffinity(e)]
    <3>1. /\ pos.i \in DOMAIN job.spec.coords
          /\ \/ UNCHANGED deployments
             \/ deployments' = [deployments EXCEPT ![deploymentName(e)] = new]
      BY <2>5, Zenon DEF updateDeployment
    <3>2. deploymentName(e) \in Names
      BY <2>1, <3>1, NamesOfType
    <3>3. Exists(new)
      <4>1. old \in Deployment
        BY <2>1, <3>2
      <4> HIDE DEF old, s
      <4>2. CASE Exists(old)
        <5>1. old \in [size : Nat, affinity : Affinity]
          BY <4>1, <4>2 DEF Deployment, Exists
        <5>2. new = [old EXCEPT !.size = s]
          BY <4>2
        <5> QED
          BY <5>1, <5>2 DEF Exists, NoDeployment
      <4>3. CASE ~Exists(old)
        BY <4>3 DEF Exists, NoDeployment
      <4> QED
        BY <4>2, <4>3
    <3> HIDE DEF new
    <3> QED
      BY <2>1, <2>2, <3>1, <3>2, <3>3
  <2> QED
    BY <2>3, <2>4, <2>5
<1>2. [][P]_vars => PlacesThatStay
  BY PTL DEF PlacesThatStay
<1> HIDE DEF P
<1>3. Spec => [](IInv /\ Written)
  BY AlwaysWritten
<1> QED
  BY <1>1, <1>2, <1>3, PTL DEF Spec

-----------------------------------------------------------------------------
(* The types.                                                               *)

StatusType == [desiredReplicas : Nat, alreadyReplicas : Nat,
               desiredDeployment : Nat, alreadyDeployment : Nat]

\* The status computed from deployments that are all there is one of numbers:
\* the size of no missing deployment is counted.
LEMMA StatusCounts ==
  ASSUME NEW coords \in Seq(Coordinate), deployments \in [Names -> Deployment],
         ~Missing(coords)
  PROVE  ExpectStatus(coords) \in StatusType
<1> DEFINE n == Len(coords)
           size(i) == deployments[deploymentName(coords[i])].size
           wanted == [i \in DOMAIN coords |-> coords[i].replicas]
           found == [i \in DOMAIN coords |-> size(i)]
<1>1. n \in Nat /\ DOMAIN coords = 1 .. n /\ IsFiniteSet(DOMAIN coords)
  BY LenProperties, FS_Interval
<1>2. \A i \in DOMAIN coords : coords[i].replicas \in Nat
  BY NamesOfType, WaterAssumption
<1>3. \A i \in DOMAIN coords : size(i) \in Nat
  <2> SUFFICES ASSUME NEW i \in DOMAIN coords PROVE size(i) \in Nat
    OBVIOUS
  <2>1. deploymentName(coords[i]) \in Names
    BY NamesOfType
  <2>2. /\ deployments[deploymentName(coords[i])] \in Deployment
        /\ Exists(deployments[deploymentName(coords[i])])
    BY <2>1 DEF Missing
  <2> QED
    BY <2>2 DEF Deployment, Exists
<1>4. DOMAIN wanted = DOMAIN coords /\ wanted \in [DOMAIN coords -> Nat]
  BY <1>2
<1>5. DOMAIN found = DOMAIN coords /\ found \in [DOMAIN coords -> Nat]
  BY <1>3
<1> HIDE DEF wanted, found, n
<1>6. SumFunction(wanted) \in Nat
  BY <1>1, <1>4, SumIsNat
<1>7. SumFunction(found) \in Nat
  BY <1>1, <1>5, SumIsNat
<1>8. ExpectStatus(coords) =
        [desiredReplicas |-> SumFunction(wanted),
         alreadyReplicas |-> SumFunction(found),
         desiredDeployment |-> n, alreadyDeployment |-> n]
  BY Zenon DEF ExpectStatus, wanted, found, n
<1> QED
  BY <1>1, <1>6, <1>7, <1>8 DEF StatusType

\* The types the argument above did not need.
RestTypes ==
  /\ status \in StatusType
  /\ service \in BOOLEAN
  /\ queued \in BOOLEAN
  /\ faults \in Nat /\ failures \in Nat

\* Every variable keeps its type, in particular no status counts a deployment
\* that is missing (size -1), whatever was deleted while the round ran.
THEOREM TypeCorrect == Spec => []TypeOK
<1>1. Init => RestTypes
  <2> SUFFICES ASSUME Init PROVE RestTypes
    OBVIOUS
  <2>1. status \in StatusType /\ faults \in Nat /\ failures \in Nat
    BY DEF Init, StatusType, NoStatus
  <2>2. service \in BOOLEAN /\ queued \in BOOLEAN
    BY Zenon DEF Init
  <2> QED
    BY <2>1, <2>2, Zenon DEF RestTypes
<1>2. IInv /\ RestTypes /\ [Next]_vars => RestTypes'
  <2> SUFFICES ASSUME IInv, RestTypes, [Next]_vars PROVE RestTypes'
    OBVIOUS
  <2>1. status' \in StatusType
    <3>1. \/ UNCHANGED status
          \/ /\ ~Missing(job.spec.coords)
             /\ status' = ExpectStatus(job.spec.coords)
      <4>1. \/ UNCHANGED status
            \/ updateWater
        BY Zenon DEF Next, Worker, vars, waterVars, Reconcile,
           updateCleanOldDeployment, Cleaned, updateDeployment, createService,
           annotationWater, SkipStatus, Fails, Edit, Fault
      <4> QED
        BY <4>1 DEF updateWater
    <3>2. /\ job.spec.coords \in Seq(Coordinate)
          /\ deployments \in [Names -> Deployment]
      BY DEF IInv, Types, SpecType
    <3>3. status \in StatusType
      BY DEF RestTypes
    <3> QED
      BY <3>1, <3>2, <3>3, StatusCounts
  <2>2. service' \in BOOLEAN
    <3>1. UNCHANGED service \/ service' = TRUE
      BY Zenon DEF Next, Worker, vars, ownedVars, Reconcile,
         updateCleanOldDeployment, Cleaned, updateDeployment, createService,
         annotationWater, SkipStatus, updateWater, Fails, Edit, Fault
    <3> QED
      BY <3>1, Zenon DEF RestTypes
  <2>3. queued' \in BOOLEAN
    <3>1. \/ UNCHANGED queued \/ queued' = TRUE \/ queued' = FALSE
          \/ queued' = (queued \/ annotation # job.spec)
      BY Zenon DEF Next, Worker, vars, procVars, Done, Retry, Reconcile,
         updateCleanOldDeployment, Cleaned, updateDeployment, createService,
         annotationWater, SkipStatus, updateWater, Fails, Edit, Fault
    <3> QED
      BY <3>1, Zenon DEF RestTypes
  <2>4. faults' \in Nat /\ failures' \in Nat
    <3>1. UNCHANGED faults \/ faults' = faults + 1
      BY Zenon DEF Next, Worker, vars, ghostVars, Reconcile,
         updateCleanOldDeployment, Cleaned, updateDeployment, createService,
         annotationWater, SkipStatus, updateWater, Fails, Edit, Fault
    <3>2. UNCHANGED failures \/ failures' = failures + 1
      BY Zenon DEF Next, Worker, vars, ghostVars, Reconcile,
         updateCleanOldDeployment, Cleaned, updateDeployment, createService,
         annotationWater, SkipStatus, updateWater, Fails, Edit, Fault
    <3> QED
      BY <3>1, <3>2 DEF RestTypes
  <2> QED
    BY <2>1, <2>2, <2>3, <2>4, Zenon DEF RestTypes
<1>3. IInv /\ RestTypes => TypeOK
  BY Zenon DEF IInv, Types, RestTypes, StatusType, TypeOK
<1> QED
  BY <1>1, <1>2, <1>3, InitInv, NextInv, PTL DEF Spec
=============================================================================
