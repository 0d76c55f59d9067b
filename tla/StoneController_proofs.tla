------------------------ MODULE StoneController_proofs ------------------------
(***************************************************************************)
(* A Stone never publishes what nobody asked for, and never undoes an      *)
(* edit, for every list of groups and every specification.                 *)
(*                                                                         *)
(* Both rest on one invariant: what a round in progress holds is, up to    *)
(* the strategy the code fills in, a spec the user wrote, and the present  *)
(* one as long as nobody has edited since (Faithful).                      *)
(***************************************************************************)
EXTENDS StoneController, SequenceTheorems, Sums_proofs

\* A spec whose groups, sizes and names are within the model's bounds.
Fits(s) == s \in SpecType /\ Len(s.coordinates) <= MaxGroups

Types ==
  /\ Fits(spec)
  /\ generation \in Nat
  /\ sets \in [Names -> StatefulSet \cup {NoSet}]
  /\ pos \in [at : Stages, i : Nat]
  /\ job \in [spec : SpecType, gen : Nat,
              read : [Names -> StatefulSet \cup {NoSet}]]
  /\ Fits(job.spec)

\* What the spec asks for has been recorded.
SpecAsked == AskedBy(Normalised(spec)) \subseteq asked

Faithful ==
  ~At("idle") =>
    /\ job.gen <= generation
    /\ AskedBy(Normalised(job.spec)) \subseteq asked
    /\ ~At("get") => job.spec = Normalised(job.spec)
    /\ job.gen = generation => Normalised(job.spec) = Normalised(spec)

IInv == Types /\ OnlyAsked /\ SpecAsked /\ Faithful

\* Filling in the strategy keeps the type, and doing it twice changes nothing.
LEMMA NormalisedType ==
  ASSUME NEW s, Fits(s)
  PROVE  /\ Fits(Normalised(s))
         /\ Normalised(Normalised(s)) = Normalised(s)
<1>1. CASE s.strategy = "Other" /\ s.coordinates # <<>>
  <2>1. Normalised(s) = [s EXCEPT !.strategy = "Alpha"]
    BY <1>1 DEF Normalised
  <2>2. /\ Normalised(s) \in SpecType
        /\ Normalised(s).strategy = "Alpha"
        /\ Normalised(s).coordinates = s.coordinates
    BY <2>1 DEF Fits, SpecType, Strategies
  <2>3. Normalised(Normalised(s)) = Normalised(s)
    BY <2>2 DEF Normalised
  <2> QED
    BY <2>2, <2>3 DEF Fits
<1>2. CASE ~(s.strategy = "Other" /\ s.coordinates # <<>>)
  BY <1>2 DEF Normalised
<1> QED
  BY <1>1, <1>2

\* The name and the size of a selected group have their types.
LEMMA SelectedTypes ==
  ASSUME NEW s, Fits(s), NEW i \in Selected(s)
  PROVE  statefulSetName(s, i) \in Names /\ Size(s, i) \in Nat
<1>1. /\ s.coordinates \in Seq(CoordinatesGroup)
      /\ i \in 1 .. Len(s.coordinates) /\ Len(s.coordinates) \in Nat
  BY DEF Fits, SpecType, Selected
<1>2. s.coordinates[i] \in CoordinatesGroup
  BY <1>1
<1>3. i \in 1 .. MaxGroups
  BY <1>1, StoneAssumption DEF Fits
<1> QED
  BY <1>2, <1>3 DEF statefulSetName, Names, Size, CoordinatesGroup

\* Filling in the strategy asks for nothing else, and then the sizes of the
\* selected groups are what the spec asks for.
LEMMA AskedSelected ==
  ASSUME NEW s, Fits(s)
  PROVE  /\ AskedBy(Normalised(s)) = AskedBy(s)
         /\ s = Normalised(s) =>
              \A i \in Selected(s) :
                <<statefulSetName(s, i), Size(s, i)>> \in AskedBy(s)
<1>1. AskedBy(Normalised(s)) = AskedBy(s)
  <2>1. CASE s.strategy = "Other" /\ s.coordinates # <<>>
    <3>1. /\ Normalised(s).strategy = "Alpha"
          /\ Normalised(s).coordinates = s.coordinates
      BY <2>1 DEF Normalised, Fits, SpecType
    <3> QED
      BY <2>1, <3>1 DEF AskedBy, statefulSetName
  <2>2. CASE ~(s.strategy = "Other" /\ s.coordinates # <<>>)
    BY <2>2 DEF Normalised
  <2> QED
    BY <2>1, <2>2
<1>2. ASSUME s = Normalised(s), NEW i \in Selected(s)
      PROVE  <<statefulSetName(s, i), Size(s, i)>> \in AskedBy(s)
  <2>1. i \in DOMAIN s.coordinates /\ (s.strategy = "Alpha" => i = 1)
    BY DEF Selected
  <2>2. s.strategy \in Strategies /\ s.strategy # "Other"
    <3>1. SUFFICES ASSUME s.strategy = "Other" PROVE FALSE
      BY DEF Fits, SpecType
    <3>2. s.coordinates # <<>>
      BY <2>1
    <3>3. Normalised(s).strategy = "Alpha"
      BY <3>1, <3>2 DEF Normalised, Fits, SpecType
    <3> QED
      BY <1>2, <3>1, <3>3
  <2> QED
    BY <2>1, <2>2 DEF AskedBy, Size, statefulSetName, Strategies
<1> QED
  BY <1>1, <1>2

\* The invariant holds when the Stone is created.
LEMMA InitInv == Init => IInv
<1> SUFFICES ASSUME Init PROVE IInv
  OBVIOUS
<1>1. Fits(InitSpec)
  BY StoneAssumption DEF Fits
<1>2. Types
  BY <1>1 DEF Init, Types, NoJob, Stages, Fits
<1>3. SpecAsked
  BY <1>1, AskedSelected DEF Init, SpecAsked
<1> QED
  BY <1>2, <1>3 DEF Init, IInv, OnlyAsked, Faithful, At, Exists

\* A step of the worker, or of nobody, that writes no spec and no size, and
\* whose round holds what it held, or nothing.
LEMMA QuietInv ==
  ASSUME IInv, Types', UNCHANGED <<spec, generation, asked>>,
         \A n \in Names : Exists(sets'[n]) =>
           \/ Exists(sets[n]) /\ sets'[n].size = sets[n].size
           \/ <<n, sets'[n].size>> \in asked,
         \/ pos'.at = "idle"
         \/ /\ job'.spec = job.spec /\ job'.gen = job.gen
            /\ ~At("idle")
            /\ pos'.at = "get" \/ ~At("get")
         \/ UNCHANGED <<pos, job>>
  PROVE  IInv'
<1>1. OnlyAsked'
  BY DEF IInv, OnlyAsked
<1>2. SpecAsked'
  BY DEF IInv, SpecAsked
<1>3. Faithful'
  BY DEF IInv, Faithful, At
<1> QED
  BY <1>1, <1>2, <1>3 DEF IInv

\* A round that ends without having written a spec or a set.
LEMMA EndInv ==
  ASSUME IInv, Goto("idle", 0), job' = NoJob,
         UNCHANGED <<spec, generation, asked, sets>>
  PROVE  IInv'
<1>1. Fits(InitSpec)
  BY StoneAssumption DEF Fits
<1>2. Types'
  BY <1>1 DEF IInv, Types, Goto, Stages, NoJob, Fits
<1> QED
  BY <1>2, QuietInv DEF Goto, Exists

\* A round begins with the spec as it is.
LEMMA ReconcileInv == IInv /\ Reconcile => IInv'
<1> SUFFICES ASSUME IInv, Reconcile PROVE IInv'
  OBVIOUS
<1>1. /\ UNCHANGED <<spec, generation, asked, sets>>
      /\ pos' = [at |-> "get", i |-> 0]
      /\ job' = [spec |-> spec, gen |-> generation,
                 read |-> [n \in Names |-> NoSet]]
  BY DEF Reconcile, Goto, NoJob, stoneVars, ownedVars, ghostVars
<1>2. Types'
  BY <1>1 DEF IInv, Types, Stages, Fits
<1>3. Faithful'
  BY <1>1 DEF IInv, Faithful, At, SpecAsked, Types
<1> QED
  BY <1>1, <1>2, <1>3 DEF IInv, OnlyAsked, SpecAsked, Exists

\* getStatefulSet fills in the strategy and reads the sets.
LEMMA GetInv == IInv /\ getStatefulSet => IInv'
<1> SUFFICES ASSUME IInv, getStatefulSet PROVE IInv'
  OBVIOUS
<1>1. /\ At("get") /\ pos' = [at |-> "sets", i |-> 1]
      /\ UNCHANGED <<spec, generation, asked, sets>>
      /\ job'.spec = Normalised(job.spec) /\ job'.gen = job.gen
      /\ job' \in [spec : {Normalised(job.spec)}, gen : Nat,
                   read : [Names -> StatefulSet \cup {NoSet}]]
  BY DEF getStatefulSet, Goto, stoneVars, ownedVars, ghostVars, IInv, Types
<1>2. /\ Fits(Normalised(job.spec))
      /\ Normalised(Normalised(job.spec)) = Normalised(job.spec)
  BY NormalisedType DEF IInv, Types
<1>3. Types'
  BY <1>1, <1>2 DEF IInv, Types, Stages, Fits
<1>4. Faithful'
  BY <1>1, <1>2 DEF IInv, Faithful, At
<1> QED
  BY <1>1, <1>3, <1>4 DEF IInv, OnlyAsked, SpecAsked, Exists

\* CreateStatefulSet gives a missing set the size the round's spec asks for,
\* or ends the round.
LEMMA CreateInv == IInv /\ CreateStatefulSet => IInv'
<1> SUFFICES ASSUME IInv, CreateStatefulSet PROVE IInv'
  OBVIOUS
<1>1. /\ At("sets") /\ pos.i \in Selected(job.spec)
      /\ UNCHANGED <<spec, generation, asked>>
  BY DEF CreateStatefulSet, AtGroup, stoneVars, ghostVars
<1>2. CASE Exists(job.read[HereName])
  BY <1>1, <1>2, EndInv DEF CreateStatefulSet, Retry
<1>3. CASE ~Exists(job.read[HereName])
  <2> DEFINE size == Size(job.spec, pos.i)
             new == [size |-> size, template |-> job.spec.template,
                     status |-> 0]
  <2>1. /\ sets' = [sets EXCEPT ![HereName] = new]
        /\ pos' = [at |-> "sets", i |-> pos.i + 1] /\ job' = job
    BY <1>3 DEF CreateStatefulSet, Goto
  <2>2. HereName \in Names /\ size \in Nat
    BY <1>1, SelectedTypes DEF IInv, Types, HereName
  <2>3. <<HereName, size>> \in asked
    BY <1>1, AskedSelected DEF IInv, Types, Faithful, At, HereName
  <2>4. new \in StatefulSet /\ new.size = size
    BY <2>2 DEF StatefulSet, IInv, Types, Fits, SpecType
  <2> HIDE DEF new
  <2>5. Types'
    BY <1>1, <2>1, <2>2, <2>4 DEF IInv, Types, Stages, Fits
  <2>6. \A n \in Names : Exists(sets'[n]) =>
          \/ Exists(sets[n]) /\ sets'[n].size = sets[n].size
          \/ <<n, sets'[n].size>> \in asked
    BY <2>1, <2>2, <2>3, <2>4 DEF IInv, Types, Exists
  <2> QED
    BY <1>1, <2>1, <2>5, <2>6, QuietInv DEF At
<1> QED
  BY <1>2, <1>3

\* updateStatefulSet gives a set the size the round's spec asks for, leaves it
\* alone, or ends the round.
LEMMA UpdateInv == IInv /\ updateStatefulSet => IInv'
<1> SUFFICES ASSUME IInv, updateStatefulSet PROVE IInv'
  OBVIOUS
<1> DEFINE size == Size(job.spec, pos.i)
           new == [sets[HereName] EXCEPT !.size = size,
                                         !.template = job.spec.template]
<1>0. CASE Outdated /\ ~Exists(job.read[HereName])
  BY <1>0, EndInv DEF updateStatefulSet, Retry, AtGroup, stoneVars, ghostVars
<1> SUFFICES ASSUME ~(Outdated /\ ~Exists(job.read[HereName])) PROVE IInv'
  BY <1>0
<1>1. /\ At("sets") /\ pos.i \in Selected(job.spec)
      /\ Exists(sets[HereName])
      /\ UNCHANGED <<spec, generation, asked, job>>
      /\ pos' \in {[at |-> "sets", i |-> pos.i + 1], [at |-> "get", i |-> 0]}
      /\ sets' = sets \/ sets' = [sets EXCEPT ![HereName] = new]
  BY DEF updateStatefulSet, AtGroup, Goto, stoneVars, ghostVars
<1>2. HereName \in Names /\ size \in Nat
  BY <1>1, SelectedTypes DEF IInv, Types, HereName
<1>3. <<HereName, size>> \in asked
  BY <1>1, AskedSelected DEF IInv, Types, Faithful, At, HereName
<1>4. new \in StatefulSet /\ new.size = size
  <2>1. sets[HereName] \in StatefulSet
    BY <1>1, <1>2 DEF IInv, Types, Exists
  <2> QED
    BY <2>1, <1>2 DEF StatefulSet, IInv, Types, Fits, SpecType
<1> HIDE DEF new
<1>5. Types'
  BY <1>1, <1>2, <1>4 DEF IInv, Types, Stages, Fits
<1>6. \A n \in Names : Exists(sets'[n]) =>
        \/ Exists(sets[n]) /\ sets'[n].size = sets[n].size
        \/ <<n, sets'[n].size>> \in asked
  BY <1>1, <1>2, <1>3, <1>4 DEF IInv, Types, Exists
<1> QED
  BY <1>1, <1>5, <1>6, QuietInv DEF At

\* Steps of the round that touch neither the spec nor a set.
LEMMA LoopInv == IInv /\ (SetsDone \/ updateService) => IInv'
<1> SUFFICES ASSUME IInv, SetsDone \/ updateService PROVE IInv'
  OBVIOUS
<1>1. /\ pos.at \in {"sets", "services"}
      /\ pos' \in [at : {"services"}, i : {1, pos.i + 1}]
      /\ UNCHANGED <<spec, generation, asked, sets, job>>
  BY DEF SetsDone, updateService, Through, AtGroup, At, Goto, stoneVars,
         ownedVars, ghostVars
<1>2. Types'
  BY <1>1 DEF IInv, Types, Stages, Fits
<1> QED
  BY <1>1, <1>2, QuietInv DEF At, Exists

\* UpdateSpec stores what the user wrote, with the strategy filled in.
LEMMA UpdateSpecFacts ==
  ASSUME IInv, UpdateSpec
  PROVE  IInv' /\ spec' \in {spec, Normalised(spec)}
<1>1. /\ At("services")
      /\ UNCHANGED <<generation, sets, asked>>
  BY DEF UpdateSpec, Through, ownedVars, ghostVars
<1>2. CASE ~Unedited
  BY <1>1, <1>2, EndInv DEF UpdateSpec, Retry
<1>3. CASE Unedited
  <2>1. /\ spec' = job.spec /\ job' = job
        /\ pos' = [at |-> "status", i |-> 0]
    BY <1>3 DEF UpdateSpec, Goto
  <2>2. job.spec = Normalised(spec) /\ job.spec = Normalised(job.spec)
    BY <1>1, <1>3 DEF IInv, Faithful, At, Unedited
  <2>3. Types'
    BY <1>1, <2>1 DEF IInv, Types, Stages, Fits
  <2>4. SpecAsked' /\ OnlyAsked'
    BY <1>1, <2>1, <2>2 DEF IInv, SpecAsked, OnlyAsked, Exists
  <2>5. Faithful'
    BY <1>1, <2>1, <2>2 DEF IInv, Faithful, At
  <2> QED
    BY <2>1, <2>2, <2>3, <2>4, <2>5 DEF IInv
<1> QED
  BY <1>2, <1>3

\* An edit is recorded, and makes the round in progress a stale one.
LEMMA EditInv == IInv /\ Edit => IInv'
<1> SUFFICES ASSUME IInv, Edit PROVE IInv'
  OBVIOUS
<1>1. PICK s \in Specs : spec' = s /\ asked' = asked \cup AskedBy(s)
  BY DEF Edit
<1>2. /\ generation' = generation + 1 /\ generation \in Nat
      /\ UNCHANGED <<sets, pos, job>>
  BY DEF Edit, ownedVars, IInv, Types
<1>3. Types'
  BY <1>1, <1>2, StoneAssumption DEF IInv, Types, Fits
<1>4. SpecAsked' /\ OnlyAsked'
  <2>1. AskedBy(Normalised(s)) = AskedBy(s)
    BY <1>1, <1>3, AskedSelected DEF Types
  <2> QED
    BY <1>1, <1>2, <2>1 DEF IInv, SpecAsked, OnlyAsked, Exists
<1>5. Faithful'
  BY <1>1, <1>2 DEF IInv, Faithful, At, Types
<1> QED
  BY <1>3, <1>4, <1>5 DEF IInv

\* The StatefulSet controller changes no size, other clients add no set.
LEMMA OthersInv == IInv /\ (Fault \/ \E n \in Names : SetSync(n)) => IInv'
<1> SUFFICES ASSUME IInv, Fault \/ \E n \in Names : SetSync(n) PROVE IInv'
  OBVIOUS
<1>1. UNCHANGED <<spec, generation, asked, pos, job>>
  BY DEF Fault, SetSync, stoneVars, ghostVars
<1>2. PICK n \in Names :
        /\ Exists(sets[n])
        /\ \/ sets' = [sets EXCEPT ![n] = NoSet]
           \/ sets' = [sets EXCEPT ![n].status = sets[n].size]
  BY DEF Fault, SetSync
<1>3. sets[n] \in StatefulSet
  BY <1>2 DEF IInv, Types, Exists
<1> DEFINE synced == [sets[n] EXCEPT !.status = sets[n].size]
<1>4. synced \in StatefulSet /\ synced.size = sets[n].size
  BY <1>3 DEF StatefulSet
<1>5. \/ sets' = [sets EXCEPT ![n] = NoSet]
      \/ sets' = [sets EXCEPT ![n] = synced]
  BY <1>2
<1> HIDE DEF synced
<1>6. Types'
  BY <1>1, <1>4, <1>5 DEF IInv, Types, Fits
<1>7. \A m \in Names : Exists(sets'[m]) =>
        Exists(sets[m]) /\ sets'[m].size = sets[m].size
  BY <1>2, <1>4, <1>5 DEF IInv, Types, Exists
<1> QED
  BY <1>1, <1>6, <1>7, QuietInv

\* Every step keeps the invariant.
LEMMA NextInv == IInv /\ [Next]_vars => IInv'
<1> SUFFICES ASSUME IInv, [Next]_vars PROVE IInv'
  OBVIOUS
<1>1. CASE Reconcile
  BY <1>1, ReconcileInv
<1>2. CASE getStatefulSet
  BY <1>2, GetInv
<1>3. CASE CreateStatefulSet
  BY <1>3, CreateInv
<1>4. CASE updateStatefulSet
  BY <1>4, UpdateInv
<1>5. CASE SetsDone \/ updateService
  BY <1>5, LoopInv
<1>6. CASE UpdateSpec
  BY <1>6, UpdateSpecFacts
<1>7. CASE UpdateStatus
  BY <1>7, EndInv DEF UpdateStatus, Retry, ownedVars, ghostVars
<1>8. CASE Fails
  BY <1>8, EndInv DEF Fails, Retry, stoneVars, ownedVars
<1>9. CASE Edit
  BY <1>9, EditInv
<1>10. CASE Fault \/ \E n \in Names : SetSync(n)
  BY <1>10, OthersInv
<1>11. CASE UNCHANGED vars
  BY <1>11 DEF IInv, vars, stoneVars, ownedVars, procVars, ghostVars, Types,
               OnlyAsked, SpecAsked, Faithful, At, Exists, Fits
<1> QED
  BY <1>1, <1>2, <1>3, <1>4, <1>5, <1>6, <1>7, <1>8, <1>9, <1>10, <1>11
  DEF Next, Worker

\* No StatefulSet ever has a size, or belongs to a group, that no spec of the
\* user asked for, however stale the round that wrote it: with Alpha, or a
\* strategy stone_controller.go does not know, one pod of the first group.
THEOREM NothingUnasked == Spec => []OnlyAsked
<1>1. IInv => OnlyAsked
  BY DEF IInv
<1> QED
  BY InitInv, NextInv, <1>1, PTL DEF Spec

\* updateStone writes the whole Stone back and still never undoes an edit.
THEOREM EditsAlwaysSurvive == Spec => EditsSurvive
<1> DEFINE Kept == pos' # pos => spec' \in {spec, Normalised(spec)}
<1>1. IInv /\ [Next]_vars => [Kept]_vars
  <2> SUFFICES ASSUME IInv, Next PROVE Kept
    OBVIOUS
  <2>1. CASE UpdateSpec
    BY <2>1, UpdateSpecFacts
  <2>2. CASE Edit
    BY <2>2 DEF Edit
  <2>3. CASE Next /\ ~UpdateSpec /\ ~Edit
    BY <2>3
    DEF Next, Worker, Reconcile, getStatefulSet, CreateStatefulSet,
        updateStatefulSet, SetsDone, updateService, UpdateStatus, Fails, Fault,
        SetSync, stoneVars
  <2> QED
    BY <2>1, <2>2, <2>3
<1> QED
  BY InitInv, NextInv, <1>1, PTL DEF Spec, EditsSurvive

-----------------------------------------------------------------------------
(* The types.                                                               *)

StatusType == [replicas : Nat, statefulSet : Nat]

\* The status computed from the selected sets is one of numbers: a set that
\* is not there yet counts for nothing.
LEMMA StatusCounts ==
  ASSUME NEW s, Fits(s), sets \in [Names -> StatefulSet \cup {NoSet}]
  PROVE  ExpectStatus(s) \in StatusType
<1> DEFINE D == SelectedNames(s)
           F == [n \in D |-> StatusReplicas(n)]
<1>1. IsFiniteSet(Selected(s))
  <2>1. Len(s.coordinates) \in Nat /\ DOMAIN s.coordinates = 1 .. Len(s.coordinates)
    BY LenProperties DEF Fits, SpecType
  <2>2. Selected(s) \subseteq 1 .. Len(s.coordinates)
    BY <2>1 DEF Selected
  <2>3. IsFiniteSet(1 .. Len(s.coordinates))
    BY <2>1, FS_Interval
  <2> QED
    BY <2>2, <2>3, FS_Subset
<1>2. IsFiniteSet(D) /\ Cardinality(D) \in Nat
  <2> DEFINE g == [i \in Selected(s) |-> statefulSetName(s, i)]
             T == {g[i] : i \in Selected(s)}
  <2>1. T = D
    BY DEF SelectedNames
  <2>2. g \in Surjection(Selected(s), T)
    BY DEF Surjection
  <2>3. IsFiniteSet(T)
    <3> HIDE DEF g, T
    <3> QED
      BY <1>1, <2>2, FS_Surjection
  <2> QED
    BY <2>1, <2>3, FS_CardinalityType
<1>3. \A n \in D : StatusReplicas(n) \in Nat
  <2> SUFFICES ASSUME NEW n \in D PROVE StatusReplicas(n) \in Nat
    OBVIOUS
  <2>1. n \in Names
    BY SelectedTypes DEF SelectedNames
  <2>2. sets[n] \in StatefulSet \cup {NoSet}
    BY <2>1
  <2>3. CASE Exists(sets[n])
    <3>1. sets[n] \in StatefulSet
      BY <2>2, <2>3 DEF Exists
    <3>2. sets[n].status \in Nat
      BY <3>1 DEF StatefulSet
    <3> QED
      BY <2>3, <3>2 DEF StatusReplicas
  <2>4. CASE ~Exists(sets[n])
    BY <2>4 DEF StatusReplicas
  <2> QED
    BY <2>3, <2>4
<1> HIDE DEF D
<1>4. DOMAIN F = D /\ F \in [D -> Nat]
  BY <1>3
<1> HIDE DEF F
<1>5. SumFunction(F) \in Nat
  BY <1>2, <1>4, SumIsNat
<1>6. ExpectStatus(s) = [replicas |-> SumFunction(F),
                         statefulSet |-> Cardinality(D)]
  BY Zenon DEF ExpectStatus, D, F
<1> QED
  BY <1>2, <1>5, <1>6 DEF StatusType

\* What a spec asks for are names and sizes.
LEMMA AskedTypes ==
  ASSUME NEW s, Fits(s)
  PROVE  AskedBy(s) \subseteq Names \X Nat
<1>1. /\ s.coordinates \in Seq(CoordinatesGroup)
      /\ Len(s.coordinates) \in Nat /\ Len(s.coordinates) <= MaxGroups
      /\ DOMAIN s.coordinates = 1 .. Len(s.coordinates)
  BY LenProperties DEF Fits, SpecType
<1>2. ASSUME NEW i \in DOMAIN s.coordinates
      PROVE  /\ statefulSetName(s, i) \in Names
             /\ s.coordinates[i].replicas \in Nat
             /\ s.coordinates[i].machines \in Nat
  <2>1. s.coordinates[i] \in CoordinatesGroup /\ i \in 1 .. MaxGroups
    BY <1>1, StoneAssumption
  <2> QED
    BY <2>1 DEF statefulSetName, Names, CoordinatesGroup
<1> QED
  BY <1>2 DEF AskedBy

\* The types the argument above did not need.
RestTypes ==
  /\ annotation \in SpecType \cup {NoSpec}
  /\ status \in StatusType
  /\ services \subseteq Names
  /\ queued \in BOOLEAN
  /\ pos.i \in 0 .. MaxGroups + 1
  /\ asked \subseteq Names \X Nat
  /\ faults \in Nat /\ failures \in Nat

\* The loops over the groups stay within the list.
LEMMA LoopsStay ==
  ASSUME IInv, RestTypes, [Next]_vars
  PROVE  pos'.i \in 0 .. MaxGroups + 1
<1>1. \/ UNCHANGED pos
      \/ \E st \in Stages, k \in {0, 1} : Goto(st, k)
      \/ \E st \in Stages : Goto(st, pos.i + 1) /\ pos.i \in Selected(job.spec)
  <2>1. /\ "idle" \in Stages /\ "get" \in Stages /\ "sets" \in Stages
        /\ "services" \in Stages /\ "status" \in Stages
        /\ 0 \in {0, 1} /\ 1 \in {0, 1}
    BY DEF Stages
  <2> QED
    BY <2>1, Zenon DEF Next, Worker, vars, procVars, Retry, AtGroup, Reconcile,
       getStatefulSet, CreateStatefulSet, updateStatefulSet, SetsDone,
       updateService, UpdateSpec, UpdateStatus, Fails, Edit, Fault, SetSync
<1>2. CASE UNCHANGED pos
  BY <1>2 DEF RestTypes
<1>3. CASE \E st \in Stages, k \in {0, 1} : Goto(st, k)
  BY <1>3, StoneAssumption DEF Goto
<1>4. CASE \E st \in Stages : Goto(st, pos.i + 1) /\ pos.i \in Selected(job.spec)
  <2>1. pos'.i = pos.i + 1 /\ pos.i \in Selected(job.spec)
    BY <1>4 DEF Goto
  <2>2. pos.i \in 1 .. Len(job.spec.coordinates)
        /\ Len(job.spec.coordinates) \in Nat
        /\ Len(job.spec.coordinates) <= MaxGroups
    BY <2>1, LenProperties DEF Selected, IInv, Types, Fits, SpecType
  <2> QED
    BY <2>1, <2>2, StoneAssumption
<1> QED
  BY <1>1, <1>2, <1>3, <1>4

\* Every variable keeps its type: in particular the loops over the groups
\* stay within a list whose strategy changes under them, and the status adds
\* up only sets that are there.
THEOREM TypeCorrect == Spec => []TypeOK
<1>1. Init => RestTypes
  <2> SUFFICES ASSUME Init PROVE RestTypes
    OBVIOUS
  <2>1. /\ status \in StatusType /\ faults \in Nat /\ failures \in Nat
        /\ annotation \in SpecType \cup {NoSpec} /\ services \subseteq Names
        /\ pos.i \in 0 .. MaxGroups + 1
    BY StoneAssumption DEF Init, StatusType
  <2>2. queued \in BOOLEAN
    BY Zenon DEF Init
  <2>3. asked \subseteq Names \X Nat
    <3>1. Fits(InitSpec)
      BY StoneAssumption DEF Fits
    <3> QED
      BY <3>1, AskedTypes DEF Init
  <2> QED
    BY <2>1, <2>2, <2>3, Zenon DEF RestTypes
<1>2. IInv /\ RestTypes /\ [Next]_vars => RestTypes'
  <2> SUFFICES ASSUME IInv, RestTypes, [Next]_vars PROVE RestTypes'
    OBVIOUS
  <2>0. Fits(job.spec) /\ sets \in [Names -> StatefulSet \cup {NoSet}]
    BY DEF IInv, Types
  <2>1. annotation' \in SpecType \cup {NoSpec}
    <3>1. UNCHANGED annotation \/ annotation' = job.spec
      BY Zenon DEF Next, Worker, vars, stoneVars, Reconcile, getStatefulSet,
         CreateStatefulSet, updateStatefulSet, SetsDone, updateService,
         UpdateSpec, UpdateStatus, Fails, Edit, Fault, SetSync
    <3> QED
      BY <2>0, <3>1 DEF Fits, RestTypes
  <2>2. status' \in StatusType
    <3>1. UNCHANGED status \/ status' = ExpectStatus(job.spec)
      BY Zenon DEF Next, Worker, vars, stoneVars, Reconcile, getStatefulSet,
         CreateStatefulSet, updateStatefulSet, SetsDone, updateService,
         UpdateSpec, UpdateStatus, Fails, Edit, Fault, SetSync
    <3> QED
      BY <2>0, <3>1, StatusCounts DEF RestTypes
  <2>3. services' \subseteq Names
    <3>1. UNCHANGED services \/ updateService
      BY Zenon DEF Next, Worker, vars, ownedVars, Reconcile, getStatefulSet,
         CreateStatefulSet, updateStatefulSet, SetsDone, UpdateSpec,
         UpdateStatus, Fails, Edit, Fault, SetSync
    <3>2. ASSUME updateService PROVE HereName \in Names
      BY <2>0, <3>2, SelectedTypes DEF updateService, AtGroup, HereName
    <3> QED
      BY <3>1, <3>2 DEF updateService, RestTypes
  <2>4. queued' \in BOOLEAN
    <3>1. \/ UNCHANGED queued \/ queued' = TRUE \/ queued' = FALSE
          \/ queued' = (queued \/ <<spec, annotation>> # <<job.spec, job.spec>>)
          \/ queued' = (queued \/ status # ExpectStatus(job.spec))
      BY Zenon DEF Next, Worker, vars, procVars, Retry, Reconcile,
         getStatefulSet, CreateStatefulSet, updateStatefulSet, SetsDone,
         updateService, UpdateSpec, UpdateStatus, Fails, Edit, Fault, SetSync
    <3> QED
      BY <3>1, Zenon DEF RestTypes
  <2>5. asked' \subseteq Names \X Nat
    <3>1. UNCHANGED asked \/ \E s \in Specs : asked' = asked \cup AskedBy(s)
      BY Zenon DEF Next, Worker, vars, ghostVars, Reconcile, getStatefulSet,
         CreateStatefulSet, updateStatefulSet, SetsDone, updateService,
         UpdateSpec, UpdateStatus, Fails, Edit, Fault, SetSync
    <3>2. \A s \in Specs : AskedBy(s) \subseteq Names \X Nat
      <4>1. \A s \in Specs : Fits(s)
        BY StoneAssumption DEF Fits
      <4> QED
        BY <4>1, AskedTypes
    <3>3. asked \subseteq Names \X Nat
      BY DEF RestTypes
    <3> QED
      BY <3>1, <3>2, <3>3
  <2>6. faults' \in Nat /\ failures' \in Nat
    <3>1. UNCHANGED faults \/ faults' = faults + 1
      BY Zenon DEF Next, Worker, vars, ghostVars, Reconcile, getStatefulSet,
         CreateStatefulSet, updateStatefulSet, SetsDone, updateService,
         UpdateSpec, UpdateStatus, Fails, Edit, Fault, SetSync
    <3>2. UNCHANGED failures \/ failures' = failures + 1
      BY Zenon DEF Next, Worker, vars, ghostVars, Reconcile, getStatefulSet,
         CreateStatefulSet, updateStatefulSet, SetsDone, updateService,
         UpdateSpec, UpdateStatus, Fails, Edit, Fault, SetSync
    <3> QED
      BY <3>1, <3>2 DEF RestTypes
  <2> QED
    BY <2>1, <2>2, <2>3, <2>4, <2>5, <2>6, LoopsStay, Zenon DEF RestTypes
<1>3. IInv /\ RestTypes => TypeOK
  <2> SUFFICES ASSUME IInv, RestTypes PROVE TypeOK
    OBVIOUS
  <2>1. pos \in [at : Stages, i : 0 .. MaxGroups + 1]
    BY DEF IInv, Types, RestTypes
  <2> QED
    BY <2>1, Zenon DEF IInv, Types, Fits, RestTypes, StatusType, TypeOK
<1> QED
  BY <1>1, <1>2, <1>3, InitInv, NextInv, PTL DEF Spec
=============================================================================
