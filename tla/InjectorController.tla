------------------------- MODULE InjectorController -------------------------
(***************************************************************************)
(* The controller of Injectors (src/controllers/injector_controller.go)    *)
(* beside the webhooks of the same process: it makes the Water or Stone an *)
(* Injector belongs to its owner, marks the pods it selects, and writes    *)
(* the Injector back.  One action is one call to the API server.           *)
(***************************************************************************)
EXTENDS WebhookServer

CONSTANTS
  MaxParents   \* how often the Water or Stone is created

ASSUME ParentsAssumption == MaxParents \in Nat

VARIABLES
  parent,   \* uid of the Water or Stone the Injectors name, 0 when absent;
            \* it is in the namespace of those that are not foreign
  parents,  \* how many there have been
  queue,    \* the keys of Injectors in the work queue
  at,       \* where the running reconcile is
  job       \* what it holds

parentVars == <<parent, parents>>
workVars == <<queue, at, job>>
vars == <<clusterVars, up, cacheVars, budgetVars, parentVars, workVars>>

\* read: the Injector as it was read; todo: the listed pods that are not
\* marked yet, as they were listed.
NoJob == [i |-> "", read |-> {}, owner |-> 0, todo |-> [w \in Workloads |-> {}]]
Finish == at' = "idle" /\ job' = NoJob

-----------------------------------------------------------------------------

\* The pods an Injector selects that do not carry its mark.
Unmarked(i) ==
  [w \in Workloads |->
     IF <<i, w>> \in Selects THEN {p \in pods[w] : i \notin p.bounced} ELSE {}]

\* Mutant: a missing Water or Stone is not waited for.
DoesNotWait(inj) ==
  ~inj.spec.named \/ inj.spec.foreign \/ ~inj.spec.valid

\* The spec gives no name, the Water or Stone is missing or in another
\* namespace, or the selector is malformed: the key is tried again later.
Hopeless(inj) ==
  \/ ~inj.spec.named
  \/ inj.spec.resource /\ parent = 0
  \/ inj.spec.resource /\ inj.owner = 0 /\ inj.spec.foreign
  \/ ~inj.spec.valid

\* The owner the Injector is written back with.
ownerReference(inj) ==
  IF inj.spec.resource /\ inj.owner = 0 THEN parent ELSE inj.owner

\* Reconcile up to its first write.  An Injector that is gone is done with.
Reconcile(i) ==
  /\ up /\ at = "idle"
  /\ i \in queue
  /\ \A inj \in injectorCache[i] : ~Hopeless(inj)
  /\ queue' = queue \ {i}
  /\ IF injectorCache[i] = {} THEN Finish
     ELSE \E inj \in injectorCache[i] :
            /\ at' = "bounce"
            /\ job' = [i |-> i, read |-> {inj}, todo |-> Unmarked(i),
                       owner |-> ownerReference(inj)]
  /\ UNCHANGED <<clusterVars, up, cacheVars, budgetVars, parentVars>>

\* A call answers an error: the key is put back.
Requeue == queue' = queue \cup {job.i} /\ Finish

\* Mutants: the pod that was listed replaces the stored one; a marked pod is
\* created beside it.
WritesListed(w, p) ==
  pods' = [pods EXCEPT ![w] = {[p EXCEPT !.bounced = @ \cup {job.i}]}]

CreatesMarked(w, p) ==
  pods' = [pods EXCEPT ![w] = @ \cup {[p EXCEPT !.bounced = @ \cup {job.i}]}]

\* The stored pod gets the mark, if it still is what was listed.
Mark(w, p) ==
  /\ pods[w] = {p}
  /\ pods' = [pods EXCEPT ![w] = {[p EXCEPT !.bounced = @ \cup {job.i}]}]

Bounce(w) ==
  /\ up /\ at = "bounce"
  /\ \E p \in job.todo[w] : Mark(w, p)
  /\ job' = [job EXCEPT !.todo[w] = {}]
  /\ UNCHANGED <<limit, injectors, objects, children, up, cacheVars,
                 budgetVars, parentVars, queue, at>>

\* The pod was written or deleted since it was listed.
BounceConflict(w) ==
  /\ up /\ at = "bounce"
  /\ \E p \in job.todo[w] : pods[w] # {p}
  /\ Requeue
  /\ UNCHANGED <<clusterVars, up, cacheVars, budgetVars, parentVars>>

Bounced == up /\ at = "bounce" /\ \A w \in Workloads : job.todo[w] = {}

\* Mutant: the version that was read is not compared.
AnyVersion == injectors[job.i] # {}

Unchanged == injectors[job.i] = job.read

\* The Injector is written back with its owner.
UpdateInjector ==
  /\ Bounced
  /\ Unchanged
  /\ injectors' = [injectors EXCEPT ![job.i] =
                     {[j EXCEPT !.owner = job.owner] : j \in job.read}]
  /\ Finish
  /\ UNCHANGED <<limit, objects, children, pods, up, cacheVars, budgetVars,
                 parentVars, queue>>

UpdateConflict ==
  /\ Bounced
  /\ ~Unchanged
  /\ Requeue
  /\ UNCHANGED <<clusterVars, up, cacheVars, budgetVars, parentVars>>

CallFails ==
  /\ up /\ at = "bounce"
  /\ Fails
  /\ Requeue
  /\ UNCHANGED <<clusterVars, up, cacheVars, parentVars>>

-----------------------------------------------------------------------------
(* Around the controller.                                                   *)

\* The informer delivers the Injectors and enqueues those that changed.
SyncInjectors ==
  /\ up /\ injectorCache # injectors
  /\ injectorCache' = injectors
  /\ queue' = queue \cup {i \in Injectors : injectorCache[i] # injectors[i]}
  /\ UNCHANGED <<clusterVars, up, limitCache, budgetVars, parentVars, at, job>>

\* The Water or Stone is created or deleted; no event reaches this
\* controller, which watches those only that an Injector owns.
WriteParent ==
  /\ UserActs
  /\ \/ /\ parent = 0 /\ parents < MaxParents
        /\ parents' = parents + 1
        /\ parent' = parents'
     \/ parent # 0 /\ parent' = 0 /\ UNCHANGED parents
  /\ UNCHANGED <<clusterVars, up, cacheVars, workVars>>

\* The garbage collector: the owner of the Injector is gone.
Collect(i) ==
  /\ \E inj \in injectors[i] : inj.owner \notin {0, parent}
  /\ injectors' = [injectors EXCEPT ![i] = {}]
  /\ UNCHANGED <<limit, objects, children, pods, up, cacheVars, budgetVars,
                 parentVars, workVars>>

Crash ==
  /\ up
  /\ Fails
  /\ up' = FALSE
  /\ Finish
  /\ UNCHANGED <<clusterVars, cacheVars, parentVars, queue>>

\* The informers list everything anew before the workers start.
Restart ==
  /\ ~up
  /\ up' = TRUE
  /\ limitCache' = limit /\ injectorCache' = injectors
  /\ queue' = {i \in Injectors : injectors[i] # {}}
  /\ UNCHANGED <<clusterVars, budgetVars, parentVars, at, job>>

Init ==
  /\ Start
  /\ parent = 0 /\ parents = 0
  /\ queue = {} /\ at = "idle" /\ job = NoJob

Worker ==
  \/ \E i \in Injectors : Reconcile(i)
  \/ \E w \in Workloads : Bounce(w) \/ BounceConflict(w)
  \/ UpdateInjector \/ UpdateConflict

Next ==
  \/ Admission /\ UNCHANGED <<parentVars, workVars>>
  \/ Worker \/ CallFails
  \/ SyncInjectors \/ WriteParent \/ Crash \/ Restart
  \/ \E i \in Injectors : Collect(i)

\* The informers, the workers, the workload controllers, the scheduler and
\* the garbage collector keep running and a crashed process is started again.
Fairness ==
  /\ WF_vars(SyncNamespace /\ UNCHANGED <<parentVars, workVars>>)
  /\ WF_vars(SyncInjectors)
  /\ WF_vars(Restart)
  /\ \A i \in Injectors : WF_vars(Reconcile(i)) /\ WF_vars(Collect(i))
  /\ WF_vars(UpdateInjector \/ UpdateConflict)
  /\ \A w \in Workloads :
       /\ WF_vars(Bounce(w) \/ BounceConflict(w))
       /\ WF_vars(CreateChild(w) /\ UNCHANGED <<parentVars, workVars>>)
       /\ WF_vars(CreatePod(w) /\ UNCHANGED <<parentVars, workVars>>)
       /\ WF_vars(Schedule(w) /\ UNCHANGED <<parentVars, workVars>>)

Spec == Init /\ [][Next]_vars
FairSpec == Spec /\ Fairness

-----------------------------------------------------------------------------
(* Properties.                                                              *)

InjectorType ==
  [spec : InjectorSpecs, version : 0 .. MaxEdits, owner : 0 .. MaxParents]

\* Every variable keeps its type; an owner is one of the parents there were.
TypeOK ==
  /\ limit \in Optional(Limits) /\ limitCache \in Optional(Limits)
  /\ injectors \in [Injectors -> Optional(InjectorType)]
  /\ injectorCache \in [Injectors -> Optional(InjectorType)]
  /\ \A w \in Workloads : /\ Cardinality(objects[w]) <= 1
                          /\ Cardinality(children[w]) <= 1
                          /\ Cardinality(pods[w]) <= 1
  /\ up \in BOOLEAN
  /\ parent \in {0, parents} /\ parents \in 0 .. MaxParents
  /\ queue \subseteq Injectors
  /\ at \in {"idle", "bounce"} /\ job.owner \in 0 .. MaxParents
  /\ edits \in 0 .. MaxEdits /\ faults \in 0 .. MaxFaults

\* Writing a listed pod or the Injector that was read back as a whole undoes
\* nothing that happened since: a pod keeps its uid and its node, and only
\* the user changes the spec of an Injector.
NothingUndone ==
  [][/\ \A w \in Workloads : \A p \in pods[w], q \in pods'[w] :
          at = "bounce" /\ job # job' => q.uid = p.uid /\ p.node \subseteq q.node
     /\ \A i \in Injectors : \A j \in injectors[i], k \in injectors'[i] :
          j.spec # k.spec => edits' # edits]_vars

\* An Injector that names a Water or Stone of its namespace, and whose
\* selector can be converted, comes to be owned by it, whichever of the two
\* is created first and whatever fails: it is collected with its owner
\* ("When Water is deleted, the corresponding Injector resource will also be
\* GC").
InjectorOwned ==
  <>[](\A i \in Injectors : \A inj \in injectors[i] :
         /\ inj.spec.named /\ inj.spec.resource /\ ~inj.spec.foreign
         /\ inj.spec.valid /\ parent # 0
         => inj.owner = parent)

\* No pod of w can be stored: a selector of the namespace is malformed, or an
\* Injector selects a pod with several containers or with mounted volumes.
Blocked(w) ==
  \/ \E i \in Injectors : \E j \in injectors[i] : ~j.spec.valid
  \/ \E i \in Injectors : \E j \in injectors[i] :
       /\ <<i, w>> \in Selects
       /\ \/ Len(Template[w].containers) > 1 /\ j.spec.pre \o j.spec.post # <<>>
          \/ Template[w].mounts # {}

\* Every workload gets its pod and every pod a node, unless the pod is one
\* the webhook's answer makes invalid.
PodsRun ==
  <>[](\A w \in Workloads : \A o \in objects[w] :
         Blocked(w) \/ \E p \in pods[w] : p.node # {})
=============================================================================
