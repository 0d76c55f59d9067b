---------------------------- MODULE WebhookServer ----------------------------
(***************************************************************************)
(* The admission webhooks (src/api/v1/webhook.go) of one namespace: the    *)
(* node affinity a namespace annotation gives to workloads, and the        *)
(* sidecars an Injector adds to pods, with the API server, the workload    *)
(* controllers and the scheduler that act on what they answer.             *)
(*                                                                         *)
(* An optional value is a set with at most one element.  A workload is an  *)
(* object a user creates; a Deployment or a CronJob is run through an      *)
(* object of its own, here called its child, and every workload runs one   *)
(* pod.  The token volume of the service account, which the API server     *)
(* puts back after a webhook removed it, is left out.                      *)
(***************************************************************************)
EXTENDS Integers, FiniteSets, SequencesExt, Functions

CONSTANTS
  Namespace,      \* the namespace's name
  Nodes,          \* the nodes, [zone, rack, host]
  Rules,          \* the kinds the webhook configuration sends to the server
  Workloads,      \* names of workloads
  Template,       \* the kind and the pod template of each workload
  Limits,         \* the values the user may give to the limit annotation
  Injectors,      \* names of Injectors
  InjectorSpecs,  \* the specs the user may give them (InjectorController)
  Selects,        \* <<i, w>>: the selector of Injector i matches w's pods
  MaxEdits,       \* bound on what the user does
  MaxFaults       \* bound on evictions, failing calls and crashes

Optional(S) == {{}} \cup {{x} : x \in S}

\* The kinds namespaceMutateResource knows.
Handled == {"Deployment", "StatefulSet", "ReplicationController",
            "ReplicaSet", "Job", "CronJob"}

ASSUME NodesAssumption == \A n \in Nodes : DOMAIN n = {"zone", "rack", "host"}
ASSUME LimitsAssumption ==
  \A l \in Limits : l.parses \in BOOLEAN /\ l.coordinates \in Seq(Nodes)
ASSUME TemplateAssumption ==
  \A w \in Workloads :
    /\ Template[w].kind \in Handled
    /\ Template[w].containers \in Seq(STRING) \ {<<>>}
    /\ IsInjective(Template[w].containers)
    /\ Template[w].mounts \subseteq ToSet(Template[w].volumes)
    /\ Cardinality(Template[w].affinity) <= 1
ASSUME SpecsAssumption ==
  \A s \in InjectorSpecs : {s.pre, s.post} \subseteq Seq(STRING)
ASSUME SelectsAssumption == Selects \subseteq Injectors \X Workloads
ASSUME BoundsAssumption == MaxEdits \in Nat /\ MaxFaults \in Nat

VARIABLES
  \* --- the API server
  limit,       \* the namespace's limit annotation
  injectors,   \* the Injectors
  objects,     \* the workloads as stored
  children,    \* the child of each workload
  pods,        \* the pod of each workload
  \* --- the process
  up,          \* is it running?
  limitCache, injectorCache, \* what its informers delivered last
  \* --- how much of the budget is spent
  edits, faults

clusterVars == <<limit, injectors, objects, children, pods>>
cacheVars == <<limitCache, injectorCache>>
budgetVars == <<edits, faults>>

-----------------------------------------------------------------------------
(* The namespace's limit.                                                   *)

\* The elements of arr at some positions, in their order.
Rank(positions, i) == Cardinality({j \in positions : j <= i})
Pick(arr, positions) ==
  [k \in 1 .. Cardinality(positions) |->
     arr[CHOOSE i \in positions : Rank(positions, i) = k]]

LastOccurrences(arr) ==
  {i \in DOMAIN arr : \A j \in i + 1 .. Len(arr) : arr[j] # arr[i]}

\* Mutant: the first occurrences are dropped, but the last of all with them.
DropsLast(arr) == Pick(arr, LastOccurrences(arr) \ {Len(arr)})

\* Of equal elements the last one is kept.
removeRepeatedElement(arr) == Pick(arr, LastOccurrences(arr))

\* Mutant: the racks are left out, every rack of a zone will do.
AnyRack(coordinates) ==
  [zones |-> removeRepeatedElement(
               [k \in DOMAIN coordinates |-> coordinates[k].zone]),
   racks |-> SetToSeq({n.rack : n \in Nodes}),
   hosts |-> [k \in DOMAIN coordinates |-> coordinates[k].host]]

\* A node must be in one of the zones and in one of the racks; the hosts are
\* preferred.
convertToNodeSelectorAffinity(coordinates) ==
  [zones |-> removeRepeatedElement(
               [k \in DOMAIN coordinates |-> coordinates[k].zone]),
   racks |-> [k \in DOMAIN coordinates |-> coordinates[k].rack],
   hosts |-> [k \in DOMAIN coordinates |-> coordinates[k].host]]

\* What the limit makes of the affinity of a template; empty when the
\* annotation cannot be parsed.
updateNamespaceForResourceLimitRange(affinity) ==
  IF limitCache = {} THEN {affinity}
  ELSE UNION {IF ~l.parses THEN {}
              ELSE IF affinity # {} THEN {affinity}
              ELSE {{convertToNodeSelectorAffinity(l.coordinates)}}
                : l \in limitCache}

\* Mutant: owned objects are changed like others.
ChangesOwned(kind, owned, affinity) ==
  IF kind \notin Rules \cap Handled \/ ~up THEN {affinity}
  ELSE updateNamespaceForResourceLimitRange(affinity)

\* What becomes of the affinity of an object that is created; empty when the
\* creation is refused.  An owned object gets an empty answer, which the API
\* server takes for a failure of the webhook and ignores, as it does when the
\* process is down.
namespaceMutateResource(kind, owned, affinity) ==
  IF kind \notin Rules \cap Handled \/ ~up \/ owned THEN {affinity}
  ELSE updateNamespaceForResourceLimitRange(affinity)

\* The API server refuses a requirement without values.
ValidAffinity(affinity) ==
  \A a \in affinity : a.zones # <<>> /\ a.racks # <<>>

\* The scheduler.
Admits(affinity, n) ==
  \A a \in affinity : n.zone \in ToSet(a.zones) /\ n.rack \in ToSet(a.racks)

-----------------------------------------------------------------------------
(* The sidecars.                                                            *)

\* The loop over the containers of the pod and, in it, over the sidecars: which
\* container and which sidecar the m-th turn of the inner loop is about.
OwnAt(m, sidecars) == (m - 1) \div Len(sidecars) + 1
SidecarAt(m, sidecars) == ((m - 1) % Len(sidecars)) + 1

\* Mutants: a sidecar is always renamed, or never.
AlwaysRenames(own, sidecars, base) ==
  [m \in 1 .. Len(own) * Len(sidecars) |->
     [name |-> sidecars[SidecarAt(m, sidecars)],
      copy |-> base + OwnAt(m, sidecars)]]
NeverRenames(own, sidecars, base) ==
  [m \in 1 .. Len(own) * Len(sidecars) |->
     [name |-> sidecars[SidecarAt(m, sidecars)], copy |-> 0]]

\* Every sidecar, once for each container of the pod, renamed when the names
\* are the same.  copy stands for the random part of the name.
Sidecars(own, sidecars, base) ==
  [m \in 1 .. Len(own) * Len(sidecars) |->
     LET i == OwnAt(m, sidecars)
         k == SidecarAt(m, sidecars)
     IN  [name |-> sidecars[k],
          copy |-> IF sidecars[k] = own[i] THEN base + i ELSE 0]]

Plain(own) == [i \in DOMAIN own |-> [name |-> own[i], copy |-> 0]]

InjectedContainers(own, inj) ==
  Sidecars(own, inj.pre, 0) \o Plain(own) \o Sidecars(own, inj.post, Len(own))

\* The Injector's volumes replace the pod's: all of them when it has none,
\* otherwise those with another name, once for each volume of the pod.
InjectedVolumes(own, inj) ==
  IF own = <<>> THEN inj.volumes
  ELSE FlattenSeq([i \in DOMAIN own |->
         SelectSeq(inj.volumes, LAMBDA v : v # own[i])])

ignoredRequired(namespace) ==
  namespace \notin {"kube-system", "default", "kube-public"}

\* The pod a workload's template asks for, untouched.  by: the spec of the
\* Injector it was changed by.
PlainPod(w, affinity) ==
  [containers |-> Plain(Template[w].containers),
   volumes |-> Template[w].volumes, mounts |-> Template[w].mounts,
   affinity |-> affinity, by |-> {}]

\* A sidecar mounts the volumes of its Injector.
InjectedPod(w, affinity, inj) ==
  [containers |-> InjectedContainers(Template[w].containers, inj),
   volumes |-> InjectedVolumes(Template[w].volumes, inj),
   mounts |-> Template[w].mounts \cup
              (IF inj.pre \o inj.post = <<>> THEN {} ELSE ToSet(inj.volumes)),
   affinity |-> affinity, by |-> {inj}]

Present == {i \in Injectors : injectorCache[i] # {}}
CachedSpec(i) == (CHOOSE j \in injectorCache[i] : TRUE).spec

\* Those whose selector matches; any of them may be listed first.
filterInjectorPod(w) == {i \in Present : <<i, w>> \in Selects}

\* What may become of a pod that is created; empty when one selector of the
\* namespace, whether it concerns the pod or not, cannot be converted.
injectorMutatePods(w, affinity) ==
  CASE ~up \/ ~ignoredRequired(Namespace) -> {PlainPod(w, affinity)}
    [] \E i \in Present : ~CachedSpec(i).valid -> {}
    [] filterInjectorPod(w) = {} -> {PlainPod(w, affinity)}
    [] OTHER -> {InjectedPod(w, affinity, CachedSpec(i))
                   : i \in filterInjectorPod(w)}

\* The API server refuses a name used twice and a mount without a volume.
ValidPod(p) ==
  /\ IsInjective(p.containers)
  /\ IsInjective(p.volumes)
  /\ p.mounts \subseteq ToSet(p.volumes)

-----------------------------------------------------------------------------
(* The user.                                                                *)

UserActs == edits < MaxEdits /\ edits' = edits + 1 /\ UNCHANGED faults

AnnotateNamespace ==
  /\ UserActs
  /\ limit' \in Optional(Limits) \ {limit}
  /\ UNCHANGED <<injectors, objects, children, pods, up, cacheVars>>

\* The limit under which the webhook admits an object, if it does.
InForce(w) ==
  IF Template[w].kind \in Rules /\ up /\ Template[w].affinity = {}
  THEN limitCache ELSE {}

CreateWorkload(w) ==
  /\ UserActs
  /\ objects[w] = {}
  /\ \E a \in namespaceMutateResource(Template[w].kind, FALSE,
                                      Template[w].affinity) :
       /\ ValidAffinity(a)
       /\ objects' = [objects EXCEPT ![w] =
                        {[affinity |-> a, under |-> InForce(w)]}]
  /\ UNCHANGED <<limit, injectors, children, pods, up, cacheVars>>

\* The whole object is written again as it was sent first: updates do not
\* pass through the webhook.
ReplaceWorkload(w) ==
  /\ UserActs
  /\ \E o \in objects[w] : o.affinity # Template[w].affinity
  /\ objects' = [objects EXCEPT ![w] =
                   {[affinity |-> Template[w].affinity, under |-> {}]}]
  /\ UNCHANGED <<limit, injectors, children, pods, up, cacheVars>>

\* An Injector is created, rewritten or deleted.  A write changes its
\* version; owner 0: no owner reference.
WriteInjector(i) ==
  /\ UserActs
  /\ \/ \E s \in InjectorSpecs :
          /\ \A j \in injectors[i] : j.spec # s
          /\ injectors' = [injectors EXCEPT ![i] =
               {[spec |-> s, version |-> edits',
                 owner |-> IF @ = {} THEN 0 ELSE (CHOOSE j \in @ : TRUE).owner]}]
     \/ injectors[i] # {} /\ injectors' = [injectors EXCEPT ![i] = {}]
  /\ UNCHANGED <<limit, objects, children, pods, up, cacheVars>>

-----------------------------------------------------------------------------
(* The workload controllers, the scheduler and the informers.               *)

HasChild(w) == Template[w].kind \in {"Deployment", "CronJob"}
ChildKind(w) == IF Template[w].kind = "Deployment" THEN "ReplicaSet" ELSE "Job"

\* The child is made from the template of its owner; a child made from
\* another template is replaced, and its pod with it.
CreateChild(w) ==
  /\ HasChild(w)
  /\ \E o \in objects[w] :
       /\ \A c \in children[w] : c.template # o.affinity
       /\ \E a \in namespaceMutateResource(ChildKind(w), TRUE, o.affinity) :
            children' = [children EXCEPT ![w] =
                           {[affinity |-> a, template |-> o.affinity]}]
  /\ pods' = [pods EXCEPT ![w] = {}]
  /\ UNCHANGED <<limit, injectors, objects, up, cacheVars, budgetVars>>

Runner(w) == IF HasChild(w) THEN children[w] ELSE objects[w]

\* The pod is created, unless it is refused; uid is that of no other pod.
CreatePod(w) ==
  /\ pods[w] = {}
  /\ \E r \in Runner(w) : \E p \in injectorMutatePods(w, r.affinity) :
       /\ ValidPod(p)
       /\ pods' = [pods EXCEPT ![w] =
                     {[pod |-> p, uid |-> faults, node |-> {}, bounced |-> {}]}]
  /\ UNCHANGED <<limit, injectors, objects, children, up, cacheVars,
                 budgetVars>>

Schedule(w) ==
  /\ \E p \in pods[w], n \in Nodes :
       /\ p.node = {}
       /\ Admits(p.pod.affinity, n)
       /\ pods' = [pods EXCEPT ![w] = {[p EXCEPT !.node = {n}]}]
  /\ UNCHANGED <<limit, injectors, objects, children, up, cacheVars,
                 budgetVars>>

\* The informer delivers the namespace.
SyncNamespace ==
  /\ up /\ limitCache # limit
  /\ limitCache' = limit
  /\ UNCHANGED <<clusterVars, up, injectorCache, budgetVars>>

Fails == faults < MaxFaults /\ faults' = faults + 1 /\ UNCHANGED edits

Evict(w) ==
  /\ Fails
  /\ pods[w] # {}
  /\ pods' = [pods EXCEPT ![w] = {}]
  /\ UNCHANGED <<limit, injectors, objects, children, up, cacheVars>>

Start ==
  /\ limit = {}
  /\ injectors = [i \in Injectors |-> {}]
  /\ objects = [w \in Workloads |-> {}]
  /\ children = [w \in Workloads |-> {}]
  /\ pods = [w \in Workloads |-> {}]
  /\ up = TRUE
  /\ limitCache = limit /\ injectorCache = injectors
  /\ edits = 0 /\ faults = 0

Admission ==
  \/ AnnotateNamespace
  \/ SyncNamespace
  \/ \E i \in Injectors : WriteInjector(i)
  \/ \E w \in Workloads :
       \/ CreateWorkload(w) \/ ReplaceWorkload(w)
       \/ CreateChild(w) \/ CreatePod(w) \/ Schedule(w) \/ Evict(w)

-----------------------------------------------------------------------------
(* Properties.                                                              *)

\* A pod runs in a zone and in a rack the limit names under which its
\* workload was admitted, however often the limit, the caches or the process
\* changed before the child, the pod and its place were made.
PlacedWithinLimit ==
  \A w \in Workloads : \A o \in objects[w], p \in pods[w] :
    p.pod.affinity = o.affinity =>
      \A l \in o.under, n \in p.node :
        /\ \E c \in ToSet(l.coordinates) : c.zone = n.zone
        /\ \E c \in ToSet(l.coordinates) : c.rack = n.rack

\* A pod whose workload was admitted under a limit may run on every machine
\* the limit lists: removeRepeatedElement loses no zone.
ListedMachinesAdmitted ==
  \A w \in Workloads : \A o \in objects[w] : \A l \in o.under :
    \A n \in ToSet(l.coordinates) : Admits(o.affinity, n)

\* A child has the affinity of the template it was made from, whatever the
\* limit says when it is made: its owner would otherwise not recognise it and
\* make another one.
ChildrenKeepTemplate ==
  \A w \in Workloads : \A c \in children[w] : c.affinity = c.template

\* A stored pod has its own containers next to each other and in their order,
\* with each sidecar of one Injector exactly once, the first ones before and
\* the last ones after them ("Supports injection before and after the
\* business container").
SidecarsAroundOwn ==
  \A w \in Workloads : \A p \in pods[w] :
    LET own == Template[w].containers
        stored == p.pod.containers
        around(inj) == inj.pre \o own \o inj.post
    IN IF p.pod.by = {} THEN stored = Plain(own)
       ELSE \A inj \in p.pod.by :
              /\ [k \in DOMAIN stored |-> stored[k].name] = around(inj)
              /\ \A k \in DOMAIN own : stored[Len(inj.pre) + k].copy = 0
=============================================================================
