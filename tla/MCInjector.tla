----------------------------- MODULE MCInjector -----------------------------
(***************************************************************************)
(* A small instance of InjectorController and WebhookServer.               *)
(***************************************************************************)
EXTENDS InjectorController

Place(z, r, h) == [zone |-> z, rack |-> r, host |-> h]
A1 == Place("A", "R1", "n1")
A2 == Place("A", "R2", "n2")
B1 == Place("B", "R1", "n3")
A3 == Place("A", "R1", "n4")
FourNodes == {A1, A2, B1, A3}

\* Two machines of one rack and one of another zone, a malformed annotation,
\* an empty list.
SomeLimits ==
  {[parses |-> TRUE, coordinates |-> <<A1, A3, B1>>],
   [parses |-> FALSE, coordinates |-> <<>>],
   [parses |-> TRUE, coordinates |-> <<>>]}

\* The resource "statefulset" of the shipped configuration names no kind.
ShippedRules == {"Deployment", "ReplicationController", "ReplicaSet", "Job", "CronJob"}

\* A Deployment with one container; a Job whose container has a sidecar's
\* name and an affinity of its own; a ReplicaSet with two containers; a
\* CronJob with a mounted volume.
SomeTemplates ==
  [dep |-> [kind |-> "Deployment", containers |-> <<"app">>, volumes |-> <<>>,
            mounts |-> {}, affinity |-> {}],
   job |-> [kind |-> "Job", containers |-> <<"log">>, volumes |-> <<>>,
            mounts |-> {},
            affinity |-> {convertToNodeSelectorAffinity(<<B1>>)}],
   two |-> [kind |-> "ReplicaSet", containers |-> <<"app", "db">>,
            volumes |-> <<>>, mounts |-> {}, affinity |-> {}],
   cron |-> [kind |-> "CronJob", containers |-> <<"app">>,
             volumes |-> <<"data">>, mounts |-> {"data"}, affinity |-> {}]]

Inject(pre, post, volumes) ==
  [pre |-> pre, post |-> post, volumes |-> volumes, named |-> TRUE,
   resource |-> TRUE, foreign |-> FALSE, valid |-> TRUE]

\* A sidecar before, or one after; one for another namespace; one with a
\* malformed selector; one that names nothing.
SomeSpecs ==
  {Inject(<<"log">>, <<>>, <<"varlog">>), Inject(<<>>, <<"log">>, <<>>),
   [Inject(<<"log">>, <<>>, <<>>) EXCEPT !.foreign = TRUE],
   [Inject(<<"log">>, <<>>, <<>>) EXCEPT !.valid = FALSE],
   [Inject(<<"log">>, <<>>, <<>>) EXCEPT !.named = FALSE]}

AllPods == {"i"} \X DOMAIN SomeTemplates
=============================================================================
