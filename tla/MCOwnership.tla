----------------------------- MODULE MCOwnership -----------------------------
(***************************************************************************)
(* Small instances of PodOwnership.                                        *)
(***************************************************************************)
EXTENDS PodOwnership

Ask(replicas, claim) == [replicas |-> replicas, claims |-> claim]

\* web and db exist, and web-1 may be created, whose key is that of a pod of
\* web.  db has a revision and no pods: when it is deleted without what it
\* owns, web meets an orphan beside the revision it owns itself.
Web == <<"web">>
Db == <<"db">>
TwoNumerals == <<"0", "1">>
Huge == {"4294967296"}
ThreeSets == {Web, Db, <<"web", "1">>}
TwoExist ==
  [s \in {Web, Db} |-> IF s = Web THEN Ask(1, {"data"}) ELSE Ask(0, {})]
SomeSpecs == {Ask(2, {"data"}), Ask(1, {})}
SomeStrays ==
  {<<"db", "0">>, <<"db", "4294967296">>, <<"web", "1", "0">>}

\* One set, deleted without its pods.
OneSet == {Web}
WebExists == [s \in OneSet |-> Ask(2, {"data"})]
NoStrays == {}
=============================================================================
