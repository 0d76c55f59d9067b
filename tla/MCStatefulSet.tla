---------------------------- MODULE MCStatefulSet ----------------------------
(***************************************************************************)
(* Small instances of StatefulSetControl.                                  *)
(***************************************************************************)
EXTENDS StatefulSetControl

\* The templates "A" and "B" differ in their image only, or in more.
TwoImages == {"A", "B"} \X {"A", "B"}
NoImage == {}

\* What the user asks for: with OrderedReady, recreating one pod at a time.
Want(replicas, template, partition) ==
  [replicas |-> replicas, template |-> template, deleting |-> FALSE,
   updateType |-> "RollingUpdate", rollingUpdate |-> TRUE,
   partition |-> partition, paused |-> FALSE,
   maxUnavailable |-> [percent |-> FALSE, value |-> 1],
   podUpdatePolicy |-> "ReCreate", monotonic |-> TRUE]
Paused(want) == [want EXCEPT !.paused = TRUE]
Deleting(want) == [want EXCEPT !.deleting = TRUE]

\* The other strategies and policies.
OnDelete(want) ==
  [want EXCEPT !.updateType = "OnDelete", !.rollingUpdate = FALSE,
               !.monotonic = FALSE]
InPlace(want) == [want EXCEPT !.podUpdatePolicy = "InPlaceIfPossible"]
InPlaceParallel(want) ==
  [want EXCEPT !.podUpdatePolicy = "InPlaceOnly", !.monotonic = FALSE]

\* Scale down and up again, change the template, leave the partition out,
\* pause, delete the set; a set with OnDelete, or one turned into it.
ScaleStart == {Want(2, "A", 0), OnDelete(Want(1, "A", 0))}
ScaleSpecs ==
  {Want(0, "A", 0), Want(3, "B", 0), Paused(Want(2, "B", Unset)),
   Deleting(Want(2, "B", 0)), OnDelete(Want(1, "B", 0))}

\* Change the image of two pods, or of one with InPlaceOnly, and change it
\* back, in the other way too.
ImageStart == {InPlace(Want(2, "A", 0)), InPlaceParallel(Want(1, "A", 0))}
ImageSpecs ==
  {InPlace(Want(2, t, 0)) : t \in {"A", "B"}} \cup
  {InPlaceParallel(Want(1, "B", 0))}

\* A canary release: the template changes from ordinal 1 on.
CanaryStart == {Want(2, "A", 1)}
CanarySpecs == {Want(2, t, 1) : t \in {"A", "B"}}

\* Two pods, in place, with an edit of the image, and then one pod.
PatchStart == {InPlace(Want(2, "A", 0))}
PatchSpecs == {InPlace(Want(2, t, 0)) : t \in {"A", "B"}}
PatchThenShrink == {InPlace(Want(r, "B", 0)) : r \in {1, 2}}

\* No edits.
TwoStart == {Want(2, "A", 0)}
=============================================================================
