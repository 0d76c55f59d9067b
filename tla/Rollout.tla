------------------------------- MODULE Rollout -------------------------------
(***************************************************************************)
(* What a StatefulSet promises about revisions, whatever its strategy: a   *)
(* revision is recorded before a pod runs it, it is forgotten only when    *)
(* nothing needs it any more, and the set is declared to be at a revision  *)
(* only when every live pod runs it.                                       *)
(***************************************************************************)
EXTENDS Naturals

CONSTANTS Ordinals,   \* the ordinals a pod may have
          Revisions,  \* the revisions of the template
          None        \* no revision, no pod

VARIABLES wanted,  \* the revision the user asks for
          kept,    \* the revisions that can still be built from
          stable,  \* the revision the set is declared to be at
          run      \* the revision of each live pod

vars == <<wanted, kept, stable, run>>

Init ==
  /\ wanted \in Revisions
  /\ kept = {}
  /\ stable = None
  /\ run = [o \in Ordinals |-> None]

\* The user asks for another revision.
Publish ==
  /\ wanted' \in Revisions
  /\ UNCHANGED <<kept, stable, run>>

\* Only what is asked for is recorded.
Record ==
  /\ kept' = kept \cup {wanted}
  /\ UNCHANGED <<wanted, stable, run>>

Create(o) ==
  /\ run[o] = None
  /\ \E r \in kept : run' = [run EXCEPT ![o] = r]
  /\ UNCHANGED <<wanted, kept, stable>>

Remove(o) ==
  /\ run[o] # None
  /\ run' = [run EXCEPT ![o] = None]
  /\ UNCHANGED <<wanted, kept, stable>>

\* A pod changes its revision where it runs.
Move(o) ==
  /\ run[o] # None
  /\ \E r \in kept : run' = [run EXCEPT ![o] = r]
  /\ UNCHANGED <<wanted, kept, stable>>

\* The set is at r: the first time by declaration, then by having moved.
Settle(r) ==
  /\ r \in kept
  /\ stable # None => \A o \in Ordinals : run[o] \in {None, r}
  /\ stable' = r
  /\ UNCHANGED <<wanted, kept, run>>

\* r is forgotten: the set is not at it and no live pod runs it.
Forget(r) ==
  /\ r # stable
  /\ \A o \in Ordinals : run[o] # r
  /\ kept' = kept \ {r}
  /\ UNCHANGED <<wanted, stable, run>>

Next ==
  \/ Publish \/ Record
  \/ \E o \in Ordinals : Create(o) \/ Remove(o) \/ Move(o)
  \/ \E r \in Revisions : Settle(r) \/ Forget(r)

Spec == Init /\ [][Next]_vars
=============================================================================
