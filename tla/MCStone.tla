------------------------------- MODULE MCStone -------------------------------
(***************************************************************************)
(* Small instances of StoneController.                                     *)
(***************************************************************************)
EXTENDS StoneController

Group(name, machines, replicas) ==
  [group |-> name, machines |-> machines, replicas |-> replicas]

Stone(strategy, template, groups) ==
  [strategy |-> strategy, template |-> template, coordinates |-> groups,
   ports |-> TRUE]

\* The second group names no machine.
TwoGroups == <<Group("A", 2, 3), Group("B", 0, 2)>>
Swapped == <<Group("B", 0, 2), Group("A", 2, 3)>>

\* First a strategy the code does not know.
Unknown == Stone("Other", "v1", TwoGroups)

\* One pod per group with new containers, of fewer groups and without ports;
\* one per machine with the old containers; everything, with the groups in
\* another order.
Rollout ==
  {[Stone("Beta", "v2", <<Group("A", 1, 1)>>) EXCEPT !.ports = FALSE],
   Stone("Omega", "v1", TwoGroups),
   Stone("Release", "v2", Swapped)}
=============================================================================
