------------------------------- MODULE MCWater -------------------------------
(***************************************************************************)
(* Small instances of WaterController: racks W-01 and S-02 of zone A.      *)
(***************************************************************************)
EXTENDS WaterController, TLC

Machine(rack, host, replicas) ==
  [zone |-> <<"A">>, rack |-> rack, host |-> host, replicas |-> replicas]
W01 == <<"W", "01">>
S02 == <<"S", "02">>

Machines == {Machine(r, h, n) : r \in {W01, S02},
                                h \in {"node1", "node2"}, n \in {0, 1, 2}}
LowerCase == [A |-> "a", W |-> "w", S |-> "s"] @@ ("01" :> "01") @@ ("02" :> "02")

Water(strategy, coords) == [strategy |-> strategy, coords |-> coords]

\* One pod on the first of two racks.
FirstRack ==
  Water("Alpha", <<Machine(W01, "node1", 2), Machine(S02, "node2", 1)>>)

\* Both racks in full, in the other order; the first rack only; the second
\* machine of the first rack; and nothing at all.
Rollout ==
  {FirstRack,
   Water("Release", <<Machine(S02, "node2", 1), Machine(W01, "node1", 1)>>),
   Water("Beta", <<Machine(W01, "node1", 0)>>),
   Water("Omega", <<Machine(W01, "node2", 1)>>),
   Water("Release", <<>>)}

\* Two machines of one rack, with as many pods or not.
TwoMachines(n, m) ==
  Water("Release", <<Machine(W01, "node1", n), Machine(W01, "node2", m)>>)
OneRack == TwoMachines(1, 1)
OneRackUneven == {TwoMachines(1, 2)}
=============================================================================
