--------------------------- MODULE MCGarageSystem ---------------------------
(* Instances of GarageSystem for TLC. *)
EXTENDS GarageSystem, TLC

CONSTANTS a, b, c

Masters == {a, b, c}
Two == {a, b}
JustTwo == {Two}

AllDisturbances == Faults \cup Intents

Coarse == {"switch", "stop", "nodeDown", "nodeJoin"}

NoSwitch == AllDisturbances \ {"switch"}

AnyStart == SUBSET Masters \ {{}}

Symmetry == Permutations(Masters)
=============================================================================
