---------------------------- MODULE ReplicaGroup ----------------------------
(***************************************************************************)
(* What the Garage driver promises of the System data plane, whatever it   *)
(* takes to get there: a group of replicas with one replication factor.    *)
(* Garage cannot change the factor of a live cluster, so the factor is     *)
(* pinned when the group is formed, and the only way to another one is a   *)
(* new generation that starts empty, after every replica has left.         *)
(***************************************************************************)
EXTENDS Naturals

CONSTANTS
    Replica,    \* the replicas
    Factor      \* the factors a group can be formed with

Out == [gen |-> 0, factor |-> 0]

VARIABLES
    gen,        \* the generation, 0 before the group is formed
    factor,     \* its factor, 0 before the group is formed
    member      \* member[r]: the generation and factor of the data r serves

vars == <<gen, factor, member>>

Init ==
    /\ gen = 0
    /\ factor = 0
    /\ member = [r \in Replica |-> Out]

\* The group is formed, or formed again with another factor by nobody's data.
Form ==
    /\ member = [r \in Replica |-> Out]
    /\ factor' \in Factor \ {factor}
    /\ gen' = gen + 1
    /\ UNCHANGED member

\* A replica joins with data of this generation, empty or kept.
Join(r) ==
    /\ factor # 0
    /\ member' = [member EXCEPT ![r] = [gen |-> gen, factor |-> factor]]
    /\ UNCHANGED <<gen, factor>>

\* Replicas leave: their pods stop, or their nodes.
Leave ==
    /\ \A r \in Replica : member'[r] \in {member[r], Out}
    /\ member' = [r \in Replica |-> member'[r]]
    /\ UNCHANGED <<gen, factor>>

Next == Form \/ Leave \/ \E r \in Replica : Join(r)

Spec == Init /\ [][Next]_vars
=============================================================================
