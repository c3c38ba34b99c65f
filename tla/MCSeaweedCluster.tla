-------------------------- MODULE MCSeaweedCluster --------------------------
(* SeaweedCluster for TLC. *)
EXTENDS SeaweedCluster

AllRedundancies == {"None", "Standard", "High"}
BothReclaims == {"Retain", "Delete"}
AllDisturbances == Faults \cup Intents

=============================================================================
