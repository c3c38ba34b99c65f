----------------------------- MODULE MCCephRGW -----------------------------
(* CephRGW for TLC: two accesses to one bucket, or one in the undisturbed run. *)
EXTENDS CephRGW

BothReclaims == {"Retain", "Delete"}
JustRetain == {"Retain"}
AllDisturbances == Faults \cup Intents
NoDisturbance == {}
=============================================================================
