----------------------------- MODULE MCBuckets -----------------------------
(* Buckets for TLC: two Buckets that map to the same name of the store. *)
EXTENDS Buckets

CONSTANTS b1, b2, n

TwoBuckets == {b1, b2}
OneName == {n}
SameName == [b \in {b1, b2} |-> n]
SomeWishes ==
    {[quota |-> q, public |-> FALSE] : q \in {NoQuota, Limits(0, 0), Limits(2, 0), Limits(1, 1)}}
    \cup {[quota |-> Limits(1, 0), public |-> TRUE]}
BothDrivers == {"Garage", "SeaweedFS"}
AllDisturbances == Faults \cup Intents

=============================================================================
