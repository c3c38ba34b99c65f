--------------------------- MODULE MCBucketAccess ---------------------------
(* BucketAccess on a small instance: one access with its own Secret.        *)
EXTENDS BucketAccess, TLC

CONSTANT a1

OneAccess == {a1}

OwnSecret == [a \in OneAccess |-> "s1"]

KeySymmetry == Permutations(Key)

AllDisturb == Faults \cup Intents
=============================================================================
