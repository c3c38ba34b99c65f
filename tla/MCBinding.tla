----------------------------- MODULE MCBinding -----------------------------
(* Binding on small instances: a claim that owns its bucket, or a claim on  *)
(* a shared bucket, with one access.                                        *)
EXTENDS Binding

OneClaim == {"c1"}
OneAccess == {"a1"}

TheBucket == [c \in OneClaim |-> "b1"]
OneUser == [a \in OneAccess |-> "c1"]

AllDisturb == Faults \cup Intents
=============================================================================
