----------------------------- MODULE MCAeTimer -----------------------------
(* Instances of AeTimer for TLC: a second of a few milliseconds.           *)
EXTENDS AeTimer
=============================================================================
