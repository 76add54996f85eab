------------------------------- MODULE MCAnet -------------------------------
(* Anet for TLC: the constants get their values in the .cfg.               *)
EXTENDS Anet
=============================================================================
