----------------------------- MODULE MC_Pairing -----------------------------
(* Small instances of Pairing for TLC: the constants are in the cfgs.         *)
EXTENDS Pairing, TLC
=============================================================================
