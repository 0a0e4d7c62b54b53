---------------------------- MODULE MC_Supervisor ----------------------------
(* Supervisor for TLC: two commands, the scripts each .cfg lets them run. *)
EXTENDS Supervisor
=============================================================================
