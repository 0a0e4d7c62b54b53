---------------------------- MODULE MC_Presence ----------------------------
(* A small instance of Presence for TLC, and the worlds its cfg names.      *)
EXTENDS Presence

World(system, keepAwake, sleeps, faults) ==
    [system |-> system, keepAwake |-> keepAwake, sleeps |-> sleeps, faults |-> faults]

\* logind with a failure or with a second sleep; keep_awake on Linux; IOKit with
\* a keep_awake that may fail.
MainWorlds ==
    {World("linux", FALSE, 1, 1), World("linux", FALSE, 2, 0), World("linux", TRUE, 1, 1),
     World("darwin", TRUE, 1, 1)}
=============================================================================
