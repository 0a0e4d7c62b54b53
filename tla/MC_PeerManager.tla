--------------------------- MODULE MC_PeerManager ---------------------------
(* Small instances of PeerManager for TLC, and the worlds their cfgs name.   *)
EXTENDS PeerManager, TLC

World == [b \in Budgets |-> 0]

\* Reloads and a second connection of the device.
ReloadWorlds == {[World EXCEPT !["reloads"] = 1, !["opens"] = 1]}

\* Two connections and nothing else.
StaleWorlds == {[World EXCEPT !["opens"] = 1]}

\* A reload, a sweep and the shutdown; or a loss, a refused answer, a notice and
\* teardowns that hang, with attempt ids and no data channel.
LiveWorlds ==
    {[World EXCEPT !["reloads"] = 1, !["sweeps"] = 1, !["opens"] = 1, !["shutdowns"] = 1],
     [World EXCEPT !["losses"] = 1, !["answers"] = 1, !["notices"] = 1, !["attempts"] = 1,
                   !["hangs"] = 1]}
=============================================================================
