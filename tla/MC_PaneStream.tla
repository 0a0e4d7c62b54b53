---------------------------- MODULE MC_PaneStream ----------------------------
(* Small instances of PaneStream for TLC, and the worlds their cfgs name.    *)
EXTENDS PaneStream, TLC

World == [peers |-> Peers, panes |-> Panes, disconnects |-> 0, resizes |-> 0, exits |-> 0]

\* One mobile that moves between two panes, with a disconnect and a pane exit; or two
\* mobiles on one pane.
MainWorlds ==
    {[World EXCEPT !.peers = {m}, !.disconnects = 1, !.exits = 1] : m \in {CHOOSE m \in Peers : TRUE}}
    \cup {[World EXCEPT !.panes = {p}] : p \in {CHOOSE p \in Panes : TRUE}}

\* One of each fault.
LiveWorlds == {[World EXCEPT !.disconnects = 1, !.resizes = 1, !.exits = 1]}

\* A pane exits.
DeadWorlds == {[World EXCEPT !.exits = 1]}
=============================================================================
