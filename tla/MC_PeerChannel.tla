--------------------------- MODULE MC_PeerChannel ---------------------------
(* A small instance of PeerChannel for TLC, and the worlds its cfg names.   *)
EXTENDS PeerChannel

World(start, bs, n, messages, events, timeouts, faults) ==
    [pane |-> [start |-> start, bytes |-> bs],
     left |-> [b \in Budgets |->
                 CASE b = "length" -> n [] b = "messages" -> messages [] b = "events" -> events
                   [] b = "timeouts" -> timeouts [] b = "faults" -> faults]]

\* On one attachment, in every cut: every output of up to four bytes; every output of up
\* to eight that starts with a title, which may be closed, filled to the limit or past it,
\* and followed by more; every output of up to seven whose title has an escape that does
\* not close it; and every output of up to eight that starts with a title and an escape,
\* another title among them.  An attachment of plain bytes with an event, a stall
\* and a failure.  Two requests with a stall and a failure.
MainWorlds ==
    {World(<<>>, Bytes \ {"x"}, 4, 2, 0, 0, 0),
     World(<<"ESC", "k">>, {"ESC", "ST"}, 8, 2, 0, 0, 0),
     World(<<"ESC", "k", "ESC", "k">>, {"ESC", "ST"}, 7, 2, 0, 0, 0),
     World(<<"ESC", "k", "ESC", "ST", "ESC">>, Bytes \ {"x"}, 8, 2, 0, 0, 0),
     World(<<>>, {"x"}, 2, 2, 1, 1, 1),
     World(<<>>, {"x"}, 1, 3, 0, 1, 1)}
=============================================================================
