----------------------------- MODULE TitleStrip -----------------------------
(***************************************************************************)
(* What a mobile is promised of a pane's output: the bytes the pane wrote, *)
(* in order and without gaps, less the titles (ESC k ... ESC \) of at most *)
(* MaxTitleLen bytes before their final byte, however the bytes were cut   *)
(* into chunks.  Of an escape or a title that is not complete yet nothing  *)
(* is shown.                                                               *)
(***************************************************************************)
EXTENDS Naturals, Sequences

CONSTANTS
    MaxTitleLen    \* maxTitleLen

VARIABLES
    in,            \* what has been read of the pane in this stream
    out            \* what the mobile was sent of it

\* The positions at which a title that starts at i may end.
TitleEnds(s, i) == {e \in i + 3 .. Len(s) : s[e - 1] = "ESC" /\ s[e] = "ST"}

\* Title text longer than the limit is not a title: it is shown, one byte past the limit.
Strip(s) ==
    LET from[i \in 1 .. Len(s) + 1] ==
          CASE i > Len(s) -> <<>>
            [] i <= Len(s) /\ s[i] # "ESC" -> <<s[i]>> \o from[i + 1]
            [] i = Len(s) /\ s[i] = "ESC" -> <<>>
            [] i < Len(s) /\ s[i] = "ESC" /\ s[i + 1] = "ESC" -> <<"ESC">> \o from[i + 1]
            [] i < Len(s) /\ s[i] = "ESC" /\ s[i + 1] \notin {"ESC", "k"} ->
                 <<"ESC", s[i + 1]>> \o from[i + 2]
            [] i < Len(s) /\ s[i] = "ESC" /\ s[i + 1] = "k" ->
                 LET short == {e \in TitleEnds(s, i) : e - i <= MaxTitleLen}
                 IN  IF short # {}
                     THEN from[1 + CHOOSE e \in short : \A d \in short : e <= d]
                     ELSE IF i + MaxTitleLen <= Len(s)
                     THEN SubSeq(s, i, i + MaxTitleLen) \o from[i + MaxTitleLen + 1]
                     ELSE <<>>
    IN  from[1]

Init == in = <<>> /\ out = <<>>

\* A new stream starts with nothing shown, ...
Start == in' = <<>> /\ out' = <<>>

\* ... and only grows.
Feed ==
    /\ Len(in') > Len(in)
    /\ SubSeq(in', 1, Len(in)) = in
    /\ out' = Strip(in')

Spec == Init /\ [][Start \/ Feed]_<<in, out>>
=============================================================================
