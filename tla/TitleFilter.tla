----------------------------- MODULE TitleFilter -----------------------------
(***************************************************************************)
(* The filter that takes titles out of a pane's output one byte at a time  *)
(* (internal/tmux/titlefilter.go).  A filter is a record: the state of the *)
(* automaton, the bytes of the title it holds back, and what the last call *)
(* let through.                                                            *)
(***************************************************************************)
EXTENDS Naturals, Sequences, SequencesExt

CONSTANTS
    Bytes,         \* "ESC", "k", "ST" (the backslash) and bytes that mean nothing
    MaxTitleLen    \* maxTitleLen: the most bytes of a title that are held back

ASSUME TitleAssumption ==
    {"ESC", "k", "ST"} \subseteq Bytes /\ MaxTitleLen \in Nat /\ MaxTitleLen >= 2

NewTitleFilter == [state |-> "passthrough", titleBuf |-> <<>>, out |-> <<>>]

\* appendTitle after the caller set the state, which the safety valve overrides.
AppendTitle(f, state, b) ==
    LET buf == Append(f.titleBuf, b)
    IN  IF Len(buf) > MaxTitleLen
        THEN [state |-> "passthrough", titleBuf |-> <<>>, out |-> f.out \o buf]
        ELSE [f EXCEPT !.state = state, !.titleBuf = buf]

\* One turn of Filter's loop; the bulk copy of plain bytes is many turns of the first case.
FilterByte(f, b) ==
    CASE f.state = "passthrough" ->
           IF b = "ESC" THEN [f EXCEPT !.state = "sawEsc"] ELSE [f EXCEPT !.out = Append(@, b)]
      [] f.state = "sawEsc" /\ b = "k" ->
           [f EXCEPT !.state = "inTitle", !.titleBuf = <<"ESC", "k">>]
      [] f.state = "sawEsc" /\ b = "ESC" -> [f EXCEPT !.out = Append(@, "ESC")]
      [] f.state = "sawEsc" /\ b \notin {"k", "ESC"} ->
           [f EXCEPT !.state = "passthrough", !.out = @ \o <<"ESC", b>>]
      [] f.state = "inTitle" ->
           AppendTitle(f, IF b = "ESC" THEN "sawEscInTitle" ELSE "inTitle", b)
      [] f.state = "sawEscInTitle" /\ b = "ST" ->
           [f EXCEPT !.state = "passthrough", !.titleBuf = <<>>]
      [] f.state = "sawEscInTitle" /\ b # "ST" ->
           AppendTitle(f, IF b = "ESC" THEN "sawEscInTitle" ELSE "inTitle", b)

\* Mutant: every chunk is filtered on its own.
FilterAlone(f, data) == FoldLeft(FilterByte, NewTitleFilter, data)

\* Filter: what is let through of this chunk, and the state kept for the next.
Filter(f, data) == FoldLeft(FilterByte, [f EXCEPT !.out = <<>>], data)
=============================================================================
