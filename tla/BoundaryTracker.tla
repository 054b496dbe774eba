--------------------------- MODULE BoundaryTracker ---------------------------
(***************************************************************************)
(* EventBoundaryTracker of src/src/sse.rs: its three flags and what one    *)
(* piece of the stream does to them.  A piece is a non-empty run of bytes  *)
(* without LF and CR, an LF or a CR.                                       *)
(***************************************************************************)

Tracker == [at_boundary : BOOLEAN, line_empty : BOOLEAN, prev_cr : BOOLEAN]

NewTracker == [at_boundary |-> TRUE, line_empty |-> TRUE, prev_cr |-> FALSE]

FeedContentBehindCr(t) ==   \* mutant: prev_cr is not reset
    [t EXCEPT !.at_boundary = FALSE, !.line_empty = FALSE]

\* A run of bytes without a line terminator.
FeedContent(t) ==
    [at_boundary |-> FALSE, line_empty |-> FALSE, prev_cr |-> FALSE]

\* The end of a line: an empty one ends the event.
EndLine(t) ==
    [t EXCEPT !.at_boundary = t.line_empty, !.line_empty = TRUE]

\* The second half of CR LF ends no line: the CR has ended it.
FeedLfIgnoringCr(t) == EndLine(t)   \* mutant: every LF ends a line

FeedLf(t) == IF t.prev_cr THEN [t EXCEPT !.prev_cr = FALSE] ELSE EndLine(t)

FeedCr(t) == [EndLine(t) EXCEPT !.prev_cr = TRUE]
=============================================================================
