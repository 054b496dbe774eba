----------------------------- MODULE TrackerFeed -----------------------------
(***************************************************************************)
(* EventBoundaryTracker::feed: the loop that jumps from one line           *)
(* terminator to the next with memchr2.  It must leave the flags that      *)
(* reading the chunk byte by byte leaves, from whatever state the previous *)
(* chunk left behind.                                                      *)
(*                                                                         *)
(* Sequences start at 1 here and slices at 0 in the code: pos is the       *)
(* number of bytes that feed has passed.                                   *)
(***************************************************************************)
EXTENDS BoundaryTracker, Naturals, Sequences, SequencesExt

CONSTANTS Byte,     \* "lf", "cr" and bytes that are neither
          MaxChunk, \* bound: bytes in a chunk
          Chunks    \* bound: chunks fed one after the other

ASSUME FeedAssumption ==
    /\ {"lf", "cr"} \subseteq Byte
    /\ MaxChunk \in Nat /\ Chunks \in Nat

VARIABLES bytes,    \* the chunk that feed was called with
          pos,      \* how far it has come
          tracker,  \* self
          before,   \* self when feed was called
          calls     \* calls of feed so far

vars == <<bytes, pos, tracker, before, calls>>

Newlines == {"lf", "cr"}

Chunk == SeqOf(Byte, MaxChunk)

\* memchr2 over bytes[pos..]: the places of the terminators ahead.
Ahead == {i \in pos + 1 .. Len(bytes) : bytes[i] \in Newlines}

-----------------------------------------------------------------------------
(* The byte-by-byte reading *)

FeedByte(t, b) ==
    CASE b = "lf" -> FeedLf(t)
      [] b = "cr" -> FeedCr(t)
      [] OTHER    -> FeedContent(t)

\* The flags after each number of bytes of s, with t before the first.
Bytewise(t, s) ==
    LET flags[i \in 0 .. Len(s)] ==
            IF i = 0 THEN t ELSE FeedByte(flags[i - 1], s[i])
    IN  flags

-----------------------------------------------------------------------------
(* The loop *)

Init ==
    /\ bytes \in Chunk
    /\ pos = 0
    /\ tracker = NewTracker
    /\ before = NewTracker
    /\ calls = 1

\* mutant: the text before a terminator is not noticed
NewlineSkippingText ==
    /\ Ahead # {}
    /\ LET nl == CHOOSE i \in Ahead : \A j \in Ahead : i <= j
       IN  /\ tracker' = IF bytes[nl] = "lf" THEN FeedLf(tracker)
                                             ELSE FeedCr(tracker)
           /\ pos' = nl
    /\ UNCHANGED <<bytes, before, calls>>

\* Some(i): the text before the terminator, if any, then the terminator.
Newline ==
    /\ Ahead # {}
    /\ LET nl   == CHOOSE i \in Ahead : \A j \in Ahead : i <= j
           text == IF nl > pos + 1 THEN FeedContent(tracker) ELSE tracker
       IN  /\ tracker' = IF bytes[nl] = "lf" THEN FeedLf(text) ELSE FeedCr(text)
           /\ pos' = nl
    /\ UNCHANGED <<bytes, before, calls>>

\* None: the text behind the last terminator, if any, and return.
Remainder ==
    /\ Ahead = {} /\ pos < Len(bytes)
    /\ tracker' = FeedContent(tracker)
    /\ pos' = Len(bytes)
    /\ UNCHANGED <<bytes, before, calls>>

Returned == pos = Len(bytes)

\* handle_success feeds the next chunk.
NextChunk ==
    /\ Returned /\ calls < Chunks
    /\ bytes' \in Chunk
    /\ pos' = 0 /\ before' = tracker /\ calls' = calls + 1
    /\ UNCHANGED tracker

Done ==
    /\ Returned /\ calls = Chunks
    /\ UNCHANGED vars

Next == Newline \/ Remainder \/ NextChunk \/ Done

Spec == Init /\ [][Next]_vars

-----------------------------------------------------------------------------
(* Properties *)

\* The jumping loop of feed and a byte-by-byte reading leave the same flags,
\* at every terminator and at the return, whatever state a previous call left:
\* a CR at the end of one chunk and the LF at the start of the next included.
FeedIsBytewise == tracker = Bytewise(before, bytes)[pos]
=============================================================================
