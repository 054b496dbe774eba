-------------------------- MODULE TrackerFeedProofs --------------------------
(***************************************************************************)
(* Proofs about TrackerFeed, for chunks of any length over any bytes.      *)
(*                                                                         *)
(* The byte-by-byte reading is a recursive function over a chunk.  That it *)
(* satisfies its equation is shown by induction over the chunk: the        *)
(* induction principle comes from the well-founded order of the naturals,  *)
(* applied to the set of lengths that have no reading.                     *)
(***************************************************************************)
EXTENDS TrackerFeed, WellFoundedInduction, TLAPS

-----------------------------------------------------------------------------
(* Induction *)

\* A set of naturals that is not empty has a least element.
LEMMA LeastElement ==
    ASSUME NEW T, T \subseteq Nat, T # {}
    PROVE  \E n \in T : \A m \in T : n <= m
<1> DEFINE R == {ss \in Nat \X Nat : ss[1] < ss[2]}
<1>1. IsWellFoundedOn(R, Nat)
  <2>1. R = OpToRel(<, Nat)
    BY DEF OpToRel
  <2> QED
    BY Zenon, <2>1, NatLessThanWellFounded
<1>2. PICK n \in T : \A m \in T : <<m, n>> \notin R
  <2> HIDE DEF R
  <2> QED
    BY Zenon, <1>1, WFMin
<1>3. ASSUME NEW m \in T PROVE n <= m
  <2>1. m < n => <<m, n>> \in R
    OBVIOUS
  <2>2. m \in Nat /\ n \in Nat /\ ~ (m < n)
    BY <1>2, <2>1
  <2> QED
    BY <2>2
<1> QED
  BY <1>3

\* A set that has 0, and the next number with each of its numbers, has all.
LEMMA NumberInduction ==
    ASSUME NEW T, 0 \in T, \A n \in T \cap Nat : n + 1 \in T
    PROVE  Nat \subseteq T
<1> SUFFICES ASSUME Nat \ T # {} PROVE FALSE
  OBVIOUS
<1>1. PICK n \in Nat \ T : \A m \in Nat \ T : n <= m
  BY LeastElement
<1>2. n # 0 /\ n - 1 \in Nat
  BY <1>1
<1>3. n - 1 \in T
  BY <1>1, <1>2
<1>4. (n - 1) + 1 \in T
  BY <1>2, <1>3
<1> QED
  BY <1>1, <1>4

-----------------------------------------------------------------------------
(* The byte-by-byte reading *)

\* r is the reading of the first n bytes of s from t.
Reads(r, t, s, n) ==
    r = [i \in 0 .. n |-> IF i = 0 THEN t ELSE FeedByte(r[i - 1], s[i])]

\* Every number of bytes has a reading: one byte more extends it by one step.
LEMMA ReadingExists ==
    ASSUME NEW t, NEW s
    PROVE  \A n \in Nat : \E r : Reads(r, t, s, n)
<1> DEFINE T == {n \in Nat : \E r : Reads(r, t, s, n)}
<1>1. 0 \in T
  <2>1. Reads([i \in 0 .. 0 |-> t], t, s, 0)
    BY DEF Reads
  <2> QED
    BY <2>1
<1>2. ASSUME NEW n \in T \cap Nat
      PROVE  n + 1 \in T
  <2>1. PICK r : Reads(r, t, s, n)
    BY <1>2
  <2> DEFINE q == [i \in 0 .. n + 1 |-> IF i = n + 1 THEN FeedByte(r[n], s[n + 1])
                                                   ELSE r[i]]
  <2>2. ASSUME NEW i \in 0 .. n + 1
        PROVE  q[i] = IF i = 0 THEN t ELSE FeedByte(q[i - 1], s[i])
    BY <2>1 DEF Reads
  <2>3. Reads(q, t, s, n + 1)
    BY <2>2 DEF Reads
  <2> QED
    BY <2>3
<1>3. Nat \subseteq T
  BY <1>1, <1>2, NumberInduction
<1> QED
  BY <1>3

\* Bytewise satisfies its equation.
LEMMA BytewiseReads ==
    ASSUME NEW t, NEW s, Len(s) \in Nat
    PROVE  /\ Bytewise(t, s)[0] = t
           /\ \A i \in 1 .. Len(s) :
                 Bytewise(t, s)[i] = FeedByte(Bytewise(t, s)[i - 1], s[i])
<1>1. \E r : Reads(r, t, s, Len(s))
  BY ReadingExists
<1>2. Reads(Bytewise(t, s), t, s, Len(s))
  BY <1>1 DEF Bytewise, Reads
<1> QED
  BY <1>2 DEF Reads

\* Text without a terminator leaves what its last byte leaves, which is what
\* feed's one call of FeedContent leaves for the whole run.
LEMMA TextReads ==
    ASSUME NEW t, NEW s, Len(s) \in Nat, NEW p \in 0 .. Len(s), NEW q \in 0 .. Len(s),
           p < q, \A i \in p + 1 .. q : s[i] \notin Newlines
    PROVE  Bytewise(t, s)[q] = FeedContent(Bytewise(t, s)[p])
<1>1. q \in 1 .. Len(s) /\ s[q] \notin Newlines
  OBVIOUS
<1>2. Bytewise(t, s)[q] = FeedByte(Bytewise(t, s)[q - 1], s[q])
  BY <1>1, BytewiseReads
<1> QED
  BY <1>1, <1>2 DEF FeedByte, FeedContent, Newlines

\* From its byte p on, s has the first n bytes of u, and r are its flags there.
Agree(t, s, p, r, u, n) ==
    /\ Len(s) \in Nat /\ Len(u) \in Nat /\ p \in Nat /\ n \in Nat
    /\ p + n <= Len(s) /\ n <= Len(u)
    /\ Bytewise(t, s)[p] = r
    /\ \A i \in 1 .. n : s[p + i] = u[i]

\* The same bytes, read from the same flags, leave the same flags.
LEMMA SameBytesSameFlags ==
    ASSUME NEW t, NEW s, NEW p, NEW r, NEW u, NEW n, Agree(t, s, p, r, u, n)
    PROVE  \A i \in 0 .. n : Bytewise(t, s)[p + i] = Bytewise(r, u)[i]
<1> USE DEF Agree
<1> DEFINE T == {i \in Nat : i <= n => Bytewise(t, s)[p + i] = Bytewise(r, u)[i]}
<1>1. 0 \in T
  BY BytewiseReads
<1>2. ASSUME NEW i \in T \cap Nat
      PROVE  i + 1 \in T
  <2> SUFFICES ASSUME i + 1 <= n
               PROVE  Bytewise(t, s)[p + (i + 1)] = Bytewise(r, u)[i + 1]
    OBVIOUS
  <2>1. Bytewise(t, s)[p + i] = Bytewise(r, u)[i]
    BY <1>2
  <2>2. /\ p + (i + 1) \in 1 .. Len(s) /\ (p + (i + 1)) - 1 = p + i
        /\ i + 1 \in 1 .. Len(u) /\ (i + 1) - 1 = i
        /\ i + 1 \in 1 .. n
    OBVIOUS
  <2>3. Bytewise(t, s)[p + (i + 1)] = FeedByte(Bytewise(t, s)[p + i], s[p + (i + 1)])
    BY <2>2, BytewiseReads
  <2>4. Bytewise(r, u)[i + 1] = FeedByte(Bytewise(r, u)[i], u[i + 1])
    BY <2>2, BytewiseReads
  <2>5. s[p + (i + 1)] = u[i + 1]
    BY <2>2
  <2> QED
    BY <2>1, <2>3, <2>4, <2>5
<1>3. Nat \subseteq T
  BY <1>1, <1>2, NumberInduction
<1> QED
  BY <1>3

\* Wherever a stream is cut into chunks, a CR LF in two included, the flags
\* that one feed leaves are those from which the next has to go on: reading s
\* and then u is reading s followed by u, for streams of every length.
THEOREM CutsDoNotMatter ==
    ASSUME NEW t, NEW s \in Seq(Byte), NEW u \in Seq(Byte)
    PROVE  Bytewise(t, s \o u)[Len(s \o u)] = Bytewise(Bytewise(t, s)[Len(s)], u)[Len(u)]
<1> DEFINE w == s \o u
           r == Bytewise(t, s)[Len(s)]
<1>1. /\ Len(s) \in Nat /\ Len(u) \in Nat
      /\ Len(w) \in Nat /\ Len(w) = Len(s) + Len(u)
      /\ \A i \in 1 .. Len(s) : w[0 + i] = s[i]
      /\ \A i \in 1 .. Len(u) : w[Len(s) + i] = u[i]
  OBVIOUS
<1> HIDE DEF w
<1>2. Bytewise(t, w)[0] = t
  BY <1>1, BytewiseReads
<1>3. \A i \in 0 .. Len(s) : Bytewise(t, w)[0 + i] = Bytewise(t, s)[i]
  <2>1. Agree(t, w, 0, t, s, Len(s))
    BY <1>1, <1>2 DEF Agree
  <2> QED
    BY <2>1, SameBytesSameFlags
<1>4. Bytewise(t, w)[Len(s)] = r
  BY <1>1, <1>3
<1> HIDE DEF r
<1>5. \A i \in 0 .. Len(u) : Bytewise(t, w)[Len(s) + i] = Bytewise(r, u)[i]
  <2>1. Len(s) + Len(u) <= Len(w) /\ Len(u) <= Len(u)
    BY <1>1
  <2>2. \A i \in 1 .. Len(u) : w[Len(s) + i] = u[i]
    BY <1>1
  <2>3. Agree(t, w, Len(s), r, u, Len(u))
    <3>1. Len(w) \in Nat /\ Len(u) \in Nat /\ Len(s) \in Nat
      BY <1>1
    <3> QED
      BY <3>1, <2>1, <2>2, <1>4, Zenon DEF Agree
  <2> QED
    BY <2>3, SameBytesSameFlags
<1>6. Bytewise(t, w)[Len(w)] = Bytewise(r, u)[Len(u)]
  BY <1>1, <1>5
<1> QED
  BY <1>6 DEF w, r

-----------------------------------------------------------------------------
(* What the flags of a stream say, read off its last bytes *)

\* The first i bytes of s are nothing or end a line.
EndsLine(s, i) == i = 0 \/ s[i] \in Newlines

\* Where the line terminator that ends the first i bytes begins: CR LF is one.
LineEnd(s, i) ==
    IF s[i] = "lf" /\ i > 1 /\ s[i - 1] = "cr" THEN i - 2 ELSE i - 1

\* They are nothing or end with a line terminator that ends an empty line.
EndsBlank(s, i) ==
    i = 0 \/ (s[i] \in Newlines /\ EndsLine(s, LineEnd(s, i)))

\* The flags of a tracker that has read the first i bytes of s.
Knows(t, s, i) ==
    /\ t \in Tracker
    /\ t.prev_cr <=> i > 0 /\ s[i] = "cr"
    /\ t.line_empty <=> EndsLine(s, i)
    /\ t.at_boundary <=> EndsBlank(s, i)

\* The next byte keeps them so.
LEMMA ByteIsKnown ==
    ASSUME NEW s, NEW i \in Nat, NEW t, Knows(t, s, i)
    PROVE  Knows(FeedByte(t, s[i + 1]), s, i + 1)
<1> DEFINE b == s[i + 1]
           second == b = "lf" /\ i > 0 /\ s[i] = "cr"
<1>1. /\ EndsLine(s, i + 1) <=> b \in Newlines
      /\ LineEnd(s, i + 1) = IF second THEN i - 1 ELSE i
      /\ EndsBlank(s, i + 1) <=> b \in Newlines /\ EndsLine(s, LineEnd(s, i + 1))
  <2>1. i + 1 # 0 /\ (i + 1) - 1 = i /\ (i + 1) - 2 = i - 1 /\ (i + 1 > 1 <=> i > 0)
    OBVIOUS
  <2> QED
    BY <2>1 DEF EndsLine, LineEnd, EndsBlank
<1>2. /\ t = [at_boundary |-> t.at_boundary, line_empty |-> t.line_empty,
              prev_cr |-> t.prev_cr]
      /\ t.at_boundary \in BOOLEAN /\ t.line_empty \in BOOLEAN /\ t.prev_cr \in BOOLEAN
      /\ t.prev_cr <=> i > 0 /\ s[i] = "cr"
      /\ t.line_empty <=> EndsLine(s, i)
      /\ t.at_boundary <=> EndsBlank(s, i)
  BY DEF Knows, Tracker
<1>3. CASE second
  <2>1. FeedByte(t, b) = [t EXCEPT !.prev_cr = FALSE]
    BY <1>2, <1>3 DEF FeedByte, FeedLf
  <2>2. EndsLine(s, i) /\ (EndsBlank(s, i) <=> EndsLine(s, i - 1))
    BY <1>3 DEF EndsLine, EndsBlank, LineEnd, Newlines
  <2> QED
    BY <1>1, <1>2, <1>3, <2>1, <2>2 DEF Knows, Tracker, Newlines
<1>4. CASE b \in Newlines /\ ~ second
  <2> DEFINE f == FeedByte(t, b)
  <2>e. /\ EndsLine(s, i + 1) /\ (EndsBlank(s, i + 1) <=> t.line_empty)
        /\ b = "cr" <=> i + 1 > 0 /\ s[i + 1] = "cr"
    BY <1>1, <1>2, <1>4
  <2>1. CASE b = "lf"
    <3>1. f = [at_boundary |-> t.line_empty, line_empty |-> TRUE, prev_cr |-> FALSE]
      BY <1>2, <1>4, <2>1 DEF FeedByte, FeedLf, EndLine
    <3>2. /\ f \in Tracker /\ f.at_boundary = t.line_empty
          /\ f.line_empty = TRUE /\ f.prev_cr = FALSE
      BY <1>2, <3>1 DEF Tracker
    <3> HIDE DEF f
    <3> QED
      BY <2>e, <2>1, <3>2, Zenon DEF Knows, f
  <2>2. CASE b = "cr"
    <3>1. f = [at_boundary |-> t.line_empty, line_empty |-> TRUE, prev_cr |-> TRUE]
      BY <1>2, <2>2 DEF FeedByte, FeedCr, EndLine
    <3>2. /\ f \in Tracker /\ f.at_boundary = t.line_empty
          /\ f.line_empty = TRUE /\ f.prev_cr = TRUE
      BY <1>2, <3>1 DEF Tracker
    <3> HIDE DEF f
    <3> QED
      BY <2>e, <2>2, <3>2, Zenon DEF Knows, f
  <2> QED
    BY <1>4, <2>1, <2>2 DEF Newlines
<1>5. CASE b \notin Newlines
  BY <1>1, <1>5 DEF FeedByte, FeedContent, Knows, Tracker, Newlines
<1> QED
  BY <1>3, <1>4, <1>5 DEF Newlines

\* What feed computes one byte at a time, over every stream and wherever it is
\* cut: a heartbeat may be written at the start, and behind a line terminator,
\* LF, CR or CR LF, that ends an empty line.  The CR of a CR LF does so before
\* its LF has come.
THEOREM BoundaryIsBlankLine ==
    ASSUME NEW s \in Seq(Byte), NEW n \in 0 .. Len(s)
    PROVE  Knows(Bytewise(NewTracker, s)[n], s, n)
<1> DEFINE r == Bytewise(NewTracker, s)
           T == {i \in Nat : i <= Len(s) => Knows(r[i], s, i)}
<1>1. Len(s) \in Nat
  OBVIOUS
<1>2. r[0] = NewTracker /\ \A i \in 1 .. Len(s) : r[i] = FeedByte(r[i - 1], s[i])
  BY <1>1, BytewiseReads
<1> HIDE DEF r
<1>3. 0 \in T
  <2>1. Knows(NewTracker, s, 0)
    BY DEF NewTracker, Knows, Tracker, EndsLine, EndsBlank
  <2> QED
    BY <1>2, <2>1
<1>4. ASSUME NEW i \in T \cap Nat
      PROVE  i + 1 \in T
  <2> SUFFICES ASSUME i + 1 <= Len(s) PROVE Knows(r[i + 1], s, i + 1)
    OBVIOUS
  <2>1. Knows(r[i], s, i)
    BY <1>1, <1>4
  <2>2. i + 1 \in 1 .. Len(s) /\ (i + 1) - 1 = i
    BY <1>1
  <2>3. r[i + 1] = FeedByte(r[i], s[i + 1])
    BY <1>2, <2>2
  <2> QED
    BY <2>1, <2>3, ByteIsKnown
<1>5. Nat \subseteq T
  BY <1>3, <1>4, NumberInduction
<1> QED
  BY <1>1, <1>5 DEF r

-----------------------------------------------------------------------------
(* The loop *)

\* The inductive invariant: feed is somewhere in its chunk.
FeedInv ==
    /\ Len(bytes) \in Nat
    /\ pos \in 0 .. Len(bytes)
    /\ FeedIsBytewise

\* A chunk has a length, and before its first byte nothing has been read.
LEMMA ChunkStarts ==
    ASSUME NEW t, NEW c \in Chunk
    PROVE  Len(c) \in Nat /\ t = Bytewise(t, c)[0]
<1>1. PICK m \in 0 .. MaxChunk : c \in [1 .. m -> Byte]
  BY DEF Chunk, SeqOf
<1>2. Len(c) \in Nat
  BY <1>1, FeedAssumption
<1> QED
  BY <1>2, BytewiseReads

LEMMA InitFeedInv == Init => FeedInv
  BY ChunkStarts DEF Init, FeedInv, FeedIsBytewise

\* Some(i): the text before the terminator and the terminator itself.
LEMMA NewlineReads == FeedInv /\ Newline => FeedInv'
<1> SUFFICES ASSUME FeedInv, Newline
             PROVE  FeedInv'
  OBVIOUS
<1> DEFINE nl   == CHOOSE i \in Ahead : \A j \in Ahead : i <= j
           read == Bytewise(before, bytes)
           text == IF nl > pos + 1 THEN FeedContent(tracker) ELSE tracker
<1>1. Len(bytes) \in Nat /\ pos \in 0 .. Len(bytes) /\ tracker = read[pos]
  BY DEF FeedInv, FeedIsBytewise
<1>2. nl \in Ahead /\ \A j \in Ahead : nl <= j
  <2>1. Ahead # {} /\ Ahead \subseteq Nat
    BY <1>1 DEF Newline, Ahead
  <2> QED
    BY <2>1, LeastElement
<1>3. /\ tracker' = IF bytes[nl] = "lf" THEN FeedLf(text) ELSE FeedCr(text)
      /\ pos' = nl /\ bytes' = bytes /\ before' = before
  BY DEF Newline
<1> HIDE DEF nl
<1>4. nl \in pos + 1 .. Len(bytes) /\ bytes[nl] \in Newlines
  BY <1>2 DEF Ahead
<1>5. \A i \in pos + 1 .. nl - 1 : bytes[i] \notin Newlines
  BY <1>1, <1>2, <1>4 DEF Ahead
<1>6. read[nl - 1] = text
  <2>1. CASE nl = pos + 1
    BY <2>1, <1>1
  <2>2. CASE nl > pos + 1
    BY <2>2, <1>1, <1>4, <1>5, TextReads
  <2> QED
    BY <2>1, <2>2, <1>1, <1>4
<1>7. read[nl] = FeedByte(text, bytes[nl])
  BY <1>1, <1>4, <1>6, BytewiseReads
<1>8. tracker' = read[nl]
  BY <1>3, <1>4, <1>7 DEF FeedByte, Newlines
<1> QED
  BY <1>1, <1>3, <1>4, <1>8 DEF FeedInv, FeedIsBytewise

\* None: the text behind the last terminator.
LEMMA RemainderReads == FeedInv /\ Remainder => FeedInv'
<1> SUFFICES ASSUME FeedInv, Remainder
             PROVE  FeedInv'
  OBVIOUS
<1>1. /\ Len(bytes) \in Nat /\ pos \in 0 .. Len(bytes) /\ pos < Len(bytes)
      /\ tracker = Bytewise(before, bytes)[pos]
  BY DEF FeedInv, FeedIsBytewise, Remainder
<1>2. \A i \in pos + 1 .. Len(bytes) : bytes[i] \notin Newlines
  BY DEF Remainder, Ahead
<1>3. Bytewise(before, bytes)[Len(bytes)] = FeedContent(tracker)
  BY <1>1, <1>2, TextReads
<1> QED
  BY <1>1, <1>3 DEF Remainder, FeedInv, FeedIsBytewise

LEMMA NextFeedInv == FeedInv /\ [Next]_vars => FeedInv'
<1> SUFFICES ASSUME FeedInv, [Next]_vars
             PROVE  FeedInv'
  OBVIOUS
<1>1. CASE Newline
  BY <1>1, NewlineReads
<1>2. CASE Remainder
  BY <1>2, RemainderReads
<1>3. CASE NextChunk
  BY <1>3, ChunkStarts DEF NextChunk, FeedInv, FeedIsBytewise
<1>4. CASE Done \/ UNCHANGED vars
  BY <1>4 DEF Done, vars, FeedInv, FeedIsBytewise
<1> QED
  BY <1>1, <1>2, <1>3, <1>4 DEF Next

\* FeedIsBytewise: the jumping loop of feed and a byte-by-byte reading leave
\* the same flags, for chunks of every length over every set of bytes, however
\* many are fed one after the other.
THEOREM FeedReadsBytes == Spec => []FeedIsBytewise
<1>1. FeedInv => FeedIsBytewise
  BY DEF FeedInv
<1> QED
  BY InitFeedInv, NextFeedInv, <1>1, PTL DEF Spec
=============================================================================
