--------------------------- MODULE DispatchProofs ---------------------------
(***************************************************************************)
(* Proofs about Dispatch, for every limit and every length of a body.      *)
(***************************************************************************)
EXTENDS Dispatch, TLAPS

\* take(max_out as u64 + 1) reads one byte more than the limit, unless the
\* limit is the largest u64: then it reads nothing.
LEMMA TakeValue ==
    /\ Take(MaxProbe) \in {0, MaxProbe + 1}
    /\ MaxProbe + 1 < Width => Take(MaxProbe) = MaxProbe + 1
<1>1. CASE MaxProbe + 1 < Width
  <2>1. (MaxProbe + 1) % Width = MaxProbe + 1
    BY <1>1, DispatchAssumption
  <2> QED
    BY <2>1 DEF Take
<1>2. CASE MaxProbe + 1 = Width
  <2>1. (MaxProbe + 1) % Width = 0
    BY <1>2, DispatchAssumption
  <2>2. Take(MaxProbe) = 0 /\ ~ (MaxProbe + 1 < Width)
    BY <1>2, <2>1, DispatchAssumption DEF Take
  <2> QED
    BY <2>2
<1> QED
  BY <1>1, <1>2, DispatchAssumption

\* The inductive invariant: the counters tell how far handle has come, and the
\* stage remembers how the request was told apart.
IInv ==
    /\ TypeOK
    /\ Possible(req)
    /\ RawOrNothing
    /\ stage \in {"collecting", "sse", "buffered", "413", "400"} =>
           Candidate(req) /\ ~ DeclaredTooLong(req) /\ read <= MaxProbe
    /\ stage = "received" => read = 0
    /\ stage \in {"sse", "buffered"} => read = req.size
    /\ stage \in {"transparent", "passed", "cut"} =>
           ~ Candidate(req) \/ DeclaredTooLong(req)
    /\ stage = "sse" => Streams(req)
    /\ stage = "buffered" => ~ Streams(req)
    /\ stage = "413" => req.size > MaxProbe
    /\ stage = "400" => read < req.size

\* It holds in the initial states.
LEMMA InitIInv == Init => IInv
BY DispatchAssumption
   DEF Init, IInv, TypeOK, RawOrNothing, Stages, Request

\* Every step keeps the invariant.
LEMMA NextIInv == IInv /\ [Next]_vars => IInv'
<1> SUFFICES ASSUME IInv, [Next]_vars PROVE IInv'
  OBVIOUS
<1>n. /\ read \in Nat /\ out \in Nat /\ req.size \in Nat /\ MaxProbe \in Nat
      /\ req.size <= MaxBody /\ MaxBody \in Nat
      /\ req \in Request /\ stage \in Stages /\ read <= req.size
  BY DispatchAssumption DEF IInv, TypeOK, Request
<1> USE <1>n DEF IInv, TypeOK, RawOrNothing, Stages, More
<1>c. req' = req => /\ Candidate(req)' = Candidate(req)
                    /\ DeclaredTooLong(req)' = DeclaredTooLong(req)
                    /\ Streams(req)' = Streams(req)
                    /\ Possible(req)' = Possible(req)
  BY Zenon DEF Candidate, DeclaredTooLong, Streams, Decoded, Taken, Possible
<1> USE <1>c
<1>1. CASE GoTransparent
  BY <1>1 DEF GoTransparent
<1>2. CASE StartCollecting
  BY <1>2 DEF StartCollecting
<1>3. CASE Collect
  BY <1>3 DEF Collect, LimitReached
<1>4. CASE ExceedLimit
  BY <1>4 DEF ExceedLimit, LimitReached
<1>5. CASE CollectBreaks
  BY <1>5 DEF CollectBreaks
<1>6. CASE Classify
  BY <1>6 DEF Classify, Collected, Request
<1>7. CASE Pass
  BY <1>7 DEF Pass
<1>8. CASE PassEnds
  BY <1>8 DEF PassEnds
<1>9. CASE PassBreaks
  BY <1>9 DEF PassBreaks
<1>10. CASE UNCHANGED vars
  BY <1>10 DEF vars, Streams, Decoded, Taken
<1> QED
  BY <1>1, <1>2, <1>3, <1>4, <1>5, <1>6, <1>7, <1>8, <1>9, <1>10
     DEF Next, Dispatched

\* It holds throughout.
LEMMA Invariance == Spec => []IInv
<1>1. Init => IInv
  BY InitIInv
<1>2. IInv /\ [Next]_vars => IInv'
  BY NextIInv
<1> QED
  BY <1>1, <1>2, PTL DEF Spec

\* The state of handle keeps its types for every limit and every length: the
\* collected bytes are never more than there are.
THEOREM TypeCorrect == Spec => []TypeOK
<1>1. IInv => TypeOK
  BY DEF IInv
<1> QED
  BY <1>1, Invariance, PTL

\* What the upstream is sent is the client's own body, whole or not at all
\* (lib.rs: collected, not probe_body, goes to handle_stream and
\* proxy_buffered).
THEOREM BytesAreTheClients == Spec => []RawOrNothing
<1>1. IInv => RawOrNothing
  BY DEF IInv
<1> QED
  BY <1>1, Invariance, PTL

\* handle buffers no more than max_probe_body, decodes no more than one byte
\* beyond it, whatever the lengths of the body.
THEOREM MemoryBounded == Spec => []BufferBounded
<1>1. IInv => BufferBounded
  <2> SUFFICES ASSUME IInv PROVE Taken(req) <= MaxProbe + 1
    BY DEF IInv, BufferBounded
  <2>1. req.text \in Nat /\ MaxProbe \in Nat
    BY DispatchAssumption DEF IInv, TypeOK, Request
  <2> QED
    BY <2>1, TakeValue DEF Taken
<1> QED
  BY <1>1, Invariance, PTL

\* handle refuses a request only for a body that is too long or incomplete.
THEOREM RefusalsJustified == Spec => []RefusedForCause
<1>1. IInv => RefusedForCause
  BY DispatchAssumption DEF IInv, TypeOK, Request, RefusedForCause, Candidate,
     DeclaredTooLong, Suffixes
<1> QED
  BY <1>1, Invariance, PTL

\* With a limit below the largest u64, handle wraps exactly the requests that
\* ask for a stream; DispatchWide.cfg shows that the largest one breaks it.
THEOREM WrapsWhatAsks ==
    ASSUME MaxProbe + 1 < Width
    PROVE  Spec => []WrappedIffAsked
<1>1. IInv => WrappedIffAsked
  <2> SUFFICES ASSUME IInv PROVE WrappedIffAsked
    OBVIOUS
  <2>1. /\ req.size \in Nat /\ req.text \in Nat /\ MaxProbe \in Nat
        /\ req.coding = "coded" \/ req.text = req.size
    BY DispatchAssumption DEF IInv, TypeOK, Request, Possible
  <2>2. Decoded(req) <=> (req.coding = "coded" => req.text <= MaxProbe)
    BY <2>1, TakeValue DEF Decoded, Taken
  <2> QED
    BY <2>1, <2>2 DEF IInv, TypeOK, WrappedIffAsked, Streams, AsksForStream,
       Candidate, ToEndpoint, DeclaredTooLong
<1> QED
  BY <1>1, Invariance, PTL

\* The extent of what DispatchWide.cfg shows, for every limit: handle never takes
\* a request for a stream that does not ask for one, and fails to see that one
\* does only if nothing but a compressed body says so and the limit is the
\* largest u64.
THEOREM OnlyCompressedAreMissed ==
    Spec => [](/\ stage = "sse" => /\ ToEndpoint(req) /\ AsksForStream(req)
                                   /\ req.size <= MaxProbe
               /\ ~ WrappedIffAsked => /\ stage = "buffered" /\ ~ req.accept
                                       /\ req.coding = "coded" /\ req.asks
                                       /\ MaxProbe + 1 = Width)
<1>1. ASSUME IInv
      PROVE  /\ stage = "sse" => /\ ToEndpoint(req) /\ AsksForStream(req)
                                 /\ req.size <= MaxProbe
             /\ ~ WrappedIffAsked => /\ stage = "buffered" /\ ~ req.accept
                                     /\ req.coding = "coded" /\ req.asks
                                     /\ MaxProbe + 1 = Width
  <2>1. /\ req.size \in Nat /\ req.text \in Nat /\ MaxProbe \in Nat
        /\ req.coding = "coded" \/ req.text = req.size
    BY <1>1, DispatchAssumption DEF IInv, TypeOK, Request, Possible
  <2>2. Decoded(req) => (req.coding = "coded" => req.text <= MaxProbe)
    BY <2>1 DEF Decoded
  <2>3. req.coding # "coded" => Decoded(req)
    BY DEF Decoded
  <2>4. MaxProbe + 1 < Width /\ req.text <= MaxProbe => Decoded(req)
    BY <2>1, TakeValue DEF Decoded, Taken
  <2>5. MaxProbe + 1 < Width \/ MaxProbe + 1 = Width
    BY DispatchAssumption
  <2> QED
    BY <1>1, <2>1, <2>2, <2>3, <2>4, <2>5 DEF IInv, TypeOK, Stages, WrappedIffAsked, Streams,
       AsksForStream, Candidate, ToEndpoint, DeclaredTooLong
<1> QED
  BY <1>1, Invariance, PTL
=============================================================================
