------------------------------ MODULE Downstream ------------------------------
(***************************************************************************)
(* What a client of the SSE path is promised, with no word of channels,    *)
(* timers or tasks: it receives the chunks of the upstream's stream in     *)
(* order and without a gap, heartbeats only between events, an error event *)
(* only if the upstream failed and then after everything else, and the end *)
(* of the stream only when it has received all there is to receive.        *)
(*                                                                         *)
(* A chunk is known by where it leaves the event stream: "whole" if it     *)
(* ends behind an empty line, "open" if it ends inside an event.           *)
(***************************************************************************)
EXTENDS Naturals, Sequences

VARIABLES
    sent,       \* the chunks of the upstream's stream
    outcome,    \* "flowing", "finished" or "failed"
    view,       \* what the client has received
    gone        \* the client has disconnected

vars == <<sent, outcome, view, gone>>

View == [got    : Nat,          \* chunks received
         open   : BOOLEAN,      \* the last of them ended inside an event
         last   : {"headers", "heartbeat", "chunk", "separator", "error"},
         over   : BOOLEAN]      \* the stream has ended

NewView == [got |-> 0, open |-> FALSE, last |-> "headers", over |-> FALSE]

Listening == ~ gone /\ ~ view.over /\ view.last # "error"

-----------------------------------------------------------------------------

Init ==
    /\ sent = <<>>
    /\ outcome = "flowing"
    /\ view = NewView
    /\ gone = FALSE

Supply ==
    /\ outcome = "flowing"
    /\ \E kind \in {"whole", "open"} : sent' = Append(sent, kind)
    /\ UNCHANGED <<outcome, view, gone>>

Settle ==
    /\ outcome = "flowing"
    /\ outcome' \in {"finished", "failed"}
    /\ UNCHANGED <<sent, view, gone>>

ReceiveHeartbeat ==
    /\ Listening
    /\ ~ view.open
    /\ view' = [view EXCEPT !.last = "heartbeat"]
    /\ UNCHANGED <<sent, outcome, gone>>

ReceiveChunk ==
    /\ Listening
    /\ view.got < Len(sent)
    /\ view' = [view EXCEPT !.got = @ + 1, !.last = "chunk",
                            !.open = sent[view.got + 1] = "open"]
    /\ UNCHANGED <<sent, outcome, gone>>

\* The failed stream stops inside an event: the event is closed first.
ReceiveSeparator ==
    /\ Listening
    /\ view.open /\ outcome = "failed" /\ view.got = Len(sent)
    /\ view' = [view EXCEPT !.last = "separator", !.open = FALSE]
    /\ UNCHANGED <<sent, outcome, gone>>

ReceiveError ==
    /\ Listening
    /\ ~ view.open /\ outcome = "failed" /\ view.got = Len(sent)
    /\ view' = [view EXCEPT !.last = "error"]
    /\ UNCHANGED <<sent, outcome, gone>>

ReceiveEnd ==
    /\ ~ gone /\ ~ view.over
    /\ \/ view.last = "error"
       \/ outcome = "finished" /\ view.got = Len(sent)
    /\ view' = [view EXCEPT !.over = TRUE]
    /\ UNCHANGED <<sent, outcome, gone>>

Leave ==
    /\ ~ gone /\ ~ view.over
    /\ gone' = TRUE
    /\ UNCHANGED <<sent, outcome, view>>

Next ==
    \/ Supply
    \/ Settle
    \/ ReceiveHeartbeat
    \/ ReceiveChunk
    \/ ReceiveSeparator
    \/ ReceiveError
    \/ ReceiveEnd
    \/ Leave

Spec == Init /\ [][Next]_vars
=============================================================================
