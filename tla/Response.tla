------------------------------ MODULE Response ------------------------------
(***************************************************************************)
(* The contract between a connection and the background task that writes   *)
(* the body of an SSE response, on which Server and Bridge agree: a        *)
(* response is relayed or fed by one task, a fed one ends only when the    *)
(* task has returned, and the loss of the client does not end the task.    *)
(* Server implements it for every connection, Bridge for one request.      *)
(***************************************************************************)
EXTENDS Naturals

VARIABLES
    reply,  \* "quiet", "awaited", "relayed", "fed" or "gone"
    task    \* how many tasks run for it

vars == <<reply, task>>

Init == reply \in {"quiet", "awaited"} /\ task = 0

Ask == reply = "quiet" /\ reply' = "awaited" /\ UNCHANGED task

Relay == reply = "awaited" /\ reply' = "relayed" /\ UNCHANGED task

Feed ==
    /\ reply = "awaited" /\ task = 0
    /\ reply' = "fed" /\ task' = 1

Return == task = 1 /\ task' = 0 /\ UNCHANGED reply

\* The response is complete: the connection is kept, or not.
End ==
    /\ reply = "relayed" \/ (reply = "fed" /\ task = 0)
    /\ reply' \in {"quiet", "gone"}
    /\ UNCHANGED task

\* The client goes away.
Lose == reply' = "gone" /\ UNCHANGED task

\* The process ends.
Die == reply' = "gone" /\ task' = 0

Next == Ask \/ Relay \/ Feed \/ Return \/ End \/ Lose \/ Die

Spec == Init /\ [][Next]_vars
=============================================================================
