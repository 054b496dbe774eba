------------------------------ MODULE Countdown ------------------------------
(***************************************************************************)
(* Induction for temporal formulas, stated as a formula: what the proofs   *)
(* of liveness in this project cite where something counts down, a sleep   *)
(* or the work that is left.                                               *)
(***************************************************************************)
EXTENDS Naturals

\* A number that, whatever it is, becomes smaller unless the goal is reached
\* cannot do so for ever, so the goal is reached.  Every behaviour satisfies
\* this, whatever count and goal are, as the naturals are well-founded: with
\* 0 there is no smaller number, so 0 leads to the goal, and if every number
\* below n leads to it then so does n.
EndsAtZero(count, goal) ==
    (\A n \in Nat : count = n ~> count \in 0 .. n - 1 \/ goal)
        => (count \in Nat ~> goal)
=============================================================================
