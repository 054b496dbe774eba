-------------------------- MODULE EventBoundaryMC --------------------------
(***************************************************************************)
(* EventBoundary over every upstream stream of up to MaxBytes bytes, with  *)
(* a byte of text, a colon, LF and CR.                                     *)
(***************************************************************************)
EXTENDS EventBoundary

MCContent == {"d", ":"}
=============================================================================
