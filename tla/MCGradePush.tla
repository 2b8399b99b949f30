----------------------------- MODULE MCGradePush -----------------------------
(***************************************************************************)
(* Instances of GradePush for TLC: two students' cells in two assignments,  *)
(* so that one assignment can fail after another was accepted.             *)
(***************************************************************************)
EXTENDS GradePush, TLC

CONSTANTS hw1, hw2, c1, c2, A, B, blank, norow

TwoCells == c1 :> hw1 @@ c2 :> hw2
=============================================================================
