---------------------------- MODULE MCLabTransfer ----------------------------
(* Instances of LabTransfer for TLC: two remotes, any number of sessions. *)
EXTENDS LabTransfer

CONSTANTS a, b, none
=============================================================================
