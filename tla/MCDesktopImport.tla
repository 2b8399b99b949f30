---------------------------- MODULE MCDesktopImport ----------------------------
(* Instances of DesktopImport. *)
EXTENDS DesktopImport

\* zot import's own runner, and both.
OwnRunner == {FALSE}
BothRunners == BOOLEAN
=============================================================================
