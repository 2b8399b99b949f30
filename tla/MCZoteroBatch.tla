---------------------------- MODULE MCZoteroBatch ----------------------------
(***************************************************************************)
(* Instances of ZoteroBatch for TLC: three patches of different shapes in   *)
(* chunks of two, so that a call has a full chunk, a short one, a slow path *)
(* in the middle and a second round that mixes slots of both.              *)
(***************************************************************************)
EXTENDS ZoteroBatch

CONSTANTS k1, k2, k3, x, y

\* The element to append may be there already.
MCStarts == {{}, {x}}

Patch(k, e, how, loaded) == [key |-> k, elem |-> e, how |-> how, loaded |-> loaded]

\* Appends carry the version they were composed at, as ItemPatch.Rebuild asks.
Proper == <<Patch(k1, x, "append", TRUE), Patch(k2, x, "set", FALSE), Patch(k3, x, "append", TRUE)>>

\* An append composed from the local copy whose item type was not loaded.
Unloaded == <<Patch(k1, x, "append", FALSE)>>
=============================================================================
