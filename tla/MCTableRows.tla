---------------------------- MODULE MCTableRows ------------------------------
(***************************************************************************)
(* Instances of TableRows for TLC: a table of two rows, in a writable store *)
(* and in one with full text, and two texts of the search bar that match   *)
(* different rows.  ThreeRows leaves two rows on the screen to sort when   *)
(* one is hidden.                                                          *)
(***************************************************************************)
EXTENDS TableRows, TLC

MCStarts == {[fulltext |-> b, table |-> <<2, 1>>] : b \in BOOLEAN}
ThreeRows == {[fulltext |-> FALSE, table |-> <<2, 1, 2>>]}
MCMeta == "a" :> {1} @@ "b" :> {}
MCBodies == "a" :> {} @@ "b" :> {2}
MCIndex == "a" :> {2} @@ "b" :> {1}
=============================================================================
