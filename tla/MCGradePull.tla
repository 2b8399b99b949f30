----------------------------- MODULE MCGradePull -----------------------------
(***************************************************************************)
(* Instances of GradePull for TLC: two students with the same name, one of  *)
(* them enrolled at first, one Canvas assignment and one GitHub assignment  *)
(* of another slug, two repositories, the first of the students' name, the  *)
(* second, accepted at first, of one that only resembles it.                *)
(***************************************************************************)
EXTENDS GradePull, TLC

MCOn == "r1" :> "b" @@ "r2" :> "b"
MCExact == "r1" :> {1, 2} @@ "r2" :> {}
MCSimilar == "r1" :> {1, 2} @@ "r2" :> {1, 2}
MCCourse == [assignments |-> 1 :> "a", roster |-> {1}, classroom |-> {"b"}, accepted |-> {"r2"}]

\* Two students with names of their own, one of whom never accepts.
TwoNames == "r1" :> {1} @@ "r2" :> {2}
BothEnrolled == [MCCourse EXCEPT !.roster = {1, 2}, !.accepted = {"r1"}]
\* An assignment that both services know by one slug.
SharedSlug == [MCCourse EXCEPT !.classroom = {"a"}, !.accepted = {}]
=============================================================================
