------------------------------- MODULE GradePull -------------------------------
(***************************************************************************)
(* Filling the grade database of internal/cass: `sci cass pull` copies the  *)
(* course from Canvas and GitHub Classroom in five phases (pull.go), each a  *)
(* few transactions of their own (db.go), and `sci cass match` gives         *)
(* students the GitHub names found among the submissions (match.go).        *)
(* The two commands may run at the same time and may end anywhere.          *)
(*                                                                         *)
(* Canvas and GitHub are external: `course` is what they answer.  Of a row  *)
(* the model keeps the columns that decide where later rows go; names are   *)
(* compared by the constants Exact and Similar.                             *)
(***************************************************************************)
EXTENDS Naturals, FiniteSets

CONSTANTS
  Students, Ids, Slugs, Repos,
  On,        \* On[r]: the slug of the GitHub assignment repository r was made for
  Exact,     \* Exact[r]: the students whose normalised name is that of r
  Similar,   \* Similar[r]: the students FindCandidates offers for r
  Course,    \* the course at first
  MaxPulls, MaxMatches, MaxChanges  \* bounds

NoName == "noname"
NoId == 0

\* Canvas assignments (id -> slug of the name), Canvas students, GitHub assignments,
\* repositories of the students that accepted one.
Courses == [assignments : UNION {[S -> Slugs] : S \in SUBSET Ids},
            roster : SUBSET Students, classroom : SUBSET Slugs, accepted : SUBSET Repos]

ASSUME Assumption ==
  /\ Ids \subseteq Nat \ {NoId} /\ NoName \notin Repos
  /\ IsFiniteSet(Ids)
  /\ On \in [Repos -> Slugs]
  /\ Exact \in [Repos -> SUBSET Students] /\ Similar \in [Repos -> SUBSET Students]
  /\ \A r \in Repos : Exact[r] \subseteq Similar[r]
  /\ Course \in Courses
  /\ MaxPulls \in Nat /\ MaxMatches \in Nat /\ MaxChanges \in Nat

VARIABLES
  course,     \* what the two services answer
  students,   \* table students: canvas_id -> github_username, NoName for NULL
  rows,       \* table assignments: slug -> [id, gh]: canvas_id, and whether gh_slug is set
  fromCanvas, \* table submissions, source canvas: the slugs that have them, and of which id
  fromGitHub, \* table submissions, source github: the repositories
  lastPull,   \* meta last_pull is set
  pending,    \* meta match_pending
  pull,       \* the running pull: pc, and the GitHub assignments still to merge
  outcome,    \* how the last pull ended
  quiet,      \* history: the course did not change since the last pull began
  strayed,    \* history: an assignment was deleted or renamed while a row had its id
  match,      \* the running match
  pulls, matches, changes  \* counters of the bounds

pullVars == <<rows, fromCanvas, fromGitHub, lastPull, pull, outcome, pulls>>
matchVars == <<pending, match, matches>>
history == <<quiet, strayed>>
vars == <<course, students, pullVars, history, matchVars, changes>>

------------------------------------------------------------------------------
(* The course changes: instructors and students at work. *)

Recorded == {rows[s].id : s \in DOMAIN rows}

Became(c) ==
  /\ changes < MaxChanges /\ changes' = changes + 1
  /\ course' = c /\ quiet' = FALSE
  /\ strayed' = (strayed \/ \E id \in Recorded \intersect DOMAIN course.assignments :
                              \/ id \notin DOMAIN c.assignments
                              \/ c.assignments[id] # course.assignments[id])
  /\ UNCHANGED <<students, pullVars, matchVars>>

\* An assignment is created under an id never used before, or renamed.
NameAssignment ==
  \E id \in Ids, slug \in Slugs :
    /\ id \in DOMAIN course.assignments => course.assignments[id] # slug
    /\ id \notin DOMAIN course.assignments => id \notin Recorded
    /\ Became([course EXCEPT !.assignments =
                 [i \in DOMAIN @ \union {id} |-> IF i = id THEN slug ELSE @[i]]])

DeleteAssignment ==
  \E id \in DOMAIN course.assignments :
    Became([course EXCEPT !.assignments = [i \in DOMAIN @ \ {id} |-> @[i]]])

Enrol == \E s \in Students \ course.roster : Became([course EXCEPT !.roster = @ \union {s}])

AddToClassroom ==
  \E slug \in Slugs \ course.classroom : Became([course EXCEPT !.classroom = @ \union {slug}])

Accept ==
  \E r \in Repos \ course.accepted :
    /\ On[r] \in course.classroom
    /\ Became([course EXCEPT !.accepted = @ \union {r}])

------------------------------------------------------------------------------
(* sci cass pull.  What a phase reads is written by no one else, so each phase *)
(* reads and writes in one step; a course that changes in between changes after. *)

Pulls == [pc : {"idle", "students", "assignments", "submissions", "classroom", "merge", "finish"},
          todo : SUBSET Slugs]

GoTo(pc) == pull' = [pull EXCEPT !.pc = pc]

End(how) == pull' = [pc |-> "idle", todo |-> {}] /\ outcome' = how

StartPull ==
  /\ pull.pc = "idle" /\ pulls < MaxPulls
  /\ pulls' = pulls + 1 /\ quiet' = TRUE /\ outcome' = "none"
  /\ GoTo("students")
  /\ UNCHANGED <<course, students, rows, fromCanvas, fromGitHub, lastPull, strayed, matchVars, changes>>

\* UpsertStudents keeps the local columns and deletes no one.
PullStudents ==
  /\ pull.pc = "students" /\ GoTo("assignments")
  /\ students' = [s \in DOMAIN students \union course.roster |->
                    IF s \in DOMAIN students THEN students[s] ELSE NoName]
  /\ UNCHANGED <<course, rows, fromCanvas, fromGitHub, lastPull, outcome, pulls, history, matchVars, changes>>

\* The order in which Canvas lists its assignments.
Listings(assignments) ==
  {l \in [1..Cardinality(DOMAIN assignments) -> DOMAIN assignments] :
     \A i, j \in DOMAIN l : l[i] = l[j] => i = j}

\* Mutant: a plain INSERT, for which a slug that has a row is a collision.
CollidesOnSlug(list, i, s) ==
  LET slug(n) == course.assignments[list[n]] IN
  \/ s = slug(i)
  \/ rows[s].id = list[i] /\ \A j \in DOMAIN list : j < i => slug(j) # s

\* UNIQUE(canvas_id): row s holds the id that entry i brings to another slug, and no
\* earlier entry of the list has overwritten it.
Collides(list, i, s) ==
  LET slug(n) == course.assignments[list[n]] IN
  /\ s # slug(i) /\ rows[s].id = list[i]
  /\ \A j \in DOMAIN list : j < i => slug(j) # s

\* UpsertAssignments of Canvas's list: the last entry of a slug wins, gh_slug is NULL.
Upserted(list) ==
  LET slug(n) == course.assignments[list[n]]
      named(s) == {n \in DOMAIN list : slug(n) = s}
  IN [s \in DOMAIN rows \union {slug(n) : n \in DOMAIN list} |->
        IF named(s) = {} THEN rows[s]
        ELSE [id |-> list[CHOOSE n \in named(s) : \A m \in named(s) : m <= n], gh |-> FALSE]]

PullAssignments ==
  /\ pull.pc = "assignments"
  /\ \E list \in Listings(course.assignments) :
       IF \E i \in DOMAIN list, s \in DOMAIN rows : Collides(list, i, s)
       THEN End("collision") /\ UNCHANGED rows
       ELSE rows' = Upserted(list) /\ GoTo("submissions") /\ UNCHANGED outcome
  /\ UNCHANGED <<course, students, fromCanvas, fromGitHub, lastPull, pulls, history, matchVars, changes>>

Linked == {s \in DOMAIN rows : rows[s].id # NoId}

\* Mutant: assignments without canvas_id are not skipped.
PullSubmissionsAll ==
  /\ pull.pc = "submissions"
  /\ IF \E s \in Linked : rows[s].id \notin DOMAIN course.assignments
     THEN End("gone") /\ UNCHANGED <<fromCanvas, fromGitHub>>
     ELSE /\ fromCanvas' = {<<s, rows[s].id>> : s \in DOMAIN rows}
          /\ fromGitHub' = {}
          /\ GoTo("classroom") /\ UNCHANGED outcome
  /\ UNCHANGED <<course, students, rows, lastPull, pulls, history, matchVars, changes>>

\* Canvas answers 404 for an assignment it deleted, and the whole phase fails.
\* ReplaceSubmissions deletes GitHub's submissions as well.
PullSubmissions ==
  /\ pull.pc = "submissions"
  /\ IF \E s \in Linked : rows[s].id \notin DOMAIN course.assignments
     THEN End("gone") /\ UNCHANGED <<fromCanvas, fromGitHub>>
     ELSE /\ fromCanvas' = {<<s, rows[s].id>> : s \in Linked}
          /\ fromGitHub' = {}
          /\ GoTo("classroom") /\ UNCHANGED outcome
  /\ UNCHANGED <<course, students, rows, lastPull, pulls, history, matchVars, changes>>

\* No classroom configured, or no token: the pull ends well with Canvas's part.
SkipClassroom ==
  /\ pull.pc = "classroom" /\ lastPull' = TRUE /\ End("canvas")
  /\ UNCHANGED <<course, students, rows, fromCanvas, fromGitHub, pulls, history, matchVars, changes>>

ListClassroom ==
  /\ pull.pc = "classroom" /\ pull' = [pc |-> "merge", todo |-> course.classroom]
  /\ UNCHANGED <<course, students, rows, fromCanvas, fromGitHub, lastPull, outcome, pulls, history, matchVars, changes>>

\* Mutant: an assignment whose slug is known from Canvas is taken for merged.
MergeAssignmentBySlug(slug) ==
  /\ pull.pc = "merge" /\ slug \in pull.todo
  /\ pull' = [pull EXCEPT !.todo = @ \ {slug}]
  /\ rows' = IF slug \in DOMAIN rows THEN rows
             ELSE [s \in DOMAIN rows \union {slug} |->
                     IF s = slug THEN [id |-> NoId, gh |-> TRUE] ELSE rows[s]]
  /\ UNCHANGED <<course, students, fromCanvas, fromGitHub, lastPull, outcome, pulls, history, matchVars, changes>>

\* PullGHAssignments, one transaction per assignment: a row that has the gh_slug gets
\* new points and deadline, any other row of the slug is overwritten, its canvas_id too.
MergeAssignment(slug) ==
  /\ pull.pc = "merge" /\ slug \in pull.todo
  /\ pull' = [pull EXCEPT !.todo = @ \ {slug}]
  /\ rows' = IF slug \in DOMAIN rows /\ rows[slug].gh THEN rows
             ELSE [s \in DOMAIN rows \union {slug} |->
                     IF s = slug THEN [id |-> NoId, gh |-> TRUE] ELSE rows[s]]
  /\ UNCHANGED <<course, students, fromCanvas, fromGitHub, lastPull, outcome, pulls, history, matchVars, changes>>

\* PullGHSubmissions lists the classroom's assignments again.
PullGHSubmissions ==
  /\ pull.pc = "merge" /\ pull.todo = {}
  /\ fromGitHub' = fromGitHub \union {r \in course.accepted : On[r] \in course.classroom}
  /\ GoTo("finish")
  /\ UNCHANGED <<course, students, rows, fromCanvas, lastPull, outcome, pulls, history, matchVars, changes>>

FinishPull ==
  /\ pull.pc = "finish" /\ lastPull' = TRUE /\ End("ok")
  /\ UNCHANGED <<course, students, rows, fromCanvas, fromGitHub, pulls, history, matchVars, changes>>

\* A service fails, ctrl-c, a crash.
AbortPull ==
  /\ pull.pc # "idle" /\ End("aborted")
  /\ UNCHANGED <<course, students, rows, fromCanvas, fromGitHub, lastPull, pulls, history, matchVars, changes>>

------------------------------------------------------------------------------
(* sci cass match. *)

NoMatch == [pc |-> "idle", names |-> {}, free |-> {}, save |-> <<>>, ask |-> {}, left |-> {}, auto |-> FALSE]

Matches == [pc : {"idle", "saving", "done"}, names : SUBSET Repos, free : SUBSET Students,
            save : UNION {[S -> Students] : S \in SUBSET Repos}, ask : SUBSET Repos,
            left : SUBSET Repos, auto : BOOLEAN]

\* What AutoMatch may return, whatever the order of names and candidates: each name gets
\* an exact match that no other name has, while there is one.
AutoMatches(names, free) ==
  {m \in UNION {[S -> free] : S \in SUBSET names} :
     /\ \A r \in DOMAIN m : m[r] \in Exact[r]
     /\ \A r, q \in DOMAIN m : m[r] = m[q] => r = q
     /\ \A r \in names \ DOMAIN m : \A s \in free \intersect Exact[r] : \E q \in DOMAIN m : m[q] = s}

Owner(r) == {s \in DOMAIN students : students[s] = r}

\* Mutant: students who have a name already are matched again.
StartMatchAll ==
  /\ match.pc \in {"idle", "done"} /\ matches < MaxMatches /\ matches' = matches + 1
  /\ LET free == DOMAIN students
         names == fromGitHub
     IN \E auto \in BOOLEAN :
          IF free = {} \/ names = {}
          THEN /\ match' = [NoMatch EXCEPT !.pc = "done"]
               /\ pending' = IF free = {} THEN "false" ELSE pending
          ELSE \E m \in AutoMatches(names, free) :
                 LET rest == names \ DOMAIN m IN
                 /\ match' = [pc |-> "saving", names |-> names, free |-> free, save |-> m, auto |-> auto,
                              ask |-> IF auto THEN {} ELSE rest, left |-> IF auto THEN rest ELSE {}]
                 /\ UNCHANGED pending
  /\ UNCHANGED <<course, students, pullVars, history, changes>>

\* RunMatch up to the first write.  The names are all repositories among the
\* submissions, those of students already matched too.
StartMatch ==
  /\ match.pc \in {"idle", "done"} /\ matches < MaxMatches /\ matches' = matches + 1
  /\ LET free == {s \in DOMAIN students : students[s] = NoName}
         names == fromGitHub
     IN \E auto \in BOOLEAN :
          IF free = {} \/ names = {}
          THEN /\ match' = [NoMatch EXCEPT !.pc = "done"]
               /\ pending' = IF free = {} THEN "false" ELSE pending
          ELSE \E m \in AutoMatches(names, free) :
                 LET rest == names \ DOMAIN m IN
                 /\ match' = [pc |-> "saving", names |-> names, free |-> free, save |-> m, auto |-> auto,
                              ask |-> IF auto THEN {} ELSE rest, left |-> IF auto THEN rest ELSE {}]
                 /\ UNCHANGED pending
  /\ UNCHANGED <<course, students, pullVars, history, changes>>

\* SetStudentGitHubUsername under UNIQUE(github_username): another owner ends the match.
Give(r, s, then) ==
  /\ IF Owner(r) \ {s} = {}
     THEN students' = [students EXCEPT ![s] = r] /\ match' = then
     ELSE match' = NoMatch /\ UNCHANGED students
  /\ UNCHANGED <<course, pullVars, history, pending, matches, changes>>

SaveMatch ==
  /\ match.pc = "saving"
  /\ \E r \in DOMAIN match.save :
       Give(r, match.save[r],
            [match EXCEPT !.save = [q \in DOMAIN @ \ {r} |-> @[q]],
                          !.free = @ \ {match.save[r]}])

Asking(r) == match.pc = "saving" /\ DOMAIN match.save = {} /\ r \in match.ask

\* The user picks one of the candidates not matched in this run.
Choose(r) ==
  /\ Asking(r)
  /\ \E s \in Similar[r] \intersect match.free :
       Give(r, s, [match EXCEPT !.ask = @ \ {r}, !.free = @ \ {s}])

\* Mutant: a name without candidates is not counted.
LeaveUncounted(r) ==
  /\ Asking(r)
  /\ match' = [match EXCEPT !.ask = @ \ {r},
                            !.left = IF Similar[r] \intersect match.free = {} THEN @ ELSE @ \union {r}]
  /\ UNCHANGED <<course, students, pullVars, history, pending, matches, changes>>

\* Skipped by the user, or nobody to offer.
Leave(r) ==
  /\ Asking(r)
  /\ match' = [match EXCEPT !.ask = @ \ {r}, !.left = @ \union {r}]
  /\ UNCHANGED <<course, students, pullVars, history, pending, matches, changes>>

FinishMatch ==
  /\ match.pc = "saving" /\ DOMAIN match.save = {} /\ match.ask = {}
  /\ match' = [match EXCEPT !.pc = "done"]
  /\ pending' = IF match.left = {} THEN "false" ELSE "true"
  /\ UNCHANGED <<course, students, pullVars, history, matches, changes>>

\* ctrl-c at a prompt, a crash
AbortMatch ==
  /\ match.pc = "saving" /\ match' = NoMatch
  /\ UNCHANGED <<course, students, pullVars, history, pending, matches, changes>>

------------------------------------------------------------------------------
Init ==
  /\ course = Course
  /\ students = <<>> /\ rows = <<>> /\ fromCanvas = {} /\ fromGitHub = {}
  /\ lastPull = FALSE /\ pending = "unset"
  /\ pull = [pc |-> "idle", todo |-> {}] /\ outcome = "none"
  /\ quiet = FALSE /\ strayed = FALSE
  /\ match = NoMatch
  /\ pulls = 0 /\ matches = 0 /\ changes = 0

Pull ==
  \/ StartPull \/ PullStudents \/ PullAssignments \/ PullSubmissions
  \/ SkipClassroom \/ ListClassroom \/ \E slug \in Slugs : MergeAssignment(slug)
  \/ PullGHSubmissions \/ FinishPull \/ AbortPull

Match ==
  \/ StartMatch \/ SaveMatch \/ FinishMatch \/ AbortMatch
  \/ \E r \in Repos : Choose(r) \/ Leave(r)

Next ==
  \/ NameAssignment \/ DeleteAssignment \/ Enrol \/ AddToClassroom \/ Accept
  \/ Pull \/ Match

Spec == Init /\ [][Next]_vars
------------------------------------------------------------------------------
(* Properties. *)

\* Every variable has its type.
TypeOK ==
  /\ course \in Courses
  /\ DOMAIN students \subseteq Students /\ \A s \in DOMAIN students : students[s] \in Repos \union {NoName}
  /\ DOMAIN rows \subseteq Slugs /\ \A s \in DOMAIN rows : rows[s] \in [id : Ids \union {NoId}, gh : BOOLEAN]
  /\ fromCanvas \subseteq Slugs \X Ids /\ fromGitHub \subseteq Repos
  /\ lastPull \in BOOLEAN /\ pending \in {"unset", "true", "false"}
  /\ pull \in Pulls
  /\ outcome \in {"none", "ok", "canvas", "collision", "gone", "aborted"}
  /\ quiet \in BOOLEAN /\ strayed \in BOOLEAN
  /\ match \in Matches

\* Ids that two assignments of the course, or an assignment of the classroom, do not share a slug with.
Alone(id) ==
  /\ \A other \in DOMAIN course.assignments \ {id} : course.assignments[other] # course.assignments[id]
  /\ course.assignments[id] \notin course.classroom

\* When a pull has ended well and the course has not changed since it began, the database
\* is the course: every student, every GitHub assignment and submission, every Canvas
\* assignment that shares its slug with no other, each with its submissions, and no
\* canvas_id that Canvas does not have (cassPullCommand, pull.go, db.go).
PullComplete ==
  outcome = "ok" /\ quiet =>
    /\ course.roster \subseteq DOMAIN students
    /\ fromGitHub = {r \in course.accepted : On[r] \in course.classroom}
    /\ \A slug \in course.classroom : slug \in DOMAIN rows /\ rows[slug].gh
    /\ \A id \in DOMAIN course.assignments : Alone(id) =>
         LET slug == course.assignments[id]
         IN slug \in DOMAIN rows /\ rows[slug].id = id /\ <<slug, id>> \in fromCanvas
    /\ \A s \in Linked : rows[s].id \in DOMAIN course.assignments /\ course.assignments[rows[s].id] = s

\* A pull that the services did not fail and the user did not stop fails only after an
\* assignment that a row had recorded was deleted or renamed. New assignments, names that
\* change before a pull sees them, slugs that several assignments or both services share,
\* pulls that ended anywhere and matches never bring UNIQUE(canvas_id) or the 404 about
\* (UpsertAssignments, PullSubmissions).
FailureHasCause == outcome \in {"collision", "gone"} => strayed

\* When a match has ended with match_pending cleared, every name it found belongs to a
\* student: names that were skipped or had no candidate are all counted (RunMatch, the
\* gate of the push).
ClearedMeansMatched ==
  match.pc = "done" /\ pending = "false" => \A r \in match.names : Owner(r) # {}

\* A student who has a GitHub name keeps it and stays in the table, whatever pulls, matches,
\* prompts and crashes follow, also when both commands run at once (UpsertStudents, RunMatch).
NamesKept ==
  [][\A s \in DOMAIN students : s \in DOMAIN students' /\
       (students[s] # NoName => students'[s] = students[s])]_vars

\* match.go:228: the names are those "not yet matched", so a match leaves match_pending set
\* only for a name that is nobody's.
PendingHasName ==
  match.pc = "done" /\ pending = "true" => \E r \in match.left : Owner(r) = {}

\* pull.go:270: the GitHub pull "merges into the assignments table", "by gh_slug or by slug
\* match" (pull.go:292) and reports the row "linked" (pull.go:301), so that after a pull the
\* row of an assignment known to both services has the ids of both.
SharedSlugLinked ==
  outcome = "ok" /\ quiet =>
    \A id \in DOMAIN course.assignments :
      course.assignments[id] \in course.classroom =>
        \E s \in Linked : s = course.assignments[id] /\ rows[s].gh
=============================================================================
