------------------------------- MODULE GradePush -------------------------------
(***************************************************************************)
(* Grades of internal/cass: the local `grades` table the instructor edits,  *)
(* its shadow `_grades_synced`, and the grades Canvas holds.  `sci cass     *)
(* push` (cmd/sci/cass.go, push.go) diffs the tables, posts one bulk update *)
(* per assignment, polls Canvas's background job, and rewrites the shadow   *)
(* table; `sci cass revert` (diff.go) copies it back.                       *)
(*                                                                         *)
(* A cell is a (student, assignment) pair.  Canvas is external: it runs a   *)
(* job when it likes, also after the push stopped waiting for it.           *)
(***************************************************************************)
EXTENDS Naturals

CONSTANTS Cells, Assignments,
          AssignmentOf,   \* [Cells -> Assignments]
          Grades, Blank,  \* posted_grade: a grade, or ''
          NoRow,          \* the table has no row for the cell
          EditsDuring,    \* whether the instructor edits while a command runs
          MaxEdits, MaxCanvasEdits  \* bounds

ASSUME Assumption ==
  /\ AssignmentOf \in [Cells -> Assignments]
  /\ Blank \notin Grades /\ NoRow \notin Grades /\ Blank # NoRow
  /\ EditsDuring \in BOOLEAN /\ MaxEdits \in Nat /\ MaxCanvasEdits \in Nat

VARIABLES
  grades, synced,  \* the two tables
  canvas,          \* what Canvas holds, Blank at first
  pc,              \* "idle", or where the running command is
  forced,          \* --force
  changes,         \* the diff the push works from: the cells and their grades
  todo,            \* assignments still to post
  job,             \* Canvas's job for the current assignment
  late,            \* jobs the push stopped waiting for and Canvas may still run
  acked,           \* history: grades whose job the push saw completed, per cell
  edits, canvasEdits  \* counters of the two bounds

command == <<pc, forced, changes, todo, job, late, acked>>
counters == <<edits, canvasEdits>>
vars == <<grades, synced, canvas, command, counters>>

Loads == UNION {[S -> Grades] : S \in SUBSET Cells}
NoLoad == [c \in {} |-> Blank]
NoJob == [state |-> "none", load |-> NoLoad]

\* DiffLocal: the pending cells.
Pending == {c \in Cells : grades[c] \in Grades /\ grades[c] # synced[c]}

Init ==
  /\ grades = [c \in Cells |-> NoRow] /\ synced = [c \in Cells |-> NoRow]
  /\ canvas = [c \in Cells |-> Blank]
  /\ pc = "idle" /\ forced = FALSE /\ changes = NoLoad /\ todo = {}
  /\ job = NoJob /\ late = {} /\ acked = [c \in Cells |-> {}]
  /\ edits = 0 /\ canvasEdits = 0

-----------------------------------------------------------------------------
\* The instructor, in the table viewer and in Canvas.

Edit(c, g) ==
  /\ EditsDuring \/ pc = "idle"
  /\ edits < MaxEdits /\ grades[c] # g
  /\ grades' = [grades EXCEPT ![c] = g] /\ edits' = edits + 1
  /\ UNCHANGED <<synced, canvas, command, canvasEdits>>

CanvasEdit(c, g) ==
  /\ canvasEdits < MaxCanvasEdits /\ canvas[c] # g
  /\ canvas' = [canvas EXCEPT ![c] = g] /\ canvasEdits' = canvasEdits + 1
  /\ UNCHANGED <<grades, synced, command, edits>>

-----------------------------------------------------------------------------
\* push

\* CheckPushGates and DiffLocal; the preview is shown, and confirmed unless --force.
PushStart(f) ==
  /\ pc = "idle" /\ Pending # {}
  /\ changes' = [c \in Pending |-> grades[c]]
  /\ forced' = f /\ pc' = "confirm"
  /\ UNCHANGED <<grades, synced, canvas, todo, job, late, acked, counters>>

Confirm ==
  /\ pc = "confirm"
  /\ \/ pc' = "post" /\ todo' = {AssignmentOf[c] : c \in DOMAIN changes}
     \/ ~forced /\ pc' = "idle" /\ UNCHANGED todo
  /\ UNCHANGED <<grades, synced, canvas, forced, changes, job, late, acked, counters>>

LoadFor(a) == [c \in {d \in DOMAIN changes : AssignmentOf[d] = a} |-> changes[c]]

\* Go's map iteration takes the assignments in any order.
Post(a) ==
  /\ pc = "post" /\ a \in todo
  /\ \/ /\ pc' = "poll" /\ job' = [state |-> "queued", load |-> LoadFor(a)]
        /\ todo' = todo \ {a} /\ UNCHANGED late
     \/ /\ pc' = "idle" /\ UNCHANGED <<job, todo, late>>     \* refused, or not sent
     \/ /\ pc' = "idle" /\ late' = late \union {LoadFor(a)}   \* the answer was lost
        /\ UNCHANGED <<job, todo>>
  /\ UNCHANGED <<grades, synced, canvas, forced, changes, acked, counters>>

Overwrite(load) == canvas' = [c \in Cells |-> IF c \in DOMAIN load THEN load[c] ELSE canvas[c]]

\* Canvas runs the job being polled, or one nobody polls any more.
JobRuns ==
  /\ \/ /\ job.state = "queued"
        /\ \/ Overwrite(job.load) /\ job' = [job EXCEPT !.state = "completed"]
           \/ job' = [job EXCEPT !.state = "failed"] /\ UNCHANGED canvas
        /\ UNCHANGED late
     \/ \E load \in late : Overwrite(load) /\ late' = late \ {load} /\ UNCHANGED job
  /\ UNCHANGED <<grades, synced, pc, forced, changes, todo, acked, counters>>

\* The job is answered completed: on to the next assignment, or to SyncGrades.
PollDone ==
  /\ pc = "poll" /\ job.state = "completed"
  /\ acked' = [c \in Cells |-> IF c \in DOMAIN job.load THEN acked[c] \union {job.load[c]} ELSE acked[c]]
  /\ pc' = IF todo = {} THEN "sync" ELSE "post"
  /\ job' = NoJob
  /\ UNCHANGED <<grades, synced, canvas, forced, changes, todo, late, counters>>

Abandoned == IF job.state = "queued" THEN late \union {job.load} ELSE late

\* Mutants: an assignment that fails is skipped; one that times out is posted again.
PollFailsSkips ==
  /\ pc = "poll"
  /\ pc' = IF todo = {} THEN "sync" ELSE "post"
  /\ late' = Abandoned /\ job' = NoJob
  /\ UNCHANGED <<grades, synced, canvas, forced, changes, todo, acked, counters>>
PollFailsReposts ==
  /\ pc = "poll"
  /\ pc' = "post" /\ late' = Abandoned /\ job' = NoJob
  /\ todo' = todo \union {AssignmentOf[c] : c \in DOMAIN job.load}
  /\ UNCHANGED <<grades, synced, canvas, forced, changes, acked, counters>>

\* failed, the two-minute timeout, a failed GET or a cancelled context: PushGrades
\* returns the error, and the command ends without SyncGrades.
PollFails ==
  /\ pc = "poll"
  /\ pc' = "idle" /\ late' = Abandoned /\ job' = NoJob
  /\ UNCHANGED <<grades, synced, canvas, forced, changes, todo, acked, counters>>

\* SyncGrades: two statements, each its own transaction.
SyncDelete ==
  /\ pc = "sync"
  /\ synced' = [c \in Cells |-> NoRow] /\ pc' = "insert"
  /\ UNCHANGED <<grades, canvas, forced, changes, todo, job, late, acked, counters>>

\* Mutant: without WHERE posted_grade != ''.
SyncInsertAll ==
  /\ pc = "insert"
  /\ synced' = grades /\ pc' = "idle"
  /\ UNCHANGED <<grades, canvas, forced, changes, todo, job, late, acked, counters>>

SyncInsert ==
  /\ pc = "insert"
  /\ synced' = [c \in Cells |-> IF grades[c] \in Grades THEN grades[c] ELSE NoRow]
  /\ pc' = "idle"
  /\ UNCHANGED <<grades, canvas, forced, changes, todo, job, late, acked, counters>>

-----------------------------------------------------------------------------
\* revert: two statements.

\* Mutant: grades without a baseline are left alone.
RevertDeleteNone ==
  /\ pc = "idle" /\ Pending # {} /\ pc' = "restore"
  /\ UNCHANGED <<grades, synced, canvas, forced, changes, todo, job, late, acked, counters>>

RevertDelete ==
  /\ pc = "idle" /\ Pending # {}
  /\ grades' = [c \in Cells |-> IF synced[c] = NoRow THEN NoRow ELSE grades[c]]
  /\ pc' = "restore"
  /\ UNCHANGED <<synced, canvas, forced, changes, todo, job, late, acked, counters>>

RevertRestore ==
  /\ pc = "restore"
  /\ grades' = [c \in Cells |-> IF grades[c] # NoRow /\ synced[c] # NoRow THEN synced[c] ELSE grades[c]]
  /\ pc' = "idle"
  /\ UNCHANGED <<synced, canvas, forced, changes, todo, job, late, acked, counters>>

\* The process ends between two of its steps.
Crash ==
  /\ pc # "idle"
  /\ pc' = "idle" /\ late' = Abandoned /\ job' = NoJob
  /\ UNCHANGED <<grades, synced, canvas, forced, changes, todo, acked, counters>>

-----------------------------------------------------------------------------
Command == \/ Confirm \/ PollDone \/ PollFails \/ SyncDelete \/ SyncInsert \/ RevertRestore
           \/ \E a \in Assignments : Post(a)

Next == \/ \E c \in Cells, g \in Grades \union {Blank, NoRow} : Edit(c, g)
        \/ \E c \in Cells, g \in Grades : CanvasEdit(c, g)
        \/ \E f \in BOOLEAN : PushStart(f)
        \/ RevertDelete \/ Command \/ JobRuns \/ Crash

Spec == Init /\ [][Next]_vars

\* The command itself goes on; pollProgress's timeout ends a wait Canvas does not.
FairSpec == Spec /\ WF_vars(Command)

-----------------------------------------------------------------------------
\* Properties

TypeOK ==
  /\ grades \in [Cells -> Grades \union {Blank, NoRow}]
  /\ synced \in [Cells -> Grades \union {NoRow}]
  /\ canvas \in [Cells -> Grades \union {Blank}]
  /\ pc \in {"idle", "confirm", "post", "poll", "sync", "insert", "restore"}
  /\ forced \in BOOLEAN /\ changes \in Loads /\ todo \subseteq Assignments
  /\ job \in [state: {"none", "queued", "completed", "failed"}, load: Loads]
  /\ late \subseteq Loads /\ acked \in [Cells -> SUBSET Grades]
  /\ edits \in 0..MaxEdits /\ canvasEdits \in 0..MaxCanvasEdits

\* push.go:102-103, diff.go:74: a cell that is not pending has been pushed: the shadow
\* table holds a grade only if Canvas completed a job with it, whatever failed, timed
\* out or crashed on the way and whatever the instructor edited since.
BaselinePushed == \A c \in Cells : synced[c] \in Grades => synced[c] \in acked[c]

\* diff.go:232: revert discards all pending edits, whatever a push left half done.
RevertClears == [][RevertRestore => Pending' = {}]_vars

\* cmd/sci/cass.go:596, "Discard unpushed grade edits": revert takes away no grade that
\* Canvas accepted and still holds.
RevertKeepsPushed ==
  [][\A c \in Cells : (RevertDelete \/ RevertRestore) /\ grades'[c] # grades[c]
        => ~(grades[c] \in acked[c] /\ canvas[c] = grades[c])]_vars

\* push.go:64: every command ends, also when Canvas never runs a job.
CommandEnds == pc # "idle" ~> pc = "idle"
=============================================================================
