---------------------------- MODULE GradePushProofs ----------------------------
(***************************************************************************)
(* Theorems about GradePush, for any cells, assignments, grades and bounds. *)
(*                                                                         *)
(* NoEditDuring is the discipline under which push and revert are correct:  *)
(* nobody edits the grades table while a command runs.                     *)
(***************************************************************************)
EXTENDS GradePush, TLAPS

NoEditDuring == ~EditsDuring

\* The diff a running push holds is still the table: a grade in the table is either in
\* the diff or was in the baseline, hence acknowledged, when the push began.
DiffCurrent ==
  pc \in {"confirm", "post", "poll", "sync", "insert"} =>
    \A c \in Cells : grades[c] \in Grades =>
      \/ c \in DOMAIN changes /\ changes[c] = grades[c]
      \/ grades[c] \in acked[c]

\* Every grade of the diff is still to be posted, in the job being polled, or
\* acknowledged; the sync comes after the last assignment.
DiffProgress ==
  /\ pc \in {"post", "poll", "sync", "insert"} =>
       \A c \in DOMAIN changes :
         \/ AssignmentOf[c] \in todo
         \/ pc = "poll" /\ c \in DOMAIN job.load /\ job.load[c] = changes[c]
         \/ changes[c] \in acked[c]
  /\ pc \in {"sync", "insert"} => todo = {}

\* Between its two statements, revert has left rows only where there is a baseline.
RevertHalfway == pc = "restore" => \A c \in Cells : synced[c] = NoRow => grades[c] = NoRow

IInv == TypeOK /\ BaselinePushed /\ DiffCurrent /\ DiffProgress /\ RevertHalfway

-----------------------------------------------------------------------------
LEMMA LoadsAre ==
  ASSUME NEW f
  PROVE  f \in Loads <=> /\ f = [c \in DOMAIN f |-> f[c]]
                         /\ DOMAIN f \subseteq Cells
                         /\ \A c \in DOMAIN f : f[c] \in Grades
<1>1. ASSUME f \in Loads
      PROVE  /\ f = [c \in DOMAIN f |-> f[c]] /\ DOMAIN f \subseteq Cells
             /\ \A c \in DOMAIN f : f[c] \in Grades
  <2>1. PICK S \in SUBSET Cells : f \in [S -> Grades]
    BY <1>1 DEF Loads
  <2> QED BY <2>1
<1>2. ASSUME f = [c \in DOMAIN f |-> f[c]], DOMAIN f \subseteq Cells,
             \A c \in DOMAIN f : f[c] \in Grades
      PROVE  f \in Loads
  <2>1. f \in [DOMAIN f -> Grades]
    BY <1>2
  <2> QED BY <1>2, <2>1 DEF Loads
<1> QED BY <1>1, <1>2

LEMMA NoLoadType == NoLoad \in Loads
<1>1. DOMAIN NoLoad = {} /\ NoLoad = [c \in DOMAIN NoLoad |-> NoLoad[c]]
  BY DEF NoLoad
<1> QED BY <1>1, LoadsAre

LEMMA LoadForType ==
  ASSUME changes \in Loads, NEW a
  PROVE  /\ LoadFor(a) \in Loads
         /\ DOMAIN LoadFor(a) = {c \in DOMAIN changes : AssignmentOf[c] = a}
         /\ \A c \in DOMAIN LoadFor(a) : LoadFor(a)[c] = changes[c]
<1>1. DOMAIN changes \subseteq Cells /\ \A c \in DOMAIN changes : changes[c] \in Grades
  BY LoadsAre
<1>2. /\ DOMAIN LoadFor(a) = {c \in DOMAIN changes : AssignmentOf[c] = a}
      /\ \A c \in DOMAIN LoadFor(a) : LoadFor(a)[c] = changes[c]
      /\ LoadFor(a) = [c \in DOMAIN LoadFor(a) |-> LoadFor(a)[c]]
  BY DEF LoadFor
<1>3. LoadFor(a) \in Loads
  BY <1>1, <1>2, LoadsAre
<1> QED BY <1>2, <1>3

\* TypeOK unfolded to what the steps of a push need of it.
LEMMA JobTypes ==
  ASSUME TypeOK
  PROVE  /\ job.load \in Loads /\ Abandoned \subseteq Loads /\ NoJob \in [state: {"none", "queued", "completed", "failed"}, load: Loads]
  BY NoLoadType DEF TypeOK, Abandoned, NoJob

\* What Canvas's job leaves in Canvas.
LEMMA OverwriteType ==
  ASSUME TypeOK, NEW load \in Loads, Overwrite(load)
  PROVE  canvas' \in [Cells -> Grades \union {Blank}]
<1>1. \A c \in DOMAIN load : load[c] \in Grades
  BY LoadsAre
<1> QED BY <1>1 DEF Overwrite, TypeOK

LEMMA TypeInit == Init => TypeOK
<1> SUFFICES ASSUME Init PROVE TypeOK
  OBVIOUS
<1>1. job \in [state: {"none", "queued", "completed", "failed"}, load: Loads]
  BY NoLoadType DEF Init, NoJob
<1>2. edits \in 0..MaxEdits /\ canvasEdits \in 0..MaxCanvasEdits
  BY Assumption DEF Init
<1>3. changes \in Loads /\ late \subseteq Loads
  BY NoLoadType DEF Init
<1> QED BY <1>1, <1>2, <1>3 DEF Init, TypeOK

LEMMA TypeStep == TypeOK /\ [Next]_vars => TypeOK'
<1> SUFFICES ASSUME TypeOK, [Next]_vars PROVE TypeOK'
  OBVIOUS
<1> USE DEF command, counters
<1>1. ASSUME NEW c \in Cells, NEW g \in Grades \union {Blank, NoRow}, Edit(c, g) PROVE TypeOK'
  BY <1>1, Assumption DEF Edit, TypeOK
<1>2. ASSUME NEW c \in Cells, NEW g \in Grades, CanvasEdit(c, g) PROVE TypeOK'
  BY <1>2, Assumption DEF CanvasEdit, TypeOK
<1>3. ASSUME NEW f \in BOOLEAN, PushStart(f) PROVE TypeOK'
  <2>1. Pending \subseteq Cells /\ \A c \in Pending : grades[c] \in Grades
    BY DEF Pending
  <2>2. DOMAIN changes' = Pending /\ changes' = [c \in DOMAIN changes' |-> changes'[c]]
        /\ \A c \in Pending : changes'[c] = grades[c]
    BY <1>3 DEF PushStart
  <2>3. changes' \in Loads
    BY <2>1, <2>2, LoadsAre
  <2> QED BY <1>3, <2>3 DEF PushStart, TypeOK
<1>4. RevertDelete => TypeOK'
  BY DEF RevertDelete, TypeOK
<1>5. Command => TypeOK'
  <2>1. Confirm => TypeOK'
    <3>1. \A c \in DOMAIN changes : AssignmentOf[c] \in Assignments
      BY LoadsAre, Assumption DEF TypeOK
    <3> QED BY <3>1 DEF Confirm, TypeOK
  <2>2. PollDone => TypeOK'
    <3> SUFFICES ASSUME PollDone PROVE TypeOK'
      OBVIOUS
    <3>1. \A c \in DOMAIN job.load : job.load[c] \in Grades
      BY LoadsAre, JobTypes
    <3>2. acked' \in [Cells -> SUBSET Grades]
      BY <3>1 DEF PollDone, TypeOK
    <3> QED BY <3>2, JobTypes DEF PollDone, TypeOK
  <2>3. PollFails => TypeOK'
    BY JobTypes DEF PollFails, TypeOK
  <2>4. SyncDelete => TypeOK'
    BY DEF SyncDelete, TypeOK
  <2>5. SyncInsert => TypeOK'
    BY DEF SyncInsert, TypeOK
  <2>6. RevertRestore => TypeOK'
    BY DEF RevertRestore, TypeOK
  <2>7. ASSUME NEW a \in Assignments, Post(a) PROVE TypeOK'
    <3>1. LoadFor(a) \in Loads
      BY LoadForType DEF TypeOK
    <3> QED BY <2>7, <3>1 DEF Post, TypeOK
  <2> QED BY <2>1, <2>2, <2>3, <2>4, <2>5, <2>6, <2>7 DEF Command
<1>6. JobRuns => TypeOK'
  <2> SUFFICES ASSUME JobRuns PROVE TypeOK'
    OBVIOUS
  <2>1. canvas' \in [Cells -> Grades \union {Blank}]
    BY OverwriteType, JobTypes DEF JobRuns, TypeOK
  <2>2. /\ job' \in [state: {"none", "queued", "completed", "failed"}, load: Loads]
        /\ late' \subseteq Loads
    BY DEF JobRuns, TypeOK
  <2> QED BY <2>1, <2>2 DEF JobRuns, TypeOK
<1>7. Crash => TypeOK'
  BY JobTypes DEF Crash, TypeOK
<1>8. CASE UNCHANGED vars
  BY <1>8 DEF vars, TypeOK
<1> QED BY <1>1, <1>2, <1>3, <1>4, <1>5, <1>6, <1>7, <1>8 DEF Next

\* Every reachable state is well typed.
THEOREM TypeCorrect == Spec => []TypeOK
<1> QED BY TypeInit, TypeStep, PTL DEF Spec

-----------------------------------------------------------------------------
LEMMA BaselineStep ==
  TypeOK /\ BaselinePushed /\ DiffCurrent /\ DiffProgress /\ [Next]_vars => BaselinePushed'
<1> SUFFICES ASSUME TypeOK, BaselinePushed, DiffCurrent, DiffProgress, [Next]_vars
             PROVE  BaselinePushed'
  OBVIOUS
<1> USE DEF command, counters
<1>1. CASE UNCHANGED synced /\ \A c \in Cells : acked[c] \subseteq acked'[c]
  BY <1>1 DEF BaselinePushed
<1>2. CASE SyncDelete
  BY <1>2, Assumption DEF SyncDelete, BaselinePushed
<1>3. CASE SyncInsert
  <2>1. pc = "insert" /\ todo = {} /\ UNCHANGED acked
    BY <1>3 DEF SyncInsert, DiffProgress
  <2>2. ASSUME NEW c \in Cells, grades[c] \in Grades PROVE grades[c] \in acked[c]
    BY <2>1, <2>2 DEF DiffCurrent, DiffProgress
  <2>3. \A c \in Cells : synced'[c] \in Grades => synced'[c] = grades[c] /\ grades[c] \in Grades
    BY <1>3, Assumption DEF SyncInsert
  <2> QED BY <2>1, <2>2, <2>3 DEF BaselinePushed
<1>4. CASE PollDone
  <2>1. UNCHANGED synced /\ \A c \in Cells : acked[c] \subseteq acked'[c]
    BY <1>4 DEF PollDone
  <2> QED BY <1>1, <2>1
<1>5. CASE UNCHANGED <<synced, acked>>
  BY <1>5 DEF BaselinePushed
<1>6. SyncDelete \/ SyncInsert \/ PollDone \/ UNCHANGED <<synced, acked>>
  BY DEF Next, Command, Edit, CanvasEdit, PushStart, RevertDelete, Confirm, PollFails,
         RevertRestore, Post, JobRuns, Crash, vars
<1> QED BY <1>2, <1>3, <1>4, <1>5, <1>6

LEMMA DiffCurrentStep ==
  NoEditDuring /\ TypeOK /\ BaselinePushed /\ DiffCurrent /\ [Next]_vars => DiffCurrent'
<1> SUFFICES ASSUME NoEditDuring, TypeOK, BaselinePushed, DiffCurrent, [Next]_vars
             PROVE  DiffCurrent'
  OBVIOUS
<1> USE DEF command, counters
<1>1. CASE pc' \in {"idle", "restore"}
  BY <1>1 DEF DiffCurrent
<1>2. ASSUME NEW f \in BOOLEAN, PushStart(f) PROVE DiffCurrent'
  <2>1. /\ DOMAIN changes' = Pending /\ \A c \in Pending : changes'[c] = grades[c]
        /\ UNCHANGED <<grades, acked>>
    BY <1>2 DEF PushStart
  <2>2. \A c \in Cells : grades[c] \in Grades => c \in Pending \/ grades[c] \in acked[c]
    BY DEF Pending, BaselinePushed
  <2> QED BY <2>1, <2>2 DEF DiffCurrent
<1>3. CASE PollDone
  <2>1. /\ UNCHANGED <<grades, changes>> /\ pc = "poll"
        /\ \A c \in Cells : acked[c] \subseteq acked'[c]
    BY <1>3 DEF PollDone
  <2> QED BY <2>1 DEF DiffCurrent
<1>4. CASE UNCHANGED <<grades, changes, acked>> /\ (pc' = pc \/ Confirm \/ SyncDelete \/ \E a \in Assignments : Post(a))
  BY <1>4 DEF DiffCurrent, Confirm, SyncDelete, Post
<1>5. ASSUME NEW c \in Cells, NEW g \in Grades \union {Blank, NoRow}, Edit(c, g)
      PROVE  pc' = "idle"
  BY <1>5 DEF Edit, NoEditDuring
<1>6. CASE UNCHANGED vars
  BY <1>4, <1>6 DEF vars
<1> QED BY <1>1, <1>2, <1>3, <1>4, <1>5, <1>6
        DEF Next, Command, CanvasEdit, RevertDelete, Confirm, PollFails, SyncDelete, SyncInsert,
            RevertRestore, Post, JobRuns, Crash

LEMMA DiffProgressStep ==
  TypeOK /\ DiffProgress /\ [Next]_vars => DiffProgress'
<1> SUFFICES ASSUME TypeOK, DiffProgress, [Next]_vars PROVE DiffProgress'
  OBVIOUS
<1> USE DEF command, counters
<1>1. CASE pc' \in {"idle", "confirm", "restore"}
  BY <1>1 DEF DiffProgress
<1>2. CASE Confirm /\ pc' = "post"
  BY <1>2 DEF Confirm, DiffProgress
<1>3. ASSUME NEW a \in Assignments, Post(a), pc' = "poll" PROVE DiffProgress'
  <2>1. /\ UNCHANGED <<changes, acked>> /\ pc = "post" /\ todo' = todo \ {a}
        /\ job'.load = LoadFor(a)
    BY <1>3 DEF Post
  <2>2. \A c \in DOMAIN changes : AssignmentOf[c] = a =>
          c \in DOMAIN LoadFor(a) /\ LoadFor(a)[c] = changes[c]
    BY LoadForType DEF TypeOK
  <2> QED BY <1>3, <2>1, <2>2 DEF DiffProgress
<1>4. CASE PollDone
  <2>1. /\ UNCHANGED <<changes, todo>> /\ pc = "poll"
        /\ pc' \in {"post", "sync"} /\ (pc' = "sync" => todo = {})
    BY <1>4 DEF PollDone
  <2>2. DOMAIN changes \subseteq Cells
    BY LoadsAre DEF TypeOK
  <2>3. \A c \in DOMAIN changes :
          /\ acked[c] \subseteq acked'[c]
          /\ c \in DOMAIN job.load => job.load[c] \in acked'[c]
    BY <1>4, <2>2 DEF PollDone
  <2> QED BY <2>1, <2>3 DEF DiffProgress
<1>5. CASE SyncDelete
  BY <1>5 DEF SyncDelete, DiffProgress
<1>6. CASE JobRuns
  <2>1. UNCHANGED <<pc, changes, todo, acked>> /\ job'.load = job.load
    BY <1>6 DEF JobRuns, TypeOK
  <2> QED BY <2>1 DEF DiffProgress
<1>7. CASE UNCHANGED <<pc, changes, todo, acked, job>>
  BY <1>7 DEF DiffProgress
<1> QED BY <1>1, <1>2, <1>3, <1>4, <1>5, <1>6, <1>7
        DEF Next, Command, Edit, CanvasEdit, PushStart, RevertDelete, Confirm, PollFails,
            SyncInsert, RevertRestore, Post, Crash, vars

LEMMA RevertHalfwayStep ==
  NoEditDuring /\ TypeOK /\ RevertHalfway /\ [Next]_vars => RevertHalfway'
<1> SUFFICES ASSUME NoEditDuring, TypeOK, RevertHalfway, [Next]_vars PROVE RevertHalfway'
  OBVIOUS
<1> USE DEF command, counters
<1>1. CASE RevertDelete
  BY <1>1 DEF RevertDelete, RevertHalfway
<1>2. CASE UNCHANGED <<pc, grades, synced>>
  BY <1>2 DEF RevertHalfway
<1>3. CASE pc' # "restore"
  BY <1>3 DEF RevertHalfway
<1>4. ASSUME NEW c \in Cells, NEW g \in Grades \union {Blank, NoRow}, Edit(c, g)
      PROVE  pc' # "restore"
  BY <1>4 DEF Edit, NoEditDuring
<1> QED BY <1>1, <1>2, <1>3, <1>4
        DEF Next, Command, CanvasEdit, PushStart, Confirm, PollDone, PollFails, SyncDelete,
            SyncInsert, RevertRestore, Post, JobRuns, Crash, vars

LEMMA IInvInit == Init => IInv
<1> SUFFICES ASSUME Init PROVE IInv
  OBVIOUS
<1>1. TypeOK
  BY TypeInit
<1>2. BaselinePushed /\ DiffCurrent /\ DiffProgress /\ RevertHalfway
  BY Assumption DEF Init, BaselinePushed, DiffCurrent, DiffProgress, RevertHalfway
<1> QED BY <1>1, <1>2 DEF IInv

LEMMA IInvStep == NoEditDuring /\ IInv /\ [Next]_vars => IInv'
  BY TypeStep, BaselineStep, DiffCurrentStep, DiffProgressStep, RevertHalfwayStep DEF IInv

\* push.go:102-103, diff.go:74: when nobody edits during a command, the baseline table
\* claims only what Canvas acknowledged, through failed assignments, timeouts, late jobs,
\* crashes between the two statements of SyncGrades, and reverts.
THEOREM BaselineHolds == NoEditDuring /\ Spec => []BaselinePushed
<1> SUFFICES ASSUME NoEditDuring PROVE Spec => []BaselinePushed
  OBVIOUS
<1>1. IInv /\ [Next]_vars => IInv'
  BY IInvStep
<1>2. IInv => BaselinePushed
  BY DEF IInv
<1> QED BY <1>1, <1>2, IInvInit, PTL DEF Spec

\* diff.go:232: when nobody edits during a command, a revert that reaches its second
\* statement leaves nothing pending.
THEOREM RevertComplete == NoEditDuring /\ Spec => RevertClears
<1> SUFFICES ASSUME NoEditDuring PROVE Spec => RevertClears
  OBVIOUS
<1>1. IInv /\ [Next]_vars => IInv'
  BY IInvStep
<1>2. IInv /\ [Next]_vars => [RevertRestore => Pending' = {}]_vars
  <2> SUFFICES ASSUME IInv, RevertRestore PROVE Pending' = {}
    OBVIOUS
  <2>1. \A c \in Cells : synced[c] = NoRow => grades[c] = NoRow
    BY DEF IInv, RevertHalfway, RevertRestore
  <2>2. \A c \in Cells : grades'[c] \in Grades => grades'[c] = synced'[c]
    BY <2>1, Assumption DEF IInv, TypeOK, RevertRestore
  <2> QED BY <2>2 DEF Pending
<1> QED BY <1>1, <1>2, IInvInit, PTL DEF Spec, RevertClears
=============================================================================
