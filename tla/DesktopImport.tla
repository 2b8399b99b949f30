----------------------------- MODULE DesktopImport -----------------------------
(***************************************************************************)
(* `sci zot import` (internal/zot/cli/import.go): PDFs posted one by one to *)
(* Zotero desktop, which imports them and looks up their metadata.          *)
(*                                                                         *)
(* One file is imported by the command itself (connector/import.go).  A     *)
(* batch (connector/batch.go) runs in a goroutine under a progress display  *)
(* (uikit/ui_spinner.go, runProgress) that owns the keyboard: ctrl+c quits  *)
(* the display, or under RunWithProgressCtx cancels the work first.  The    *)
(* command goes on when the display has ended, reads the variable `batch`   *)
(* the goroutine assigns, prints, and exits, which ends the goroutine too.  *)
(* Desktop is external: it goes on with whatever reached it.                *)
(***************************************************************************)
EXTENDS Naturals, Sequences, FiniteSets

CONSTANTS
  MaxFiles,     \* bound: files of a batch
  Cancellables  \* the runners: FALSE is RunWithProgress, which zot import uses,
                \* TRUE is RunWithProgressCtx, which ImportBatch's ctx is made for

ASSUME Assumption == MaxFiles \in Nat \ {0} /\ Cancellables \subseteq BOOLEAN

VARIABLES
  run,        \* how the command was called
  pc,         \* where the work is
  index,      \* the file it is at, 0 before the first
  verdict,    \* that file's outcome
  items,      \* BatchResult.Items, by outcome; a single file's result
  failed,     \* the work's error is not nil
  hasResult,  \* the work returned a result
  batch,      \* the caller's `batch` is not nil
  cancelled,  \* the work's context is
  display,    \* the progress display
  printed,    \* the result was printed
  outcome,    \* how the command ended, "none" while it runs
  desktop,    \* what desktop makes of each upload
  lost        \* history: uploads whose answer did not come back whole

work == <<pc, index, verdict, items, failed, hasResult, batch>>
command == <<printed, outcome>>
vars == <<run, work, cancelled, display, command, desktop, lost>>

Files == 1..MaxFiles
Runs == [single : BOOLEAN, total : Files, noWait : BOOLEAN,
         cancellable : Cancellables, terminal : BOOLEAN]
Verdicts == {"failed", "imported", "recognized"}

\* A lone path is a single import; a folder that also held other files is a batch.
Init ==
  /\ run \in {r \in Runs : r.single => r.total = 1 /\ ~r.terminal /\ ~r.cancellable}
  /\ pc = IF run.single THEN "open" ELSE "ping"
  /\ index = IF run.single THEN 1 ELSE 0
  /\ verdict = "failed" /\ items = <<>>
  /\ failed = FALSE /\ hasResult = FALSE /\ batch = FALSE /\ cancelled = FALSE
  /\ display = IF run.terminal THEN "up" ELSE "off"
  /\ printed = FALSE /\ outcome = "none"
  /\ desktop = [i \in Files |-> "none"] /\ lost = {}

Running == outcome = "none"
Uploaded == {i \in Files : desktop[i] # "none"}
Saved == {i \in Files : desktop[i] \in {"plain", "recognizing", "found", "nothing"}}

-----------------------------------------------------------------------------
\* The work

At(p) == Running /\ pc = p
Goto(p) == pc' = p /\ UNCHANGED <<failed, hasResult, batch>>
Return(err, result) ==
  /\ pc' = "returned" /\ failed' = err /\ hasResult' = result /\ UNCHANGED batch

\* Mutant: a display that has ended holds the sender up.
SendNeedsDisplay == display \in {"off", "up"}

\* tea.Program.Send hands the message to a display that is up; the context of one
\* that has ended is cancelled and Send drops the message.
SendReturns == display \in {"off", "up", "quit", "broken"}

\* The current file has this outcome.  An error of a single file is the command's.
Settle(v) ==
  IF run.single
  THEN /\ Return(v = "failed", v # "failed") /\ UNCHANGED verdict
       /\ items' = IF v = "failed" THEN <<>> ELSE <<v>>
  ELSE Goto("record") /\ verdict' = v /\ UNCHANGED items

Ping ==
  /\ At("ping")
  /\ \/ ~cancelled /\ Goto(IF run.single THEN "upload" ELSE "next")
     \/ Return(TRUE, FALSE)
  /\ UNCHANGED <<run, index, verdict, items, cancelled, display, command, desktop, lost>>

\* Mutant: one file too many.
StartFilePastEnd ==
  /\ At("next") /\ index <= run.total /\ ~cancelled /\ SendReturns
  /\ index' = index + 1 /\ Goto("open")
  /\ UNCHANGED <<run, verdict, items, cancelled, display, command, desktop, lost>>

\* The head of ImportBatch's loop, OnStart included.
StartFile ==
  /\ At("next") /\ index < run.total /\ ~cancelled /\ SendReturns
  /\ index' = index + 1 /\ Goto("open")
  /\ UNCHANGED <<run, verdict, items, cancelled, display, command, desktop, lost>>

EndBatch ==
  /\ At("next")
  /\ \/ index = run.total /\ Return(FALSE, TRUE)
     \/ index < run.total /\ cancelled /\ Return(TRUE, TRUE)
  /\ UNCHANGED <<run, index, verdict, items, cancelled, display, command, desktop, lost>>

\* openPDF: the file may have gone since the folder was walked, or be empty.
OpenFile ==
  /\ At("open")
  /\ \/ Goto(IF run.single THEN "ping" ELSE "upload") /\ UNCHANGED <<verdict, items>>
     \/ Settle("failed")
  /\ UNCHANGED <<run, index, cancelled, display, command, desktop, lost>>

\* The request leaves; or the file is unreadable, nothing listens, or the context
\* is cancelled.
Upload ==
  /\ At("upload")
  /\ \/ /\ ~cancelled /\ Goto("answer")
        /\ desktop' = [desktop EXCEPT ![index] = "sent"] /\ UNCHANGED <<verdict, items>>
     \/ Settle("failed") /\ UNCHANGED desktop
  /\ UNCHANGED <<run, index, cancelled, display, command, lost>>

\* SaveStandaloneAttachment's answer: not 2xx, canRecognize or not.
Answer ==
  /\ At("answer")
  /\ \/ desktop[index] = "refused" /\ Settle("failed")
     \/ desktop[index] = "plain" /\ Settle("imported")
     \/ /\ desktop[index] \in {"recognizing", "found", "nothing"}
        /\ IF run.single /\ ~run.noWait
           THEN Goto("await") /\ UNCHANGED <<verdict, items>>
           ELSE Settle("imported")
  /\ UNCHANGED <<run, index, cancelled, display, command, desktop, lost>>

\* Mutant: an upload without an answer counts as imported.
LoseAnswerImports ==
  /\ At("answer")
  /\ lost' = lost \union {index} /\ Settle("imported")
  /\ UNCHANGED <<run, index, cancelled, display, command, desktop>>

\* The connection ends, the context is cancelled, or the answer cannot be decoded.
LoseAnswer ==
  /\ At("answer")
  /\ lost' = lost \union {index} /\ Settle("failed")
  /\ UNCHANGED <<run, index, cancelled, display, command, desktop>>

\* GetRecognizedItem: 200 or 204; an error; the timeout is no error.
Await ==
  /\ At("await")
  /\ \/ desktop[index] = "found" /\ Settle("recognized")
     \/ desktop[index] = "nothing" /\ Settle("imported")
     \/ Settle("imported")
     \/ Settle("failed")
  /\ UNCHANGED <<run, index, cancelled, display, command, desktop, lost>>

\* The item is appended and counted, and OnDone called.
Record ==
  /\ At("record") /\ SendReturns
  /\ items' = Append(items, verdict) /\ Goto("next")
  /\ UNCHANGED <<run, index, verdict, cancelled, display, command, desktop, lost>>

\* `batch = res`, and workErr <- err.
AssignBatch ==
  /\ At("returned")
  /\ batch' = hasResult /\ pc' = "done"
  /\ UNCHANGED <<run, index, verdict, items, failed, hasResult, cancelled, display,
                 command, desktop, lost>>

\* p.Send(doneMsg); one the display gets ends it.
SendDone ==
  /\ At("done") /\ display = "up"
  /\ display' = "done" /\ pc' = "ended"
  /\ UNCHANGED <<run, index, verdict, items, failed, hasResult, batch, cancelled,
                 command, desktop, lost>>

-----------------------------------------------------------------------------
\* The display

CtrlC ==
  /\ Running /\ display = "up"
  /\ IF run.cancellable /\ ~cancelled
     THEN cancelled' = TRUE /\ UNCHANGED display
     ELSE display' = "quit" /\ UNCHANGED cancelled
  /\ UNCHANGED <<run, work, command, desktop, lost>>

\* tea.Program.Run fails: no terminal after all, a panic, an interrupt signal.
DisplayBreaks ==
  /\ Running /\ display = "up"
  /\ display' = "broken"
  /\ UNCHANGED <<run, work, cancelled, command, desktop, lost>>

-----------------------------------------------------------------------------
\* The command

\* runProgress returned err: runImportBatch.
Finish(err) ==
  /\ printed' = batch
  /\ outcome' = IF err /\ (~batch \/ \A i \in DOMAIN items : items[i] = "failed")
                THEN "error" ELSE "ok"

\* The display has quit: the command does not wait for the work.
Abandon == display = "quit" /\ Finish(TRUE)

\* The display has ended with the work.
Ended == display = "done" /\ Finish(failed \/ cancelled)

\* No display, or a broken one (reportDisplayFailure): the work's own error.
WorkDone == display \in {"off", "broken"} /\ pc = "done" /\ Finish(failed)

Exit ==
  /\ Running
  /\ Abandon \/ Ended \/ WorkDone
  /\ UNCHANGED <<run, work, cancelled, display, desktop, lost>>

\* A signal that nothing handles.
Killed ==
  /\ Running
  /\ outcome' = "killed"
  /\ UNCHANGED <<run, work, cancelled, display, printed, desktop, lost>>

-----------------------------------------------------------------------------
\* Desktop takes an upload that reached it, whoever still waits for the answer.

Import(i) ==
  /\ desktop[i] = "sent"
  /\ \E s \in {"refused", "plain", "recognizing"} : desktop' = [desktop EXCEPT ![i] = s]
  /\ UNCHANGED <<run, work, cancelled, display, command, lost>>

Recognize(i) ==
  /\ desktop[i] = "recognizing"
  /\ \E s \in {"found", "nothing"} : desktop' = [desktop EXCEPT ![i] = s]
  /\ UNCHANGED <<run, work, cancelled, display, command, lost>>

-----------------------------------------------------------------------------
Work == Ping \/ StartFile \/ EndBatch \/ OpenFile \/ Upload \/ Answer \/ LoseAnswer
        \/ Await \/ Record \/ AssignBatch \/ SendDone

Next ==
  \/ Work
  \/ CtrlC \/ DisplayBreaks \/ Exit \/ Killed
  \/ \E i \in Files : Import(i) \/ Recognize(i)

\* The work goes on: a call is answered, or its connection ends.
Spec == Init /\ [][Next]_vars /\ WF_vars(Work) /\ WF_vars(Exit)

-----------------------------------------------------------------------------
TypeOK ==
  /\ run \in Runs
  /\ pc \in {"open", "ping", "next", "upload", "answer", "await", "record", "returned",
             "done", "ended"}
  /\ index \in 0..run.total
  /\ verdict \in Verdicts
  /\ items \in Seq(Verdicts)
  /\ failed \in BOOLEAN /\ hasResult \in BOOLEAN /\ batch \in BOOLEAN
  /\ cancelled \in BOOLEAN /\ display \in {"off", "up", "quit", "broken", "done"}
  /\ printed \in BOOLEAN /\ outcome \in {"none", "ok", "error", "killed"}
  /\ desktop \in [Files -> {"none", "sent", "refused", "plain", "recognizing", "found",
                            "nothing"}]
  /\ lost \subseteq Files

\* What is reported of a file is what desktop did with it, also later: an import it
\* really has, a title it really found, and a failure it does not have, unless the
\* answer got lost on the way (importOne, importBatchItem).
ItemsTrue ==
  \A i \in DOMAIN items :
    /\ items[i] # "failed" => i \in Saved
    /\ items[i] = "recognized" => desktop[i] = "found"
    /\ items[i] = "failed" /\ i \in Saved => i \in lost

\* A printed batch leaves out nothing that was sent, and all the paths are in it when
\* nobody interrupted.  The command succeeds with every path reported, or was cut short
\* by ctrl+c having imported some; a batch it does not report at all sent nothing,
\* unless the user quit the display (runImportBatch, runProgress).
ExitTrue ==
  /\ printed => Uploaded \subseteq DOMAIN items /\ (Len(items) = run.total \/ cancelled)
  /\ outcome = "ok" =>
       printed /\ (Len(items) = run.total \/ \E i \in DOMAIN items : items[i] # "failed")
  /\ outcome = "error" /\ ~run.single /\ ~printed => Uploaded = {} \/ display = "quit"

ReportTrue == ItemsTrue /\ ExitTrue

\* The command ends: the display ends with the work, and work whose display is gone
\* is not held up by it (runProgress, reportDisplayFailure).
CommandEnds == <>(outcome # "none")

-----------------------------------------------------------------------------
\* cli/import.go:149 says of a command that fails without a batch: "Hard failure (e.g.
\* Ping refused) before any per-file work".
HardFailureBeforeWork == outcome = "error" /\ ~run.single /\ ~printed => Uploaded = {}

\* cli/import.go:174 says "Surface a non-zero exit when the whole batch failed".
WholeFailureSurfaces ==
  outcome = "ok" => \E i \in DOMAIN items : items[i] # "failed"

\* ui_spinner.go:389 says of ctrl+c that it "quits the *display* only - the work keeps
\* running to completion".
WorkCompletes == (display = "quit") ~> (pc \in {"done", "ended"})
=============================================================================
