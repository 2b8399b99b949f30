-------------------------- MODULE DesktopImportProofs --------------------------
(***************************************************************************)
(* Theorems about DesktopImport, for any number of files and either runner. *)
(*                                                                         *)
(* What is reported is true of desktop only because the items are in step   *)
(* with the loop's index, because no request leaves for a file that is      *)
(* already reported, and because a result exists once the work has          *)
(* returned: Inv says so at every place the work can be.                    *)
(***************************************************************************)
EXTENDS DesktopImport, TLAPS

\* The work has a file in hand that is not among the items yet; it has not sent it;
\* it has returned.
InHand == pc \in {"open", "upload", "answer", "await", "record"} \/ (run.single /\ pc = "ping")
Unsent == pc \in {"open", "upload", "ping"}
Returned == pc \in {"returned", "done", "ended"}

Outcome(i, v) ==
  /\ v # "failed" => i \in Saved
  /\ v = "recognized" => desktop[i] = "found"
  /\ v = "failed" => desktop[i] \in {"none", "refused"} \/ i \in lost

\* The items are the files before the current one.
InStep ==
  /\ pc = "ping" /\ ~run.single => index = 0
  /\ InHand => index >= 1 /\ Len(items) = index - 1
  /\ ~InHand => Len(items) = IF run.single /\ failed THEN 0 ELSE index

\* Nothing is sent ahead of the loop.
SentInOrder == \A i \in Uploaded : i <= index /\ (Unsent => i < index)

\* Each item, and the outcome about to become one.
OutcomesTrue ==
  /\ \A i \in DOMAIN items : Outcome(i, items[i])
  /\ pc = "record" => Outcome(index, verdict)
  /\ pc = "await" => index \in Saved

\* A batch without a result has done nothing, one without an error is whole.
ResultTrue ==
  /\ Returned /\ ~failed => hasResult /\ index = run.total
  /\ Returned /\ ~hasResult => failed /\ (~run.single => index = 0)
  /\ Returned /\ run.single => hasResult = ~failed
  /\ Returned /\ failed /\ hasResult => cancelled
  /\ ~Returned => ~failed /\ ~hasResult
  /\ batch = (hasResult /\ pc \in {"done", "ended"})

\* A single import has no display; a display that is done saw the work end.
ModeTrue ==
  /\ run.single => index = 1 /\ run.total = 1 /\ display = "off" /\ ~cancelled
                   /\ pc \notin {"next", "record"}
  /\ ~run.single => pc # "await"
  /\ display = "done" <=> pc = "ended"
  /\ display = "off" => ~cancelled

Inv == TypeOK /\ InStep /\ SentInOrder /\ OutcomesTrue /\ ResultTrue /\ ModeTrue /\ ExitTrue

-----------------------------------------------------------------------------
USE Assumption DEF Files

\* However a file is settled, the items stay typed and in step with the index.
LEMMA Settled ==
  ASSUME Inv, pc \in {"open", "upload", "answer", "await"}, NEW v \in Verdicts, Settle(v),
         UNCHANGED <<run, index>>
  PROVE  /\ InStep'
         /\ pc' \in {"record", "returned"} /\ verdict' \in Verdicts /\ items' \in Seq(Verdicts)
         /\ failed' \in BOOLEAN /\ hasResult' \in BOOLEAN /\ UNCHANGED batch
<1> USE DEF Inv, InStep, InHand, TypeOK, Runs, Verdicts, ModeTrue
<1>1. CASE run.single /\ v = "failed"
  BY <1>1 DEF Settle, Return
<1>2. CASE run.single /\ v # "failed"
  <2>1. items' = <<v>> /\ Return(FALSE, TRUE) /\ UNCHANGED verdict
    BY <1>2 DEF Settle
  <2>2. <<v>> \in Seq(Verdicts) /\ Len(<<v>>) = 1
    OBVIOUS
  <2> QED BY <1>2, <2>1, <2>2 DEF Return
<1>3. CASE ~run.single
  BY <1>3 DEF Settle, Goto
<1> QED BY <1>1, <1>2, <1>3

\* A ping is answered or ends the command with nothing sent.
LEMMA PingInv == Inv /\ Ping => Inv'
<1> SUFFICES ASSUME Inv, Ping PROVE Inv'
  OBVIOUS
<1> USE DEF Inv, Ping, At, Goto, Return, Running, command
<1>1. TypeOK'
  BY DEF TypeOK
<1>2. InStep'
  BY DEF InStep, ModeTrue, InHand
<1>3. SentInOrder'
  BY DEF SentInOrder, Unsent, Uploaded
<1>4. OutcomesTrue'
  BY DEF InStep, OutcomesTrue, ModeTrue, InHand
<1>5. ResultTrue'
  <2>1. CASE ~cancelled /\ Goto(IF run.single THEN "upload" ELSE "next")
    BY <2>1 DEF ResultTrue, Returned
  <2>2. CASE Return(TRUE, FALSE)
    BY <2>2 DEF ResultTrue, Returned, InStep
  <2> QED BY <2>1, <2>2
<1>6. ModeTrue'
  BY DEF ModeTrue
<1>7. ExitTrue'
  BY DEF ExitTrue, Uploaded
<1> QED BY <1>1, <1>2, <1>3, <1>4, <1>5, <1>6, <1>7

\* The loop moves to a file that nothing was sent of.
LEMMA StartFileInv == Inv /\ StartFile => Inv'
<1> SUFFICES ASSUME Inv, StartFile PROVE Inv'
  OBVIOUS
<1> USE DEF Inv, StartFile, At, Goto, Running, command
<1>1. TypeOK'
  BY DEF TypeOK, Runs
<1>2. InStep'
  BY DEF InStep, ModeTrue, InHand
<1>3. SentInOrder'
  BY DEF TypeOK, SentInOrder, Uploaded
<1>4. OutcomesTrue'
  BY DEF OutcomesTrue, Saved, Outcome
<1>5. ResultTrue'
  BY DEF ResultTrue, Returned
<1>6. ModeTrue'
  BY DEF ModeTrue
<1>7. ExitTrue'
  BY DEF TypeOK, InStep, ExitTrue
<1> QED BY <1>1, <1>2, <1>3, <1>4, <1>5, <1>6, <1>7

\* The loop ends whole, or cut short by a cancelled context.
LEMMA EndBatchInv == Inv /\ EndBatch => Inv'
<1> SUFFICES ASSUME Inv, EndBatch PROVE Inv'
  OBVIOUS
<1> USE DEF Inv, EndBatch, At, Return, Running, command
<1>1. TypeOK'
  BY DEF TypeOK
<1>2. InStep'
  BY DEF InStep, ModeTrue, InHand
<1>3. SentInOrder'
  BY DEF SentInOrder, Unsent, Uploaded
<1>4. OutcomesTrue'
  BY DEF OutcomesTrue, Saved, Outcome
<1>5. ResultTrue'
  BY DEF ResultTrue, ModeTrue, Returned
<1>6. ModeTrue'
  BY DEF ModeTrue
<1>7. ExitTrue'
  BY DEF ExitTrue, Uploaded
<1> QED BY <1>1, <1>2, <1>3, <1>4, <1>5, <1>6, <1>7

\* A file that cannot be opened fails without being sent.
LEMMA OpenFileInv == Inv /\ OpenFile => Inv'
<1> SUFFICES ASSUME Inv, OpenFile PROVE Inv'
  OBVIOUS
<1> USE DEF Inv, OpenFile, At, Goto, Return, Settle, Running, command
<1>1. TypeOK'
  BY DEF TypeOK, InStep, ModeTrue, Runs, Verdicts, InHand
<1>2. InStep'
  BY DEF TypeOK, InStep, Runs, InHand
<1>3. SentInOrder'
  BY DEF SentInOrder, Unsent, Uploaded
<1>4. OutcomesTrue'
  BY DEF TypeOK, InStep, SentInOrder, OutcomesTrue, Runs, InHand, Unsent, Uploaded, Saved, Outcome
<1>5. ResultTrue'
  BY DEF ResultTrue, Returned
<1>6. ModeTrue'
  BY DEF ModeTrue
<1>7. ExitTrue'
  BY DEF InStep, ModeTrue, ExitTrue, InHand, Uploaded
<1> QED BY <1>1, <1>2, <1>3, <1>4, <1>5, <1>6, <1>7

\* The request leaves for the current file, which is not reported yet.
LEMMA UploadInv == Inv /\ Upload => Inv'
<1> SUFFICES ASSUME Inv, Upload PROVE Inv'
  OBVIOUS
<1> USE DEF Inv, Upload, At, Goto, Return, Settle, Running, command
<1>1. TypeOK'
  BY DEF TypeOK, InStep, ModeTrue, Runs, Verdicts, InHand
<1>2. InStep'
  BY DEF TypeOK, InStep, Runs, InHand
<1>3. SentInOrder'
  BY DEF TypeOK, SentInOrder, Unsent, Uploaded
<1>4. OutcomesTrue'
  BY DEF TypeOK, InStep, SentInOrder, OutcomesTrue, Runs, InHand, Unsent, Uploaded, Saved, Outcome
<1>5. ResultTrue'
  BY DEF ResultTrue, Returned
<1>6. ModeTrue'
  BY DEF ModeTrue
<1>7. ExitTrue'
  BY DEF TypeOK, InStep, ModeTrue, ExitTrue, InHand, Uploaded
<1> QED BY <1>1, <1>2, <1>3, <1>4, <1>5, <1>6, <1>7

\* The answer of the current file decides its outcome.
LEMMA AnswerInv == Inv /\ Answer => Inv'
<1> SUFFICES ASSUME Inv, Answer PROVE Inv'
  OBVIOUS
<1> USE DEF Inv, Answer, At, Goto, Return, Settle, Running, command
<1>a. (\E v \in Verdicts : Settle(v)) \/ (Goto("await") /\ UNCHANGED <<verdict, items>>)
  BY DEF Verdicts
<1>1. TypeOK'
  BY <1>a, Settled DEF TypeOK, Goto
<1>2. InStep'
  BY <1>a, Settled DEF InStep, InHand, Goto
<1>3. SentInOrder'
  BY DEF SentInOrder, Unsent, Uploaded
<1>4. OutcomesTrue'
  BY DEF TypeOK, InStep, OutcomesTrue, ModeTrue, Runs, InHand, Saved, Outcome
<1>5. ResultTrue'
  BY DEF ResultTrue, ModeTrue, Returned
<1>6. ModeTrue'
  BY DEF ModeTrue
<1>7. ExitTrue'
  BY DEF InStep, ModeTrue, ExitTrue, InHand, Uploaded
<1> QED BY <1>1, <1>2, <1>3, <1>4, <1>5, <1>6, <1>7

\* A failure that desktop may not know of is among the lost ones.
LEMMA LoseAnswerInv == Inv /\ LoseAnswer => Inv'
<1> SUFFICES ASSUME Inv, LoseAnswer PROVE Inv'
  OBVIOUS
<1> USE DEF Inv, LoseAnswer, At, Goto, Return, Settle, Running, command
<1>1. TypeOK'
  BY DEF TypeOK, InStep, ModeTrue, Runs, Verdicts, InHand
<1>2. InStep'
  BY DEF TypeOK, InStep, Runs, InHand
<1>3. SentInOrder'
  BY DEF SentInOrder, Unsent, Uploaded
<1>4. OutcomesTrue'
  BY DEF OutcomesTrue, Saved, Outcome
<1>5. ResultTrue'
  BY DEF ResultTrue, Returned
<1>6. ModeTrue'
  BY DEF ModeTrue
<1>7. ExitTrue'
  BY DEF InStep, ModeTrue, ExitTrue, InHand, Uploaded
<1> QED BY <1>1, <1>2, <1>3, <1>4, <1>5, <1>6, <1>7

\* A lookup ends, fails or times out for a file that is saved.
LEMMA AwaitInv == Inv /\ Await => Inv'
<1> SUFFICES ASSUME Inv, Await PROVE Inv'
  OBVIOUS
<1> USE DEF Inv, Await, At, Goto, Return, Settle, Running, command
<1>a. \E v \in Verdicts : Settle(v)
  BY DEF Verdicts
<1>1. TypeOK'
  BY <1>a, Settled DEF TypeOK, Goto
<1>2. InStep'
  BY <1>a, Settled DEF InStep, InHand, Goto
<1>3. SentInOrder'
  BY DEF SentInOrder, Unsent, Uploaded
<1>4. OutcomesTrue'
  BY DEF OutcomesTrue, ModeTrue, Saved, Outcome
<1>5. ResultTrue'
  BY DEF ResultTrue, ModeTrue, Returned
<1>6. ModeTrue'
  BY DEF ModeTrue
<1>7. ExitTrue'
  BY DEF InStep, ModeTrue, ExitTrue, InHand
<1> QED BY <1>1, <1>2, <1>3, <1>4, <1>5, <1>6, <1>7

\* The outcome becomes the next item.
LEMMA RecordInv == Inv /\ Record => Inv'
<1> SUFFICES ASSUME Inv, Record PROVE Inv'
  OBVIOUS
<1> USE DEF Inv, Record, At, Goto, Running, command
<1>1. TypeOK'
  BY DEF TypeOK
<1>2. InStep'
  BY DEF TypeOK, InStep, ModeTrue, InHand
<1>3. SentInOrder'
  BY DEF SentInOrder, Unsent, Uploaded
<1>4. OutcomesTrue'
  BY DEF TypeOK, InStep, OutcomesTrue, InHand, Saved, Outcome
<1>5. ResultTrue'
  BY DEF ResultTrue, Returned
<1>6. ModeTrue'
  BY DEF ModeTrue
<1>7. ExitTrue'
  BY DEF TypeOK, InStep, ExitTrue, InHand, Uploaded
<1> QED BY <1>1, <1>2, <1>3, <1>4, <1>5, <1>6, <1>7

\* The result is the caller's.
LEMMA AssignBatchInv == Inv /\ AssignBatch => Inv'
<1> SUFFICES ASSUME Inv, AssignBatch PROVE Inv'
  OBVIOUS
<1> USE DEF Inv, AssignBatch, At, Running, command
<1>1. TypeOK'
  BY DEF TypeOK
<1>2. InStep'
  BY DEF InStep, InHand
<1>3. SentInOrder'
  BY DEF SentInOrder, Unsent, Uploaded
<1>4. OutcomesTrue'
  BY DEF OutcomesTrue, Saved, Outcome
<1>5. ResultTrue'
  BY DEF TypeOK, ResultTrue, Returned
<1>6. ModeTrue'
  BY DEF ModeTrue
<1>7. ExitTrue'
  BY DEF TypeOK, ExitTrue, Uploaded
<1> QED BY <1>1, <1>2, <1>3, <1>4, <1>5, <1>6, <1>7

\* The display ends with the work.
LEMMA SendDoneInv == Inv /\ SendDone => Inv'
<1> SUFFICES ASSUME Inv, SendDone PROVE Inv'
  OBVIOUS
<1> USE DEF Inv, SendDone, At, Running, command
<1>1. TypeOK'
  BY DEF TypeOK
<1>2. InStep'
  BY DEF InStep, InHand
<1>3. SentInOrder'
  BY DEF SentInOrder, Unsent, Uploaded
<1>4. OutcomesTrue'
  BY DEF OutcomesTrue, Saved, Outcome
<1>5. ResultTrue'
  BY DEF ResultTrue, Returned
<1>6. ModeTrue'
  BY DEF ModeTrue
<1>7. ExitTrue'
  BY DEF ExitTrue, Uploaded
<1> QED BY <1>1, <1>2, <1>3, <1>4, <1>5, <1>6, <1>7

\* ctrl+c cancels the work of a cancellable runner only, and a single import has no display.
LEMMA CtrlCInv == Inv /\ CtrlC => Inv'
<1> SUFFICES ASSUME Inv, CtrlC PROVE Inv'
  OBVIOUS
<1> USE DEF Inv, CtrlC, Running, work, command
<1>1. TypeOK'
  BY DEF TypeOK
<1>2. InStep'
  BY DEF InStep, InHand
<1>3. SentInOrder'
  BY DEF SentInOrder, Unsent, Uploaded
<1>4. OutcomesTrue'
  BY DEF OutcomesTrue, Saved, Outcome
<1>5. ResultTrue'
  BY DEF ResultTrue, Returned
<1>6. ModeTrue'
  BY DEF ModeTrue
<1>7. ExitTrue'
  BY DEF ExitTrue, Uploaded
<1> QED BY <1>1, <1>2, <1>3, <1>4, <1>5, <1>6, <1>7

\* A display that fails leaves the work alone.
LEMMA DisplayBreaksInv == Inv /\ DisplayBreaks => Inv'
<1> SUFFICES ASSUME Inv, DisplayBreaks PROVE Inv'
  OBVIOUS
<1> USE DEF Inv, DisplayBreaks, work, command
<1>1. TypeOK'
  BY DEF TypeOK
<1>2. InStep'
  BY DEF InStep, InHand
<1>3. SentInOrder'
  BY DEF SentInOrder, Unsent, Uploaded
<1>4. OutcomesTrue'
  BY DEF OutcomesTrue, Saved, Outcome
<1>5. ResultTrue'
  BY DEF ResultTrue, Returned
<1>6. ModeTrue'
  BY DEF ModeTrue
<1>7. ExitTrue'
  BY DEF ExitTrue, Uploaded
<1> QED BY <1>1, <1>2, <1>3, <1>4, <1>5, <1>6, <1>7

\* The command ends with what the work had returned.
LEMMA ExitInv == Inv /\ Exit => Inv'
<1> SUFFICES ASSUME Inv, Exit PROVE Inv'
  OBVIOUS
<1> USE DEF Inv, Exit, Abandon, Ended, WorkDone, Finish, work
<1>1. TypeOK'
  BY DEF TypeOK
<1>2. InStep'
  BY DEF InStep, InHand
<1>3. SentInOrder'
  BY DEF SentInOrder, Unsent, Uploaded
<1>4. OutcomesTrue'
  BY DEF OutcomesTrue, Saved, Outcome
<1>5. ResultTrue'
  BY DEF ResultTrue, Returned
<1>6. ModeTrue'
  BY DEF ModeTrue
<1>7. ExitTrue'
  BY DEF TypeOK, InStep, SentInOrder, ResultTrue, ModeTrue, ExitTrue, InHand, Returned, Uploaded
<1> QED BY <1>1, <1>2, <1>3, <1>4, <1>5, <1>6, <1>7

\* A killed command reports nothing.
LEMMA KilledInv == Inv /\ Killed => Inv'
<1> SUFFICES ASSUME Inv, Killed PROVE Inv'
  OBVIOUS
<1> USE DEF Inv, Killed, work
<1>1. TypeOK'
  BY DEF TypeOK
<1>2. InStep'
  BY DEF InStep, InHand
<1>3. SentInOrder'
  BY DEF SentInOrder, Unsent, Uploaded
<1>4. OutcomesTrue'
  BY DEF OutcomesTrue, Saved, Outcome
<1>5. ResultTrue'
  BY DEF ResultTrue, Returned
<1>6. ModeTrue'
  BY DEF ModeTrue
<1>7. ExitTrue'
  BY DEF ExitTrue, Uploaded
<1> QED BY <1>1, <1>2, <1>3, <1>4, <1>5, <1>6, <1>7

\* Desktop goes on with an upload that was sent: nothing more is sent, what was saved stays
\* saved, and a failure reported of it had lost its answer.
LEMMA DesktopInv == Inv /\ (\E i \in Files : Import(i) \/ Recognize(i)) => Inv'
<1> SUFFICES ASSUME Inv, NEW j \in Files, Import(j) \/ Recognize(j) PROVE Inv'
  OBVIOUS
<1> USE DEF Inv
<1>1. /\ UNCHANGED <<run, pc, index, verdict, items, failed, hasResult, batch, cancelled>>
      /\ UNCHANGED <<display, printed, outcome, lost>>
  BY DEF Import, Recognize, work, command
<1>2. PICK s \in {"refused", "plain", "recognizing", "found", "nothing"} :
        /\ desktop' = [desktop EXCEPT ![j] = s]
        /\ desktop[j] \in {"sent", "recognizing"}
        /\ desktop[j] = "recognizing" => s \in {"found", "nothing"}
  <2>1. CASE Import(j)
    BY <2>1 DEF Import
  <2>2. CASE Recognize(j)
    BY <2>2 DEF Recognize
  <2> QED BY <2>1, <2>2
<1>3. TypeOK'
  BY <1>1, <1>2 DEF TypeOK
<1>4. Uploaded' = Uploaded /\ Saved \subseteq Saved'
  BY <1>2, <1>3 DEF TypeOK, Uploaded, Saved
<1>5. ASSUME NEW i \in Files, NEW v \in Verdicts, Outcome(i, v) PROVE Outcome(i, v)'
  BY <1>1, <1>2, <1>4, <1>5 DEF TypeOK, Outcome, Saved
<1>6. InStep'
  BY <1>1 DEF InStep, InHand
<1>7. SentInOrder'
  BY <1>1, <1>4 DEF SentInOrder, Unsent
<1>8. OutcomesTrue'
  <2>1. index \in Files \/ index = 0
    BY DEF TypeOK, Runs
  <2>2. \A i \in DOMAIN items : i \in Files /\ items[i] \in Verdicts
    BY DEF TypeOK, Runs, InStep
  <2>3. \A i \in DOMAIN items : Outcome(i, items[i])'
    BY <1>1, <1>5, <2>2 DEF OutcomesTrue
  <2>4. (pc = "record" => Outcome(index, verdict))'
    BY <1>1, <1>5, <2>1 DEF OutcomesTrue, InStep, InHand, TypeOK
  <2> QED BY <1>1, <1>4, <2>3, <2>4 DEF OutcomesTrue
<1>9. ResultTrue' /\ ModeTrue'
  BY <1>1 DEF ResultTrue, Returned, ModeTrue
<1>10. ExitTrue'
  BY <1>1, <1>4 DEF ExitTrue
<1> QED BY <1>3, <1>6, <1>7, <1>8, <1>9, <1>10

-----------------------------------------------------------------------------

LEMMA InitInv == Init => Inv
<1> SUFFICES ASSUME Init PROVE Inv
  OBVIOUS
<1> USE DEF Init
<1>1. TypeOK
  <2>1. run \in Runs
    OBVIOUS
  <2>2. index \in 0..run.total
    BY <2>1 DEF Runs
  <2>3. items \in Seq(Verdicts) /\ desktop \in [Files -> {"none"}]
    OBVIOUS
  <2> QED BY <2>1, <2>2, <2>3 DEF TypeOK, Verdicts
<1>2. Uploaded = {} /\ ~Returned /\ DOMAIN items = {} /\ pc \notin {"record", "await"}
  BY DEF Uploaded, Returned
<1>3. InStep /\ SentInOrder
  BY <1>2 DEF InStep, InHand, SentInOrder
<1>4. OutcomesTrue
  BY <1>2 DEF OutcomesTrue
<1>5. ResultTrue
  BY <1>2 DEF ResultTrue
<1>6. ModeTrue /\ ExitTrue
  BY <1>2 DEF ModeTrue, ExitTrue, Runs
<1> QED BY <1>1, <1>3, <1>4, <1>5, <1>6 DEF Inv

LEMMA StutterInv == Inv /\ UNCHANGED vars => Inv'
<1> SUFFICES ASSUME Inv, UNCHANGED vars PROVE Inv'
  OBVIOUS
<1> USE DEF Inv, vars, work, command
<1>1. TypeOK' /\ InStep' /\ SentInOrder'
  BY DEF TypeOK, InStep, InHand, SentInOrder, Unsent, Uploaded
<1>2. OutcomesTrue'
  BY DEF OutcomesTrue, Outcome, Saved
<1>3. ResultTrue' /\ ModeTrue' /\ ExitTrue'
  BY DEF ResultTrue, Returned, ModeTrue, ExitTrue, Uploaded
<1> QED BY <1>1, <1>2, <1>3

LEMMA NextInv == Inv /\ [Next]_vars => Inv'
<1>1. Inv /\ Work => Inv'
  BY PingInv, StartFileInv, EndBatchInv, OpenFileInv, UploadInv, AnswerInv, LoseAnswerInv,
     AwaitInv, RecordInv, AssignBatchInv, SendDoneInv DEF Work
<1> QED BY <1>1, CtrlCInv, DisplayBreaksInv, ExitInv, KilledInv, DesktopInv, StutterInv DEF Next

\* The invariant holds of every behaviour, whatever the display and the user do.
THEOREM Invariance == Spec => []Inv
<1> QED BY InitInv, NextInv, PTL DEF Spec

\* Every variable has its type; the loop never passes the last file (ImportBatch).
THEOREM TypeCorrect == Spec => []TypeOK
<1>1. Inv => TypeOK
  BY DEF Inv
<1> QED BY <1>1, Invariance, PTL

\* What the command reports is what desktop did, and leaves out no upload (runImportBatch,
\* importBatchItem, runProgress).
THEOREM ReportHolds == Spec => []ReportTrue
<1>1. Inv => ItemsTrue
  <2> SUFFICES ASSUME Inv, NEW i \in DOMAIN items
               PROVE  /\ items[i] # "failed" => i \in Saved
                      /\ items[i] = "recognized" => desktop[i] = "found"
                      /\ items[i] = "failed" /\ i \in Saved => i \in lost
    BY DEF ItemsTrue
  <2>1. Outcome(i, items[i])
    BY DEF Inv, OutcomesTrue
  <2> QED BY <2>1 DEF Outcome, Saved
<1>2. Inv => ReportTrue
  BY <1>1 DEF Inv, ReportTrue
<1> QED BY <1>2, Invariance, PTL
==============================================================================
