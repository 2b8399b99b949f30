----------------------------- MODULE LabTransfer -----------------------------
(***************************************************************************)
(* Interactive downloads from the lab server: the screens of               *)
(* internal/tui/labtui/app (update.go), the commands it runs on goroutines  *)
(* of their own (commands.go), the rsync they drive (ssh_backend.go), and   *)
(* the manifest of internal/lab/transferlog.go that outlives the session.   *)
(*                                                                         *)
(* Update handles one message at a time; the commands in flight deliver     *)
(* theirs in any order, also after the screen that asked has gone.  The     *)
(* manifest is append-only and read latest-wins, so it is kept as the last  *)
(* record per remote.  Base names are distinct, and the working directory   *)
(* is the same in every session.                                           *)
(***************************************************************************)
EXTENDS Naturals, FiniteSets, Sequences, SequencesExt

CONSTANTS Remotes,
          None       \* no remote

ASSUME Assumption == None \notin Remotes /\ IsFiniteSet(Remotes)

VARIABLES
  screen,      \* "off" (no session), "browse", "confirm", "transfer", "error", "done", "quitting"
  selected,    \* the marked paths
  implicit,    \* implicitSel: the path `d` marked by itself, or None
  probing,     \* sizeProbing
  queue, idx, transferred, \* the run
  active,      \* activeCancel is set
  pending,     \* the resume banner's entries
  probes,      \* the selections whose size is being measured (probeSizeCmd)
  loading,     \* a loadPendingCmd is in flight
  starter,     \* the startTransferCmd in flight: its remote and how far it is
  rsync,       \* the transfer's goroutine: its remote and its state
  log,         \* latest manifest record: "none", "started", "unknown" (no size), "done"
  local,       \* the local copy: "missing", "partial", "whole"
  dropped,     \* history: remotes the user gave up since their last started record
  aborted      \* history: remotes hard-aborted since the user last asked for them

ui == <<screen, selected, implicit, probing, queue, idx, transferred, active, pending>>
cmds == <<probes, loading, starter, rsync>>
disk == <<log, local>>
history == <<dropped, aborted>>
vars == <<ui, cmds, disk, history>>

NoStarter == [remote |-> None, stage |-> "none"]
NoRsync == [remote |-> None, state |-> "none"]

\* SelectedPaths: in one fixed order.
Sorted(S) == SetToSeq(S)

\* PendingTransfers: the latest record is a start, and looksUnfinished.
Unfinished(r) == \/ log[r] = "started" /\ local[r] = "partial"
                 \/ log[r] = "unknown" /\ local[r] # "missing"
PendingTransfers == {r \in Remotes : Unfinished(r)}

Init ==
  /\ screen = "off" /\ selected = {} /\ implicit = None /\ probing = FALSE
  /\ queue = <<>> /\ idx = 1 /\ transferred = 0 /\ active = FALSE /\ pending = {}
  /\ probes = {} /\ loading = FALSE /\ starter = NoStarter /\ rsync = NoRsync
  /\ log = [r \in Remotes |-> "none"] /\ local = [r \in Remotes |-> "missing"]
  /\ dropped = {} /\ aborted = {}

-----------------------------------------------------------------------------
\* A session begins (NewModel, Init) and ends: nothing of it but the disk is left.

Open ==
  /\ screen = "off"
  /\ screen' = "browse" /\ loading' = TRUE
  /\ UNCHANGED <<selected, implicit, probing, queue, idx, transferred, active, pending,
                 probes, starter, rsync, disk, history>>

\* The process exits, after tea.Quit or without it.
Exit ==
  /\ screen # "off"
  /\ screen' = "off" /\ selected' = {} /\ implicit' = None /\ probing' = FALSE
  /\ queue' = <<>> /\ idx' = 1 /\ transferred' = 0 /\ active' = FALSE /\ pending' = {}
  /\ probes' = {} /\ loading' = FALSE /\ starter' = NoStarter /\ rsync' = NoRsync
  /\ UNCHANGED <<disk, history>>

-----------------------------------------------------------------------------
\* keyBrowse and keyConfirm

Toggle(r) ==
  /\ screen = "browse"
  /\ selected' = IF r \in selected THEN selected \ {r} ELSE selected \union {r}
  /\ UNCHANGED <<screen, implicit, probing, queue, idx, transferred, active, pending,
                 cmds, disk, history>>

\* d: with nothing marked, the entry under the cursor is.
KeyDownload(r) ==
  /\ screen = "browse"
  /\ IF selected = {} THEN selected' = {r} /\ implicit' = r ELSE UNCHANGED <<selected, implicit>>
  /\ screen' = "confirm" /\ probing' = TRUE
  /\ probes' = probes \union {selected'}
  /\ UNCHANGED <<queue, idx, transferred, active, pending, loading, starter, rsync, disk, history>>

SizeProbed(S) ==
  /\ S \in probes /\ screen \notin {"off", "quitting"}
  /\ probes' = probes \ {S}
  /\ probing' = FALSE
  /\ UNCHANGED <<screen, selected, implicit, queue, idx, transferred, active, pending,
                 loading, starter, rsync, disk, history>>

\* The screen turns to the transfer of r; startTransferCmd begins with a size probe.
StartTransfer(r) ==
  /\ screen' = "transfer"
  /\ starter' = [remote |-> r, stage |-> "sizing"]
  /\ aborted' = aborted \ {r}

Run(q) ==
  /\ queue' = q /\ idx' = 1 /\ transferred' = 0
  /\ StartTransfer(Head(q))

KeyYes ==
  /\ screen = "confirm" /\ ~probing
  /\ implicit' = None
  /\ Run(Sorted(selected))
  /\ UNCHANGED <<selected, probing, active, pending, probes, loading, rsync, disk, dropped>>

KeyNo ==
  /\ screen = "confirm"
  /\ screen' = "browse" /\ implicit' = None
  /\ selected' = selected \ {implicit}
  /\ UNCHANGED <<probing, queue, idx, transferred, active, pending, cmds, disk, history>>

KeyResume ==
  /\ screen = "browse" /\ pending # {}
  /\ Run(Sorted(pending))
  /\ UNCHANGED <<selected, implicit, probing, active, pending, probes, loading, rsync, disk, dropped>>

KeyClear ==
  /\ screen = "browse" /\ pending # {}
  /\ log' = [r \in Remotes |-> "none"] /\ loading' = TRUE
  /\ dropped' = Remotes
  /\ UNCHANGED <<ui, probes, starter, rsync, local, aborted>>

PendingLoaded ==
  /\ loading /\ screen \notin {"off", "quitting"}
  /\ loading' = FALSE /\ pending' = PendingTransfers
  /\ UNCHANGED <<screen, selected, implicit, probing, queue, idx, transferred, active,
                 probes, starter, rsync, disk, history>>

-----------------------------------------------------------------------------
\* startTransferCmd, on its goroutine

\* Mutant: the record is left for after the launch.
StarterSkipsLog ==
  /\ starter.stage = "sizing"
  /\ starter' = [starter EXCEPT !.stage = "logged"]
  /\ dropped' = dropped \ {starter.remote}
  /\ UNCHANGED <<ui, probes, loading, rsync, disk, aborted>>

\* The size probe is answered, or fails and leaves ExpectedBytes unset.
StarterLogs ==
  /\ starter.stage = "sizing"
  /\ \E kind \in {"started", "unknown"} : log' = [log EXCEPT ![starter.remote] = kind]
  /\ starter' = [starter EXCEPT !.stage = "logged"]
  /\ dropped' = dropped \ {starter.remote}
  /\ UNCHANGED <<ui, probes, loading, rsync, local, aborted>>

StarterLaunches ==
  /\ starter.stage = "logged"
  /\ starter' = [starter EXCEPT !.stage = "launched"]
  /\ rsync' = [remote |-> starter.remote, state |-> "running"]
  /\ UNCHANGED <<ui, probes, loading, disk, history>>

\* transferStartedMsg: from now on the UI can cancel, and waits for the end.
TransferStarted ==
  /\ starter.stage = "launched" /\ screen \notin {"off", "quitting"}
  /\ starter' = NoStarter /\ active' = TRUE
  /\ UNCHANGED <<screen, selected, implicit, probing, queue, idx, transferred, pending,
                 probes, loading, rsync, disk, history>>

\* rsync: --partial keeps what arrived, --append-verify goes on from it.
RsyncWrites ==
  /\ rsync.state = "running" /\ local[rsync.remote] = "missing"
  /\ local' = [local EXCEPT ![rsync.remote] = "partial"]
  /\ UNCHANGED <<ui, cmds, log, history>>

RsyncEnds ==
  /\ rsync.state = "running"
  /\ \/ /\ rsync' = [rsync EXCEPT !.state = "ok"]
        /\ local' = [local EXCEPT ![rsync.remote] = "whole"]
     \/ rsync' = [rsync EXCEPT !.state = "failed"] /\ UNCHANGED local
  /\ UNCHANGED <<ui, probes, loading, starter, log, history>>

-----------------------------------------------------------------------------
\* transferDoneMsg

\* Mutant: a failed transfer is started again without asking.
TransferFailedRestarts ==
  /\ active /\ rsync.state = "failed" /\ screen \notin {"off", "quitting"}
  /\ active' = FALSE /\ rsync' = NoRsync
  /\ StartTransfer(queue[idx])
  /\ UNCHANGED <<selected, implicit, probing, queue, idx, transferred, pending,
                 probes, loading, disk, dropped>>

\* Mutant: every attempt is counted.
TransferFailedCounts ==
  /\ active /\ rsync.state = "failed" /\ screen \notin {"off", "quitting"}
  /\ screen' = "error" /\ active' = FALSE /\ rsync' = NoRsync
  /\ transferred' = transferred + 1
  /\ UNCHANGED <<selected, implicit, probing, queue, idx, pending,
                 probes, loading, starter, disk, history>>

TransferFailed ==
  /\ active /\ rsync.state = "failed" /\ screen \notin {"off", "quitting"}
  /\ screen' = "error" /\ active' = FALSE /\ rsync' = NoRsync
  /\ UNCHANGED <<selected, implicit, probing, queue, idx, transferred, pending,
                 probes, loading, starter, disk, history>>

\* The next item of the queue, or the end.
Advance(more, last) ==
  /\ idx' = idx + 1
  /\ IF idx < Len(queue) THEN StartTransfer(queue[idx + 1]) /\ more
     ELSE screen' = "done" /\ UNCHANGED <<starter, aborted>> /\ last

TransferOK ==
  /\ active /\ rsync.state = "ok" /\ screen \notin {"off", "quitting"}
  /\ log' = [log EXCEPT ![queue[idx]] = "done"]
  /\ rsync' = NoRsync /\ active' = FALSE
  /\ transferred' = transferred + 1
  /\ Advance(UNCHANGED loading, loading' = TRUE)
  /\ UNCHANGED <<selected, implicit, probing, queue, pending, probes, local, dropped>>

-----------------------------------------------------------------------------
\* keyError, keyDone, and the two ways out of a transfer

KeyRetry ==
  /\ screen = "error"
  /\ StartTransfer(queue[idx])
  /\ UNCHANGED <<selected, implicit, probing, queue, idx, transferred, active, pending,
                 probes, loading, rsync, disk, dropped>>

\* Mutant: a skipped item is counted.
KeySkipCounts ==
  /\ screen = "error"
  /\ Advance(TRUE, TRUE)
  /\ transferred' = transferred + 1
  /\ UNCHANGED <<selected, implicit, probing, queue, active, pending,
                 probes, loading, rsync, disk, dropped>>

KeySkip ==
  /\ screen = "error"
  /\ Advance(TRUE, TRUE)
  /\ UNCHANGED <<selected, implicit, probing, queue, transferred, active, pending,
                 probes, loading, rsync, disk, dropped>>

\* activeCancel(): the rsync is interrupted, if the UI knows of it.
Cancel == IF active /\ rsync.state = "running"
          THEN rsync' = [rsync EXCEPT !.state = "failed"] ELSE UNCHANGED rsync

KeyQuit ==
  /\ screen \in {"browse", "transfer", "error", "done"}
  /\ screen' = "quitting"
  /\ IF screen = "transfer" THEN Cancel ELSE UNCHANGED rsync
  /\ UNCHANGED <<selected, implicit, probing, queue, idx, transferred, active, pending,
                 probes, loading, starter, disk, history>>

\* ctrl-c: on the transfer screen the item is marked done, so that it is not resumed.
KeyAbort ==
  /\ screen \notin {"off", "quitting"}
  /\ screen' = "quitting"
  /\ Cancel
  /\ IF screen = "transfer"
     THEN /\ log' = [log EXCEPT ![queue[idx]] = "done"]
          /\ dropped' = dropped \union {queue[idx]} /\ aborted' = aborted \union {queue[idx]}
     ELSE UNCHANGED <<log, history>>
  /\ UNCHANGED <<selected, implicit, probing, queue, idx, transferred, active, pending,
                 probes, loading, starter, local>>

-----------------------------------------------------------------------------
Transferring == StarterLogs \/ StarterLaunches \/ TransferStarted \/ RsyncEnds \/ TransferFailed \/ TransferOK

Next == \/ Open \/ Exit \/ KeyYes \/ KeyNo \/ KeyResume \/ KeyClear \/ PendingLoaded
        \/ RsyncWrites \/ Transferring \/ KeyRetry \/ KeySkip \/ KeyQuit \/ KeyAbort
        \/ \E r \in Remotes : Toggle(r) \/ KeyDownload(r)
        \/ \E S \in SUBSET Remotes : SizeProbed(S)

Spec == Init /\ [][Next]_vars

\* Goroutines run, messages are delivered, and rsync ends.
FairSpec == Spec /\ WF_vars(Transferring)

-----------------------------------------------------------------------------
\* Properties

TypeOK ==
  /\ screen \in {"off", "browse", "confirm", "transfer", "error", "done", "quitting"}
  /\ selected \subseteq Remotes /\ implicit \in Remotes \union {None}
  /\ probing \in BOOLEAN
  /\ queue \in Seq(Remotes) /\ Len(queue) <= Cardinality(Remotes)
  /\ idx \in 1..Len(queue) + 1 /\ transferred \in 0..Len(queue)
  /\ active \in BOOLEAN /\ pending \subseteq Remotes
  /\ probes \subseteq SUBSET Remotes /\ loading \in BOOLEAN
  /\ starter \in [remote: Remotes \union {None}, stage: {"none", "sizing", "logged", "launched"}]
  /\ rsync \in [remote: Remotes \union {None}, state: {"none", "running", "ok", "failed"}]
  /\ log \in [Remotes -> {"none", "started", "unknown", "done"}]
  /\ local \in [Remotes -> {"missing", "partial", "whole"}]
  /\ dropped \subseteq Remotes /\ aborted \subseteq Remotes

\* commands.go:50-54: a failed or cancelled transfer can be resumed: whatever bytes an
\* interrupted rsync left on disk, in whatever session and wherever it stopped, the next
\* browse session offers the remote, unless the user gave it up.
PartialOffered ==
  \A r \in Remotes : local[r] = "partial" /\ r \notin dropped => r \in PendingTransfers

\* view.go, viewDone: "downloaded n/m item(s)": at the end of a run n items of the queue
\* are recorded done, all of them are whole on disk, and each other one was skipped,
\* through retries, skips and resumes of the same remotes.
SummaryTrue ==
  screen = "done" =>
    LET finished == {i \in DOMAIN queue : log[queue[i]] = "done"} IN
    /\ transferred = Cardinality(finished)
    /\ \A i \in finished : local[queue[i]] = "whole"

\* update.go:79-81: ctrl-c marks the item done "so the next browse session won't offer
\* to resume the partial".
AbortNotOffered == screen = "off" => aborted \intersect PendingTransfers = {}

\* commands.go:126-133: the UI goes on listening: a transfer screen is always left.
TransferLeaves == screen = "transfer" ~> screen # "transfer"
=============================================================================
