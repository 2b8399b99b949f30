-------------------------- MODULE LabTransferProofs --------------------------
(***************************************************************************)
(* Theorems about LabTransfer, for any finite set of remotes and any number *)
(* of sessions, interrupts, retries and skips.                             *)
(*                                                                         *)
(* LabInv is inductive.  Its parts say where the run stands (Place), which  *)
(* goroutine is at work and for which remote (AtWork), what the manifest    *)
(* holds of it (Manifest), and what has been counted so far (Counted).      *)
(***************************************************************************)
EXTENDS LabTransfer, FiniteSetTheorems, TLAPS

Recorded(r) == log[r] \in {"started", "unknown"}

\* The queue names each remote once, and the index stands where the screen says.
Place ==
  /\ \A i, j \in 1..Len(queue) : queue[i] = queue[j] => i = j
  /\ screen \in {"off", "browse", "confirm"} => queue = <<>> /\ idx = 1 /\ transferred = 0
  /\ screen = "confirm" => selected # {}
  /\ screen \in {"transfer", "error"} => idx <= Len(queue)
  /\ screen = "done" => idx = Len(queue) + 1

\* Off the transfer screen nothing works, unless the session is quitting; on it the
\* starter, and then the rsync, work for the item at the index, which is recorded.
AtWork ==
  /\ screen \notin {"transfer", "quitting"} => starter.stage = "none" /\ rsync.state = "none" /\ ~active
  /\ active => starter.stage = "none"
  /\ starter.stage \in {"sizing", "logged"} => rsync.state = "none"
  /\ starter.stage # "none" => starter.remote \in Remotes
  /\ rsync.state # "none" => rsync.remote \in Remotes
  /\ rsync.state = "ok" => local[rsync.remote] = "whole"
  /\ screen = "transfer" =>
       /\ starter.stage # "none" => starter.remote = queue[idx]
       /\ rsync.state # "none" => rsync.remote = queue[idx]
       /\ starter.stage \in {"logged", "launched"} \/ active => Recorded(queue[idx])
  /\ screen = "error" => Recorded(queue[idx])

\* Who may write a local copy has an unfinished record, or was given up since.
Manifest ==
  /\ starter.stage \in {"logged", "launched"} => starter.remote \in dropped \/ Recorded(starter.remote)
  /\ rsync.state # "none" => rsync.remote \in dropped \/ Recorded(rsync.remote)
  /\ \A r \in Remotes : local[r] = "partial" => r \in dropped \/ Recorded(r)

\* The items behind the index that are recorded done.
Finished == {i \in 1..(idx - 1) : log[queue[i]] = "done"}

Counted ==
  screen \in {"transfer", "error", "done"} =>
    /\ transferred = Cardinality(Finished)
    /\ \A i \in Finished : local[queue[i]] = "whole"

LabInv == TypeOK /\ Place /\ AtWork /\ Manifest /\ Counted

-----------------------------------------------------------------------------
\* SelectedPaths puts each path once, and the first one begins the run.
LEMMA SortedFacts ==
  ASSUME Assumption, NEW S \in SUBSET Remotes
  PROVE  /\ Sorted(S) \in Seq(Remotes) /\ Len(Sorted(S)) = Cardinality(S)
         /\ Len(Sorted(S)) <= Cardinality(Remotes)
         /\ \A i, j \in 1..Len(Sorted(S)) : Sorted(S)[i] = Sorted(S)[j] => i = j
         /\ S # {} => Len(Sorted(S)) \in Nat \ {0} /\ Head(Sorted(S)) = Sorted(S)[1]
<1>1. IsFiniteSet(S) /\ Cardinality(S) \in Nat /\ Cardinality(S) <= Cardinality(Remotes)
  BY FS_Subset, FS_CardinalityType DEF Assumption
<1>2. \E f \in [1..Cardinality(S) -> S] : IsInjective(f)
  BY <1>1, FS_CardinalityType DEF ExistsBijection, Bijection, Injection
<1>3. Sorted(S) \in [1..Cardinality(S) -> S] /\ IsInjective(Sorted(S))
  BY <1>2 DEF Sorted, SetToSeq
<1>4. Sorted(S) \in Seq(Remotes) /\ Len(Sorted(S)) = Cardinality(S)
  BY <1>1, <1>3
<1>5. S # {} => Cardinality(S) # 0
  BY <1>1, FS_EmptySet
<1>6. \A i, j \in 1..Cardinality(S) : Sorted(S)[i] = Sorted(S)[j] => i = j
  BY <1>3 DEF IsInjective
<1>7. S # {} => Head(Sorted(S)) = Sorted(S)[1]
  BY <1>4
<1> QED BY <1>1, <1>4, <1>5, <1>6, <1>7

\* The item at the index is a remote.
LEMMA CurrentType ==
  ASSUME TypeOK, Place, screen \in {"transfer", "error"}
  PROVE  /\ idx \in 1..Len(queue) /\ queue[idx] \in Remotes /\ Len(queue) \in Nat
         /\ \A i \in 1..(idx - 1) : i \in 1..Len(queue) /\ queue[i] \in Remotes /\ queue[i] # queue[idx]
<1>1. idx \in 1..Len(queue) /\ Len(queue) \in Nat /\ queue \in Seq(Remotes)
  BY DEF TypeOK, Place
<1>2. \A i \in 1..Len(queue) : queue[i] \in Remotes
  BY <1>1
<1>3. \A i \in 1..(idx - 1) : i \in 1..Len(queue) /\ i # idx
  BY <1>1
<1> QED BY <1>1, <1>2, <1>3 DEF Place

-----------------------------------------------------------------------------
\* The types of what the browse and confirm screens show.
ChoiceTypes ==
  /\ screen \in {"off", "browse", "confirm", "transfer", "error", "done", "quitting"}
  /\ selected \subseteq Remotes /\ implicit \in Remotes \union {None} /\ probing \in BOOLEAN
  /\ pending \subseteq Remotes /\ probes \subseteq SUBSET Remotes /\ loading \in BOOLEAN

\* Actions that leave the run, the goroutines and the disk alone.
LEMMA QuietKeeps ==
  ASSUME LabInv, \/ KeyNo \/ PendingLoaded \/ \E r \in Remotes : Toggle(r) \/ KeyDownload(r)
                 \/ \E S \in SUBSET Remotes : SizeProbed(S)
                 \/ Open \/ UNCHANGED vars
  PROVE  LabInv'
<1> USE DEF LabInv
<1>1. /\ UNCHANGED <<queue, idx, transferred, active, starter, rsync, disk, history>>
      /\ UNCHANGED <<log, local, dropped, aborted>>
  BY DEF KeyNo, PendingLoaded, Toggle, KeyDownload, SizeProbed, Open, vars, ui, cmds, disk, history
<1>2. \/ screen' = screen
      \/ screen \in {"off", "browse", "confirm"} /\ screen' \in {"off", "browse", "confirm"}
  BY DEF KeyNo, PendingLoaded, Toggle, KeyDownload, SizeProbed, Open, vars, ui
<1>3. ChoiceTypes'
  <2> USE DEF TypeOK, ChoiceTypes
  <2>1. CASE KeyNo
    BY <2>1 DEF KeyNo, cmds
  <2>2. CASE PendingLoaded
    BY <2>2 DEF PendingLoaded, PendingTransfers
  <2>3. ASSUME NEW r \in Remotes, Toggle(r)
        PROVE  ChoiceTypes'
    BY <2>3 DEF Toggle, cmds
  <2>4. ASSUME NEW r \in Remotes, KeyDownload(r)
        PROVE  ChoiceTypes'
    BY <2>4 DEF KeyDownload
  <2>5. ASSUME NEW S \in SUBSET Remotes, SizeProbed(S)
        PROVE  ChoiceTypes'
    BY <2>5 DEF SizeProbed
  <2>6. CASE Open \/ UNCHANGED vars
    BY <2>6 DEF Open, vars, ui, cmds
  <2> QED BY <2>1, <2>2, <2>3, <2>4, <2>5, <2>6
<1>4. TypeOK'
  BY <1>1, <1>3 DEF TypeOK, ChoiceTypes
<1>5. screen' = "confirm" => selected' # {}
  BY DEF KeyNo, PendingLoaded, Toggle, KeyDownload, SizeProbed, Open, vars, ui, Place
<1>6. Place'
  BY <1>1, <1>2, <1>5 DEF Place
<1>7. AtWork'
  BY <1>1, <1>2 DEF AtWork, Recorded
<1>8. Manifest'
  BY <1>1 DEF Manifest, Recorded
<1>9. Counted'
  BY <1>1, <1>2 DEF Counted, Finished
<1> QED BY <1>4, <1>6, <1>7, <1>8, <1>9

\* Nothing starts and nothing runs.
NothingStarted ==
  /\ NoStarter \in [remote: Remotes \union {None}, stage: {"none", "sizing", "logged", "launched"}]
  /\ NoRsync \in [remote: Remotes \union {None}, state: {"none", "running", "ok", "failed"}]

LEMMA IdleTypes == NothingStarted
BY DEF NothingStarted, NoStarter, NoRsync

\* The session ends: nothing runs, the disk is left.
LEMMA ExitKeeps == ASSUME LabInv, Assumption, Exit PROVE LabInv'
<1> USE DEF LabInv
<1>1. /\ screen' = "off" /\ queue' = <<>> /\ idx' = 1 /\ transferred' = 0 /\ active' = FALSE
      /\ starter' = NoStarter /\ rsync' = NoRsync /\ selected' = {} /\ implicit' = None /\ probing' = FALSE
      /\ pending' = {} /\ probes' = {} /\ loading' = FALSE /\ UNCHANGED <<log, local, dropped, aborted>>
  BY DEF Exit, disk, history
<1>2. Len(queue') = 0 /\ queue' \in Seq(Remotes) /\ 0 <= Cardinality(Remotes)
  BY <1>1, FS_CardinalityType DEF Assumption
<1>3. TypeOK'
  <2>1. NothingStarted
    BY IdleTypes
  <2>2. idx' \in 1..Len(queue') + 1 /\ transferred' \in 0..Len(queue')
    BY <1>1, <1>2
  <2>3. /\ log' \in [Remotes -> {"none", "started", "unknown", "done"}]
        /\ local' \in [Remotes -> {"missing", "partial", "whole"}]
        /\ dropped' \subseteq Remotes /\ aborted' \subseteq Remotes
    BY <1>1 DEF TypeOK
  <2> QED BY <1>1, <1>2, <2>1, <2>2, <2>3 DEF TypeOK, NothingStarted
<1>4. Place' /\ Counted'
  BY <1>1, <1>2 DEF Place, Counted
<1>5. AtWork' /\ Manifest'
  BY <1>1 DEF AtWork, Manifest, Recorded, NoStarter, NoRsync
<1> QED BY <1>3, <1>4, <1>5

\* All records go, and with them every claim on them.
LEMMA ClearKeeps == ASSUME LabInv, KeyClear PROVE LabInv'
<1> USE DEF LabInv
<1>1. /\ screen = "browse" /\ loading' = TRUE /\ log' = [r \in Remotes |-> "none"] /\ dropped' = Remotes
      /\ UNCHANGED <<screen, selected, implicit, probing, queue, idx, transferred, active, pending,
                     probes, starter, rsync, local, aborted>>
  BY DEF KeyClear, ui
<1>2. TypeOK'
  BY <1>1 DEF TypeOK
<1>3. Place' /\ Counted' /\ AtWork' /\ Manifest'
  BY <1>1 DEF Place, Counted, AtWork, Manifest, Recorded
<1> QED BY <1>2, <1>3

\* The first item of a new run.
LEMMA RunKeeps ==
  ASSUME LabInv, Assumption, NEW S \in SUBSET Remotes, S # {}, screen \in {"browse", "confirm"}, Run(Sorted(S)),
         UNCHANGED <<selected, probing, active, pending, probes, loading, rsync, disk, dropped>>,
         implicit' \in Remotes \union {None}
  PROVE  LabInv'
<1> USE DEF LabInv
<1>1. UNCHANGED <<selected, probing, active, pending, probes, loading, rsync, log, local, dropped>>
  BY DEF disk
<1>2. /\ screen' = "transfer" /\ queue' = Sorted(S) /\ idx' = 1 /\ transferred' = 0
      /\ starter' = [remote |-> Sorted(S)[1], stage |-> "sizing"]
      /\ aborted' \subseteq aborted
  BY SortedFacts DEF Run, StartTransfer
<1>3. /\ queue' \in Seq(Remotes) /\ Len(queue') <= Cardinality(Remotes) /\ Len(queue') \in Nat \ {0}
      /\ \A i, j \in 1..Len(queue') : queue'[i] = queue'[j] => i = j
  BY <1>2, SortedFacts
<1>4. queue'[1] \in Remotes
  BY <1>3
<1>5. TypeOK'
  BY <1>1, <1>2, <1>3, <1>4 DEF TypeOK
<1>6. Place'
  BY <1>2, <1>3 DEF Place
<1>7. rsync.state = "none" /\ ~active
  BY DEF AtWork
<1>8. AtWork' /\ Manifest'
  BY <1>1, <1>2, <1>4, <1>7 DEF AtWork, Manifest, Recorded
<1>9. Counted'
  <2>1. Finished' = {}
    BY <1>2 DEF Finished
  <2> QED BY <1>2, <2>1, FS_EmptySet DEF Counted
<1> QED BY <1>5, <1>6, <1>8, <1>9

LEMMA BeginKeeps == ASSUME LabInv, Assumption, KeyYes \/ KeyResume PROVE LabInv'
<1> USE DEF LabInv
<1>1. CASE KeyYes
  BY <1>1, RunKeeps DEF KeyYes, TypeOK, Place
<1>2. CASE KeyResume
  BY <1>2, RunKeeps DEF KeyResume, TypeOK
<1> QED BY <1>1, <1>2

-----------------------------------------------------------------------------
\* The goroutine of startTransferCmd, and the rsync it launches.

LEMMA LogsKeeps == ASSUME LabInv, StarterLogs PROVE LabInv'
<1> USE DEF LabInv
<1> DEFINE r == starter.remote
<1>1. /\ starter.stage = "sizing" /\ starter'.stage = "logged" /\ starter'.remote = r /\ dropped' = dropped \ {r}
      /\ r \in Remotes /\ ~active /\ rsync.state = "none"
      /\ UNCHANGED <<screen, selected, implicit, probing, queue, idx, transferred, active, pending,
                     probes, loading, rsync, local, aborted>>
  BY DEF StarterLogs, ui, TypeOK, AtWork
<1>2. PICK kind \in {"started", "unknown"} : log' = [log EXCEPT ![r] = kind]
  BY DEF StarterLogs
<1>3. starter' \in [remote: Remotes \union {None}, stage: {"none", "sizing", "logged", "launched"}]
  BY DEF StarterLogs, TypeOK
<1>4. TypeOK'
  BY <1>1, <1>2, <1>3 DEF TypeOK
<1>5. Place'
  BY <1>1 DEF Place
<1>6. Recorded(r)' /\ \A q \in Remotes : q # r => log'[q] = log[q]
  BY <1>1, <1>2 DEF Recorded, TypeOK
<1>7. screen \in {"transfer", "quitting"}
  BY <1>1 DEF AtWork, TypeOK
<1>8. AtWork'
  BY <1>1, <1>6, <1>7 DEF AtWork, Recorded
<1>9. Manifest'
  BY <1>1, <1>6 DEF Manifest, Recorded
<1>10. Counted'
  <2>1. CASE screen = "transfer"
    <3>1. r = queue[idx]
      BY <1>1, <2>1 DEF AtWork
    <3>2. \A i \in 1..(idx - 1) : log'[queue[i]] = log[queue[i]]
      BY <1>6, <2>1, <3>1, CurrentType
    <3>3. Finished' = Finished
      BY <1>1, <3>2 DEF Finished
    <3> QED BY <1>1, <3>3 DEF Counted
  <2> QED BY <1>1, <1>7, <2>1 DEF Counted
<1> QED BY <1>4, <1>5, <1>8, <1>9, <1>10

LEMMA LaunchKeeps == ASSUME LabInv, StarterLaunches \/ TransferStarted PROVE LabInv'
<1> USE DEF LabInv
<1>1. CASE StarterLaunches
  <2>1. /\ starter.stage = "logged" /\ starter'.stage = "launched" /\ starter'.remote = starter.remote
        /\ starter.remote \in Remotes /\ ~active
        /\ rsync' = [remote |-> starter.remote, state |-> "running"]
        /\ UNCHANGED <<screen, selected, implicit, probing, queue, idx, transferred, active, pending,
                       probes, loading, log, local, dropped, aborted>>
    BY <1>1 DEF StarterLaunches, ui, disk, history, TypeOK, AtWork
  <2>2. starter' \in [remote: Remotes \union {None}, stage: {"none", "sizing", "logged", "launched"}]
    BY <1>1 DEF StarterLaunches, TypeOK
  <2>3. TypeOK'
    BY <2>1, <2>2 DEF TypeOK
  <2>4. Place' /\ Counted'
    BY <2>1 DEF Place, Counted, Finished
  <2>5. AtWork' /\ Manifest'
    BY <2>1 DEF AtWork, Manifest, Recorded
  <2> QED BY <2>3, <2>4, <2>5
<1>2. CASE TransferStarted
  <2>1. /\ starter.stage = "launched" /\ starter' = NoStarter /\ active' = TRUE /\ screen \notin {"off", "quitting"}
        /\ UNCHANGED <<screen, selected, implicit, probing, queue, idx, transferred, pending,
                       probes, loading, rsync, log, local, dropped, aborted>>
    BY <1>2 DEF TransferStarted, disk, history
  <2>2. TypeOK'
    BY <2>1 DEF TypeOK, NoStarter
  <2>3. Place' /\ Counted'
    BY <2>1 DEF Place, Counted, Finished
  <2>4. AtWork' /\ Manifest'
    BY <2>1 DEF AtWork, Manifest, Recorded, NoStarter
  <2> QED BY <2>2, <2>3, <2>4
<1> QED BY <1>1, <1>2

LEMMA RsyncKeeps == ASSUME LabInv, RsyncWrites \/ RsyncEnds PROVE LabInv'
<1> USE DEF LabInv
<1> DEFINE r == rsync.remote
<1>1. /\ rsync.state = "running" /\ r \in Remotes /\ screen \in {"transfer", "quitting"}
      /\ UNCHANGED <<screen, selected, implicit, probing, queue, idx, transferred, active, pending,
                     probes, loading, starter, log, dropped, aborted>>
  BY DEF RsyncWrites, RsyncEnds, ui, cmds, history, TypeOK, AtWork
<1>2. /\ rsync' \in [remote: Remotes \union {None}, state: {"none", "running", "ok", "failed"}]
      /\ rsync'.remote = r /\ rsync'.state # "none"
  BY <1>1 DEF RsyncWrites, RsyncEnds, cmds, TypeOK
<1>3. /\ local' \in [Remotes -> {"missing", "partial", "whole"}]
      /\ \A q \in Remotes : q # r => local'[q] = local[q]
      /\ rsync'.state = "ok" => local'[r] = "whole"
  BY <1>1 DEF RsyncWrites, RsyncEnds, cmds, TypeOK
<1>4. TypeOK'
  BY <1>1, <1>2, <1>3 DEF TypeOK
<1>5. Place'
  BY <1>1 DEF Place
<1>6. AtWork'
  BY <1>1, <1>2, <1>3 DEF AtWork, Recorded
<1>7. Manifest'
  BY <1>1, <1>2, <1>3 DEF Manifest, Recorded
<1>8. Counted'
  <2>1. CASE screen = "transfer"
    <3>1. \A i \in 1..(idx - 1) : local'[queue[i]] = local[queue[i]]
      BY <1>1, <1>3, <2>1, CurrentType DEF AtWork
    <3> QED BY <1>1, <3>1 DEF Counted, Finished
  <2> QED BY <1>1, <2>1 DEF Counted
<1> QED BY <1>4, <1>5, <1>6, <1>7, <1>8

-----------------------------------------------------------------------------
\* The end of a transfer, and what the user does about it.

\* Behind an index moved by one there is one item more.
LEMMA OneMore ==
  ASSUME LabInv, screen \in {"transfer", "error"}, idx' = idx + 1, queue' = queue,
         \A i \in 1..(idx - 1) : log'[queue[i]] = log[queue[i]]
  PROVE  /\ Finished' = IF log'[queue[idx]] = "done" THEN Finished \union {idx} ELSE Finished
         /\ IsFiniteSet(Finished) /\ Cardinality(Finished) \in Nat /\ Cardinality(Finished) <= idx - 1
         /\ Cardinality(Finished \union {idx}) = Cardinality(Finished) + 1
<1> USE DEF LabInv
<1>1. idx \in 1..Len(queue) /\ Len(queue) \in Nat
  BY CurrentType
<1>2. IsFiniteSet(1..(idx - 1)) /\ Cardinality(1..(idx - 1)) = idx - 1
  <2>1. idx - 1 \in Nat /\ 1 \in Int /\ (idx - 1) - 1 + 1 = idx - 1 /\ (1 > idx - 1 => idx - 1 = 0)
    BY <1>1
  <2>2. idx - 1 \in Int
    BY <2>1
  <2> QED BY <2>1, <2>2, FS_Interval
<1>3. IsFiniteSet(Finished) /\ Cardinality(Finished) \in Nat /\ Cardinality(Finished) <= idx - 1 /\ idx \notin Finished
  BY <1>1, <1>2, FS_Subset, FS_CardinalityType DEF Finished
<1>4. 1..(idx' - 1) = (1..(idx - 1)) \union {idx}
  BY <1>1
<1>5. Finished' = IF log'[queue[idx]] = "done" THEN Finished \union {idx} ELSE Finished
  BY <1>4 DEF Finished
<1> QED BY <1>3, <1>5, FS_AddElement

\* The transfer of an item begins while nothing works.
LEMMA StartKeeps ==
  ASSUME LabInv, StartTransfer(queue'[idx']), active' = FALSE, rsync'.state = "none",
         screen \in {"transfer", "error"}, Place', TypeOK', Counted', queue' = queue,
         \A r \in Remotes : local'[r] = "partial" => r \in dropped' \/ Recorded(r)'
  PROVE  LabInv'
<1> USE DEF LabInv
<1>1. screen' = "transfer" /\ starter' = [remote |-> queue'[idx'], stage |-> "sizing"]
  BY DEF StartTransfer
<1>2. queue'[idx'] \in Remotes
  BY <1>1 DEF TypeOK, Place
<1>3. AtWork' /\ Manifest'
  BY <1>1, <1>2 DEF AtWork, Manifest
<1> QED BY <1>3

LEMMA FailedKeeps == ASSUME LabInv, TransferFailed PROVE LabInv'
<1> USE DEF LabInv
<1>1. /\ active /\ screen = "transfer" /\ screen' = "error" /\ active' = FALSE /\ rsync' = NoRsync
      /\ UNCHANGED <<selected, implicit, probing, queue, idx, transferred, pending,
                     probes, loading, starter, log, local, dropped, aborted>>
  BY DEF TransferFailed, disk, history, TypeOK, AtWork
<1>2. TypeOK'
  BY <1>1 DEF TypeOK, NoRsync
<1>3. Place' /\ Counted'
  BY <1>1 DEF Place, Counted, Finished
<1>4. AtWork' /\ Manifest'
  BY <1>1 DEF AtWork, Manifest, Recorded, NoRsync
<1> QED BY <1>2, <1>3, <1>4

LEMMA RetryKeeps == ASSUME LabInv, KeyRetry PROVE LabInv'
<1> USE DEF LabInv
<1>1. /\ screen = "error" /\ screen' = "transfer" /\ StartTransfer(queue[idx])
      /\ starter' = [remote |-> queue[idx], stage |-> "sizing"] /\ aborted' \subseteq aborted
      /\ ~active /\ rsync.state = "none"
      /\ UNCHANGED <<selected, implicit, probing, queue, idx, transferred, active, pending,
                     probes, loading, rsync, log, local, dropped>>
  BY DEF KeyRetry, StartTransfer, disk, AtWork
<1>2. queue[idx] \in Remotes
  BY <1>1, CurrentType
<1>3. TypeOK'
  BY <1>1, <1>2 DEF TypeOK
<1>4. Place' /\ Counted'
  BY <1>1 DEF Place, Counted, Finished
<1>5. \A r \in Remotes : local'[r] = "partial" => r \in dropped' \/ Recorded(r)'
  BY <1>1 DEF Manifest, Recorded
<1>6. StartTransfer(queue'[idx']) /\ active' = FALSE /\ rsync'.state = "none"
  BY <1>1 DEF TypeOK
<1> QED BY <1>1, <1>3, <1>4, <1>5, <1>6, StartKeeps

LEMMA SkipKeeps == ASSUME LabInv, KeySkip PROVE LabInv'
<1> USE DEF LabInv
<1>1. /\ screen = "error" /\ idx' = idx + 1 /\ ~active /\ rsync.state = "none" /\ starter.stage = "none"
      /\ Advance(TRUE, TRUE) /\ Recorded(queue[idx])
      /\ UNCHANGED <<selected, implicit, probing, queue, transferred, active, pending,
                     probes, loading, rsync, log, local, dropped>>
  BY DEF KeySkip, Advance, disk, AtWork
<1>2. idx \in 1..Len(queue) /\ Len(queue) \in Nat
  BY <1>1, CurrentType
<1>3. Finished' = Finished
  <2>1. log'[queue[idx]] # "done"
    BY <1>1 DEF Recorded
  <2> QED BY <1>1, <2>1, OneMore
<1>4. \A r \in Remotes : local'[r] = "partial" => r \in dropped' \/ Recorded(r)'
  BY <1>1 DEF Manifest, Recorded
<1>5. CASE idx < Len(queue)
  <2>1. /\ screen' = "transfer" /\ StartTransfer(queue[idx + 1]) /\ aborted' \subseteq aborted
        /\ starter' = [remote |-> queue[idx + 1], stage |-> "sizing"]
    BY <1>1, <1>5 DEF Advance, StartTransfer
  <2>2. queue[idx + 1] \in Remotes
    BY <1>2, <1>5 DEF TypeOK
  <2>3. TypeOK'
    BY <1>1, <1>2, <1>5, <2>1, <2>2 DEF TypeOK
  <2>4. Place' /\ Counted'
    BY <1>1, <1>2, <1>3, <1>5, <2>1 DEF Place, Counted
  <2>5. StartTransfer(queue'[idx']) /\ active' = FALSE /\ rsync'.state = "none"
    BY <1>1, <2>1 DEF TypeOK
  <2> QED BY <1>1, <1>4, <2>3, <2>4, <2>5, StartKeeps
<1>6. CASE ~(idx < Len(queue))
  <2>1. screen' = "done" /\ UNCHANGED <<starter, aborted>> /\ idx' = Len(queue) + 1
    BY <1>1, <1>2, <1>6 DEF Advance
  <2>2. TypeOK'
    BY <1>1, <1>2, <2>1 DEF TypeOK
  <2>3. Place' /\ Counted'
    BY <1>1, <1>2, <1>3, <2>1 DEF Place, Counted
  <2>4. AtWork' /\ Manifest'
    BY <1>1, <1>4, <2>1 DEF AtWork, Manifest
  <2> QED BY <2>2, <2>3, <2>4
<1> QED BY <1>5, <1>6

LEMMA OKKeeps == ASSUME LabInv, TransferOK PROVE LabInv'
<1> USE DEF LabInv
<1>1. /\ screen = "transfer" /\ active /\ rsync.state = "ok" /\ idx' = idx + 1 /\ active' = FALSE
      /\ rsync' = NoRsync /\ transferred' = transferred + 1 /\ log' = [log EXCEPT ![queue[idx]] = "done"]
      /\ starter.stage = "none" /\ local[queue[idx]] = "whole"
      /\ UNCHANGED <<selected, implicit, probing, queue, pending, probes, local, dropped>>
  BY DEF TransferOK, Advance, AtWork, TypeOK
<1>2. idx \in 1..Len(queue) /\ Len(queue) \in Nat /\ queue[idx] \in Remotes
  BY <1>1, CurrentType
<1>3. log'[queue[idx]] = "done" /\ \A r \in Remotes : r # queue[idx] => log'[r] = log[r]
  BY <1>1, <1>2 DEF TypeOK
<1>4. \A i \in 1..(idx - 1) : log'[queue[i]] = log[queue[i]]
  BY <1>1, <1>3, CurrentType
<1>5. /\ Finished' = Finished \union {idx} /\ Cardinality(Finished') = Cardinality(Finished) + 1
      /\ Cardinality(Finished) \in Nat /\ Cardinality(Finished) <= idx - 1
  BY <1>1, <1>3, <1>4, OneMore
<1>6. /\ transferred' = Cardinality(Finished') /\ transferred' \in 0..Len(queue)
      /\ \A i \in Finished' : local'[queue'[i]] = "whole"
  BY <1>1, <1>2, <1>5 DEF Counted
<1>7. \A r \in Remotes : local'[r] = "partial" => r \in dropped' \/ Recorded(r)'
  BY <1>1, <1>3 DEF Manifest, Recorded
<1>8. Counted'
  BY <1>6 DEF Counted
<1>9. log' \in [Remotes -> {"none", "started", "unknown", "done"}]
  BY <1>1 DEF TypeOK
<1>10. CASE idx < Len(queue)
  <2>1. /\ screen' = "transfer" /\ StartTransfer(queue[idx + 1]) /\ aborted' \subseteq aborted
        /\ starter' = [remote |-> queue[idx + 1], stage |-> "sizing"] /\ loading' = loading
    BY <1>10 DEF TransferOK, Advance, StartTransfer
  <2>2. queue[idx + 1] \in Remotes
    BY <1>2, <1>10 DEF TypeOK
  <2>3. TypeOK'
    <3>1. idx' \in 1..Len(queue') + 1
      BY <1>1, <1>2
    <3> QED BY <1>1, <1>6, <1>9, <2>1, <2>2, <3>1, IdleTypes DEF TypeOK, NothingStarted
  <2>4. Place'
    BY <1>1, <1>2, <1>10, <2>1 DEF Place
  <2>5. StartTransfer(queue'[idx']) /\ active' = FALSE /\ rsync'.state = "none"
    BY <1>1, <2>1 DEF NoRsync
  <2> QED BY <1>1, <1>7, <1>8, <2>3, <2>4, <2>5, StartKeeps
<1>11. CASE ~(idx < Len(queue))
  <2>1. screen' = "done" /\ UNCHANGED <<starter, aborted>> /\ loading' = TRUE /\ idx' = Len(queue) + 1
    BY <1>1, <1>2, <1>11 DEF TransferOK, Advance
  <2>2. TypeOK'
    <3>1. idx' \in 1..Len(queue') + 1
      BY <1>1, <1>2
    <3> QED BY <1>1, <1>6, <1>9, <2>1, <3>1, IdleTypes DEF TypeOK, NothingStarted
  <2>3. Place'
    BY <1>1, <1>2, <2>1 DEF Place
  <2>4. AtWork' /\ Manifest'
    BY <1>1, <1>7, <2>1 DEF AtWork, Manifest, NoRsync
  <2> QED BY <1>8, <2>2, <2>3, <2>4
<1> QED BY <1>10, <1>11

\* A session that is quitting claims nothing of its run; only the manifest counts.
LEMMA LeaveKeeps == ASSUME LabInv, KeyQuit \/ KeyAbort PROVE LabInv'
<1> USE DEF LabInv
<1>1. /\ screen' = "quitting"
      /\ UNCHANGED <<selected, implicit, probing, queue, idx, transferred, active, pending,
                     probes, loading, starter, local>>
  BY DEF KeyQuit, KeyAbort, disk
<1>2. \/ rsync' = rsync
      \/ rsync.state = "running" /\ rsync' = [rsync EXCEPT !.state = "failed"]
  BY DEF KeyQuit, KeyAbort, Cancel
<1>3. /\ rsync' \in [remote: Remotes \union {None}, state: {"none", "running", "ok", "failed"}]
      /\ rsync'.remote = rsync.remote /\ (rsync'.state = "none" <=> rsync.state = "none")
      /\ rsync'.state = "ok" => rsync.state = "ok"
  BY <1>2 DEF TypeOK
<1>4. \/ UNCHANGED <<log, dropped, aborted>>
      \/ /\ screen = "transfer"
         /\ log' = [log EXCEPT ![queue[idx]] = "done"]
         /\ dropped' = dropped \union {queue[idx]} /\ aborted' = aborted \union {queue[idx]}
  BY DEF KeyQuit, KeyAbort, disk, history
<1>5. /\ log' \in [Remotes -> {"none", "started", "unknown", "done"}]
      /\ dropped' \subseteq Remotes /\ aborted' \subseteq Remotes
      /\ \A r \in Remotes : r \in dropped \/ Recorded(r) => r \in dropped' \/ Recorded(r)'
  BY <1>4, CurrentType DEF TypeOK, Recorded
<1>6. TypeOK'
  BY <1>1, <1>3, <1>5 DEF TypeOK
<1>7. Place' /\ Counted'
  BY <1>1 DEF Place, Counted
<1>8. AtWork'
  BY <1>1, <1>3 DEF AtWork
<1>9. Manifest'
  <2>1. starter.stage \in {"logged", "launched"} => starter.remote \in Remotes
    BY DEF AtWork
  <2>2. rsync.state # "none" => rsync.remote \in Remotes
    BY DEF AtWork
  <2> QED BY <1>1, <1>3, <1>5, <2>1, <2>2 DEF Manifest
<1> QED BY <1>6, <1>7, <1>8, <1>9

-----------------------------------------------------------------------------
LEMMA LabInvariant == Spec => []LabInv
<1>1. Init => LabInv
  <2> SUFFICES ASSUME Init PROVE LabInv
    OBVIOUS
  <2>1. Len(queue) = 0 /\ queue = <<>> /\ queue \in Seq(Remotes)
    BY DEF Init
  <2>2. Cardinality(Remotes) \in Nat
    BY FS_CardinalityType, Assumption DEF Assumption
  <2>3. TypeOK
    <3>1. /\ log \in [Remotes -> {"none", "started", "unknown", "done"}]
          /\ local \in [Remotes -> {"missing", "partial", "whole"}]
          /\ idx \in 1..Len(queue) + 1 /\ transferred \in 0..Len(queue)
      BY <2>1 DEF Init
    <3>2. /\ starter = NoStarter /\ rsync = NoRsync /\ screen = "off" /\ selected = {} /\ implicit = None
          /\ probing = FALSE /\ active = FALSE /\ pending = {} /\ probes = {} /\ loading = FALSE
          /\ dropped = {} /\ aborted = {}
      BY DEF Init
    <3>3. queue \in Seq(Remotes) /\ Len(queue) <= Cardinality(Remotes)
      BY <2>1, <2>2
    <3>4. /\ starter \in [remote: Remotes \union {None}, stage: {"none", "sizing", "logged", "launched"}]
          /\ rsync \in [remote: Remotes \union {None}, state: {"none", "running", "ok", "failed"}]
      BY <3>2, IdleTypes DEF NothingStarted
    <3>5. /\ screen \in {"off", "browse", "confirm", "transfer", "error", "done", "quitting"}
          /\ selected \subseteq Remotes /\ implicit \in Remotes \union {None} /\ probing \in BOOLEAN
          /\ active \in BOOLEAN /\ pending \subseteq Remotes /\ probes \subseteq SUBSET Remotes
          /\ loading \in BOOLEAN /\ dropped \subseteq Remotes /\ aborted \subseteq Remotes
      BY <3>2
    <3> QED BY <3>1, <3>3, <3>4, <3>5 DEF TypeOK
  <2>4. Place /\ Counted
    BY <2>1 DEF Init, Place, Counted
  <2>5. AtWork /\ Manifest
    BY DEF Init, AtWork, Manifest, NoStarter, NoRsync
  <2> QED BY <2>3, <2>4, <2>5 DEF LabInv
<1>2. LabInv /\ [Next]_vars => LabInv'
  BY Assumption, QuietKeeps, ExitKeeps, ClearKeeps, BeginKeeps, LogsKeeps, LaunchKeeps, RsyncKeeps, FailedKeeps,
     RetryKeeps, SkipKeeps, OKKeeps, LeaveKeeps DEF Next, Transferring
<1> QED BY <1>1, <1>2, PTL DEF Spec

\* Every state of the screens, the goroutines and the disk is well typed (update.go).
THEOREM TypeCorrect == Spec => []TypeOK
<1>1. LabInv => TypeOK
  BY DEF LabInv
<1> QED BY <1>1, LabInvariant, PTL

\* Whatever a transfer left on disk is offered again, unless the user gave it up
\* (startTransferCmd, PendingTransfers).
THEOREM PartialsOffered == Spec => []PartialOffered
<1>1. LabInv => PartialOffered
  BY DEF LabInv, Manifest, Recorded, PartialOffered, PendingTransfers, Unfinished
<1> QED BY <1>1, LabInvariant, PTL

\* The count on the last screen is that of the items recorded done and whole (viewDone).
THEOREM SummaryHolds == Spec => []SummaryTrue
<1>1. LabInv => SummaryTrue
  <2> SUFFICES ASSUME LabInv, screen = "done" PROVE SummaryTrue
    BY DEF SummaryTrue
  <2>1. queue \in Seq(Remotes) /\ idx = Len(queue) + 1
    BY DEF LabInv, TypeOK, Place
  <2>2. DOMAIN queue = 1..(idx - 1)
    BY <2>1
  <2>3. Finished = {i \in DOMAIN queue : log[queue[i]] = "done"}
    BY <2>2 DEF Finished
  <2> QED BY <2>3 DEF LabInv, Counted, SummaryTrue
<1> QED BY <1>1, LabInvariant, PTL
=============================================================================
