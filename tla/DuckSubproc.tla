------------------------------ MODULE DuckSubproc ------------------------------
(***************************************************************************)
(* internal/store/duck/subproc.go: one `duckdb -jsonlines` child shared by  *)
(* the goroutines of the table viewer.  query() frames each statement with  *)
(* two sentinels, one per output stream; drainStderr follows stderr on its  *)
(* own; close() runs without query()'s lock and kills a child that stalls.  *)
(*                                                                         *)
(* The three pipes are queues.  A line is [n, what], n the number of the    *)
(* query it belongs to.  The child is external: it executes its input in    *)
(* order, as query()'s framing expects of it.                              *)
(***************************************************************************)
EXTENDS Naturals, Sequences, FiniteSets

CONSTANTS Callers,
          None,        \* no caller
          Trailer,     \* stderrSyntheticTrailerLines
          Kinds,       \* what a statement may do: "ok", "fail", "long", "hang"
          Stalls,      \* whether stderr may be slower than stderrDrainTimeout
          MaxQueries   \* bound: queries made

ASSUME Assumption ==
  /\ None \notin Callers /\ IsFiniteSet(Callers) /\ Trailer \in Nat /\ MaxQueries \in Nat
  /\ Kinds \subseteq {"ok", "fail", "long", "hang"} /\ Stalls \in BOOLEAN

VARIABLES
  pc,        \* per caller: "idle", "waiting" for mu, "armed", "reading" stdout, "syncing"
  result,    \* per caller: what its last query returned
  mu,        \* the holder of subproc.mu
  n,         \* counter
  kind,      \* per query number, what its statement does
  rows,      \* the rows the running query has read
  sentinel,  \* stderrSentinel: a query number, 0 when disarmed
  seen,      \* the running query's channel stderrSeen is closed
  owed,      \* stderrSyntheticRemaining
  buf,       \* stderrBuf
  drain,     \* drainStderr: "reading", "stopped" (stderrDie closed)
  child,     \* "running", "stuck", "gone"
  stdin, stdout, stderr,       \* the pipes
  stdinClosed, stdoutClosed,   \* our ends of them
  closed,    \* the flag
  closer     \* close(): "no", "exit" (written), "waiting", "killed", "returned"

query == <<pc, result, mu, n, kind, rows>>
sync == <<sentinel, seen, owed, buf, drain>>
outputs == <<stdout, stderr>>
closing == <<stdinClosed, stdoutClosed, closed, closer>>
vars == <<query, sync, child, stdin, outputs, closing>>

Line(q, what) == [n |-> q, what |-> what]
Lines == [n: 0..MaxQueries, what: {"user", "marker", "end", "exit", "row", "error", "long", "trailer"}]

\* The statements written for query q: the caller's, and the two framing ones.
Payload(q) == <<Line(q, "user"), Line(q, "marker"), Line(q, "end")>>

Init ==
  /\ pc = [c \in Callers |-> "idle"]
  /\ result = [c \in Callers |-> [n |-> 0, out |-> "none", rows |-> <<>>]]
  /\ mu = None /\ n = 0 /\ kind = [q \in 1..MaxQueries |-> "ok"] /\ rows = <<>>
  /\ sentinel = 0 /\ seen = FALSE /\ owed = 0 /\ buf = <<>> /\ drain = "reading"
  /\ child = "running" /\ stdin = <<>> /\ stdout = <<>> /\ stderr = <<>>
  /\ stdinClosed = FALSE /\ stdoutClosed = FALSE /\ closed = FALSE /\ closer = "no"

-----------------------------------------------------------------------------
\* query()

\* The closed flag is looked at before the lock is taken.
Enter(c) ==
  /\ pc[c] = "idle" /\ ~closed
  /\ n + Cardinality({d \in Callers : pc[d] = "waiting"}) < MaxQueries
  /\ pc' = [pc EXCEPT ![c] = "waiting"]
  /\ UNCHANGED <<result, mu, n, kind, rows, sync, child, stdin, outputs, closing>>

Lock(c) ==
  /\ pc[c] = "waiting" /\ mu = None
  /\ mu' = c /\ n' = n + 1 /\ rows' = <<>>
  /\ \E k \in Kinds : kind' = [kind EXCEPT ![n + 1] = k]
  /\ buf' = <<>> /\ sentinel' = n + 1 /\ seen' = FALSE
  /\ pc' = [pc EXCEPT ![c] = "armed"]
  /\ UNCHANGED <<result, owed, drain, child, stdin, outputs, closing>>

\* Mutant: an early return that leaves the lock taken.
ReturnLocked(c, out) ==
  /\ result' = [result EXCEPT ![c] = [n |-> n, out |-> out, rows |-> rows]]
  /\ pc' = [pc EXCEPT ![c] = "idle"]
  /\ sentinel' = 0 /\ seen' = FALSE
  /\ mu' = IF out = "ok" THEN None ELSE mu
  /\ UNCHANGED <<n, kind, rows, owed, buf, drain, child, stdinClosed, stdoutClosed, closed, closer>>

\* Every return disarms the sentinel and releases the lock.
ReturnWith(c, out) ==
  /\ result' = [result EXCEPT ![c] = [n |-> n, out |-> out, rows |-> rows]]
  /\ pc' = [pc EXCEPT ![c] = "idle"]
  /\ sentinel' = 0 /\ seen' = FALSE
  /\ mu' = None
  /\ UNCHANGED <<n, kind, rows, owed, buf, drain, child, stdinClosed, stdoutClosed, closed, closer>>

WriteStdin(c) ==
  /\ pc[c] = "armed"
  /\ IF stdinClosed \/ child = "gone"
     THEN ReturnWith(c, "broken") /\ UNCHANGED <<stdin, outputs>>
     ELSE /\ stdin' = stdin \o Payload(n)
          /\ pc' = [pc EXCEPT ![c] = "reading"]
          /\ UNCHANGED <<result, mu, n, kind, rows, sync, child, outputs, closing>>

ReadLine(c) ==
  /\ pc[c] = "reading" /\ stdout # <<>> /\ ~stdoutClosed
  /\ stdout' = Tail(stdout)
  /\ IF Head(stdout) = Line(n, "end")
     THEN pc' = [pc EXCEPT ![c] = "syncing"] /\ UNCHANGED rows
     ELSE rows' = Append(rows, Head(stdout)) /\ UNCHANGED pc
  /\ UNCHANGED <<result, mu, n, kind, sync, child, stdin, stderr, closing>>

\* EOF, or the pipe closed under the reader by cmd.Wait.
ReadFails(c) ==
  /\ pc[c] = "reading"
  /\ stdoutClosed \/ (stdout = <<>> /\ child = "gone")
  /\ ReturnWith(c, "broken")
  /\ UNCHANGED <<stdin, outputs>>

\* Mutant: stderrBuf is sampled as soon as the stdout sentinel is read.
SampleAtOnce(c) ==
  /\ pc[c] = "syncing"
  /\ ReturnWith(c, IF buf = <<>> THEN "ok" ELSE "duckdb")
  /\ UNCHANGED <<stdin, outputs>>

\* stderrBuf is sampled once the drain has seen the marker, or has stopped, or after
\* stderrDrainTimeout.
Sample(c) ==
  /\ pc[c] = "syncing"
  /\ seen \/ drain = "stopped" \/ Stalls
  /\ ReturnWith(c, IF buf = <<>> THEN "ok" ELSE "duckdb")
  /\ UNCHANGED <<stdin, outputs>>

-----------------------------------------------------------------------------
\* drainStderr: one line of stderr, by the state it finds.

DrainStep(trailer) ==
  /\ drain = "reading" /\ stderr # <<>>
  /\ stderr' = Tail(stderr)
  /\ LET line == Head(stderr) IN
     \/ /\ line.what = "long"            \* beyond the scanner's buffer: Scan() is FALSE
        /\ drain' = "stopped" /\ UNCHANGED <<sentinel, seen, owed, buf>>
     \/ /\ line.what # "long" /\ owed > 0
        /\ owed' = owed - 1 /\ UNCHANGED <<sentinel, seen, buf, drain>>
     \/ /\ line.what # "long" /\ owed = 0 /\ sentinel = 0
        /\ UNCHANGED sync
     \/ /\ owed = 0 /\ sentinel # 0 /\ line = Line(sentinel, "marker")
        /\ seen' = TRUE /\ sentinel' = 0 /\ owed' = trailer /\ UNCHANGED <<buf, drain>>
     \/ /\ line.what # "long" /\ owed = 0 /\ sentinel # 0 /\ line # Line(sentinel, "marker")
        /\ buf' = Append(buf, line) /\ UNCHANGED <<sentinel, seen, owed, drain>>
  /\ UNCHANGED <<query, child, stdin, stdout, closing>>

\* Mutants: the trailer is left to the next state; the marker's line is counted too.
DrainNoTrailer == DrainStep(0)
DrainOneMore == DrainStep(Trailer + 1)

Drain == DrainStep(Trailer)

DrainEOF ==
  /\ drain = "reading" /\ stderr = <<>> /\ child = "gone"
  /\ drain' = "stopped"
  /\ UNCHANGED <<query, sentinel, seen, owed, buf, child, stdin, outputs, closing>>

-----------------------------------------------------------------------------
\* The child.

TrailerLines(q) == [i \in 1..Trailer |-> Line(q, "trailer")]

Execute ==
  /\ child = "running" /\ stdin # <<>>
  /\ stdin' = Tail(stdin)
  /\ LET q == Head(stdin).n
         what == Head(stdin).what
         stmt == IF what = "user" THEN kind[q] ELSE what IN
     \/ /\ stmt = "ok" /\ stdout' = Append(stdout, Line(q, "row")) /\ UNCHANGED <<stderr, child>>
     \/ /\ stmt = "fail" /\ stderr' = Append(stderr, Line(q, "error")) /\ UNCHANGED <<stdout, child>>
     \/ /\ stmt = "long" /\ stderr' = Append(stderr, Line(q, "long")) /\ UNCHANGED stdout
        /\ child' \in {"running", "stuck"}   \* stuck when the rest of the line fills the pipe
     \/ /\ stmt = "hang" /\ child' = "stuck" /\ UNCHANGED outputs
     \/ /\ stmt = "marker" /\ stderr' = Append(stderr, Line(q, "marker")) \o TrailerLines(q)
        /\ UNCHANGED <<stdout, child>>
     \/ /\ stmt = "end" /\ stdout' = Append(stdout, Line(q, "end")) /\ UNCHANGED <<stderr, child>>
     \/ /\ stmt = "exit" /\ child' = "gone" /\ UNCHANGED outputs
  /\ UNCHANGED <<query, sync, closing>>

-----------------------------------------------------------------------------
\* close(), called once: later calls return at once.

CloseExit ==
  /\ ~closed
  /\ closed' = TRUE /\ closer' = "exit"
  /\ stdin' = IF child = "gone" THEN stdin ELSE Append(stdin, Line(0, "exit"))
  /\ UNCHANGED <<query, sync, child, outputs, stdinClosed, stdoutClosed>>

CloseStdin ==
  /\ closer = "exit"
  /\ stdinClosed' = TRUE /\ closer' = "waiting"
  /\ UNCHANGED <<query, sync, child, stdin, outputs, stdoutClosed, closed>>

\* Mutant: the signal goes to a process that is not the child's group.
KillNothing ==
  /\ closer = "waiting" /\ closer' = "killed"
  /\ UNCHANGED <<query, sync, child, stdin, outputs, stdinClosed, stdoutClosed, closed>>

\* closeTimeout: SIGKILL to the group.
Kill ==
  /\ closer = "waiting" /\ closer' = "killed"
  /\ child' = "gone"
  /\ UNCHANGED <<query, sync, stdin, outputs, stdinClosed, stdoutClosed, closed>>

\* stderrDie, then cmd.Wait, which closes our ends of the pipes.
Reap ==
  /\ closer \in {"waiting", "killed"} /\ drain = "stopped" /\ child = "gone"
  /\ closer' = "returned" /\ stdoutClosed' = TRUE
  /\ UNCHANGED <<query, sync, child, stdin, outputs, stdinClosed, closed>>

-----------------------------------------------------------------------------
Running(c) == Lock(c) \/ WriteStdin(c) \/ ReadLine(c) \/ ReadFails(c) \/ Sample(c)
Drainer == Drain \/ DrainEOF
Closer == CloseStdin \/ Kill \/ Reap

Next == \/ \E c \in Callers : Enter(c) \/ Running(c)
        \/ Drainer \/ Execute \/ CloseExit \/ Closer

Spec == Init /\ [][Next]_vars

\* The Go scheduler runs every goroutine that can run, sync.Mutex is not unfair for
\* ever, the timers fire, and a child that is not stuck goes on executing.
FairSpec ==
  /\ Spec
  /\ \A c \in Callers : SF_vars(Lock(c)) /\ WF_vars(Running(c))
  /\ WF_vars(Drainer) /\ WF_vars(Execute) /\ WF_vars(Closer)

-----------------------------------------------------------------------------
\* Properties

TypeOK ==
  /\ pc \in [Callers -> {"idle", "waiting", "armed", "reading", "syncing"}]
  /\ result \in [Callers -> [n: 0..MaxQueries, out: {"none", "ok", "duckdb", "broken"}, rows: Seq(Lines)]]
  /\ mu \in Callers \union {None} /\ n \in 0..MaxQueries
  /\ kind \in [1..MaxQueries -> Kinds \union {"ok"}] /\ rows \in Seq(Lines)
  /\ sentinel \in 0..MaxQueries /\ seen \in BOOLEAN /\ owed \in 0..Trailer
  /\ buf \in Seq(Lines) /\ drain \in {"reading", "stopped"}
  /\ child \in {"running", "stuck", "gone"}
  /\ stdin \in Seq(Lines) /\ stdout \in Seq(Lines) /\ stderr \in Seq(Lines)
  /\ stdinClosed \in BOOLEAN /\ stdoutClosed \in BOOLEAN /\ closed \in BOOLEAN
  /\ closer \in {"no", "exit", "waiting", "killed", "returned"}

\* The child has printed an error line beyond the scanner's buffer by query q: the
\* program has no second drain, and from then on failures pass for successes.
DrainLost(q) == \E p \in 1..q : kind[p] = "long"

\* subproc.go:216-222: "a failing user statement's stderr error is always observed
\* before we sample stderrBuf": while the drain lives, a query that returns no error
\* was executed, its rows are its own statement's and all of them, and one that returns
\* an error from duckdb failed itself, however the two streams and the callers interleave.
AnswersOwn ==
  \A c \in Callers : ~DrainLost(result[c].n) =>
    /\ result[c].out = "ok" => /\ kind[result[c].n] = "ok"
                               /\ result[c].rows = <<Line(result[c].n, "row")>>
    /\ result[c].out = "duckdb" => kind[result[c].n] = "fail"

\* subproc.go:92-94: what the framing statement makes duckdb print "cannot leak into
\* the next query's stderrBuf": while the child lives, the buffer holds the running
\* query's own errors only, however far the drain lags behind the queries.
BufferOwn == child # "gone" => \A i \in DOMAIN buf : buf[i] = Line(n, "error")

\* The same lines, said of the trailer alone and without regard to the child.
TrailerStaysOut == \A i \in DOMAIN buf : buf[i].what # "trailer"

\* Every query returns, unless a statement blocks the child, also when close() overtakes
\* it between the closed check, the lock, the write and the read.
QueriesReturn ==
  \A c \in Callers : pc[c] # "idle" ~> (pc[c] = "idle" \/ \E q \in 1..n : kind[q] \in {"hang", "long"})

\* subproc.go:326-329: "A stuck query or a locked WAL would otherwise hang dbtui's
\* shutdown indefinitely": once close() is called it returns, and so does every query,
\* whatever the child is doing.
CloseFrees == closed ~> [](closer = "returned" /\ \A c \in Callers : pc[c] = "idle")
=============================================================================
