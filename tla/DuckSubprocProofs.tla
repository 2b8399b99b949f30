-------------------------- MODULE DuckSubprocProofs --------------------------
(***************************************************************************)
(* Theorems about DuckSubproc, for any number of callers, queries and       *)
(* trailer lines, whatever the statements do and whenever close() comes.    *)
(*                                                                         *)
(* The lock lets one query at a time into the pipes, so each pipe holds at  *)
(* most what is left of the query before and what the running one has put   *)
(* there.  Inputs, Outputs and Errors say so of the three pipes; they hold  *)
(* while the child lives, and after that until the running query returns.   *)
(*                                                                         *)
(* What the buffer and the answers hold is proved for a drain that is never *)
(* slower than stderrDrainTimeout (Prompt): with a slower one the claim is  *)
(* false.                                                                  *)
(***************************************************************************)
EXTENDS DuckSubproc, FiniteSetTheorems, SequenceTheorems, TLAPS

Prompt == Stalls = FALSE

\* Where the query that holds the lock is.
At == IF mu = None THEN "none" ELSE pc[mu]

\* The child lives, or the running query still has its pipes to read.
Live == child # "gone" \/ At \in {"reading", "syncing"}

Waiting == {c \in Callers : pc[c] = "waiting"}

\* The lock has one holder, the queries left suffice for those who wait.
Locking ==
  /\ \A c \in Callers : pc[c] \in {"armed", "reading", "syncing"} <=> mu = c
  /\ n + Cardinality(Waiting) <= MaxQueries
  /\ mu # None => n # 0
  /\ \A c \in Callers : result[c].n <= n
  /\ stdoutClosed => child = "gone"

Has(what) == \E i \in DOMAIN stdin : stdin[i].what = what

\* stdin: what is left of the running query's payload, in order, and perhaps .exit.
Inputs ==
  Live =>
    /\ \A i \in DOMAIN stdin : /\ stdin[i].what \in {"user", "marker", "end", "exit"}
                               /\ stdin[i].what # "exit" => stdin[i].n = n /\ At = "reading"
    /\ \A i, j \in DOMAIN stdin : i < j =>
         /\ stdin[j].what = "user" => stdin[i].what = "exit"
         /\ stdin[j].what = "marker" => stdin[i].what \in {"user", "exit"}
         /\ stdin[j].what = "end" => stdin[i].what # "end"
    /\ Has("user") => Has("marker")
    /\ Has("marker") => Has("end")

\* stdout and the rows read from it.
RowLine == Line(n, "row")
EndLine == Line(n, "end")

\* Of a statement that prints a row, the row is read or to be read, before the end line.
Printed(all, tail) ==
  IF kind[n] = "ok"
  THEN \/ rows = <<>> /\ stdout = all
       \/ rows = <<RowLine>> /\ stdout = tail
  ELSE rows = <<>> /\ stdout = tail

Outputs ==
  Live =>
    /\ At \notin {"reading", "syncing"} => stdout = <<>>
    /\ At = "armed" => rows = <<>>
    /\ At = "reading" =>
         /\ Has("user") => rows = <<>> /\ stdout = <<>>
         /\ ~Has("user") /\ Has("end") => Printed(<<RowLine>>, <<>>)
         /\ ~Has("end") => Printed(<<RowLine, EndLine>>, <<EndLine>>)
         /\ ~Has("user") /\ kind[n] = "hang" => child # "running" /\ Has("marker")
    /\ At = "syncing" =>
         /\ stdout = <<>> /\ kind[n] # "hang"
         /\ rows = IF kind[n] = "ok" THEN <<RowLine>> ELSE <<>>

\* A complaint in stderr or in the buffer comes from a statement that made it.
Complaints ==
  /\ \A i \in DOMAIN stderr :
       /\ stderr[i].what = "error" => stderr[i].n \in 1..n /\ kind[stderr[i].n] = "fail"
       /\ stderr[i].what = "long" => stderr[i].n \in 1..n /\ kind[stderr[i].n] = "long"
  /\ \A i \in DOMAIN buf : buf[i].what = "error" => buf[i].n \in 1..n /\ kind[buf[i].n] = "fail"

\* The running query's own lines of stderr after the first k: its complaints, then, once
\* the marker is executed, the marker and its trailer.
Complaint(line) == line \in {Line(n, "error"), Line(n, "long")}
MarkedAt(p) ==
  /\ stderr[p] = Line(n, "marker") /\ Len(stderr) = p + Trailer
  /\ \A i \in (owed + 1)..(p - 1) : Complaint(stderr[i])
  /\ \A i \in (p + 1)..Len(stderr) : stderr[i].what = "trailer"

\* stderr: the trailer still owed, then, while the sentinel is armed, the query's own lines.
Errors ==
  Live /\ drain = "reading" =>
    /\ owed <= Len(stderr)
    /\ \A i \in 1..owed : stderr[i].what = "trailer"
    /\ sentinel = 0 => Len(stderr) = owed
    /\ sentinel # 0 =>
         IF At = "armed" \/ Has("user") THEN Len(stderr) = owed
         ELSE IF Has("marker") THEN \A i \in (owed + 1)..Len(stderr) : Complaint(stderr[i])
         ELSE \E p \in (owed + 1)..Len(stderr) : MarkedAt(p)

\* The sentinel is that of the query at work, until its marker is seen; a drain that has
\* stopped had a reason.
Sentinels ==
  /\ At = "none" => sentinel = 0 /\ ~seen
  /\ At # "none" => IF seen THEN sentinel = 0 ELSE sentinel = n
  /\ drain = "stopped" => DrainLost(n) \/ (child = "gone" /\ stderr = <<>>)
  /\ Live => /\ At = "armed" => ~seen
             /\ seen => ~Has("user") /\ ~Has("marker")
             /\ \A i \in DOMAIN buf : buf[i] = Line(n, "error")

\* A failing statement's complaint is in the buffer or on its way to it.
Heard ==
  At \in {"reading", "syncing"} /\ ~Has("user") /\ kind[n] = "fail" /\ ~DrainLost(n) =>
    buf # <<>> \/ \E i \in (owed + 1)..Len(stderr) : stderr[i] = Line(n, "error")

LockInv == TypeOK /\ Locking
PipeInv == Inputs /\ Outputs /\ Complaints /\ Errors /\ Sentinels /\ Heard

-----------------------------------------------------------------------------
\* Taking the first line of a pipe and putting lines at its end.
LEMMA TakeFacts ==
  ASSUME NEW S, NEW s \in Seq(S), s # <<>>
  PROVE  /\ Head(s) \in S /\ Head(s) = s[1] /\ Tail(s) \in Seq(S)
         /\ Len(s) \in Nat \ {0} /\ Len(Tail(s)) = Len(s) - 1
         /\ \A i \in 1..(Len(s) - 1) : Tail(s)[i] = s[i + 1]
OBVIOUS

LEMMA PutFacts ==
  ASSUME NEW S, NEW s \in Seq(S), NEW x \in S
  PROVE  /\ Append(s, x) \in Seq(S) /\ Append(s, x) # <<>> /\ Len(s) \in Nat /\ Len(Append(s, x)) = Len(s) + 1
         /\ Append(s, x)[Len(s) + 1] = x
         /\ \A i \in 1..Len(s) : Append(s, x)[i] = s[i]
OBVIOUS

LEMMA JoinFacts ==
  ASSUME NEW S, NEW s \in Seq(S), NEW t \in Seq(S)
  PROVE  /\ s \o t \in Seq(S) /\ Len(s) \in Nat /\ Len(t) \in Nat /\ Len(s \o t) = Len(s) + Len(t)
         /\ \A i \in 1..Len(s) : (s \o t)[i] = s[i]
         /\ \A i \in 1..Len(t) : (s \o t)[Len(s) + i] = t[i]
OBVIOUS

\* The lines of one statement.
LEMMA PayloadFacts ==
  ASSUME NEW q \in 0..MaxQueries
  PROVE  /\ Payload(q) \in Seq(Lines) /\ Len(Payload(q)) = 3
         /\ Payload(q)[1] = Line(q, "user") /\ Payload(q)[2] = Line(q, "marker") /\ Payload(q)[3] = Line(q, "end")
BY DEF Payload, Line, Lines

LEMMA TrailerFacts ==
  ASSUME Assumption, NEW q \in 0..MaxQueries
  PROVE  /\ TrailerLines(q) \in Seq(Lines) /\ Len(TrailerLines(q)) = Trailer
         /\ \A i \in 1..Trailer : TrailerLines(q)[i] = Line(q, "trailer")
<1>1. Line(q, "trailer") \in Lines
  BY DEF Line, Lines
<1> QED BY <1>1 DEF TrailerLines, Assumption

LEMMA LineFacts ==
  ASSUME NEW q \in 0..MaxQueries,
         NEW what \in {"user", "marker", "end", "exit", "row", "error", "long", "trailer"}
  PROVE  Line(q, what) \in Lines /\ Line(q, what).n = q /\ Line(q, what).what = what
BY DEF Line, Lines

-----------------------------------------------------------------------------
\* What becomes of the lock when a query returns.
LEMMA ReturnFacts ==
  ASSUME LockInv, NEW c \in Callers, pc[c] \in {"armed", "reading", "syncing"},
         NEW out \in {"ok", "duckdb", "broken"}, ReturnWith(c, out)
  PROVE  /\ mu = c /\ mu' = None /\ At = pc[c] /\ At' = "none" /\ n # 0
         /\ pc' \in [Callers -> {"idle", "waiting", "armed", "reading", "syncing"}]
         /\ result' \in [Callers -> [n: 0..MaxQueries, out: {"none", "ok", "duckdb", "broken"}, rows: Seq(Lines)]]
         /\ result'[c] = [n |-> n, out |-> out, rows |-> rows]
         /\ \A d \in Callers : d # c => result'[d] = result[d]
         /\ Locking' /\ sentinel' = 0 /\ seen' = FALSE
         /\ UNCHANGED <<n, kind, rows, owed, buf, drain, child, stdinClosed, stdoutClosed, closed, closer>>
<1> USE DEF LockInv
<1>1. /\ result' = [result EXCEPT ![c] = [n |-> n, out |-> out, rows |-> rows]]
      /\ pc' = [pc EXCEPT ![c] = "idle"]
      /\ sentinel' = 0 /\ seen' = FALSE /\ mu' = None
      /\ UNCHANGED <<n, kind, rows, owed, buf, drain, child, stdinClosed, stdoutClosed, closed, closer>>
  BY DEF ReturnWith
<1>2. mu = c /\ c # None /\ n # 0
  BY Assumption DEF Locking, Assumption
<1>3. /\ pc' \in [Callers -> {"idle", "waiting", "armed", "reading", "syncing"}]
      /\ pc'[c] = "idle" /\ \A d \in Callers : d # c => pc'[d] = pc[d]
  BY <1>1 DEF TypeOK
<1>4. /\ result' \in [Callers -> [n: 0..MaxQueries, out: {"none", "ok", "duckdb", "broken"}, rows: Seq(Lines)]]
      /\ result'[c] = [n |-> n, out |-> out, rows |-> rows]
      /\ \A d \in Callers : d # c => result'[d] = result[d]
  BY <1>1 DEF TypeOK
<1>5. Waiting' = Waiting
  BY <1>3 DEF Waiting
<1>6. \A d \in Callers : pc'[d] \in {"armed", "reading", "syncing"} <=> mu' = d
  BY <1>1, <1>2, <1>3, Assumption DEF Locking, Assumption
<1>7. \A d \in Callers : result'[d].n <= n'
  BY <1>1, <1>4 DEF Locking, TypeOK
<1>8. Locking'
  BY <1>1, <1>5, <1>6, <1>7 DEF Locking
<1>9. At = pc[c] /\ At' = "none"
  BY <1>1, <1>2 DEF At
<1> QED BY <1>1, <1>2, <1>3, <1>4, <1>8, <1>9

LEMMA ReturnKeepsLock ==
  ASSUME LockInv, NEW c \in Callers, pc[c] \in {"armed", "reading", "syncing"},
         NEW out \in {"ok", "duckdb", "broken"}, ReturnWith(c, out), UNCHANGED <<stdin, stdout, stderr>>
  PROVE  LockInv'
<1>1. sentinel' \in 0..MaxQueries /\ seen' \in BOOLEAN /\ mu' \in Callers \union {None}
  <2>1. sentinel' = 0 /\ seen' = FALSE /\ mu' = None
    BY ReturnFacts
  <2>2. MaxQueries \in Nat
    BY Assumption DEF Assumption
  <2>3. sentinel' \in 0..MaxQueries
    BY <2>1, <2>2
  <2>4. seen' \in BOOLEAN /\ mu' \in Callers \union {None}
    BY <2>1
  <2> QED BY <2>3, <2>4
<1>2. /\ pc' \in [Callers -> {"idle", "waiting", "armed", "reading", "syncing"}]
      /\ result' \in [Callers -> [n: 0..MaxQueries, out: {"none", "ok", "duckdb", "broken"}, rows: Seq(Lines)]]
      /\ Locking'
      /\ UNCHANGED <<n, kind, rows, owed, buf, drain, child, stdinClosed, stdoutClosed, closed, closer>>
  BY ReturnFacts
<1> QED BY <1>1, <1>2 DEF LockInv, TypeOK

\* A query goes from one place to the next with the lock in its hand.
LEMMA MoveFacts ==
  ASSUME LockInv, NEW c \in Callers, pc[c] \in {"armed", "reading", "syncing"},
         NEW place \in {"armed", "reading", "syncing"}, pc' = [pc EXCEPT ![c] = place],
         UNCHANGED <<result, mu, n, child, stdoutClosed>>
  PROVE  /\ mu = c /\ At = pc[c] /\ At' = place /\ n # 0 /\ Locking'
         /\ pc' \in [Callers -> {"idle", "waiting", "armed", "reading", "syncing"}]
<1> USE DEF LockInv
<1>1. mu = c /\ c # None /\ n # 0
  BY Assumption DEF Locking, Assumption
<1>2. /\ pc' \in [Callers -> {"idle", "waiting", "armed", "reading", "syncing"}]
      /\ pc'[c] = place /\ \A d \in Callers : d # c => pc'[d] = pc[d]
  BY DEF TypeOK
<1>3. Waiting' = Waiting
  BY <1>2 DEF Waiting
<1>4. \A d \in Callers : pc'[d] \in {"armed", "reading", "syncing"} <=> mu' = d
  BY <1>1, <1>2 DEF Locking
<1>5. Locking'
  BY <1>3, <1>4 DEF Locking
<1>6. At = pc[c] /\ At' = place
  BY <1>1, <1>2 DEF At
<1> QED BY <1>1, <1>2, <1>5, <1>6

\* Callers that come to the lock, and the one that gets it.
LEMMA EnterKeepsLock ==
  ASSUME LockInv, NEW c \in Callers, Enter(c)
  PROVE  LockInv' /\ At' = At
<1> USE DEF LockInv
<1>1. /\ pc[c] = "idle" /\ n + Cardinality(Waiting) < MaxQueries
      /\ pc' = [pc EXCEPT ![c] = "waiting"]
      /\ UNCHANGED <<result, mu, n, kind, rows, sentinel, seen, owed, buf, drain, child, stdin, stdout, stderr,
                     stdinClosed, stdoutClosed, closed, closer>>
  BY DEF Enter, Waiting, sync, outputs, closing
<1>2. /\ pc' \in [Callers -> {"idle", "waiting", "armed", "reading", "syncing"}]
      /\ pc'[c] = "waiting" /\ \A d \in Callers : d # c => pc'[d] = pc[d]
  BY <1>1 DEF TypeOK
<1>3. TypeOK'
  BY <1>1, <1>2 DEF TypeOK
<1>4. Waiting' = Waiting \union {c} /\ c \notin Waiting
  BY <1>1, <1>2 DEF Waiting
<1>5. IsFiniteSet(Waiting) /\ Cardinality(Waiting) \in Nat
  BY FS_Subset, FS_CardinalityType, Assumption DEF Waiting, Assumption
<1>6. Cardinality(Waiting') = Cardinality(Waiting) + 1
  BY <1>4, <1>5, FS_AddElement
<1>7. n' + Cardinality(Waiting') <= MaxQueries
  BY <1>1, <1>5, <1>6, Assumption DEF TypeOK, Assumption
<1>8. \A d \in Callers : pc'[d] \in {"armed", "reading", "syncing"} <=> mu' = d
  BY <1>1, <1>2 DEF Locking
<1>9. Locking'
  BY <1>1, <1>7, <1>8 DEF Locking
<1>10. At' = At
  BY <1>1, <1>2 DEF At, Locking, TypeOK
<1> QED BY <1>3, <1>9, <1>10

LEMMA LockKeepsLock ==
  ASSUME LockInv, NEW c \in Callers, Lock(c)
  PROVE  LockInv' /\ At = "none" /\ At' = "armed" /\ n' = n + 1 /\ n \in Nat /\ n' # 0
<1> USE DEF LockInv
<1>1. /\ pc[c] = "waiting" /\ mu = None /\ mu' = c /\ n' = n + 1 /\ rows' = <<>>
      /\ buf' = <<>> /\ sentinel' = n + 1 /\ seen' = FALSE
      /\ pc' = [pc EXCEPT ![c] = "armed"]
      /\ UNCHANGED <<result, owed, drain, child, stdin, stdout, stderr,
                     stdinClosed, stdoutClosed, closed, closer>>
  BY DEF Lock, outputs, closing
<1>2. PICK k \in Kinds : kind' = [kind EXCEPT ![n + 1] = k]
  BY DEF Lock
<1>3. /\ pc' \in [Callers -> {"idle", "waiting", "armed", "reading", "syncing"}]
      /\ pc'[c] = "armed" /\ \A d \in Callers : d # c => pc'[d] = pc[d]
  BY <1>1 DEF TypeOK
<1>4. Waiting' = Waiting \ {c} /\ c \in Waiting
  BY <1>1, <1>3 DEF Waiting
<1>5. IsFiniteSet(Waiting) /\ Cardinality(Waiting) \in Nat
  BY FS_Subset, FS_CardinalityType, Assumption DEF Waiting, Assumption
<1>6. Cardinality(Waiting') = Cardinality(Waiting) - 1 /\ Cardinality(Waiting) # 0
  BY <1>4, <1>5, FS_RemoveElement, FS_EmptySet
<1>7. n' + Cardinality(Waiting') <= MaxQueries /\ n' \in 0..MaxQueries /\ n \in Nat /\ n' # 0
  BY <1>1, <1>5, <1>6, Assumption DEF Locking, TypeOK, Assumption
<1>8. kind' \in [1..MaxQueries -> Kinds \union {"ok"}]
  BY <1>2 DEF TypeOK
<1>9. TypeOK'
  <2>1. rows' \in Seq(Lines) /\ buf' \in Seq(Lines) /\ sentinel' \in 0..MaxQueries /\ seen' \in BOOLEAN
        /\ mu' \in Callers \union {None}
    <3>1. sentinel' \in 0..MaxQueries
      BY <1>1, <1>7
    <3>2. <<>> \in Seq(Lines)
      OBVIOUS
    <3> QED BY <1>1, <3>1, <3>2
  <2> QED BY <1>1, <1>3, <1>7, <1>8, <2>1 DEF TypeOK
<1>10. \A d \in Callers : pc'[d] \in {"armed", "reading", "syncing"} <=> mu' = d
  BY <1>1, <1>3, Assumption DEF Locking, TypeOK, Assumption
<1>11. \A d \in Callers : result'[d].n <= n'
  <2>1. \A d \in Callers : result[d].n \in Nat
    BY DEF TypeOK
  <2> QED BY <1>1, <1>7, <2>1 DEF Locking
<1>12. Locking'
  BY <1>1, <1>7, <1>10, <1>11 DEF Locking
<1>13. At = "none" /\ At' = "armed"
  BY <1>1, <1>3, Assumption DEF At, Assumption
<1> QED BY <1>1, <1>7, <1>9, <1>12, <1>13

\* The query at work keeps the types of what it writes and reads.
LEMMA RunKeepsLock ==
  ASSUME LockInv, NEW c \in Callers, WriteStdin(c) \/ ReadLine(c) \/ ReadFails(c) \/ Sample(c)
  PROVE  LockInv'
<1> USE DEF LockInv
<1>1. CASE WriteStdin(c)
  <2>1. pc[c] = "armed"
    BY <1>1 DEF WriteStdin
  <2>2. CASE stdinClosed \/ child = "gone"
    <3>1. ReturnWith(c, "broken") /\ UNCHANGED <<stdin, stdout, stderr>>
      BY <1>1, <2>2 DEF WriteStdin, outputs
    <3> QED BY <2>1, <3>1, ReturnKeepsLock
  <2>3. CASE ~(stdinClosed \/ child = "gone")
    <3>1. /\ stdin' = stdin \o Payload(n) /\ pc' = [pc EXCEPT ![c] = "reading"]
          /\ UNCHANGED <<result, mu, n, kind, rows, sentinel, seen, owed, buf, drain, child, stdout, stderr,
                         stdinClosed, stdoutClosed, closed, closer>>
      BY <1>1, <2>3 DEF WriteStdin, sync, outputs, closing
    <3>2. stdin' \in Seq(Lines)
      BY <3>1, PayloadFacts, JoinFacts DEF TypeOK
    <3>3. Locking' /\ pc' \in [Callers -> {"idle", "waiting", "armed", "reading", "syncing"}]
      BY <2>1, <3>1, MoveFacts
    <3> QED BY <3>1, <3>2, <3>3 DEF TypeOK
  <2> QED BY <2>2, <2>3
<1>2. CASE ReadLine(c)
  <2>1. /\ pc[c] = "reading" /\ stdout # <<>> /\ stdout' = Tail(stdout)
        /\ UNCHANGED <<result, mu, n, kind, sentinel, seen, owed, buf, drain, child, stdin, stderr,
                       stdinClosed, stdoutClosed, closed, closer>>
        /\ \/ pc' = [pc EXCEPT ![c] = "syncing"] /\ UNCHANGED rows
           \/ rows' = Append(rows, Head(stdout)) /\ UNCHANGED pc
    BY <1>2 DEF ReadLine, sync, closing
  <2>2. stdout' \in Seq(Lines) /\ rows' \in Seq(Lines)
    <3>1. stdout \in Seq(Lines) /\ rows \in Seq(Lines)
      BY DEF TypeOK
    <3>2. Head(stdout) \in Lines /\ Tail(stdout) \in Seq(Lines)
      BY <2>1, <3>1, TakeFacts
    <3>3. Append(rows, Head(stdout)) \in Seq(Lines)
      BY <3>1, <3>2, PutFacts
    <3> QED BY <2>1, <3>1, <3>2, <3>3
  <2>3. Locking' /\ pc' \in [Callers -> {"idle", "waiting", "armed", "reading", "syncing"}]
    <3>1. CASE pc' = [pc EXCEPT ![c] = "syncing"]
      BY <2>1, <3>1, MoveFacts
    <3>2. CASE pc' = pc
      BY <2>1, <3>2 DEF Locking, Waiting, TypeOK
    <3> QED BY <2>1, <3>1, <3>2
  <2> QED BY <2>1, <2>2, <2>3 DEF TypeOK
<1>3. CASE ReadFails(c)
  BY <1>3, ReturnKeepsLock DEF ReadFails, outputs
<1>4. CASE Sample(c)
  <2>1. PICK out \in {"ok", "duckdb"} : ReturnWith(c, out)
    BY <1>4 DEF Sample
  <2>2. pc[c] = "syncing" /\ UNCHANGED <<stdin, stdout, stderr>>
    BY <1>4 DEF Sample, outputs
  <2> QED BY <2>1, <2>2, ReturnKeepsLock
<1> QED BY <1>1, <1>2, <1>3, <1>4

\* What leaves the callers and the lock alone.
LEMMA OthersLeaveLock ==
  ASSUME LockInv, UNCHANGED <<pc, result, mu, n>>, stdoutClosed' => child' = "gone"
  PROVE  Locking' /\ At' = At
BY DEF LockInv, Locking, Waiting, At

LEMMA DrainKeepsLock ==
  ASSUME LockInv, Drainer
  PROVE  LockInv' /\ At' = At
<1> USE DEF LockInv
<1>1. UNCHANGED <<pc, result, mu, n, kind, rows, child, stdin, stdout, stdinClosed, stdoutClosed, closed, closer>>
  BY DEF Drainer, Drain, DrainStep, DrainEOF, query, closing, outputs
<1>2. /\ stderr' \in Seq(Lines) /\ sentinel' \in 0..MaxQueries /\ seen' \in BOOLEAN /\ owed' \in 0..Trailer
      /\ buf' \in Seq(Lines) /\ drain' \in {"reading", "stopped"}
  <2>1. CASE DrainEOF
    BY <2>1 DEF DrainEOF, outputs, TypeOK
  <2>2. CASE Drain
    <3>1. stderr # <<>> /\ stderr' = Tail(stderr)
      BY <2>2 DEF Drain, DrainStep
    <3>2. stderr' \in Seq(Lines) /\ Head(stderr) \in Lines
      BY <3>1, TakeFacts DEF TypeOK
    <3>3. \/ drain' = "stopped" /\ UNCHANGED <<sentinel, seen, owed, buf>>
          \/ owed > 0 /\ owed' = owed - 1 /\ UNCHANGED <<sentinel, seen, buf, drain>>
          \/ UNCHANGED <<sentinel, seen, owed, buf, drain>>
          \/ seen' = TRUE /\ sentinel' = 0 /\ owed' = Trailer /\ UNCHANGED <<buf, drain>>
          \/ buf' = Append(buf, Head(stderr)) /\ UNCHANGED <<sentinel, seen, owed, drain>>
      BY <2>2 DEF Drain, DrainStep, sync
    <3>4. Append(buf, Head(stderr)) \in Seq(Lines)
      BY <3>2, PutFacts DEF TypeOK
    <3>5. owed \in 0..Trailer /\ sentinel \in 0..MaxQueries /\ 0 \in 0..MaxQueries /\ Trailer \in 0..Trailer
          /\ (owed > 0 => owed - 1 \in 0..Trailer)
      BY Assumption DEF TypeOK, Assumption
    <3> QED BY <3>2, <3>3, <3>4, <3>5 DEF TypeOK
  <2> QED BY <2>1, <2>2 DEF Drainer
<1> QED BY <1>1, <1>2, OthersLeaveLock DEF TypeOK, Locking

LEMMA ExecuteKeepsLock ==
  ASSUME LockInv, Execute
  PROVE  LockInv' /\ At' = At
<1> USE DEF LockInv
<1>1. /\ stdin # <<>> /\ stdin' = Tail(stdin) /\ child = "running"
      /\ UNCHANGED <<pc, result, mu, n, kind, rows, sentinel, seen, owed, buf, drain,
                     stdinClosed, stdoutClosed, closed, closer>>
  BY DEF Execute, query, sync, closing
<1> DEFINE q == Head(stdin).n
<1>2. stdin' \in Seq(Lines) /\ Head(stdin) \in Lines /\ q \in 0..MaxQueries
  <2>1. stdin' \in Seq(Lines) /\ Head(stdin) \in Lines
    BY <1>1, TakeFacts DEF TypeOK
  <2> QED BY <2>1 DEF Lines
<1>3. /\ Line(q, "row") \in Lines /\ Line(q, "error") \in Lines /\ Line(q, "long") \in Lines
      /\ Line(q, "marker") \in Lines /\ Line(q, "end") \in Lines /\ TrailerLines(q) \in Seq(Lines)
  BY <1>2, LineFacts, TrailerFacts, Assumption
<1>4. /\ child' \in {"running", "stuck", "gone"}
      /\ \/ UNCHANGED <<stdout, stderr>>
         \/ stdout' = Append(stdout, Line(q, "row")) /\ UNCHANGED stderr
         \/ stdout' = Append(stdout, Line(q, "end")) /\ UNCHANGED stderr
         \/ stderr' = Append(stderr, Line(q, "error")) /\ UNCHANGED stdout
         \/ stderr' = Append(stderr, Line(q, "long")) /\ UNCHANGED stdout
         \/ stderr' = Append(stderr, Line(q, "marker")) \o TrailerLines(q) /\ UNCHANGED stdout
  BY DEF Execute, outputs, TypeOK
<1>5. stdout' \in Seq(Lines) /\ stderr' \in Seq(Lines)
  <2>1. stdout \in Seq(Lines) /\ stderr \in Seq(Lines)
    BY DEF TypeOK
  <2>2. /\ Append(stdout, Line(q, "row")) \in Seq(Lines) /\ Append(stdout, Line(q, "end")) \in Seq(Lines)
        /\ Append(stderr, Line(q, "error")) \in Seq(Lines) /\ Append(stderr, Line(q, "long")) \in Seq(Lines)
        /\ Append(stderr, Line(q, "marker")) \in Seq(Lines)
    BY <1>3, <2>1, PutFacts
  <2>3. Append(stderr, Line(q, "marker")) \o TrailerLines(q) \in Seq(Lines)
    BY <1>3, <2>2, JoinFacts
  <2> QED BY <1>4, <2>1, <2>2, <2>3
<1>6. TypeOK'
  BY <1>1, <1>2, <1>4, <1>5 DEF TypeOK
<1>7. stdoutClosed' => child' = "gone"
  BY <1>1 DEF Locking
<1> QED BY <1>1, <1>6, <1>7, OthersLeaveLock

LEMMA CloseKeepsLock ==
  ASSUME LockInv, CloseExit \/ Closer
  PROVE  LockInv' /\ At' = At
<1> USE DEF LockInv
<1>1. UNCHANGED <<pc, result, mu, n, kind, rows, sentinel, seen, owed, buf, drain, stdout, stderr>>
  BY DEF CloseExit, Closer, CloseStdin, Kill, Reap, query, sync, outputs
<1>2. stdin' \in Seq(Lines)
  <2>1. Line(0, "exit") \in Lines
    BY Assumption, LineFacts DEF Assumption
  <2>2. Append(stdin, Line(0, "exit")) \in Seq(Lines) /\ stdin \in Seq(Lines)
    BY <2>1, PutFacts DEF TypeOK
  <2> QED BY <2>2 DEF CloseExit, Closer, CloseStdin, Kill, Reap
<1>3. /\ child' \in {"running", "stuck", "gone"} /\ (child = "gone" => child' = "gone")
      /\ stdinClosed' \in BOOLEAN /\ stdoutClosed' \in BOOLEAN /\ closed' \in BOOLEAN
      /\ closer' \in {"no", "exit", "waiting", "killed", "returned"}
      /\ stdoutClosed' => child' = "gone"
  <2>1. CASE CloseExit
    BY <2>1 DEF CloseExit, TypeOK, Locking
  <2>3. CASE CloseStdin
    BY <2>3 DEF CloseStdin, TypeOK, Locking
  <2>2. CASE Kill \/ Reap
    BY <2>2 DEF Kill, Reap, TypeOK, Locking
  <2> QED BY <2>1, <2>2, <2>3 DEF Closer
<1>4. TypeOK'
  BY <1>1, <1>2, <1>3 DEF TypeOK
<1> QED BY <1>1, <1>3, <1>4, OthersLeaveLock

LEMMA LockInvariant == Spec => []LockInv
<1>1. Init => LockInv
  <2> SUFFICES ASSUME Init PROVE LockInv
    OBVIOUS
  <2>1. Waiting = {} /\ Cardinality(Waiting) = 0
    BY FS_EmptySet DEF Init, Waiting
  <2>2. TypeOK
    <3>1. <<>> \in Seq(Lines) /\ 0 \in 0..MaxQueries /\ 0 \in 0..Trailer
      BY Assumption DEF Assumption
    <3>2. [n |-> 0, out |-> "none", rows |-> <<>>]
            \in [n: 0..MaxQueries, out: {"none", "ok", "duckdb", "broken"}, rows: Seq(Lines)]
      BY <3>1
    <3> QED BY <3>1, <3>2 DEF Init, TypeOK
  <2>3. Locking
    BY <2>1, Assumption DEF Init, Locking, Assumption
  <2> QED BY <2>2, <2>3 DEF LockInv
<1>2. LockInv /\ [Next]_vars => LockInv'
  <2>1. ASSUME LockInv, UNCHANGED vars PROVE LockInv'
    BY <2>1 DEF LockInv, TypeOK, Locking, Waiting, vars, query, sync, outputs, closing
  <2> QED BY <2>1, EnterKeepsLock, LockKeepsLock, RunKeepsLock, DrainKeepsLock, ExecuteKeepsLock, CloseKeepsLock
          DEF Next, Running
<1> QED BY <1>1, <1>2, PTL DEF Spec

\* Every state of the callers, the lock, the drain and the pipes is well typed; no more
\* queries are numbered than were let in (query(), drainStderr, close()).
THEOREM TypeCorrect == Spec => []TypeOK
<1>1. LockInv => TypeOK
  BY DEF LockInv
<1> QED BY <1>1, LockInvariant, PTL

-----------------------------------------------------------------------------
\* The pipes.

LEMMA LineFields == \A q, what : Line(q, what).n = q /\ Line(q, what).what = what
BY DEF Line

LEMMA ShortFacts ==
  ASSUME NEW a
  PROVE  Head(<<a>>) = a /\ Tail(<<a>>) = <<>> /\ <<a>> # <<>> /\ Append(<<>>, a) = <<a>>
OBVIOUS

LEMMA PairFacts ==
  ASSUME NEW a, NEW b
  PROVE  Head(<<a, b>>) = a /\ Tail(<<a, b>>) = <<b>> /\ Append(<<a>>, b) = <<a, b>>
<1>1. Head(<<a, b>>) = a /\ Tail(<<a, b>>) = <<b>>
  OBVIOUS
<1> DEFINE S == {a, b}
           s == Append(<<a>>, b)
           t == <<a, b>>
<1>2. <<a>> \in Seq(S) /\ t \in Seq(S) /\ b \in S
  OBVIOUS
<1>3. s \in Seq(S) /\ Len(s) = 2 /\ Len(t) = 2
  BY <1>2
<1>4. s[1] = a /\ s[2] = b /\ t[1] = a /\ t[2] = b
  BY <1>2
<1>5. \A i \in 1..Len(s) : s[i] = t[i]
  BY <1>3, <1>4
<1> HIDE DEF S, s, t
<1>6. s = t
  BY <1>2, <1>3, <1>5, SeqEqual
<1> QED BY <1>1, <1>6 DEF s, t

LEMMA PipeTypes ==
  ASSUME LockInv
  PROVE  /\ stdin \in Seq(Lines) /\ stdout \in Seq(Lines) /\ stderr \in Seq(Lines) /\ buf \in Seq(Lines)
         /\ rows \in Seq(Lines) /\ n \in 0..MaxQueries /\ n \in Nat /\ owed \in 0..Trailer /\ owed \in Nat
         /\ Trailer \in Nat
         /\ DOMAIN stdin = 1..Len(stdin) /\ DOMAIN stderr = 1..Len(stderr) /\ DOMAIN buf = 1..Len(buf)
         /\ Len(stdin) \in Nat /\ Len(stdout) \in Nat /\ Len(stderr) \in Nat /\ Len(buf) \in Nat
<1>1. /\ stdin \in Seq(Lines) /\ stdout \in Seq(Lines) /\ stderr \in Seq(Lines) /\ buf \in Seq(Lines)
      /\ rows \in Seq(Lines) /\ n \in 0..MaxQueries /\ owed \in 0..Trailer
  BY DEF LockInv, TypeOK
<1>2. Trailer \in Nat /\ MaxQueries \in Nat
  BY Assumption DEF Assumption
<1> QED BY <1>1, <1>2

\* What moves no pipe keeps what is said of them; the child may end.
LEMMA QuietKeepsPipes ==
  ASSUME PipeInv, At' = At, child' \in {child, "gone"},
         UNCHANGED <<n, kind, rows, sentinel, seen, owed, buf, drain, stdin, stdout, stderr>>
  PROVE  PipeInv'
<1> USE DEF PipeInv
<1>1. Live' => Live
  BY DEF Live
<1>2. \A w : Has(w)' <=> Has(w)
  BY DEF Has
<1>3. Inputs'
  BY <1>1, <1>2 DEF Inputs
<1>4. Outputs'
  BY <1>1, <1>2 DEF Outputs, Printed, RowLine, EndLine
<1>5. Complaints'
  BY DEF Complaints
<1>6. Errors'
  BY <1>1, <1>2 DEF Errors, Complaint, MarkedAt
<1>7. Sentinels'
  BY <1>1, <1>2 DEF Sentinels, DrainLost
<1>8. Heard'
  BY <1>2 DEF Heard, DrainLost
<1> QED BY <1>3, <1>4, <1>5, <1>6, <1>7, <1>8

\* .exit comes after what is in stdin.
LEMMA ExitKeepsPipes ==
  ASSUME LockInv, PipeInv, CloseExit
  PROVE  PipeInv'
<1> USE DEF PipeInv
<1>1. /\ At' = At /\ child' = child
      /\ UNCHANGED <<n, kind, rows, sentinel, seen, owed, buf, drain, stdout, stderr>>
      /\ stdin' = stdin \/ stdin' = Append(stdin, Line(0, "exit"))
  BY DEF CloseExit, At, query, sync, outputs
<1>2. CASE stdin' = stdin
  BY <1>1, <1>2, QuietKeepsPipes
<1>3. CASE stdin' = Append(stdin, Line(0, "exit"))
  <2>1. /\ DOMAIN stdin = 1..Len(stdin) /\ DOMAIN stdin' = 1..(Len(stdin) + 1) /\ Len(stdin) \in Nat
        /\ stdin'[Len(stdin) + 1].what = "exit"
        /\ \A i \in 1..Len(stdin) : stdin'[i] = stdin[i]
    <3>1. Line(0, "exit") \in Lines
      BY LineFacts, Assumption DEF Assumption
    <3>2. stdin' \in Seq(Lines)
      BY <1>3, <3>1, PutFacts, PipeTypes
    <3> QED BY <1>3, <3>1, <3>2, PutFacts, PipeTypes, LineFields
  <2>2. Live' <=> Live
    BY <1>1 DEF Live
  <2>3. \A w : w # "exit" => (Has(w)' <=> Has(w))
    BY <2>1 DEF Has
  <2>4. Inputs'
    <3> SUFFICES ASSUME Live' PROVE Inputs'
      BY DEF Inputs
    <3>1. ASSUME NEW i \in DOMAIN stdin'
          PROVE  \/ i \in DOMAIN stdin /\ stdin'[i] = stdin[i]
                 \/ i = Len(stdin) + 1 /\ stdin'[i].what = "exit"
      BY <2>1
    <3>2. \A i \in DOMAIN stdin' :
            /\ stdin'[i].what \in {"user", "marker", "end", "exit"}
            /\ stdin'[i].what # "exit" => stdin'[i].n = n' /\ At' = "reading"
      BY <1>1, <2>2, <3>1 DEF Inputs
    <3>3. ASSUME NEW i \in DOMAIN stdin', NEW j \in DOMAIN stdin', i < j
          PROVE  /\ stdin'[j].what = "user" => stdin'[i].what = "exit"
                 /\ stdin'[j].what = "marker" => stdin'[i].what \in {"user", "exit"}
                 /\ stdin'[j].what = "end" => stdin'[i].what # "end"
      <4>1. CASE stdin'[j].what = "exit"
        BY <4>1
      <4>2. CASE stdin'[j].what # "exit"
        <5>1. j \in DOMAIN stdin /\ i \in DOMAIN stdin /\ stdin'[i] = stdin[i] /\ stdin'[j] = stdin[j]
          BY <2>1, <3>1, <3>3, <4>2
        <5> QED BY <2>2, <3>3, <5>1 DEF Inputs
      <4> QED BY <4>1, <4>2
    <3> QED BY <2>2, <2>3, <3>2, <3>3 DEF Inputs
  <2>5. Outputs'
    BY <1>1, <2>2, <2>3 DEF Outputs, Printed, RowLine, EndLine
  <2>6. Complaints' /\ Errors' /\ Sentinels' /\ Heard'
    BY <1>1, <2>2, <2>3 DEF Complaints, Errors, Complaint, MarkedAt, Sentinels, Heard, DrainLost
  <2> QED BY <2>4, <2>5, <2>6
<1> QED BY <1>1, <1>2, <1>3

-----------------------------------------------------------------------------
\* query().

\* With the lock free nothing of a query is left in stdin and stdout, and nothing but a
\* trailer in stderr; so it stays until the new query has written.
LEMMA LockKeepsPipes ==
  ASSUME LockInv, PipeInv, NEW c \in Callers, Lock(c)
  PROVE  PipeInv'
<1> USE DEF PipeInv
<1>1. /\ At = "none" /\ At' = "armed" /\ n' = n + 1 /\ n \in Nat
      /\ rows' = <<>> /\ buf' = <<>> /\ sentinel' = n + 1 /\ seen' = FALSE
      /\ UNCHANGED <<owed, drain, child, stdin, stdout, stderr>>
  BY LockKeepsLock DEF Lock, outputs
<1>2. \A q \in 1..n : kind'[q] = kind[q] /\ q \in 1..n'
  <2>1. PICK k \in Kinds : kind' = [kind EXCEPT ![n + 1] = k]
    BY DEF Lock
  <2>2. n' \in 0..MaxQueries
    BY LockKeepsLock DEF LockInv, TypeOK
  <2> QED BY <1>1, <2>1, <2>2 DEF LockInv, TypeOK
<1>3. (Live' <=> Live) /\ \A w : Has(w)' <=> Has(w)
  BY <1>1 DEF Live, Has
<1>4. Live => \A i \in DOMAIN stdin : stdin[i].what = "exit"
  BY <1>1 DEF Inputs
<1>5. Live => ~Has("user") /\ ~Has("marker") /\ ~Has("end")
  BY <1>4 DEF Has
<1>6. Inputs'
  BY <1>1, <1>3, <1>4, <1>5 DEF Inputs
<1>7. Outputs'
  BY <1>1, <1>3 DEF Outputs
<1>8. Complaints'
  <2>1. DOMAIN buf' = {}
    BY <1>1
  <2> QED BY <1>1, <1>2, <2>1 DEF Complaints
<1>9. Errors'
  BY <1>1, <1>3 DEF Errors, Sentinels
<1>10. Sentinels'
  <2>1. DOMAIN buf' = {}
    BY <1>1
  <2>2. ASSUME DrainLost(n) PROVE DrainLost(n)'
    <3>1. PICK p \in 1..n : kind[p] = "long"
      BY <2>2 DEF DrainLost
    <3>2. p \in 1..n' /\ kind'[p] = "long"
      BY <1>2, <3>1
    <3> QED BY <3>2 DEF DrainLost
  <2> QED BY <1>1, <2>1, <2>2 DEF Sentinels
<1>11. Heard'
  BY <1>1 DEF Heard
<1> QED BY <1>6, <1>7, <1>8, <1>9, <1>10, <1>11

\* A query that returns leaves its pipes empty, or the child is gone.
LEMMA ReturnKeepsPipes ==
  ASSUME LockInv, PipeInv, NEW c \in Callers, pc[c] \in {"armed", "reading", "syncing"},
         NEW out \in {"ok", "duckdb", "broken"}, ReturnWith(c, out), UNCHANGED <<stdin, stdout, stderr>>,
         \/ child = "gone"
         \/ At = "armed"
         \/ At = "syncing" /\ (seen \/ drain = "stopped")
  PROVE  PipeInv'
<1> USE DEF PipeInv
<1>1. /\ At \in {"armed", "reading", "syncing"} /\ At' = "none" /\ sentinel' = 0 /\ seen' = FALSE /\ n # 0
      /\ UNCHANGED <<n, kind, rows, owed, buf, drain, child>>
  BY ReturnFacts
<1>2. Live' => Live /\ (\/ At = "armed"
                        \/ At = "syncing" /\ (seen \/ drain = "stopped"))
  BY <1>1 DEF Live
<1>3. \A w : Has(w)' <=> Has(w)
  BY DEF Has
<1>4. Inputs'
  <2>1. Live' => \A i \in DOMAIN stdin : stdin[i].what = "exit"
    BY <1>2 DEF Inputs
  <2>2. Live' => ~Has("user") /\ ~Has("marker") /\ ~Has("end")
    BY <2>1 DEF Has
  <2> QED BY <1>1, <1>3, <2>1, <2>2 DEF Inputs
<1>5. Outputs'
  BY <1>1, <1>2 DEF Outputs
<1>6. Complaints' /\ Heard'
  BY <1>1 DEF Complaints, Heard
<1>7. Errors'
  <2>1. Live' /\ drain' = "reading" => Len(stderr) = owed
    BY <1>1, <1>2 DEF Errors, Sentinels
  <2> QED BY <1>1, <1>2, <2>1, PipeTypes DEF Errors
<1>8. Sentinels'
  BY <1>1, <1>2 DEF Sentinels, DrainLost
<1> QED BY <1>4, <1>5, <1>6, <1>7, <1>8

LEMMA WriteKeepsPipes ==
  ASSUME LockInv, PipeInv, NEW c \in Callers, WriteStdin(c)
  PROVE  PipeInv'
<1> USE DEF PipeInv
<1>1. pc[c] = "armed" /\ At = "armed" /\ n # 0
  BY Assumption DEF WriteStdin, LockInv, Locking, At, Assumption
<1>2. CASE stdinClosed \/ child = "gone"
  BY <1>1, <1>2, ReturnKeepsPipes DEF WriteStdin, outputs
<1>3. CASE ~(stdinClosed \/ child = "gone")
  <2>1. /\ stdin' = stdin \o Payload(n) /\ pc' = [pc EXCEPT ![c] = "reading"] /\ child # "gone"
        /\ UNCHANGED <<result, mu, n, kind, rows, sentinel, seen, owed, buf, drain, child, stdout, stderr, stdoutClosed>>
    BY <1>3 DEF WriteStdin, sync, outputs, closing
  <2>2. At' = "reading" /\ Live /\ Live' /\ n' = n
    BY <1>1, <2>1, MoveFacts DEF Live
  <2> DEFINE L == Len(stdin)
  <2>3. /\ L \in Nat /\ DOMAIN stdin = 1..L /\ DOMAIN stdin' = 1..(L + 3)
        /\ \A i \in 1..L : stdin'[i] = stdin[i] /\ stdin[i].what = "exit"
        /\ stdin'[L + 1] = Line(n, "user") /\ stdin'[L + 2] = Line(n, "marker") /\ stdin'[L + 3] = Line(n, "end")
    <3>1. Payload(n) \in Seq(Lines) /\ Len(Payload(n)) = 3 /\ stdin \in Seq(Lines) /\ n \in 0..MaxQueries
      BY PayloadFacts, PipeTypes
    <3> DEFINE P == Payload(n)
    <3> HIDE DEF P
    <3>p. P \in Seq(Lines) /\ Len(P) = 3 /\ stdin' = stdin \o P
      BY <2>1, <3>1 DEF P
    <3>s. stdin \in Seq(Lines) /\ P \in Seq(Lines)
      BY <3>1, <3>p
    <3>j. /\ stdin \o P \in Seq(Lines) /\ Len(stdin) \in Nat /\ Len(stdin \o P) = Len(stdin) + Len(P)
          /\ \A i \in 1..Len(stdin) : (stdin \o P)[i] = stdin[i]
          /\ \A i \in 1..Len(P) : (stdin \o P)[Len(stdin) + i] = P[i]
      BY ONLY <3>s, JoinFacts
    <3>2. stdin' \in Seq(Lines) /\ Len(stdin') = L + 3 /\ L \in Nat
      BY <3>p, <3>j
    <3>3. \A i \in 1..3 : stdin'[L + i] = Payload(n)[i]
      <4>1. \A i \in 1..3 : stdin'[L + i] = P[i]
        BY <3>p, <3>j
      <4> QED BY <4>1 DEF P
    <3>4. stdin'[L + 1] = Line(n, "user") /\ stdin'[L + 2] = Line(n, "marker") /\ stdin'[L + 3] = Line(n, "end")
      BY <3>1, <3>3, PayloadFacts
    <3>5. \A i \in 1..L : stdin'[i] = stdin[i]
      BY <3>p, <3>j
    <3>6. \A i \in 1..L : stdin[i].what = "exit"
      BY <1>1, <2>2, PipeTypes DEF Inputs
    <3> QED BY <3>2, <3>4, <3>5, <3>6, PipeTypes
  <2>4. \A i \in 1..(L + 3) : \/ i <= L /\ stdin'[i].what = "exit"
                              \/ i = L + 1 /\ stdin'[i].n = n /\ stdin'[i].what = "user"
                              \/ i = L + 2 /\ stdin'[i].n = n /\ stdin'[i].what = "marker"
                              \/ i = L + 3 /\ stdin'[i].n = n /\ stdin'[i].what = "end"
    BY <2>3, LineFields
  <2>5. Has("user")' /\ Has("marker")' /\ Has("end")'
    BY <2>3, LineFields DEF Has
  <2>6. Inputs'
    <3>1. \A i \in DOMAIN stdin' : /\ stdin'[i].what \in {"user", "marker", "end", "exit"}
                                   /\ stdin'[i].what # "exit" => stdin'[i].n = n' /\ At' = "reading"
      BY <2>2, <2>3, <2>4
    <3>2. ASSUME NEW i \in DOMAIN stdin', NEW j \in DOMAIN stdin', i < j
          PROVE  /\ stdin'[j].what = "user" => stdin'[i].what = "exit"
                 /\ stdin'[j].what = "marker" => stdin'[i].what \in {"user", "exit"}
                 /\ stdin'[j].what = "end" => stdin'[i].what # "end"
      BY <2>3, <2>4, <3>2
    <3> QED BY <2>5, <3>1, <3>2 DEF Inputs
  <2>7. ~seen /\ stdout = <<>> /\ drain' = drain
    BY <1>1, <2>1, <2>2 DEF Sentinels, Outputs
  <2>8. rows = <<>>
    BY <1>1, <2>2 DEF Outputs
  <2>9. Outputs'
    BY <2>1, <2>2, <2>5, <2>7, <2>8 DEF Outputs
  <2>10. Complaints' /\ Heard'
    BY <2>1, <2>5 DEF Complaints, Heard
  <2>11. Errors'
    BY <1>1, <2>1, <2>2, <2>5 DEF Errors, Sentinels
  <2>12. Sentinels'
    BY <1>1, <2>1, <2>2, <2>7 DEF Sentinels, DrainLost
  <2> QED BY <2>6, <2>9, <2>10, <2>11, <2>12
<1> QED BY <1>2, <1>3

\* A line read is the statement's row or the end of its output.
LEMMA ReadKeepsPipes ==
  ASSUME LockInv, PipeInv, NEW c \in Callers, ReadLine(c)
  PROVE  PipeInv'
<1> USE DEF PipeInv
<1>1. /\ pc[c] = "reading" /\ stdout # <<>> /\ stdout' = Tail(stdout)
      /\ UNCHANGED <<result, mu, n, kind, sentinel, seen, owed, buf, drain, child, stdin, stderr, stdoutClosed>>
      /\ IF Head(stdout) = EndLine
         THEN pc' = [pc EXCEPT ![c] = "syncing"] /\ UNCHANGED rows
         ELSE rows' = Append(rows, Head(stdout)) /\ UNCHANGED pc
  BY DEF ReadLine, sync, closing, EndLine
<1>2. At = "reading" /\ Live
  BY <1>1, Assumption DEF LockInv, Locking, At, Live, Assumption
<1>3. \A w : Has(w)' <=> Has(w)
  BY <1>1 DEF Has
<1>4. ~Has("user") /\ EndLine # RowLine
  BY <1>1, <1>2, LineFields DEF Outputs, EndLine, RowLine
<1>5. CASE Head(stdout) = EndLine
  <2>1. At' = "syncing" /\ Live'
    BY <1>1, <1>5, MoveFacts DEF Live
  <2>2. ~Has("end")
    <3>1. ASSUME Has("end") PROVE FALSE
      <4>1. Printed(<<RowLine>>, <<>>)
        BY <1>2, <1>4, <3>1 DEF Outputs
      <4>2. stdout = <<RowLine>>
        BY <1>1, <4>1 DEF Printed
      <4>3. Head(stdout) = RowLine
        BY <4>2, ShortFacts
      <4> QED BY <1>4, <1>5, <4>3
    <3> QED BY <3>1
  <2>3. Printed(<<RowLine, EndLine>>, <<EndLine>>)
    BY <1>2, <2>2 DEF Outputs
  <2>4. stdout = <<EndLine>> /\ rows = IF kind[n] = "ok" THEN <<RowLine>> ELSE <<>>
    <3>1. Head(<<RowLine, EndLine>>) = RowLine
      BY PairFacts
    <3>2. stdout # <<RowLine, EndLine>>
      BY <1>4, <1>5, <3>1
    <3> QED BY <2>3, <3>2 DEF Printed
  <2>5. stdout' = <<>>
    BY <1>1, <2>4, ShortFacts
  <2>6. \A i \in DOMAIN stdin : stdin[i].what = "exit"
    <3>1. ~Has("marker")
      BY <1>2, <2>2 DEF Inputs
    <3> QED BY <1>2, <1>4, <2>2, <3>1 DEF Inputs, Has
  <2>7. Inputs'
    BY <1>1, <1>3, <1>4, <2>2, <2>1, <2>6 DEF Inputs, Has
  <2>8. kind[n] # "hang"
    BY <1>2, <1>4, <2>2 DEF Outputs, Inputs
  <2>9. Outputs'
    BY <1>1, <1>5, <2>1, <2>4, <2>5, <2>8 DEF Outputs, RowLine
  <2>10. Complaints' /\ Errors' /\ Sentinels' /\ Heard'
    BY <1>1, <1>2, <1>3, <2>1 DEF Complaints, Errors, Complaint, MarkedAt, Sentinels, Heard, DrainLost
  <2> QED BY <2>7, <2>9, <2>10
<1>6. CASE Head(stdout) # EndLine
  <2>1. At' = "reading" /\ Live' /\ rows' = Append(rows, Head(stdout))
    BY <1>1, <1>2, <1>6 DEF At, Live
  <2>2. Inputs'
    BY <1>1, <1>2, <1>3, <2>1 DEF Inputs
  <2>3. ASSUME NEW all, NEW tail, Printed(all, tail), Head(all) = RowLine, Tail(all) = tail,
               tail = <<>> \/ Head(tail) = EndLine
        PROVE  kind[n] = "ok" /\ rows' = <<RowLine>> /\ stdout' = tail
    <3>1. stdout # tail
      BY <1>1, <1>6, <2>3
    <3>2. rows = <<>> /\ stdout = all /\ kind[n] = "ok"
      BY <2>3, <3>1 DEF Printed
    <3> QED BY <1>1, <2>1, <2>3, <3>2, ShortFacts
  <2>4. Outputs'
    <3>1. ~Has("user")' /\ RowLine' = RowLine /\ EndLine' = EndLine
      BY <1>1, <1>3, <1>4 DEF RowLine, EndLine
    <3>2. Has("end") => kind[n] = "ok" /\ rows' = <<RowLine>> /\ stdout' = <<>>
      <4>1. Has("end") => Printed(<<RowLine>>, <<>>)
        BY <1>2, <1>4 DEF Outputs
      <4> QED BY <2>3, <4>1, ShortFacts
    <3>3. ~Has("end") => kind[n] = "ok" /\ rows' = <<RowLine>> /\ stdout' = <<EndLine>>
      <4>1. ~Has("end") => Printed(<<RowLine, EndLine>>, <<EndLine>>)
        BY <1>2 DEF Outputs
      <4>2. /\ Head(<<RowLine, EndLine>>) = RowLine /\ Tail(<<RowLine, EndLine>>) = <<EndLine>>
            /\ Head(<<EndLine>>) = EndLine
        BY PairFacts, ShortFacts
      <4> QED BY <2>3, <4>1, <4>2
    <3> QED BY <1>1, <1>3, <2>1, <3>1, <3>2, <3>3 DEF Outputs, Printed
  <2>5. Complaints' /\ Errors' /\ Sentinels' /\ Heard'
    BY <1>1, <1>2, <1>3, <2>1 DEF Complaints, Errors, Complaint, MarkedAt, Sentinels, Heard, DrainLost
  <2> QED BY <2>2, <2>4, <2>5
<1> QED BY <1>5, <1>6

LEMMA RunKeepsPipes ==
  ASSUME Prompt, LockInv, PipeInv, NEW c \in Callers, Running(c)
  PROVE  PipeInv'
<1>1. CASE ReadFails(c)
  <2>1. child = "gone"
    BY <1>1 DEF ReadFails, LockInv, Locking
  <2> QED BY <1>1, <2>1, ReturnKeepsPipes DEF ReadFails, outputs
<1>2. CASE Sample(c)
  <2>1. pc[c] = "syncing" /\ (seen \/ drain = "stopped") /\ UNCHANGED <<stdin, stdout, stderr>>
    BY <1>2 DEF Sample, Prompt, outputs
  <2>2. PICK out \in {"ok", "duckdb"} : ReturnWith(c, out)
    BY <1>2 DEF Sample
  <2>3. At = "syncing"
    BY <2>1, <2>2, ReturnFacts
  <2> QED BY <2>1, <2>2, <2>3, ReturnKeepsPipes
<1> QED BY <1>1, <1>2, LockKeepsPipes, WriteKeepsPipes, ReadKeepsPipes DEF Running

-----------------------------------------------------------------------------
\* The child.

\* The next line of stdin, taken: what it was and what is left.
LEMMA TakeInput ==
  ASSUME LockInv, PipeInv, Execute
  PROVE  LET h == Head(stdin) IN
         /\ Live /\ child = "running" /\ h.what \in {"user", "marker", "end", "exit"}
         /\ h.what # "exit" => h.n = n /\ At = "reading" /\ n \in 1..n /\ Has(h.what)
         /\ \A w \in {"user", "marker", "end"} : Has(w)' <=> Has(w) /\ w # h.what
         /\ h.what \in {"marker", "end"} => ~Has("user")
         /\ h.what = "end" => ~Has("marker")
         /\ Inputs'
<1> USE DEF PipeInv
<1> DEFINE h == Head(stdin)
           L == Len(stdin)
<1>1. /\ stdin # <<>> /\ stdin' = Tail(stdin) /\ child = "running" /\ Live /\ n' = n /\ At' = At
  BY DEF Execute, Live, query, At
<1>2. /\ h = stdin[1] /\ L \in Nat \ {0} /\ DOMAIN stdin = 1..L /\ DOMAIN stdin' = 1..(L - 1)
      /\ \A i \in 1..(L - 1) : stdin'[i] = stdin[i + 1]
  <2>1. stdin \in Seq(Lines) /\ Tail(stdin) \in Seq(Lines)
    BY <1>1, PipeTypes, TakeFacts
  <2>2. /\ h = stdin[1] /\ L \in Nat \ {0} /\ Len(Tail(stdin)) = L - 1
        /\ \A i \in 1..(L - 1) : Tail(stdin)[i] = stdin[i + 1]
    BY <1>1, <2>1, TakeFacts
  <2> QED BY <1>1, <2>1, <2>2
<1>3. 1 \in DOMAIN stdin /\ \A i \in 1..(L - 1) : i + 1 \in DOMAIN stdin /\ 1 < i + 1
  BY <1>2
<1>4. h.what \in {"user", "marker", "end", "exit"} /\ (h.what # "exit" => h.n = n /\ At = "reading")
  BY <1>1, <1>2, <1>3 DEF Inputs
<1>5. h.what # "exit" => Has(h.what) /\ n \in 1..n
  <2>1. At = "reading" => n \in 1..n
    BY PipeTypes DEF At, LockInv, Locking
  <2> QED BY <1>2, <1>3, <1>4, <2>1 DEF Has
<1>6. \A w \in {"user", "marker", "end"} : w # h.what => (Has(w)' <=> Has(w))
  <2>1. ASSUME NEW w, w # h.what, Has(w) PROVE Has(w)'
    <3>1. PICK i \in DOMAIN stdin : stdin[i].what = w
      BY <2>1 DEF Has
    <3>2. i - 1 \in 1..(L - 1) /\ stdin'[i - 1] = stdin[i]
      BY <1>2, <2>1, <3>1
    <3> QED BY <1>2, <3>1, <3>2 DEF Has
  <2>2. ASSUME NEW w, Has(w)' PROVE Has(w)
    <3>1. PICK i \in 1..(L - 1) : stdin'[i].what = w
      BY <1>2, <2>2 DEF Has
    <3> QED BY <1>2, <1>3, <3>1 DEF Has
  <2> QED BY <2>1, <2>2
<1>7. \A i \in 1..(L - 1) :
        /\ stdin[i + 1].what = "user" => h.what = "exit"
        /\ stdin[i + 1].what = "marker" => h.what \in {"user", "exit"}
        /\ stdin[i + 1].what = "end" => h.what # "end"
  BY <1>1, <1>2, <1>3 DEF Inputs
<1>8. ASSUME NEW w \in {"user", "marker", "end"}, w = h.what PROVE ~Has(w)'
  BY <1>2, <1>7, <1>8 DEF Has
<1>9. h.what \in {"marker", "end"} => ~Has("user")'
  BY <1>2, <1>7 DEF Has
<1>10. h.what = "end" => ~Has("marker")'
  BY <1>2, <1>7 DEF Has
<1>11. /\ h.what \in {"marker", "end"} => ~Has("user")
       /\ h.what = "end" => ~Has("marker")
  BY <1>6, <1>9, <1>10
<1>12. Inputs'
  <2>1. \A i \in DOMAIN stdin' : /\ stdin'[i].what \in {"user", "marker", "end", "exit"}
                                 /\ stdin'[i].what # "exit" => stdin'[i].n = n' /\ At' = "reading"
    BY <1>1, <1>2, <1>3 DEF Inputs
  <2>2. ASSUME NEW i \in DOMAIN stdin', NEW j \in DOMAIN stdin', i < j
        PROVE  /\ stdin'[j].what = "user" => stdin'[i].what = "exit"
               /\ stdin'[j].what = "marker" => stdin'[i].what \in {"user", "exit"}
               /\ stdin'[j].what = "end" => stdin'[i].what # "end"
    <3>1. i + 1 \in DOMAIN stdin /\ j + 1 \in DOMAIN stdin /\ i + 1 < j + 1
      BY <1>2, <2>2
    <3>2. stdin'[i] = stdin[i + 1] /\ stdin'[j] = stdin[j + 1]
      BY <1>2
    <3> QED BY <1>1, <3>1, <3>2 DEF Inputs
  <2>3. (Has("user")' => Has("marker")') /\ (Has("marker")' => Has("end")')
    <3>1. (Has("user") => Has("marker")) /\ (Has("marker") => Has("end"))
      BY <1>1 DEF Inputs
    <3> QED BY <1>4, <1>5, <1>6, <1>8, <1>9, <1>10, <3>1
  <2> QED BY <2>1, <2>2, <2>3 DEF Inputs
<1>13. \A w \in {"user", "marker", "end"} : Has(w)' <=> Has(w) /\ w # h.what
  BY <1>6, <1>8
<1> QED BY <1>1, <1>4, <1>5, <1>11, <1>12, <1>13

\* What a statement of the running query puts into the two outputs.
LEMMA ExecuteFacts ==
  ASSUME LockInv, PipeInv, Execute
  PROVE  LET what == Head(stdin).what IN
         /\ what = "user" =>
              \/ kind[n] = "ok" /\ stdout' = Append(stdout, RowLine) /\ UNCHANGED <<stderr, child>>
              \/ kind[n] = "fail" /\ stderr' = Append(stderr, Line(n, "error")) /\ UNCHANGED <<stdout, child>>
              \/ kind[n] = "long" /\ stderr' = Append(stderr, Line(n, "long")) /\ UNCHANGED stdout
                                  /\ child' \in {"running", "stuck"}
              \/ kind[n] = "hang" /\ child' = "stuck" /\ UNCHANGED <<stdout, stderr>>
         /\ what = "marker" => /\ stderr' = Append(stderr, Line(n, "marker")) \o TrailerLines(n)
                               /\ UNCHANGED <<stdout, child>>
         /\ what = "end" => stdout' = Append(stdout, EndLine) /\ UNCHANGED <<stderr, child>>
         /\ what = "exit" => child' = "gone" /\ UNCHANGED <<stdout, stderr>>
<1> DEFINE q == Head(stdin).n
           what == Head(stdin).what
           stmt == IF what = "user" THEN kind[q] ELSE what
<1>1. \/ /\ stmt = "ok" /\ stdout' = Append(stdout, Line(q, "row")) /\ UNCHANGED <<stderr, child>>
      \/ /\ stmt = "fail" /\ stderr' = Append(stderr, Line(q, "error")) /\ UNCHANGED <<stdout, child>>
      \/ /\ stmt = "long" /\ stderr' = Append(stderr, Line(q, "long")) /\ UNCHANGED stdout
         /\ child' \in {"running", "stuck"}
      \/ /\ stmt = "hang" /\ child' = "stuck" /\ UNCHANGED <<stdout, stderr>>
      \/ /\ stmt = "marker" /\ stderr' = Append(stderr, Line(q, "marker")) \o TrailerLines(q)
         /\ UNCHANGED <<stdout, child>>
      \/ /\ stmt = "end" /\ stdout' = Append(stdout, Line(q, "end")) /\ UNCHANGED <<stderr, child>>
      \/ /\ stmt = "exit" /\ child' = "gone" /\ UNCHANGED <<stdout, stderr>>
  BY DEF Execute, outputs
<1>2. what \in {"user", "marker", "end", "exit"} /\ (what # "exit" => q = n /\ n \in 1..n)
  BY TakeInput
<1>3. what = "user" => kind[n] \in {"ok", "fail", "long", "hang"}
  <2>1. what = "user" => n \in 1..MaxQueries
    BY <1>2, PipeTypes
  <2> QED BY <2>1, Assumption DEF LockInv, TypeOK, Assumption
<1>4. CASE what = "user"
  BY <1>1, <1>2, <1>3, <1>4 DEF RowLine
<1>5. CASE what = "marker"
  BY <1>1, <1>2, <1>5
<1>6. CASE what = "end"
  BY <1>1, <1>2, <1>6 DEF EndLine
<1>7. CASE what = "exit"
  BY <1>1, <1>7
<1> QED BY <1>2, <1>4, <1>5, <1>6, <1>7

LEMMA ExecuteKeepsPipes ==
  ASSUME LockInv, PipeInv, Execute
  PROVE  PipeInv'
<1> USE DEF PipeInv
<1>0. PICK what : what = Head(stdin).what
  OBVIOUS
<1>1. /\ Live /\ child = "running" /\ what \in {"user", "marker", "end", "exit"}
      /\ what # "exit" => At = "reading" /\ n \in 1..n /\ Has(what)
      /\ \A w \in {"user", "marker", "end"} : Has(w)' <=> Has(w) /\ w # what
      /\ what \in {"marker", "end"} => ~Has("user")
      /\ what = "end" => ~Has("marker")
      /\ Inputs'
  BY <1>0, TakeInput
<1>2. At' = At /\ UNCHANGED <<n, kind, rows, sentinel, seen, owed, buf, drain>>
  BY ExecuteKeepsLock DEF Execute, query, sync
<1>3. (Has("user") => Has("marker")) /\ (Has("marker") => Has("end"))
  BY <1>1 DEF Inputs
<1>4. what # "exit" => At' = "reading" /\ Live'
  BY <1>1, <1>2 DEF Live
<1>5. what # "exit" /\ what # "end" => ~seen /\ sentinel = n /\ n # 0
  BY <1>1 DEF Sentinels
<1>6. drain = "stopped" => DrainLost(n)
  BY <1>1 DEF Sentinels
<1>7. drain = "reading" => owed <= Len(stderr) /\ \A i \in 1..owed : stderr[i].what = "trailer"
  BY <1>1 DEF Errors
<1>8. DrainLost(n)' = DrainLost(n) /\ RowLine' = RowLine /\ EndLine' = EndLine
  BY <1>2 DEF DrainLost, RowLine, EndLine
<1>9. Len(stderr) \in Nat /\ DOMAIN stderr = 1..Len(stderr) /\ owed \in Nat /\ Trailer \in Nat /\ n \in Nat
      /\ stderr \in Seq(Lines) /\ drain \in {"reading", "stopped"}
  BY PipeTypes DEF LockInv, TypeOK
\* What is left of Sentinels, once the child lives on or is told to leave.
<1>10. (what = "exit" => child' = "gone") => Sentinels'
  BY <1>1, <1>2, <1>4, <1>6, <1>8 DEF Sentinels, Live
<1>11. CASE what = "exit"
  <2>1. child' = "gone" /\ UNCHANGED <<stdout, stderr>>
    BY <1>0, <1>11, ExecuteFacts
  <2>2. \A w \in {"user", "marker", "end"} : Has(w)' <=> Has(w)
    BY <1>1, <1>11
  <2>3. Outputs'
    BY <1>1, <1>2, <1>8, <2>1, <2>2 DEF Outputs, Printed
  <2>4. Complaints' /\ Heard'
    BY <1>2, <1>8, <2>1, <2>2 DEF Complaints, Heard
  <2>5. Errors'
    BY <1>1, <1>2, <2>1, <2>2 DEF Errors, Complaint, MarkedAt
  <2> QED BY <1>1, <1>10, <2>1, <2>3, <2>4, <2>5
<1>12. CASE what = "user"
  <2>1. /\ ~Has("user")' /\ Has("marker")' /\ Has("end")'
        /\ rows = <<>> /\ stdout = <<>>
        /\ drain = "reading" => Len(stderr) = owed
    BY <1>1, <1>3, <1>5, <1>12 DEF Outputs, Errors
  <2>2. \/ kind[n] = "ok" /\ stdout' = Append(stdout, RowLine) /\ UNCHANGED <<stderr, child>>
        \/ kind[n] = "fail" /\ stderr' = Append(stderr, Line(n, "error")) /\ UNCHANGED <<stdout, child>>
        \/ kind[n] = "long" /\ stderr' = Append(stderr, Line(n, "long")) /\ UNCHANGED stdout
                            /\ child' \in {"running", "stuck"}
        \/ kind[n] = "hang" /\ child' = "stuck" /\ UNCHANGED <<stdout, stderr>>
    BY <1>0, <1>12, ExecuteFacts
  <2>3. Outputs'
    <3>1. Printed(<<RowLine>>, <<>>)'
      BY <1>2, <1>8, <2>1, <2>2, ShortFacts DEF Printed
    <3>2. kind[n] = "hang" => child' # "running"
      BY <2>2
    <3> QED BY <1>2, <1>4, <1>12, <2>1, <3>1, <3>2 DEF Outputs
  <2>4. \/ stderr' = stderr /\ kind[n] # "fail"
        \/ /\ stderr' \in Seq(Lines) /\ DOMAIN stderr' = 1..(Len(stderr) + 1) /\ Len(stderr') = Len(stderr) + 1
           /\ \A i \in 1..Len(stderr) : stderr'[i] = stderr[i]
           /\ \/ stderr'[Len(stderr) + 1] = Line(n, "error") /\ kind[n] = "fail"
              \/ stderr'[Len(stderr) + 1] = Line(n, "long") /\ kind[n] = "long"
    <3>1. n \in 0..MaxQueries
      BY PipeTypes
    <3>2. Line(n, "error") \in Lines /\ Line(n, "long") \in Lines
      BY <3>1, LineFacts
    <3>3. ASSUME NEW x \in Lines, stderr' = Append(stderr, x)
          PROVE  /\ stderr' \in Seq(Lines) /\ DOMAIN stderr' = 1..(Len(stderr) + 1)
                 /\ Len(stderr') = Len(stderr) + 1 /\ stderr'[Len(stderr) + 1] = x
                 /\ \A i \in 1..Len(stderr) : stderr'[i] = stderr[i]
      <4>1. stderr' \in Seq(Lines) /\ Len(stderr') = Len(stderr) + 1
        BY <1>9, <3>3, PutFacts
      <4>2. stderr'[Len(stderr) + 1] = x /\ \A i \in 1..Len(stderr) : stderr'[i] = stderr[i]
        BY <1>9, <3>3, PutFacts
      <4> QED BY <4>1, <4>2
    <3> QED BY <2>2, <3>2, <3>3
  <2>5. Complaints'
    BY <1>1, <1>2, <1>9, <1>12, <2>4, LineFields DEF Complaints
  <2>6. Errors'
    <3>1. \A i \in (owed + 1)..Len(stderr') : drain = "reading" => stderr'[i] \in {Line(n, "error"), Line(n, "long")}
      BY <1>9, <2>1, <2>4
    <3>2. drain = "reading" => owed <= Len(stderr') /\ \A i \in 1..owed : stderr'[i].what = "trailer"
      BY <1>7, <1>9, <2>1, <2>4
    <3> QED BY <1>2, <1>4, <1>5, <1>12, <2>1, <3>1, <3>2 DEF Errors, Complaint
  <2>7. Heard'
    <3>1. CASE drain = "stopped"
      BY <1>6, <1>8, <1>2, <3>1 DEF Heard
    <3>2. CASE drain = "reading" /\ kind[n] = "fail"
      <4>1. owed + 1 \in (owed' + 1)..Len(stderr') /\ stderr'[owed + 1] = Line(n, "error")
        BY <1>2, <1>9, <2>1, <2>4, <3>2
      <4> QED BY <1>2, <4>1 DEF Heard
    <3>3. CASE kind[n] # "fail"
      BY <1>2, <3>3 DEF Heard
    <3> QED BY <1>9, <3>1, <3>2, <3>3
  <2> QED BY <1>1, <1>10, <1>12, <2>3, <2>5, <2>6, <2>7
<1>13. CASE what = "marker"
  <2>1. /\ ~Has("user") /\ Has("marker") /\ Has("end") /\ ~Has("user")' /\ ~Has("marker")' /\ Has("end")'
        /\ stderr' = Append(stderr, Line(n, "marker")) \o TrailerLines(n) /\ UNCHANGED <<stdout, child>>
        /\ kind[n] # "hang"
    <3>1. stderr' = Append(stderr, Line(n, "marker")) \o TrailerLines(n) /\ UNCHANGED <<stdout, child>>
      BY <1>0, <1>13, ExecuteFacts
    <3>2. ~Has("user") /\ Has("marker") /\ Has("end") /\ ~Has("user")' /\ ~Has("marker")' /\ Has("end")'
      BY <1>1, <1>3, <1>13
    <3> QED BY <1>1, <1>13, <3>1, <3>2 DEF Outputs
  <2>2. Outputs'
    BY <1>1, <1>2, <1>8, <1>13, <2>1 DEF Outputs, Printed
  <2>p. PICK p : p = Len(stderr) + 1
    OBVIOUS
  <2> DEFINE P == TrailerLines(n)
  <2>3. /\ Len(stderr') = p + Trailer /\ DOMAIN stderr' = 1..(p + Trailer) /\ p \in Nat
        /\ \A i \in 1..Len(stderr) : stderr'[i] = stderr[i]
        /\ stderr'[p] = Line(n, "marker")
        /\ \A i \in (p + 1)..(p + Trailer) : stderr'[i].what = "trailer"
    <3>1. n \in 0..MaxQueries
      BY PipeTypes
    <3>2. Line(n, "marker") \in Lines
      BY <3>1, LineFacts
    <3>3. P \in Seq(Lines) /\ Len(P) = Trailer /\ \A i \in 1..Trailer : P[i].what = "trailer"
      BY <3>1, TrailerFacts, Assumption, LineFields
    <3> DEFINE s == Append(stderr, Line(n, "marker"))
    <3>4. s \in Seq(Lines) /\ Len(s) = p /\ s[p] = Line(n, "marker") /\ p \in Nat
          /\ \A i \in 1..Len(stderr) : s[i] = stderr[i]
      BY <1>9, <2>p, <3>2, PutFacts
    <3>6. stderr' = s \o P
      BY <2>1
    <3> HIDE DEF P, s
    <3>s. s \in Seq(Lines) /\ P \in Seq(Lines)
      BY <3>3, <3>4
    <3>5. /\ Len(s \o P) = Len(s) + Len(P) /\ s \o P \in Seq(Lines)
          /\ \A i \in 1..Len(s) : (s \o P)[i] = s[i]
          /\ \A i \in 1..Len(P) : (s \o P)[Len(s) + i] = P[i]
      BY <3>s, JoinFacts
    <3>7. ASSUME NEW i \in (p + 1)..(p + Trailer) PROVE stderr'[i].what = "trailer"
      <4>1. i - p \in 1..Len(P) /\ p + (i - p) = i
        BY <1>9, <3>3, <3>4
      <4> QED BY <3>3, <3>4, <3>5, <3>6, <4>1
    <3>8. Len(stderr') = p + Trailer /\ DOMAIN stderr' = 1..(p + Trailer)
      BY <3>3, <3>4, <3>5, <3>6
    <3>9. stderr'[p] = Line(n, "marker") /\ \A i \in 1..Len(stderr) : stderr'[i] = stderr[i]
      BY <1>9, <2>p, <3>4, <3>5, <3>6
    <3> QED BY <3>4, <3>7, <3>8, <3>9
  <2>4. Complaints'
    <3>1. \A i \in DOMAIN stderr' : \/ i \in DOMAIN stderr /\ stderr'[i] = stderr[i]
                                    \/ stderr'[i].what \in {"marker", "trailer"}
      BY <1>9, <2>p, <2>3, LineFields
    <3>2. \A i \in DOMAIN stderr' :
            /\ stderr'[i].what = "error" => stderr'[i].n \in 1..n /\ kind[stderr'[i].n] = "fail"
            /\ stderr'[i].what = "long" => stderr'[i].n \in 1..n /\ kind[stderr'[i].n] = "long"
      BY <3>1 DEF Complaints
    <3> QED BY <1>2, <3>2 DEF Complaints
  <2>5. Errors'
    <3> SUFFICES ASSUME drain = "reading" PROVE Errors'
      BY <1>2 DEF Errors
    <3>1. \A i \in (owed + 1)..Len(stderr) : Complaint(stderr[i])
      BY <1>1, <1>5, <1>13, <2>1 DEF Errors
    <3>2. p \in (owed + 1)..Len(stderr')
      BY <1>7, <1>9, <2>p, <2>3
    <3>3. MarkedAt(p)'
      <4>1. \A i \in (owed + 1)..(p - 1) : stderr'[i] \in {Line(n, "error"), Line(n, "long")}
        BY <1>9, <2>p, <2>3, <3>1 DEF Complaint
      <4> QED BY <1>2, <2>3, <4>1 DEF MarkedAt, Complaint
    <3>4. \E x \in (owed' + 1)..Len(stderr') : MarkedAt(x)'
      BY <1>2, <3>2, <3>3
    <3>5. owed <= Len(stderr') /\ \A i \in 1..owed : stderr'[i].what = "trailer"
      BY <1>7, <1>9, <2>p, <2>3
    <3> QED BY <1>2, <1>4, <1>5, <1>13, <2>1, <3>4, <3>5 DEF Errors
  <2>6. Heard'
    <3> SUFFICES ASSUME kind[n] = "fail", ~DrainLost(n), buf = <<>>
                 PROVE  \E i \in (owed + 1)..Len(stderr') : stderr'[i] = Line(n, "error")
      BY <1>2, <1>8 DEF Heard
    <3>1. PICK i \in (owed + 1)..Len(stderr) : stderr[i] = Line(n, "error")
      BY <1>1, <1>13, <2>1 DEF Heard
    <3>2. i \in (owed + 1)..Len(stderr') /\ i \in 1..Len(stderr)
      BY <1>9, <2>p, <2>3
    <3> QED BY <2>3, <3>1, <3>2
  <2> QED BY <1>1, <1>10, <1>13, <2>2, <2>4, <2>5, <2>6
<1>14. CASE what = "end"
  <2>1. /\ ~Has("user") /\ ~Has("marker") /\ Has("end") /\ ~Has("user")' /\ ~Has("marker")' /\ ~Has("end")'
        /\ stdout' = Append(stdout, EndLine) /\ UNCHANGED <<stderr, child>>
    BY <1>0, <1>1, <1>14, ExecuteFacts
  <2>2. Printed(<<RowLine>>, <<>>) /\ kind[n] # "hang"
    BY <1>1, <1>14, <2>1 DEF Outputs
  <2>3. Append(<<>>, EndLine) = <<EndLine>> /\ Append(<<RowLine>>, EndLine) = <<RowLine, EndLine>>
    BY ShortFacts, PairFacts
  <2>4. Printed(<<RowLine, EndLine>>, <<EndLine>>)'
    BY <1>2, <1>8, <2>1, <2>2, <2>3 DEF Printed
  <2>5. Outputs'
    BY <1>2, <1>4, <1>14, <2>1, <2>2, <2>4 DEF Outputs
  <2>6. Complaints' /\ Heard'
    BY <1>1, <1>2, <1>8, <2>1 DEF Complaints, Heard
  <2>7. Errors'
    BY <1>1, <1>2, <2>1 DEF Errors, Complaint, MarkedAt
  <2> QED BY <1>1, <1>10, <1>14, <2>5, <2>6, <2>7
<1> QED BY <1>1, <1>11, <1>12, <1>13, <1>14

-----------------------------------------------------------------------------
\* drainStderr.

\* A line of stderr gone, what is said of the rest.
LEMMA ShiftFacts ==
  ASSUME LockInv, stderr # <<>>, stderr' = Tail(stderr)
  PROVE  /\ Len(stderr) \in Nat \ {0} /\ Len(stderr') = Len(stderr) - 1 /\ Head(stderr) = stderr[1]
         /\ DOMAIN stderr = 1..Len(stderr) /\ DOMAIN stderr' = 1..(Len(stderr) - 1)
         /\ \A i \in 1..(Len(stderr) - 1) : stderr'[i] = stderr[i + 1] /\ i + 1 \in DOMAIN stderr
<1>1. stderr \in Seq(Lines)
  BY PipeTypes
<1>2. Tail(stderr) \in Seq(Lines) /\ Len(Tail(stderr)) = Len(stderr) - 1 /\ Len(stderr) \in Nat \ {0}
      /\ Head(stderr) = stderr[1] /\ \A i \in 1..(Len(stderr) - 1) : Tail(stderr)[i] = stderr[i + 1]
  BY <1>1, TakeFacts
<1> QED BY <1>1, <1>2

\* The same in numbers: L lines of which a are owed become M lines of which b are.
LEMMA ShiftNumbers ==
  ASSUME NEW L \in Nat \ {0}, NEW M \in Nat, M = L - 1, NEW a \in Nat, NEW b \in Nat
  PROVE  /\ a <= b + 1 => \A i \in (b + 1)..M : i + 1 \in (a + 1)..L /\ i \in 1..(L - 1)
         /\ a = b + 1 => /\ a <= L => b <= M
                         /\ L = a => M = b
                         /\ \A i \in 1..b : i <= M => i + 1 \in 1..a /\ i \in 1..(L - 1)
                         /\ \A i \in (a + 1)..L : /\ i \in 2..L /\ i - 1 \in (b + 1)..M
                                                  /\ i - 1 \in 1..(L - 1) /\ (i - 1) + 1 = i
OBVIOUS

LEMMA ShiftMarked ==
  ASSUME LockInv, stderr # <<>>, stderr' = Tail(stderr), n' = n, owed' \in Nat, owed <= owed' + 1,
         NEW p \in 2..Len(stderr), MarkedAt(p)
  PROVE  MarkedAt(p - 1)'
<1>1. /\ Len(stderr) \in Nat \ {0} /\ Len(stderr') = Len(stderr) - 1
      /\ \A i \in 1..(Len(stderr) - 1) : stderr'[i] = stderr[i + 1]
      /\ owed \in Nat /\ Trailer \in Nat
  BY ShiftFacts, PipeTypes
<1>2. /\ stderr[p] = Line(n, "marker") /\ Len(stderr) = p + Trailer
      /\ \A i \in (owed + 1)..(p - 1) : stderr[i] \in {Line(n, "error"), Line(n, "long")}
      /\ \A i \in (p + 1)..Len(stderr) : stderr[i].what = "trailer"
  BY DEF MarkedAt, Complaint
<1>a. /\ Len(stderr) \in Nat \ {0} /\ Len(stderr') = Len(stderr) - 1 /\ owed \in Nat /\ Trailer \in Nat
      /\ Len(stderr) = p + Trailer
  BY <1>1, <1>2
<1>3. stderr'[p - 1] = Line(n, "marker") /\ Len(stderr') = (p - 1) + Trailer
  BY <1>1, <1>2
<1>4. \A i \in (owed' + 1)..((p - 1) - 1) : stderr'[i] \in {Line(n, "error"), Line(n, "long")}
  <2>1. ASSUME NEW i \in (owed' + 1)..((p - 1) - 1) PROVE stderr'[i] \in {Line(n, "error"), Line(n, "long")}
    <3>0. PICK L, T, a, b : L = Len(stderr) /\ T = Trailer /\ a = owed /\ b = owed'
      OBVIOUS
    <3>2. L \in Nat \ {0} /\ T \in Nat /\ a \in Nat /\ b \in Nat /\ L = p + T /\ a <= b + 1
          /\ i \in (b + 1)..((p - 1) - 1) /\ p \in 2..L
      BY <1>a, <3>0
    <3>3. i + 1 \in (a + 1)..(p - 1) /\ i \in 1..(L - 1)
      BY <3>2
    <3>1. i + 1 \in (owed + 1)..(p - 1) /\ i \in 1..(Len(stderr) - 1)
      BY <3>0, <3>3
    <3> QED BY <1>1, <1>2, <3>1
  <2> QED BY <2>1
<1>5. \A i \in ((p - 1) + 1)..Len(stderr') : stderr'[i].what = "trailer"
  <2>1. ASSUME NEW i \in ((p - 1) + 1)..Len(stderr') PROVE stderr'[i].what = "trailer"
    <3>1. i + 1 \in (p + 1)..Len(stderr) /\ i \in 1..(Len(stderr) - 1)
      BY <1>a
    <3> QED BY <1>1, <1>2, <3>1
  <2> QED BY <2>1
<1> QED BY <1>3, <1>4, <1>5 DEF MarkedAt, Complaint

LEMMA DrainKeepsPipes ==
  ASSUME LockInv, PipeInv, Drain
  PROVE  PipeInv'
<1> USE DEF PipeInv
<1>0. PICK line : line = Head(stderr)
  OBVIOUS
<1>1. /\ drain = "reading" /\ stderr # <<>> /\ stderr' = Tail(stderr) /\ At' = At
      /\ UNCHANGED <<n, kind, rows, child, stdin, stdout>>
  BY DrainKeepsLock DEF Drain, DrainStep, Drainer, query
<1>2. /\ Len(stderr) \in Nat \ {0} /\ Len(stderr') = Len(stderr) - 1 /\ line = stderr[1] /\ 1 \in DOMAIN stderr
      /\ DOMAIN stderr = 1..Len(stderr) /\ DOMAIN stderr' = 1..(Len(stderr) - 1)
      /\ \A i \in 1..(Len(stderr) - 1) : stderr'[i] = stderr[i + 1] /\ i + 1 \in DOMAIN stderr
      /\ owed \in Nat /\ Trailer \in Nat /\ n \in Nat
  BY <1>0, <1>1, ShiftFacts, PipeTypes
<1>a. /\ Len(stderr) \in Nat \ {0} /\ Len(stderr') = Len(stderr) - 1 /\ Len(stderr') \in Nat
      /\ owed \in Nat /\ Trailer \in Nat
  BY <1>2
<1>3. (Live' <=> Live) /\ (\A w : Has(w)' <=> Has(w)) /\ DrainLost(n)' = DrainLost(n)
  BY <1>1 DEF Live, Has, DrainLost
<1>4. Inputs'
  BY <1>1, <1>3 DEF Inputs
<1>5. Outputs'
  BY <1>1, <1>3 DEF Outputs, Printed, RowLine, EndLine
<1>6. /\ \A i \in DOMAIN stderr' :
           /\ stderr'[i].what = "error" => stderr'[i].n \in 1..n' /\ kind'[stderr'[i].n] = "fail"
           /\ stderr'[i].what = "long" => stderr'[i].n \in 1..n' /\ kind'[stderr'[i].n] = "long"
      /\ line.what = "error" => line.n \in 1..n /\ kind[line.n] = "fail"
      /\ line.what = "long" => line.n \in 1..n /\ kind[line.n] = "long"
  BY <1>1, <1>2 DEF Complaints
<1>7. UNCHANGED buf => Complaints'
  BY <1>1, <1>6 DEF Complaints
<1>8. At \in {"reading", "syncing"} => Live
  BY DEF Live
\* What the lines of stderr are while the sentinel is armed.
<1>9. ASSUME Live, sentinel # 0
      PROVE  /\ sentinel = n /\ ~seen /\ At # "none"
             /\ \/ (At = "armed" \/ Has("user")) /\ Len(stderr) = owed
                \/ /\ At # "armed" /\ ~Has("user") /\ Has("marker")
                   /\ \A i \in (owed + 1)..Len(stderr) : stderr[i] \in {Line(n, "error"), Line(n, "long")}
                \/ /\ At # "armed" /\ ~Has("user") /\ ~Has("marker")
                   /\ \E p \in (owed + 1)..Len(stderr) : MarkedAt(p)
  <2>1. sentinel = n /\ ~seen /\ At # "none"
    BY <1>9 DEF Sentinels
  <2>2. IF At = "armed" \/ Has("user") THEN Len(stderr) = owed
        ELSE IF Has("marker") THEN \A i \in (owed + 1)..Len(stderr) : Complaint(stderr[i])
        ELSE \E p \in (owed + 1)..Len(stderr) : MarkedAt(p)
    BY <1>1, <1>9 DEF Errors
  <2> QED BY <2>1, <2>2 DEF Complaint
<1>10. Live => /\ owed <= Len(stderr) /\ \A i \in 1..owed : stderr[i].what = "trailer"
               /\ sentinel = 0 => Len(stderr) = owed
  BY <1>1 DEF Errors
<1>11. CASE line.what = "long" /\ drain' = "stopped" /\ UNCHANGED <<sentinel, seen, owed, buf>>
  <2>1. DrainLost(n)
    BY <1>6, <1>11 DEF DrainLost
  <2>2. Errors' /\ Heard'
    BY <1>1, <1>3, <1>11, <2>1 DEF Errors, Heard
  <2>3. Sentinels'
    BY <1>1, <1>3, <1>11, <2>1 DEF Sentinels
  <2> QED BY <1>4, <1>5, <1>7, <1>11, <2>2, <2>3
<1>12. CASE owed > 0 /\ owed' = owed - 1 /\ UNCHANGED <<sentinel, seen, buf, drain>>
  <2>1. owed' \in Nat /\ owed = owed' + 1 /\ owed <= owed' + 1
    BY <1>2, <1>12
  <2>n. /\ owed <= Len(stderr) => owed' <= Len(stderr')
        /\ Len(stderr) = owed => Len(stderr') = owed'
        /\ \A i \in (owed + 1)..Len(stderr) :
             i - 1 \in (owed' + 1)..Len(stderr') /\ i - 1 \in 1..(Len(stderr) - 1) /\ (i - 1) + 1 = i
    <3>1. PICK L, M, a, b : L = Len(stderr) /\ M = Len(stderr') /\ a = owed /\ b = owed'
      OBVIOUS
    <3>2. L \in Nat \ {0} /\ M \in Nat /\ M = L - 1 /\ a \in Nat /\ b \in Nat /\ a = b + 1
      BY <1>a, <2>1, <3>1
    <3>3. /\ a <= L => b <= M
          /\ L = a => M = b
          /\ \A i \in (a + 1)..L : i - 1 \in (b + 1)..M /\ i - 1 \in 1..(L - 1) /\ (i - 1) + 1 = i
      BY <3>2, ShiftNumbers
    <3> QED BY <3>1, <3>3
  <2>2. Errors'
    <3> SUFFICES ASSUME Live PROVE Errors'
      BY <1>3 DEF Errors
    <3>0. owed <= Len(stderr) /\ (sentinel = 0 => Len(stderr) = owed) /\ \A i \in 1..owed : stderr[i].what = "trailer"
      BY <1>10
    <3>3. owed' <= Len(stderr') /\ (Len(stderr) = owed => Len(stderr') = owed')
      BY <2>n, <3>0
    <3>1. owed' <= Len(stderr') /\ \A i \in 1..owed' : stderr'[i].what = "trailer"
      <4>1. ASSUME NEW i \in 1..owed' PROVE stderr'[i].what = "trailer"
        <5>1. i + 1 \in 1..owed /\ i \in 1..(Len(stderr) - 1)
          <6>1. owed <= Len(stderr)
            BY <3>0
          <6>2. i <= Len(stderr')
            BY <1>a, <2>1, <3>3
          <6>3. i + 1 \in 1..owed
            <7>1. PICK b : b = owed'
              OBVIOUS
            <7>2. b \in Nat /\ owed = b + 1 /\ i \in 1..b
              BY <2>1, <7>1
            <7> QED BY <7>2
          <6>4. i \in 1..(Len(stderr) - 1)
            BY <1>a, <6>2
          <6> QED BY <6>3, <6>4
        <5> QED BY <1>2, <3>0, <5>1
      <4> QED BY <3>3, <4>1
    <3>2. sentinel = 0 => Len(stderr') = owed'
      BY <3>0, <3>3
    <3>4. ASSUME \A i \in (owed + 1)..Len(stderr) : stderr[i] \in {Line(n, "error"), Line(n, "long")}
          PROVE  \A i \in (owed' + 1)..Len(stderr') : stderr'[i] \in {Line(n, "error"), Line(n, "long")}
      <4>1. ASSUME NEW i \in (owed' + 1)..Len(stderr') PROVE stderr'[i] \in {Line(n, "error"), Line(n, "long")}
        <5>1. i + 1 \in (owed + 1)..Len(stderr) /\ i \in 1..(Len(stderr) - 1)
          BY <1>a, <2>1, ShiftNumbers
        <5> QED BY <1>2, <3>4, <5>1
      <4> QED BY <4>1
    <3>5. ASSUME NEW p \in (owed + 1)..Len(stderr), MarkedAt(p)
          PROVE  \E x \in (owed' + 1)..Len(stderr') : MarkedAt(x)'
      <4>1. p \in 2..Len(stderr) /\ p - 1 \in (owed' + 1)..Len(stderr')
        BY <1>a, <2>1, ShiftNumbers
      <4>2. MarkedAt(p - 1)'
        BY <1>1, <2>1, <3>5, <4>1, ShiftMarked
      <4> QED BY <4>1, <4>2
    <3>6. CASE sentinel = 0
      BY <1>12, <3>1, <3>2, <3>6 DEF Errors
    <3>7. CASE sentinel # 0
      BY <1>1, <1>3, <1>9, <1>12, <3>1, <3>3, <3>4, <3>5, <3>7 DEF Errors, Complaint
    <3> QED BY <3>6, <3>7
  <2>3. Sentinels'
    BY <1>1, <1>3, <1>12 DEF Sentinels
  <2>4. Heard'
    <3> SUFFICES ASSUME At \in {"reading", "syncing"}, ~Has("user"), kind[n] = "fail", ~DrainLost(n), buf = <<>>
                 PROVE  \E i \in (owed' + 1)..Len(stderr') : stderr'[i] = Line(n, "error")
      BY <1>1, <1>3, <1>12 DEF Heard
    <3>1. PICK i \in (owed + 1)..Len(stderr) : stderr[i] = Line(n, "error")
      BY DEF Heard
    <3>2. i - 1 \in (owed' + 1)..Len(stderr') /\ i - 1 \in 1..(Len(stderr) - 1) /\ (i - 1) + 1 = i
      BY <2>n, <3>1
    <3>3. stderr'[i - 1] = stderr[i]
      BY <1>2, <3>2
    <3> QED BY <3>1, <3>2, <3>3
  <2> QED BY <1>4, <1>5, <1>7, <1>12, <2>2, <2>3, <2>4
<1>13. CASE owed = 0 /\ sentinel = 0 /\ UNCHANGED <<sentinel, seen, owed, buf, drain>>
  <2>1. ~Live
    BY <1>2, <1>10, <1>13
  <2>2. Errors' /\ Heard'
    BY <1>1, <1>3, <1>8, <2>1 DEF Errors, Heard
  <2>3. Sentinels'
    BY <1>1, <1>3, <1>13, <2>1 DEF Sentinels
  <2> QED BY <1>4, <1>5, <1>7, <1>13, <2>2, <2>3
\* With the sentinel armed and no trailer owed, the line is the query's own.
<1>14. ASSUME Live, owed = 0, sentinel # 0
       PROVE  /\ sentinel = n /\ ~seen /\ At \notin {"none", "armed"} /\ ~Has("user")
              /\ \/ /\ line \in {Line(n, "error"), Line(n, "long")}
                    /\ \/ /\ Has("marker")
                          /\ \A i \in 1..Len(stderr) : stderr[i] \in {Line(n, "error"), Line(n, "long")}
                       \/ ~Has("marker") /\ \E p \in 2..Len(stderr) : MarkedAt(p)
                 \/ ~Has("marker") /\ MarkedAt(1)
  <2>1. Len(stderr) # owed
    BY <1>2, <1>14
  <2>2. sentinel = n /\ ~seen /\ At \notin {"none", "armed"} /\ ~Has("user")
    BY <1>9, <1>14, <2>1
  <2>3. CASE Has("marker")
    BY <1>2, <1>9, <1>14, <2>1, <2>2, <2>3
  <2>4. CASE ~Has("marker")
    <3>1. PICK p \in (owed + 1)..Len(stderr) : MarkedAt(p)
      BY <1>9, <1>14, <2>1, <2>4
    <3>2. CASE p = 1
      BY <2>2, <2>4, <3>1, <3>2
    <3>3. CASE p # 1
      <4>1. p \in 2..Len(stderr) /\ 1 \in (owed + 1)..(p - 1)
        BY <1>2, <1>14, <3>3
      <4>2. line \in {Line(n, "error"), Line(n, "long")}
        BY <1>2, <3>1, <4>1 DEF MarkedAt, Complaint
      <4> QED BY <2>2, <2>4, <3>1, <4>1, <4>2
    <3> QED BY <3>2, <3>3
  <2> QED BY <2>3, <2>4
<1>15. CASE /\ owed = 0 /\ sentinel # 0 /\ line = Line(sentinel, "marker")
            /\ seen' = TRUE /\ sentinel' = 0 /\ owed' = Trailer /\ UNCHANGED <<buf, drain>>
  <2>1. line.what = "marker" /\ line \notin {Line(n, "error"), Line(n, "long")}
    BY <1>15, LineFields
  <2>2. Live => ~Has("user") /\ ~Has("marker") /\ At # "armed" /\ MarkedAt(1)
    BY <1>14, <1>15, <2>1
  <2>3. Live => Len(stderr') = Trailer /\ \A i \in 1..Trailer : stderr'[i].what = "trailer"
    BY <1>2, <2>2 DEF MarkedAt
  <2>4. Errors'
    BY <1>2, <1>3, <1>15, <2>3 DEF Errors
  <2>5. Sentinels'
    BY <1>1, <1>3, <1>15, <2>2 DEF Sentinels
  <2>6. Heard'
    <3> SUFFICES ASSUME At \in {"reading", "syncing"}, ~Has("user"), kind[n] = "fail", ~DrainLost(n), buf = <<>>
                 PROVE  FALSE
      BY <1>1, <1>3, <1>15 DEF Heard
    <3>1. PICK i \in (owed + 1)..Len(stderr) : stderr[i] = Line(n, "error")
      BY DEF Heard
    <3>2. stderr[i].what = "error" /\ i # 1
      BY <1>2, <2>1, <3>1, LineFields
    <3>3. i \in 2..Len(stderr) /\ MarkedAt(1)
      BY <1>2, <1>8, <1>15, <2>2, <3>2
    <3> QED BY <3>2, <3>3 DEF MarkedAt
  <2> QED BY <1>4, <1>5, <1>7, <1>15, <2>4, <2>5, <2>6
<1>16. CASE /\ line.what # "long" /\ owed = 0 /\ sentinel # 0 /\ line # Line(sentinel, "marker")
            /\ buf' = Append(buf, line) /\ UNCHANGED <<sentinel, seen, owed, drain>>
  <2>1. /\ buf' # <<>> /\ DOMAIN buf = 1..Len(buf) /\ DOMAIN buf' = 1..(Len(buf) + 1) /\ Len(buf) \in Nat
        /\ buf'[Len(buf) + 1] = line /\ \A i \in 1..Len(buf) : buf'[i] = buf[i]
    <3>1. line \in Lines /\ buf \in Seq(Lines)
      BY <1>0, <1>1, PipeTypes, TakeFacts
    <3>2. buf' \in Seq(Lines) /\ Len(buf') = Len(buf) + 1 /\ buf' # <<>>
      BY <1>16, <3>1, PutFacts
    <3>3. buf'[Len(buf) + 1] = line /\ \A i \in 1..Len(buf) : buf'[i] = buf[i]
      BY <1>16, <3>1, PutFacts
    <3> QED BY <3>1, <3>2, <3>3, PipeTypes
  <2>2. Complaints'
    <3>1. \A i \in DOMAIN buf' : buf'[i].what = "error" => buf'[i].n \in 1..n /\ kind[buf'[i].n] = "fail"
      BY <1>6, <2>1 DEF Complaints
    <3> QED BY <1>1, <1>6, <3>1 DEF Complaints
  <2>3. ASSUME Live
        PROVE  /\ line = Line(n, "error") /\ ~Has("user") /\ At # "armed"
               /\ \/ /\ Has("marker")
                     /\ \A i \in 1..Len(stderr) : stderr[i] \in {Line(n, "error"), Line(n, "long")}
                  \/ ~Has("marker") /\ \E p \in 2..Len(stderr) : MarkedAt(p)
    <3>1. MarkedAt(1) => line = Line(n, "marker")
      BY <1>2 DEF MarkedAt
    <3>2. line # Line(n, "long")
      BY <1>16, LineFields
    <3> QED BY <1>14, <1>16, <2>3, <3>1, <3>2
  <2>4. Errors'
    <3> SUFFICES ASSUME Live PROVE Errors'
      BY <1>3 DEF Errors
    <3>1. owed' <= Len(stderr') /\ \A i \in 1..owed' : stderr'[i].what = "trailer"
      BY <1>2, <1>16
    <3>2. CASE Has("marker")
      <4>1. \A i \in (owed' + 1)..Len(stderr') : stderr'[i] \in {Line(n, "error"), Line(n, "long")}
        BY <1>2, <1>16, <2>3, <3>2
      <4> QED BY <1>1, <1>3, <1>16, <2>3, <3>1, <3>2, <4>1 DEF Errors, Complaint
    <3>3. CASE ~Has("marker")
      <4>1. PICK p \in 2..Len(stderr) : MarkedAt(p)
        BY <2>3, <3>3
      <4>2. owed' \in Nat /\ owed <= owed' + 1 /\ p - 1 \in (owed' + 1)..Len(stderr')
        BY <1>2, <1>16
      <4>3. MarkedAt(p - 1)'
        BY <1>1, <4>1, <4>2, ShiftMarked
      <4> QED BY <1>1, <1>3, <1>16, <2>3, <3>1, <3>3, <4>2, <4>3 DEF Errors
    <3> QED BY <3>2, <3>3
  <2>5. Sentinels'
    <3>1. Live => \A i \in DOMAIN buf' : buf'[i] = Line(n, "error")
      BY <2>1, <2>3 DEF Sentinels
    <3> QED BY <1>1, <1>3, <1>16, <3>1 DEF Sentinels
  <2>6. Heard'
    BY <2>1 DEF Heard
  <2> QED BY <1>4, <1>5, <2>2, <2>4, <2>5, <2>6
<1>17. \/ line.what = "long" /\ drain' = "stopped" /\ UNCHANGED <<sentinel, seen, owed, buf>>
       \/ owed > 0 /\ owed' = owed - 1 /\ UNCHANGED <<sentinel, seen, buf, drain>>
       \/ owed = 0 /\ sentinel = 0 /\ UNCHANGED <<sentinel, seen, owed, buf, drain>>
       \/ /\ owed = 0 /\ sentinel # 0 /\ line = Line(sentinel, "marker")
          /\ seen' = TRUE /\ sentinel' = 0 /\ owed' = Trailer /\ UNCHANGED <<buf, drain>>
       \/ /\ line.what # "long" /\ owed = 0 /\ sentinel # 0 /\ line # Line(sentinel, "marker")
          /\ buf' = Append(buf, line) /\ UNCHANGED <<sentinel, seen, owed, drain>>
  BY <1>0 DEF Drain, DrainStep, sync
<1> QED BY <1>11, <1>12, <1>13, <1>15, <1>16, <1>17

LEMMA EOFKeepsPipes ==
  ASSUME LockInv, PipeInv, DrainEOF
  PROVE  PipeInv'
<1> USE DEF PipeInv
<1>1. /\ drain' = "stopped" /\ child = "gone" /\ stderr = <<>> /\ At' = At
      /\ UNCHANGED <<n, kind, rows, sentinel, seen, owed, buf, child, stdin, stdout, stderr>>
  BY DrainKeepsLock DEF DrainEOF, Drainer, query, outputs
<1>2. (Live' <=> Live) /\ \A w : Has(w)' <=> Has(w)
  BY <1>1 DEF Live, Has
<1>3. Inputs'
  BY <1>1, <1>2 DEF Inputs
<1>4. Outputs'
  BY <1>1, <1>2 DEF Outputs, Printed, RowLine, EndLine
<1>5. Complaints' /\ Errors'
  BY <1>1 DEF Complaints, Errors
<1>6. Sentinels' /\ Heard'
  BY <1>1, <1>2 DEF Sentinels, Heard, DrainLost
<1> QED BY <1>3, <1>4, <1>5, <1>6

-----------------------------------------------------------------------------
\* The answers.

Answered ==
  /\ AnswersOwn
  /\ \A c \in Callers : result[c].out # "none" => result[c].n # 0

\* Of one answer: what AnswersOwn says of it depends on the statements up to its own.
Answer(r) ==
  ~DrainLost(r.n) =>
    /\ r.out = "ok" => kind[r.n] = "ok" /\ r.rows = <<Line(r.n, "row")>>
    /\ r.out = "duckdb" => kind[r.n] = "fail"

LEMMA AnswerKept ==
  ASSUME NEW m \in Nat, NEW r, r.n \in 0..m, r.out # "none" => r.n # 0,
         \A q \in 1..m : kind'[q] = kind[q], Answer(r)
  PROVE  Answer(r)'
<1>1. DrainLost(r.n)' <=> DrainLost(r.n)
  BY DEF DrainLost
<1>2. r.out \in {"ok", "duckdb"} => kind'[r.n] = kind[r.n]
  OBVIOUS
<1> QED BY <1>1, <1>2 DEF Answer

\* A query that samples the buffer finds its own statement's complaint there, or none.
LEMMA SampleAnswers ==
  ASSUME Prompt, LockInv, PipeInv, NEW c \in Callers, Sample(c), ~DrainLost(n)
  PROVE  IF buf = <<>> THEN kind[n] = "ok" /\ rows = <<RowLine>> ELSE kind[n] = "fail"
<1> USE DEF PipeInv
<1>1. pc[c] = "syncing" /\ (seen \/ drain = "stopped")
  BY DEF Sample, Prompt
<1>2. At = "syncing" /\ Live /\ n \in 1..n /\ n \in 1..MaxQueries
  BY <1>1, PipeTypes, Assumption DEF LockInv, Locking, At, Live, Assumption
<1>3. ~Has("user") /\ kind[n] # "hang" /\ (kind[n] = "ok" => rows = <<RowLine>>)
  BY <1>2 DEF Inputs, Outputs, Has
<1>4. kind[n] \in {"ok", "fail"}
  BY <1>2, <1>3, Assumption DEF LockInv, TypeOK, DrainLost, Assumption
<1>5. ASSUME buf = <<>>, kind[n] = "fail" PROVE FALSE
  <2>1. PICK i \in (owed + 1)..Len(stderr) : stderr[i] = Line(n, "error")
    BY <1>2, <1>3, <1>5 DEF Heard
  <2>2. owed \in Nat /\ Len(stderr) \in Nat /\ drain \in {"reading", "stopped"}
    BY PipeTypes DEF LockInv, TypeOK
  <2>3. CASE drain = "stopped"
    <3>1. Len(stderr) = 0
      BY <2>3 DEF Sentinels
    <3> QED BY <2>1, <2>2, <3>1
  <2>4. CASE drain = "reading"
    <3>1. Len(stderr) = owed
      BY <1>1, <1>2, <2>4 DEF Sentinels, Errors
    <3> QED BY <2>1, <2>2, <3>1
  <2> QED BY <2>2, <2>3, <2>4
<1>6. ASSUME buf # <<>> PROVE kind[n] = "fail"
  <2>1. 1 \in DOMAIN buf
    BY <1>6, PipeTypes
  <2>2. buf[1] = Line(n, "error")
    BY <1>2, <2>1 DEF Sentinels
  <2> QED BY <2>1, <2>2, LineFields DEF Complaints
<1> QED BY <1>3, <1>4, <1>5, <1>6

LEMMA AnswerNumbers ==
  ASSUME LockInv, Answered, NEW c \in Callers
  PROVE  result[c].n \in 0..n /\ (result[c].out # "none" => result[c].n # 0)
<1>1. result[c].n \in 0..MaxQueries /\ result[c].n <= n
  BY DEF LockInv, TypeOK, Locking
<1>2. n \in Nat /\ MaxQueries \in Nat
  BY PipeTypes, Assumption DEF Assumption
<1>3. result[c].n \in 0..n
  BY <1>1, <1>2
<1> QED BY <1>3 DEF Answered

LEMMA AnswersKept ==
  ASSUME LockInv, Answered, UNCHANGED result, \A q \in 1..n : kind'[q] = kind[q]
  PROVE  Answered'
<1>1. ASSUME NEW c \in Callers PROVE Answer(result[c])'
  <2>1. PICK r : r = result[c]
    OBVIOUS
  <2>2. n \in Nat /\ r.n \in 0..n /\ (r.out # "none" => r.n # 0)
    BY <2>1, PipeTypes, AnswerNumbers
  <2>3. Answer(r)
    BY <2>1 DEF Answered, AnswersOwn, Answer
  <2>4. Answer(r)'
    BY <2>2, <2>3, AnswerKept
  <2> QED BY <2>1, <2>4
<1> QED BY <1>1 DEF Answered, AnswersOwn, Answer

LEMMA ReturnKeepsAnswers ==
  ASSUME LockInv, Answered, NEW c \in Callers, pc[c] \in {"armed", "reading", "syncing"},
         NEW out \in {"ok", "duckdb", "broken"}, ReturnWith(c, out),
         Answer([n |-> n, out |-> out, rows |-> rows])
  PROVE  Answered'
<1>1. /\ n # 0 /\ UNCHANGED <<n, kind, rows>> /\ result'[c] = [n |-> n, out |-> out, rows |-> rows]
      /\ \A d \in Callers : d # c => result'[d] = result[d]
  BY ReturnFacts
<1>2. ASSUME NEW d \in Callers PROVE Answer(result[d])' /\ (result'[d].out # "none" => result'[d].n # 0)
  <2>1. PICK r : r = result'[d]
    OBVIOUS
  <2>2. n \in Nat /\ r.n \in 0..n /\ (r.out # "none" => r.n # 0)
    <3>1. n \in Nat /\ n \in 0..n
      BY PipeTypes
    <3>2. CASE d = c
      BY <1>1, <2>1, <3>1, <3>2
    <3>3. CASE d # c
      BY <1>1, <2>1, <3>1, <3>3, AnswerNumbers
    <3> QED BY <3>2, <3>3
  <2>3. Answer(r)
    BY <1>1, <2>1 DEF Answered, AnswersOwn, Answer
  <2>4. Answer(r)'
    BY <1>1, <2>2, <2>3, AnswerKept
  <2> QED BY <2>1, <2>2, <2>4
<1> QED BY <1>2 DEF Answered, AnswersOwn, Answer

LEMMA RunKeepsAnswers ==
  ASSUME Prompt, LockInv, PipeInv, Answered, NEW c \in Callers, Running(c)
  PROVE  Answered'
<1>1. CASE Lock(c)
  <2>1. PICK k \in Kinds : kind' = [kind EXCEPT ![n + 1] = k]
    BY <1>1 DEF Lock
  <2>2. UNCHANGED result /\ n' = n + 1 /\ n \in Nat /\ n' \in 0..MaxQueries
    BY <1>1, LockKeepsLock DEF Lock, LockInv, TypeOK
  <2>3. \A q \in 1..n : kind'[q] = kind[q]
    BY <2>1, <2>2 DEF LockInv, TypeOK
  <2> QED BY <2>2, <2>3, AnswersKept
<1>2. CASE WriteStdin(c)
  <2>1. CASE ReturnWith(c, "broken")
    <3>1. pc[c] = "armed" /\ Answer([n |-> n, out |-> "broken", rows |-> rows])
      BY <1>2 DEF WriteStdin, Answer
    <3> QED BY <2>1, <3>1, ReturnKeepsAnswers
  <2>2. CASE UNCHANGED <<result, kind>>
    BY <2>2, AnswersKept
  <2> QED BY <1>2, <2>1, <2>2 DEF WriteStdin
<1>3. CASE ReadLine(c)
  <2>1. UNCHANGED <<result, kind>>
    BY <1>3 DEF ReadLine
  <2> QED BY <2>1, AnswersKept
<1>4. CASE ReadFails(c)
  <2>1. pc[c] = "reading" /\ ReturnWith(c, "broken") /\ Answer([n |-> n, out |-> "broken", rows |-> rows])
    BY <1>4 DEF ReadFails, Answer
  <2> QED BY <2>1, ReturnKeepsAnswers
<1>5. CASE Sample(c)
  <2>1. PICK out \in {"ok", "duckdb"} : out = IF buf = <<>> THEN "ok" ELSE "duckdb"
    OBVIOUS
  <2>2. pc[c] = "syncing" /\ ReturnWith(c, out)
    BY <1>5, <2>1 DEF Sample
  <2>3. ~DrainLost(n) => IF buf = <<>> THEN kind[n] = "ok" /\ rows = <<RowLine>> ELSE kind[n] = "fail"
    BY <1>5, SampleAnswers
  <2>4. Answer([n |-> n, out |-> out, rows |-> rows])
    BY <2>1, <2>3 DEF Answer, RowLine
  <2> QED BY <2>2, <2>4, ReturnKeepsAnswers
<1> QED BY <1>1, <1>2, <1>3, <1>4, <1>5 DEF Running

LEMMA PipeInvariant == ASSUME Prompt PROVE Spec => [](LockInv /\ PipeInv /\ Answered)
<1>1. Init => PipeInv /\ Answered
  <2> SUFFICES ASSUME Init PROVE PipeInv /\ Answered
    OBVIOUS
  <2>1. /\ At = "none" /\ stdin = <<>> /\ stdout = <<>> /\ stderr = <<>> /\ buf = <<>> /\ owed = 0 /\ sentinel = 0
        /\ seen = FALSE /\ drain = "reading" /\ \A c \in Callers : result[c] = [n |-> 0, out |-> "none", rows |-> <<>>]
    BY DEF Init, At
  <2>2. \A w : ~Has(w)
    BY <2>1 DEF Has
  <2>3. Inputs /\ Outputs
    BY <2>1, <2>2 DEF Inputs, Outputs
  <2>4. Complaints /\ Sentinels /\ Heard
    BY <2>1 DEF Complaints, Sentinels, Heard
  <2>5. Errors
    BY <2>1 DEF Errors
  <2>6. Answered
    BY <2>1 DEF Answered, AnswersOwn
  <2> QED BY <2>3, <2>4, <2>5, <2>6 DEF PipeInv
<1>2. LockInv /\ PipeInv /\ Answered /\ [Next]_vars => PipeInv' /\ Answered'
  <2> SUFFICES ASSUME LockInv, PipeInv, Answered, [Next]_vars PROVE PipeInv' /\ Answered'
    OBVIOUS
  <2>1. CASE \E c \in Callers : Running(c)
    BY <2>1, RunKeepsPipes, RunKeepsAnswers
  <2>2. CASE Drainer \/ Execute \/ CloseExit
    <3>1. UNCHANGED <<result, kind>>
      BY <2>2 DEF Drainer, Drain, DrainStep, DrainEOF, Execute, CloseExit, query
    <3>2. Answered'
      BY <3>1, AnswersKept
    <3> QED BY <2>2, <3>2, DrainKeepsPipes, EOFKeepsPipes, ExecuteKeepsPipes, ExitKeepsPipes DEF Drainer
  <2>3. CASE (\E c \in Callers : Enter(c)) \/ Closer \/ UNCHANGED vars
    <3>1. At' = At
      BY <2>3, EnterKeepsLock, CloseKeepsLock DEF At, vars, query
    <3>2. /\ child' \in {child, "gone"}
          /\ UNCHANGED <<result, n, kind, rows, sentinel, seen, owed, buf, drain, stdin, stdout, stderr>>
      BY <2>3 DEF Enter, Closer, CloseStdin, Kill, Reap, vars, query, sync, outputs
    <3> QED BY <3>1, <3>2, QuietKeepsPipes, AnswersKept
  <2> QED BY <2>1, <2>2, <2>3 DEF Next
<1> QED BY <1>1, <1>2, LockInvariant, PTL DEF Spec

\* While the child lives the buffer holds the running query's own complaints only: neither
\* the trailer of an earlier query nor its late errors get in (drainStderr).
THEOREM BufferHolds == ASSUME Prompt PROVE Spec => []BufferOwn
<1>1. PipeInv => BufferOwn
  BY DEF PipeInv, Sentinels, Live, BufferOwn
<1> QED BY <1>1, PipeInvariant, PTL

\* While the drain has not been lost to an overlong line, a query that returns no error ran
\* and returns its own rows, all of them, and one that returns duckdb's error failed itself
\* (subproc.go: query(), drainStderr).
THEOREM AnswersHold == ASSUME Prompt PROVE Spec => []AnswersOwn
<1>1. Answered => AnswersOwn
  BY DEF Answered
<1> QED BY <1>1, PipeInvariant, PTL
=============================================================================
