--------------------------- MODULE ZoteroItemProofs ---------------------------
(***************************************************************************)
(* Theorems about ZoteroItem, for any number of items, fields, invocations *)
(* and foreign writes, and any retry limit.                                *)
(***************************************************************************)
EXTENDS ZoteroItem, TLAPS

\* Every edit an operation stands for is an edit of an item of the library.
LEMMA EditOfType ==
  ASSUME NEW o \in Ops, NEW s \in {1, 2}
  PROVE  EditOf(o, s) \in Edits
  BY Assumption DEF EditOf, Edits, Links, Relational

LEMMA TargetType ==
  ASSUME TypeOK, NEW c \in Callers
  PROVE  /\ Target(c) \in Edits
         /\ Target(c).key \in Keys /\ Target(c).field \in Fields /\ Target(c).elem \in Elems
         /\ Target(c).kind \in {"add", "remove", "trash"}
<1>1. Target(c) \in Edits
  BY EditOfType DEF Target, TypeOK
<1> QED BY <1>1 DEF Edits

LEMMA RevisedType ==
  ASSUME NEW e \in Edits, NEW S \in SUBSET Elems
  PROVE  Revised(e, S) \in SUBSET Elems
  BY DEF Revised, Edits

LEMMA CommitType ==
  ASSUME TypeOK, NEW c \in Callers, Commit(c)
  PROVE  /\ exists' \in [Keys -> BOOLEAN]
         /\ version' \in [Keys -> Nat]
         /\ data' \in [Keys -> [Fields -> SUBSET Elems]]
         /\ libver' \in Nat
         /\ rival' \in [Callers -> BOOLEAN]
<1>1. Target(c) \in Edits /\ Target(c).key \in Keys /\ Target(c).field \in Fields
  BY TargetType
<1>2. exists' \in [Keys -> BOOLEAN] /\ data' \in [Keys -> [Fields -> SUBSET Elems]]
  <2>1. CASE Target(c).kind = "trash"
    BY <1>1, <2>1 DEF Commit, TypeOK
  <2>2. CASE Target(c).kind # "trash"
    <3>1. /\ data' = [data EXCEPT ![Target(c).key][Target(c).field] = payload[c]]
          /\ exists' = exists
      BY <2>2 DEF Commit
    <3>2. payload[c] \in SUBSET Elems
      BY DEF TypeOK
    <3> QED BY <1>1, <3>1, <3>2 DEF TypeOK
  <2> QED BY <2>1, <2>2
<1>3. libver' \in Nat /\ version' \in [Keys -> Nat]
  BY <1>1 DEF Commit, TypeOK
<1>4. rival' \in [Callers -> BOOLEAN]
  BY DEF Commit, RivalsOf, TypeOK
<1> QED BY <1>2, <1>3, <1>4

LEMMA SideDoneType ==
  ASSUME TypeOK, NEW c \in Callers, SideDone(c)
  PROVE  /\ made' \in [Callers -> SUBSET Edits]
         /\ pc' \in [Callers -> {"idle"} \union Exchanges \union Verdicts]
         /\ side' \in [Callers -> {1, 2}]
         /\ round' \in [Callers -> {0, 1}]
<1>1. Target(c) \in Edits
  BY TargetType
<1>2. made' \in [Callers -> SUBSET Edits]
  BY <1>1 DEF SideDone, TypeOK
<1> QED BY <1>2 DEF SideDone, TypeOK, Exchanges, Verdicts

LEMMA SendAgainType ==
  ASSUME TypeOK, NEW c \in Callers, SendAgain(c) \/ GiveUp(c)
  PROVE  /\ attempt' \in [Callers -> 0..MaxRetry]
         /\ pc' \in [Callers -> {"idle"} \union Exchanges \union Verdicts]
<1>1. CASE SendAgain(c) /\ attempt[c] < MaxRetry
  BY <1>1, Assumption DEF SendAgain, TypeOK
<1>2. CASE SendAgain(c) /\ ~(attempt[c] < MaxRetry)
  BY <1>2 DEF SendAgain, TypeOK, Verdicts
<1>3. CASE GiveUp(c)
  BY <1>3 DEF GiveUp, TypeOK, Verdicts
<1> QED BY <1>1, <1>2, <1>3

-----------------------------------------------------------------------------
\* TypeOK is an invariant of the write plane.
THEOREM TypeCorrect == Spec => []TypeOK
<1>1. Init => TypeOK
  BY Assumption DEF Init, TypeOK, Exchanges, Verdicts
<1>2. TypeOK /\ [Next]_vars => TypeOK'
  <2> SUFFICES ASSUME TypeOK, [Next]_vars PROVE TypeOK'
    OBVIOUS
  <2>1. ASSUME NEW c \in Callers, Start(c) PROVE TypeOK'
    BY <2>1 DEF Start, server, TypeOK, Exchanges, Verdicts
  <2>2. ASSUME NEW c \in Callers, AnswerRead(c) PROVE TypeOK'
    <3> DEFINE e == Target(c)
               cur == data[e.key][e.field]
    <3>1. e \in Edits /\ e.key \in Keys /\ e.field \in Fields
      BY TargetType
    <3>2. cur \in SUBSET Elems
      BY <3>1 DEF TypeOK
    <3>3. Revised(e, cur) \in SUBSET Elems
      BY <3>1, <3>2, RevisedType
    <3>4. /\ seen' \in [Callers -> Nat]
          /\ payload' \in [Callers -> SUBSET Elems]
      BY <2>2, <3>1, <3>3 DEF AnswerRead, TypeOK
    <3>5. /\ made' \in [Callers -> SUBSET Edits]
          /\ pc' \in [Callers -> {"idle"} \union Exchanges \union Verdicts]
          /\ side' \in [Callers -> {1, 2}]
          /\ round' \in [Callers -> {0, 1}]
      BY <2>2, SideDoneType DEF AnswerRead, Return, TypeOK, Exchanges, Verdicts
    <3>6. attempt' \in [Callers -> 0..MaxRetry]
      BY <2>2, Assumption DEF AnswerRead, TypeOK
    <3>7. UNCHANGED <<exists, version, data, libver, elsewhere, op, rival>>
      BY <2>2 DEF AnswerRead, server
    <3> QED BY <3>4, <3>5, <3>6, <3>7 DEF TypeOK
  <2>3. ASSUME NEW c \in Callers, AnswerVersion(c) PROVE TypeOK'
    <3>1. Target(c).key \in Keys
      BY TargetType
    <3>2. attempt' \in [Callers -> 0..MaxRetry]
      BY <2>3, Assumption DEF AnswerVersion, TypeOK
    <3>3. seen' \in [Callers -> Nat]
      BY <2>3, <3>1 DEF AnswerVersion, TypeOK
    <3>4. \E v \in {"error", "write"} : Return(c, v)
      BY <2>3 DEF AnswerVersion
    <3>5. /\ made' \in [Callers -> SUBSET Edits]
          /\ pc' \in [Callers -> {"idle"} \union Exchanges \union Verdicts]
          /\ side' \in [Callers -> {1, 2}]
          /\ round' \in [Callers -> {0, 1}]
      BY <3>4 DEF Return, TypeOK, Exchanges, Verdicts
    <3>6. UNCHANGED <<exists, version, data, libver, elsewhere, op, payload, rival>>
      BY <2>3 DEF AnswerVersion, server
    <3> QED BY <3>2, <3>3, <3>5, <3>6 DEF TypeOK
  <2>4. ASSUME NEW c \in Callers, AnswerWrite(c) PROVE TypeOK'
    <3>1. /\ exists' \in [Keys -> BOOLEAN]
          /\ version' \in [Keys -> Nat]
          /\ data' \in [Keys -> [Fields -> SUBSET Elems]]
          /\ libver' \in Nat
          /\ rival' \in [Callers -> BOOLEAN]
      BY <2>4, CommitType DEF AnswerWrite, server, TypeOK
    <3>2. /\ made' \in [Callers -> SUBSET Edits]
          /\ pc' \in [Callers -> {"idle"} \union Exchanges \union Verdicts]
          /\ side' \in [Callers -> {1, 2}]
          /\ round' \in [Callers -> {0, 1}]
      <4>1. SideDone(c) \/ Conflict(c) \/ Return(c, "error")
        BY <2>4 DEF AnswerWrite
      <4>2. CASE Conflict(c)
        BY <4>2 DEF Conflict, Return, TypeOK, Exchanges, Verdicts
      <4>3. CASE Return(c, "error")
        BY <4>3 DEF Return, TypeOK, Exchanges, Verdicts
      <4> QED BY <4>1, <4>2, <4>3, SideDoneType
    <3>3. attempt' \in [Callers -> 0..MaxRetry]
      BY <2>4, Assumption DEF AnswerWrite, TypeOK
    <3>4. UNCHANGED <<elsewhere, op, seen, payload>>
      BY <2>4 DEF AnswerWrite
    <3> QED BY <3>1, <3>2, <3>3, <3>4 DEF TypeOK
  <2>5. ASSUME NEW c \in Callers, RequestFails(c) PROVE TypeOK'
    <3>1. /\ attempt' \in [Callers -> 0..MaxRetry]
          /\ pc' \in [Callers -> {"idle"} \union Exchanges \union Verdicts]
      BY <2>5, SendAgainType DEF RequestFails
    <3> QED BY <2>5, <3>1 DEF RequestFails, server, TypeOK
  <2>6. ASSUME NEW c \in Callers, ResponseLost(c) PROVE TypeOK'
    <3>1. Target(c) \in Edits
      BY TargetType
    <3>2. /\ exists' \in [Keys -> BOOLEAN]
          /\ version' \in [Keys -> Nat]
          /\ data' \in [Keys -> [Fields -> SUBSET Elems]]
          /\ libver' \in Nat
          /\ rival' \in [Callers -> BOOLEAN]
      BY <2>6, CommitType DEF ResponseLost
    <3>3. made' \in [Callers -> SUBSET Edits]
      BY <2>6, <3>1 DEF ResponseLost, TypeOK
    <3>4. /\ attempt' \in [Callers -> 0..MaxRetry]
          /\ pc' \in [Callers -> {"idle"} \union Exchanges \union Verdicts]
      BY <2>6, SendAgainType DEF ResponseLost
    <3>5. UNCHANGED <<elsewhere, op, side, round, seen, payload>>
      BY <2>6 DEF ResponseLost
    <3> QED BY <3>2, <3>3, <3>4, <3>5 DEF TypeOK
  <2>7. ASSUME NEW k \in Keys, ElsewhereWrite(k) PROVE TypeOK'
    <3>1. rival' \in [Callers -> BOOLEAN]
      BY <2>7 DEF ElsewhereWrite, RivalsOf, TypeOK
    <3>2. exists' \in [Keys -> BOOLEAN] /\ data' \in [Keys -> [Fields -> SUBSET Elems]]
      <4>1. CASE exists' = [exists EXCEPT ![k] = FALSE] /\ UNCHANGED data
        BY <4>1 DEF TypeOK
      <4>2. ASSUME NEW f \in Fields, NEW x \in Elems,
                   data' = [data EXCEPT ![k][f] = IF x \in @ THEN @ \ {x} ELSE @ \union {x}],
                   UNCHANGED exists
            PROVE  exists' \in [Keys -> BOOLEAN] /\ data' \in [Keys -> [Fields -> SUBSET Elems]]
        BY <4>2 DEF TypeOK
      <4> QED BY <2>7, <4>1, <4>2 DEF ElsewhereWrite
    <3>3. elsewhere' \in 0..MaxElsewhere /\ libver' \in Nat /\ version' \in [Keys -> Nat]
      BY <2>7, Assumption DEF ElsewhereWrite, TypeOK
    <3> QED BY <2>7, <3>1, <3>2, <3>3 DEF ElsewhereWrite, TypeOK
  <2>8. CASE UNCHANGED vars
    BY <2>8 DEF vars, server, TypeOK
  <2> QED BY <2>1, <2>2, <2>3, <2>4, <2>5, <2>6, <2>7, <2>8 DEF Next, Advance
<1> QED BY <1>1, <1>2, PTL DEF Spec

-----------------------------------------------------------------------------
(***************************************************************************)
(* FreshPayload.  A version is never reused: every write gives its item a  *)
(* version above all that were ever sent, so a payload built before the    *)
(* write cannot match it.  VersionsBelow says this; with VersionOnly (a     *)
(* derived edit never sends a payload under a version read on its own) it   *)
(* makes FreshPayload inductive.                                           *)
(***************************************************************************)
VersionOnly == \A c \in Callers : pc[c] = "version" => ~Derived(op[c])

VersionsBelow == /\ \A k \in Keys : version[k] <= libver
                 /\ \A c \in Callers : seen[c] <= libver

\* A write to item k that raises its version, by any program, leaves the payload
\* of every caller that neither it nor any other step of the caller touched fresh.
LEMMA FreshKept ==
  ASSUME TypeOK, VersionsBelow, NEW k \in Keys, NEW c \in Callers, Fresh(c),
         libver' = libver + 1,
         version' = [version EXCEPT ![k] = libver + 1],
         \A j \in Keys \ {k} : data'[j] = data[j] /\ exists'[j] = exists[j],
         UNCHANGED <<op, seen, payload>>, pc'[c] = pc[c], side'[c] = side[c]
  PROVE  Fresh(c)'
<1> DEFINE e == Target(c)
<1>1. Target(c)' = e /\ e.key \in Keys
  BY TargetType DEF Target
<1>2. CASE e.key = k
  <2>1. version'[k] = libver + 1
    BY DEF TypeOK
  <2>2. seen'[c] # version'[k]
    BY <2>1 DEF VersionsBelow, TypeOK
  <2> QED BY <1>1, <1>2, <2>2 DEF Fresh
<1>3. CASE e.key # k
  <2>1. version'[e.key] = version[e.key] /\ data'[e.key] = data[e.key] /\ exists'[e.key] = exists[e.key]
    BY <1>1, <1>3 DEF TypeOK
  <2> QED BY <1>1, <2>1 DEF Fresh
<1> QED BY <1>2, <1>3

\* What Commit does to the server, in the form FreshKept asks for.
LEMMA CommitEffect ==
  ASSUME TypeOK, NEW c \in Callers, Commit(c)
  PROVE  /\ Target(c).key \in Keys
         /\ libver' = libver + 1
         /\ version' = [version EXCEPT ![Target(c).key] = libver + 1]
         /\ \A j \in Keys \ {Target(c).key} : data'[j] = data[j] /\ exists'[j] = exists[j]
<1>1. Target(c).key \in Keys /\ Target(c).field \in Fields
  BY TargetType
<1>2. CASE Target(c).kind = "trash"
  BY <1>1, <1>2 DEF Commit, TypeOK
<1>3. CASE Target(c).kind # "trash"
  BY <1>1, <1>3 DEF Commit, TypeOK
<1> QED BY <1>2, <1>3

\* Steps that leave the server and the caller's request alone keep its payload fresh.
LEMMA FreshStutter ==
  ASSUME NEW c \in Callers, Fresh(c), UNCHANGED <<exists, version, data, op>>,
         \/ pc'[c] # "write"
         \/ pc'[c] = pc[c] /\ side'[c] = side[c] /\ seen'[c] = seen[c] /\ payload'[c] = payload[c]
  PROVE  Fresh(c)'
  BY DEF Fresh, Target

\* After SideDone, Return of a verdict, or a 412, nothing is about to be written.
LEMMA NotWriting ==
  ASSUME TypeOK, NEW c \in Callers,
         SideDone(c) \/ Conflict(c) \/ \E v \in Verdicts \union {"version"} : Return(c, v)
  PROVE  /\ pc'[c] # "write"
         /\ \A d \in Callers \ {c} : pc'[d] = pc[d] /\ side'[d] = side[d]
<1>1. CASE SideDone(c)
  BY <1>1 DEF SideDone, TypeOK
<1>2. CASE Conflict(c)
  BY <1>2 DEF Conflict, Return, TypeOK
<1>3. CASE \E v \in Verdicts \union {"version"} : Return(c, v)
  BY <1>3 DEF Return, Verdicts, TypeOK
<1> QED BY <1>1, <1>2, <1>3

LEMMA VersionsBelowStep ==
  ASSUME TypeOK, TypeOK', VersionsBelow, [Next]_vars
  PROVE  VersionsBelow'
<1>1. ASSUME libver' = libver + 1, UNCHANGED seen,
             NEW k \in Keys, version' = [version EXCEPT ![k] = libver + 1]
      PROVE  VersionsBelow'
  BY <1>1 DEF VersionsBelow, TypeOK
<1>2. ASSUME UNCHANGED <<libver, version>>, NEW c \in Callers,
             \/ UNCHANGED seen
             \/ seen' = [seen EXCEPT ![c] = version[Target(c).key]]
      PROVE  VersionsBelow'
  BY <1>2, TargetType DEF VersionsBelow, TypeOK
<1>3. ASSUME NEW c \in Callers, Start(c) \/ RequestFails(c) PROVE VersionsBelow'
  BY <1>2, <1>3 DEF Start, RequestFails, server
<1>4. ASSUME NEW c \in Callers, AnswerRead(c) PROVE VersionsBelow'
  BY <1>2, <1>4 DEF AnswerRead, server
<1>5. ASSUME NEW c \in Callers, AnswerVersion(c) PROVE VersionsBelow'
  BY <1>2, <1>5 DEF AnswerVersion, server
<1>6. ASSUME NEW c \in Callers, AnswerWrite(c) PROVE VersionsBelow'
  <2>1. UNCHANGED seen
    BY <1>6 DEF AnswerWrite
  <2>2. Commit(c) \/ UNCHANGED server
    BY <1>6 DEF AnswerWrite
  <2> QED BY <1>1, <1>2, <2>1, <2>2, CommitEffect DEF server
<1>7. ASSUME NEW c \in Callers, ResponseLost(c) PROVE VersionsBelow'
  <2>1. UNCHANGED seen /\ Commit(c)
    BY <1>7 DEF ResponseLost
  <2> QED BY <1>1, <2>1, CommitEffect
<1>8. ASSUME NEW k \in Keys, ElsewhereWrite(k) PROVE VersionsBelow'
  BY <1>1, <1>8 DEF ElsewhereWrite
<1>9. CASE UNCHANGED vars
  BY <1>9 DEF vars, server, VersionsBelow
<1> QED BY <1>3, <1>4, <1>5, <1>6, <1>7, <1>8, <1>9 DEF Next, Advance

LEMMA FreshPayloadStep ==
  ASSUME TypeOK, VersionsBelow, VersionOnly, FreshPayload, [Next]_vars
  PROVE  FreshPayload'
<1> SUFFICES ASSUME NEW d \in Callers PROVE Fresh(d)'
  BY DEF FreshPayload
<1>f. Fresh(d)
  BY DEF FreshPayload
<1>1. ASSUME NEW c \in Callers, Start(c) PROVE Fresh(d)'
  <2>1. CASE c = d
    BY <1>1, <2>1, <1>f, FreshStutter DEF Start, server, TypeOK
  <2>2. CASE c # d
    BY <1>1, <2>2, <1>f, FreshStutter DEF Start, server, TypeOK
  <2> QED BY <2>1, <2>2
<1>2. ASSUME NEW c \in Callers, AnswerRead(c) PROVE Fresh(d)'
  <2>0. UNCHANGED <<exists, version, data, op>>
    BY <1>2 DEF AnswerRead, server
  <2>1. CASE c # d
    <3>1. pc'[d] = pc[d] /\ side'[d] = side[d] /\ seen'[d] = seen[d] /\ payload'[d] = payload[d]
      BY <1>2, <2>1 DEF AnswerRead, SideDone, Return, TypeOK
    <3> QED BY <2>0, <3>1, <1>f, FreshStutter
  <2>2. CASE c = d
    <3>1. CASE pc'[c] = "write"
      <4> DEFINE e == Target(c)
                 cur == data[e.key][e.field]
      <4>1. /\ payload' = [payload EXCEPT ![c] = Revised(e, cur)]
            /\ UNCHANGED <<side, op>>
        BY <1>2, <3>1, NotWriting DEF AnswerRead, Return, Verdicts
      <4>2. payload'[c] = Revised(e, cur)
        BY <4>1 DEF TypeOK
      <4>3. Target(c)' = e
        BY <4>1 DEF Target
      <4> QED BY <2>0, <2>2, <4>2, <4>3 DEF Fresh
    <3>2. CASE pc'[c] # "write"
      BY <2>2, <3>2 DEF Fresh
    <3> QED BY <3>1, <3>2
  <2> QED BY <2>1, <2>2
<1>3. ASSUME NEW c \in Callers, AnswerVersion(c) PROVE Fresh(d)'
  <2>0. UNCHANGED <<exists, version, data, op>>
    BY <1>3 DEF AnswerVersion, server
  <2>1. CASE c # d
    <3>1. pc'[d] = pc[d] /\ side'[d] = side[d] /\ seen'[d] = seen[d] /\ payload'[d] = payload[d]
      BY <1>3, <2>1 DEF AnswerVersion, Return, TypeOK
    <3> QED BY <2>0, <3>1, <1>f, FreshStutter
  <2>2. CASE c = d
    <3>1. ~Derived(op[c])
      BY <1>3 DEF AnswerVersion, VersionOnly
    <3> QED BY <2>0, <2>2, <3>1 DEF Fresh
  <2> QED BY <2>1, <2>2
<1>4. ASSUME NEW c \in Callers, AnswerWrite(c) PROVE Fresh(d)'
  <2>0. UNCHANGED <<op, seen, payload>>
    BY <1>4 DEF AnswerWrite
  <2>1. SideDone(c) \/ Conflict(c) \/ Return(c, "error")
    BY <1>4 DEF AnswerWrite
  <2>2. /\ pc'[c] # "write"
        /\ \A x \in Callers \ {c} : pc'[x] = pc[x] /\ side'[x] = side[x]
    BY <2>1, NotWriting DEF Verdicts
  <2>3. CASE c = d
    BY <2>2, <2>3 DEF Fresh
  <2>4. CASE c # d /\ Commit(c)
    BY <2>0, <2>2, <2>4, <1>f, CommitEffect, FreshKept
  <2>5. CASE c # d /\ UNCHANGED server
    BY <2>0, <2>2, <2>5, <1>f, FreshStutter DEF server
  <2> QED BY <1>4, <2>3, <2>4, <2>5 DEF AnswerWrite
<1>5. ASSUME NEW c \in Callers, RequestFails(c) PROVE Fresh(d)'
  BY <1>5, <1>f, FreshStutter DEF RequestFails, SendAgain, GiveUp, server, TypeOK
<1>6. ASSUME NEW c \in Callers, ResponseLost(c) PROVE Fresh(d)'
  <2>1. Commit(c) /\ UNCHANGED <<op, seen, payload, side>> /\ SendAgain(c)
    BY <1>6 DEF ResponseLost
  <2>2. CASE pc'[d] = "write"
    <3>1. pc'[d] = pc[d]
      BY <2>1, <2>2 DEF SendAgain, TypeOK
    <3> QED BY <2>1, <3>1, <1>f, CommitEffect, FreshKept
  <2>3. CASE pc'[d] # "write"
    BY <2>3 DEF Fresh
  <2> QED BY <2>2, <2>3
<1>7. ASSUME NEW k \in Keys, ElsewhereWrite(k) PROVE Fresh(d)'
  <2>1. \A j \in Keys \ {k} : data'[j] = data[j] /\ exists'[j] = exists[j]
    BY <1>7 DEF ElsewhereWrite, TypeOK
  <2> QED BY <1>7, <2>1, <1>f, FreshKept DEF ElsewhereWrite
<1>8. CASE UNCHANGED vars
  BY <1>8, <1>f, FreshStutter DEF vars, server
<1> QED BY <1>1, <1>2, <1>3, <1>4, <1>5, <1>6, <1>7, <1>8 DEF Next, Advance

LEMMA VersionOnlyStep ==
  ASSUME TypeOK, VersionOnly, [Next]_vars
  PROVE  VersionOnly'
<1> USE DEF VersionOnly
<1>1. ASSUME NEW c \in Callers, UNCHANGED op, \A d \in Callers \ {c} : pc'[d] = pc[d],
             pc'[c] = "version" => pc[c] = "version" \/ ~Derived(op[c])
      PROVE  VersionOnly'
  BY <1>1
<1>2. ASSUME NEW c \in Callers, Start(c) PROVE VersionOnly'
  BY <1>1, <1>2 DEF Start, TypeOK, Derived
<1>3. ASSUME NEW c \in Callers, AnswerRead(c) PROVE VersionOnly'
  BY <1>1, <1>3 DEF AnswerRead, SideDone, Return, TypeOK
<1>4. ASSUME NEW c \in Callers, AnswerVersion(c) PROVE VersionOnly'
  BY <1>1, <1>4 DEF AnswerVersion, Return, TypeOK
<1>5. ASSUME NEW c \in Callers, AnswerWrite(c) PROVE VersionOnly'
  <2>1. SideDone(c) \/ Conflict(c) \/ Return(c, "error")
    BY <1>5 DEF AnswerWrite
  <2>2. UNCHANGED op
    BY <1>5 DEF AnswerWrite
  <2>3. /\ \A d \in Callers \ {c} : pc'[d] = pc[d]
        /\ pc'[c] = "version" => ~Derived(op[c])
    BY <2>1 DEF SideDone, Conflict, Return, TypeOK
  <2> QED BY <1>1, <2>2, <2>3
<1>6. ASSUME NEW c \in Callers, RequestFails(c) \/ ResponseLost(c) PROVE VersionOnly'
  <2>1. (SendAgain(c) \/ GiveUp(c)) /\ UNCHANGED op
    BY <1>6 DEF RequestFails, ResponseLost
  <2> QED BY <1>1, <2>1 DEF SendAgain, GiveUp, TypeOK
<1>7. ASSUME NEW k \in Keys, ElsewhereWrite(k) PROVE VersionOnly'
  BY <1>7 DEF ElsewhereWrite
<1>8. CASE UNCHANGED vars
  BY <1>8 DEF vars
<1> QED BY <1>2, <1>3, <1>4, <1>5, <1>6, <1>7, <1>8 DEF Next, Advance

\* items.go:234-250, patchItemDerived: a payload the server would accept was
\* derived from the very contents it replaces, whatever was lost, retried or
\* written by others between the GET and the PATCH.
THEOREM PayloadsFresh == Spec => []FreshPayload
<1> DEFINE IInv == TypeOK /\ VersionsBelow /\ VersionOnly /\ FreshPayload
<1>1. Init => IInv
  <2>1. Init => TypeOK
    BY Assumption DEF Init, TypeOK, Exchanges, Verdicts
  <2> QED BY <2>1 DEF Init, VersionsBelow, VersionOnly, FreshPayload, Fresh
<1>2. IInv /\ TypeOK' /\ [Next]_vars => IInv'
  BY VersionsBelowStep, VersionOnlyStep, FreshPayloadStep
<1>3. IInv => FreshPayload
  OBVIOUS
<1> QED BY <1>1, <1>2, <1>3, TypeCorrect, PTL DEF Spec
-----------------------------------------------------------------------------
(***************************************************************************)
(* Where every operation derives what it writes (no relations), a commit   *)
(* is the atomic edit it was asked for.                                    *)
(***************************************************************************)
NoRelations == \A o \in Ops : ~Relational(o)

\* The exact effect of a commit on the library.
LEMMA CommitIsEdit ==
  ASSUME NoRelations, TypeOK, FreshPayload, NEW c \in Callers, pc[c] = "write",
         exists[Target(c).key], version[Target(c).key] = seen[c], Commit(c)
  PROVE  LET e == Target(c) IN
         /\ e = op[c] /\ e \in Edits
         /\ e.kind = "trash" => exists' = [exists EXCEPT ![e.key] = FALSE] /\ data' = data
         /\ e.kind # "trash" => /\ exists' = exists
                               /\ data' = [data EXCEPT ![e.key][e.field] =
                                             Revised(e, data[e.key][e.field])]
<1> DEFINE e == Target(c)
<1>1. op[c] \in Ops /\ ~Relational(op[c])
  BY DEF NoRelations, TypeOK
<1>2. e = op[c] /\ e \in Edits
  BY <1>1, TargetType DEF Target, EditOf
<1>3. CASE e.kind = "trash"
  BY <1>2, <1>3 DEF Commit
<1>4. CASE e.kind # "trash"
  <2>1. Derived(op[c])
    BY <1>2, <1>4 DEF Derived, Edits
  <2>2. payload[c] = Revised(e, data[e.key][e.field])
    BY <2>1 DEF FreshPayload, Fresh
  <2> QED BY <1>2, <1>4, <2>2 DEF Commit
<1> QED BY <1>2, <1>3, <1>4

LEMMA KeepsElementsStep ==
  ASSUME NoRelations, TypeOK, FreshPayload, [Next]_vars
  PROVE  [KeepsElements]_vars
<1>1. ASSUME data' = data PROVE KeepsElements
  BY <1>1 DEF KeepsElements
<1>2. ASSUME NEW c \in Callers, pc[c] = "write", exists[Target(c).key],
             version[Target(c).key] = seen[c], Commit(c)
      PROVE  KeepsElements
  <2> DEFINE e == Target(c)
  <2>1. CASE e.kind = "trash"
    BY <1>1, <1>2, <2>1, CommitIsEdit
  <2>2. CASE e.kind # "trash"
    <3>1. e \in Edits /\ e.key \in Keys /\ e.field \in Fields
      BY TargetType
    <3>2. data' = [data EXCEPT ![e.key][e.field] = Revised(e, data[e.key][e.field])]
      BY <1>2, <2>2, CommitIsEdit
    <3>3. ASSUME NEW k \in Keys, NEW f \in Fields, NEW x \in data[k][f] \ data'[k][f]
          PROVE  e = [kind |-> "remove", key |-> k, field |-> f, elem |-> x]
      <4>1. k = e.key /\ f = e.field
        BY <3>1, <3>2, <3>3 DEF TypeOK
      <4>2. data'[k][f] = Revised(e, data[k][f])
        BY <3>1, <3>2, <4>1 DEF TypeOK
      <4>3. e.kind = "remove" /\ e.elem = x
        BY <3>1, <3>3, <2>2, <4>2 DEF Revised, Edits
      <4> QED BY <3>1, <4>1, <4>3 DEF Edits
    <3> QED BY <1>2, <3>3 DEF KeepsElements
  <2> QED BY <2>1, <2>2
<1>3. ASSUME NEW c \in Callers, Start(c) \/ Advance(c) PROVE KeepsElements
  <2>1. CASE Start(c) \/ AnswerRead(c) \/ AnswerVersion(c) \/ RequestFails(c)
    BY <1>1, <2>1 DEF Start, AnswerRead, AnswerVersion, RequestFails, server
  <2>2. CASE AnswerWrite(c)
    BY <1>1, <1>2, <2>2 DEF AnswerWrite, server
  <2>3. CASE ResponseLost(c)
    BY <1>2, <2>3 DEF ResponseLost
  <2> QED BY <1>3, <2>1, <2>2, <2>3 DEF Advance
<1>4. ASSUME NEW k \in Keys, ElsewhereWrite(k) PROVE KeepsElements
  <2>1. elsewhere' # elsewhere
    BY <1>4 DEF ElsewhereWrite, TypeOK
  <2> QED BY <2>1 DEF KeepsElements
<1> QED BY <1>3, <1>4 DEF Next

\* patchItemDerived, TrashItem: no commit of sci takes away an element that no
\* running operation was asked to remove, so what other writers add is kept.
THEOREM OthersKept == NoRelations /\ Spec => KeepsOtherElements
<1> SUFFICES ASSUME NoRelations PROVE Spec => KeepsOtherElements
  OBVIOUS
<1>1. TypeOK /\ FreshPayload /\ [Next]_vars => [KeepsElements]_vars
  BY KeepsElementsStep
<1> QED BY <1>1, TypeCorrect, PayloadsFresh, PTL DEF Spec, KeepsOtherElements
-----------------------------------------------------------------------------
(***************************************************************************)
(* Refinement.  Besides IInv the step simulation needs to know that        *)
(* TrashItem never reads (ReadOnly) and that a call only ever made edits it *)
(* was asked for (MadeAsked).                                              *)
(***************************************************************************)
ReadOnly == \A c \in Callers : pc[c] = "read" => op[c].kind # "trash"

MadeAsked == \A c \in Callers : made[c] \subseteq EditsOf(op[c])

LEMMA TargetAsked ==
  ASSUME TypeOK, NEW c \in Callers
  PROVE  Target(c) \in EditsOf(op[c])
  BY DEF Target, EditsOf, TypeOK

LEMMA MadeAskedStep ==
  ASSUME TypeOK, MadeAsked, [Next]_vars
  PROVE  MadeAsked'
<1>1. ASSUME UNCHANGED op, UNCHANGED made PROVE MadeAsked'
  BY <1>1 DEF MadeAsked
<1>2. ASSUME UNCHANGED op, NEW c \in Callers,
             made' = [made EXCEPT ![c] = @ \union {Target(c)}]
      PROVE  MadeAsked'
  BY <1>2, TargetAsked DEF MadeAsked, TypeOK
<1>3. ASSUME NEW c \in Callers, Start(c) \/ AnswerVersion(c) \/ RequestFails(c) PROVE MadeAsked'
  BY <1>1, <1>3 DEF Start, AnswerVersion, RequestFails, Return
<1>4. ASSUME NEW c \in Callers, AnswerRead(c) PROVE MadeAsked'
  BY <1>1, <1>2, <1>4 DEF AnswerRead, SideDone, Return
<1>5. ASSUME NEW c \in Callers, AnswerWrite(c) PROVE MadeAsked'
  BY <1>1, <1>2, <1>5 DEF AnswerWrite, Conflict, SideDone, Return
<1>6. ASSUME NEW c \in Callers, ResponseLost(c) PROVE MadeAsked'
  BY <1>2, <1>6 DEF ResponseLost
<1>7. ASSUME NEW k \in Keys, ElsewhereWrite(k) PROVE MadeAsked'
  BY <1>1, <1>7 DEF ElsewhereWrite
<1>8. CASE UNCHANGED vars
  BY <1>1, <1>8 DEF vars
<1> QED BY <1>3, <1>4, <1>5, <1>6, <1>7, <1>8 DEF Next, Advance

LEMMA ReadOnlyStep ==
  ASSUME TypeOK, ReadOnly, [Next]_vars
  PROVE  ReadOnly'
<1> USE DEF ReadOnly
<1>1. ASSUME NEW c \in Callers, UNCHANGED op, \A d \in Callers \ {c} : pc'[d] = pc[d],
             pc'[c] = "read" => pc[c] = "read" \/ op[c].kind # "trash"
      PROVE  ReadOnly'
  BY <1>1
<1>2. ASSUME NEW c \in Callers, Start(c) PROVE ReadOnly'
  BY <1>1, <1>2 DEF Start, TypeOK
<1>3. ASSUME NEW c \in Callers, AnswerRead(c) PROVE ReadOnly'
  BY <1>1, <1>3 DEF AnswerRead, SideDone, Return, TypeOK
<1>4. ASSUME NEW c \in Callers, AnswerVersion(c) PROVE ReadOnly'
  BY <1>1, <1>4 DEF AnswerVersion, Return, TypeOK
<1>5. ASSUME NEW c \in Callers, AnswerWrite(c) PROVE ReadOnly'
  <2>1. SideDone(c) \/ Conflict(c) \/ Return(c, "error")
    BY <1>5 DEF AnswerWrite
  <2>2. UNCHANGED op
    BY <1>5 DEF AnswerWrite
  <2>3. /\ \A d \in Callers \ {c} : pc'[d] = pc[d]
        /\ pc'[c] = "read" => op[c].kind # "trash"
    BY <2>1 DEF SideDone, Conflict, Return, TypeOK, Derived, Relational
  <2> QED BY <1>1, <2>2, <2>3
<1>6. ASSUME NEW c \in Callers, RequestFails(c) \/ ResponseLost(c) PROVE ReadOnly'
  <2>1. (SendAgain(c) \/ GiveUp(c)) /\ UNCHANGED op
    BY <1>6 DEF RequestFails, ResponseLost
  <2> QED BY <1>1, <2>1 DEF SendAgain, GiveUp, TypeOK
<1>7. ASSUME NEW k \in Keys, ElsewhereWrite(k) PROVE ReadOnly'
  BY <1>7 DEF ElsewhereWrite
<1>8. CASE UNCHANGED vars
  BY <1>8 DEF vars
<1> QED BY <1>2, <1>3, <1>4, <1>5, <1>6, <1>7, <1>8 DEF Next, Advance

asked == [c \in Callers |-> EditsOf(op[c])]
verdict == [c \in Callers |-> VerdictOf(c)]

\* A step of c that only moves its own verdict.
LEMMA VerdictChange ==
  ASSUME TypeOK, NEW c \in Callers, \A d \in Callers \ {c} : pc'[d] = pc[d]
  PROVE  verdict' = [verdict EXCEPT ![c] = VerdictOf(c)']
  BY DEF verdict, VerdictOf

\* An edit of c takes effect: the abstract MakeEdit, whatever c learns of it.
LEMMA MakeEditStep ==
  ASSUME NoRelations, TypeOK, MadeAsked, NEW c \in Callers, pc[c] \in Exchanges,
         exists[Target(c).key], UNCHANGED op,
         made' = [made EXCEPT ![c] = @ \union {Target(c)}],
         \A d \in Callers \ {c} : pc'[d] = pc[d],
         VerdictOf(c)' \in {"pending", "ok", "failed"},
         Target(c).kind = "trash" => exists' = [exists EXCEPT ![Target(c).key] = FALSE] /\ data' = data,
         Target(c).kind # "trash" =>
           /\ exists' = exists
           /\ data' = [data EXCEPT ![Target(c).key][Target(c).field] =
                         Revised(Target(c), data[Target(c).key][Target(c).field])]
  PROVE  Abstract!Next
<1> DEFINE e == Target(c)
<1>1. op[c] \in Ops /\ ~Relational(op[c])
  BY DEF NoRelations, TypeOK
<1>2. e = op[c] /\ EditsOf(op[c]) = {e}
  BY <1>1 DEF Target, EditOf, EditsOf
<1>3. made'[c] = EditsOf(op[c])
  BY <1>2 DEF MadeAsked, TypeOK
<1>4. verdict' = [verdict EXCEPT ![c] = VerdictOf(c)'] /\ verdict[c] = "pending"
  BY VerdictChange DEF verdict, VerdictOf
<1>5. asked' = asked /\ asked[c] = {e}
  BY <1>2 DEF asked
<1>6. e \in Edits /\ e.key \in Keys /\ e.field \in Fields
  BY TargetType
<1>7. /\ e.kind # "trash" => data' = [data EXCEPT ![e.key][e.field] = Abstract!Revised(e, @)]
  BY <1>6 DEF Abstract!Revised, Revised, TypeOK
<1>8. Abstract!MakeEdit(c, e)
  BY <1>2, <1>3, <1>4, <1>5, <1>6, <1>7 DEF Abstract!MakeEdit, asked, verdict
<1> QED BY <1>5, <1>8 DEF Abstract!Next, asked

\* Steps that change nothing ItemEdits sees but, perhaps, the verdict of c.
LEMMA QuietStep ==
  ASSUME TypeOK, NEW c \in Callers, UNCHANGED <<exists, data, op, made>>,
         \A d \in Callers \ {c} : pc'[d] = pc[d],
         \/ VerdictOf(c)' = VerdictOf(c)
         \/ VerdictOf(c) = "idle" /\ VerdictOf(c)' \in {"pending", "failed"}
         \/ VerdictOf(c) = "pending" /\ VerdictOf(c)' = "failed"
  PROVE  [Abstract!Next]_(Abstract!vars)
<1>1. verdict' = [verdict EXCEPT ![c] = VerdictOf(c)'] /\ verdict[c] = VerdictOf(c)
  BY VerdictChange DEF verdict
<1>2. asked' = asked
  BY DEF asked
<1>3. CASE VerdictOf(c)' = VerdictOf(c)
  <2>1. verdict' = verdict
    BY <1>1, <1>3 DEF verdict
  <2> QED BY <1>2, <2>1 DEF Abstract!vars, asked, verdict
<1>4. CASE VerdictOf(c) = "idle" /\ VerdictOf(c)' \in {"pending", "failed"}
  <2>1. Abstract!Begin(c)
    BY <1>1, <1>2, <1>4 DEF Abstract!Begin, asked, verdict
  <2> QED BY <2>1 DEF Abstract!Next
<1>5. CASE VerdictOf(c) = "pending" /\ VerdictOf(c)' = "failed"
  <2>1. Abstract!Fail(c)
    BY <1>1, <1>2, <1>5 DEF Abstract!Fail, asked, verdict
  <2> QED BY <2>1 DEF Abstract!Next
<1> QED BY <1>3, <1>4, <1>5

\* Another program's write is the abstract Elsewhere.
LEMMA ElsewhereStep ==
  ASSUME TypeOK, NEW k \in Keys, ElsewhereWrite(k)
  PROVE  [Abstract!Next]_(Abstract!vars)
<1>1. asked' = asked /\ verdict' = verdict /\ made' = made /\ exists[k]
  BY DEF ElsewhereWrite, asked, verdict, VerdictOf
<1>2. CASE exists' = [exists EXCEPT ![k] = FALSE] /\ UNCHANGED data
  <2>1. Abstract!Elsewhere(k)
    BY <1>1, <1>2 DEF Abstract!Elsewhere, asked, verdict
  <2> QED BY <2>1 DEF Abstract!Next
<1>3. ASSUME NEW f \in Fields, NEW x \in Elems, UNCHANGED exists,
             data' = [data EXCEPT ![k][f] = IF x \in @ THEN @ \ {x} ELSE @ \union {x}]
      PROVE  [Abstract!Next]_(Abstract!vars)
  <2> DEFINE S == IF x \in data[k][f] THEN data[k][f] \ {x} ELSE data[k][f] \union {x}
  <2>1. S \in SUBSET Elems /\ data' = [data EXCEPT ![k][f] = S]
    BY <1>3 DEF TypeOK
  <2>2. Abstract!Elsewhere(k)
    BY <1>1, <1>3, <2>1 DEF Abstract!Elsewhere, asked, verdict
  <2> QED BY <2>2 DEF Abstract!Next
<1> QED BY <1>2, <1>3 DEF ElsewhereWrite

LEMMA SimulationStep ==
  ASSUME NoRelations, TypeOK, FreshPayload, MadeAsked, ReadOnly, [Next]_vars
  PROVE  [Abstract!Next]_(Abstract!vars)
<1> USE DEF Exchanges
<1>1. ASSUME NEW c \in Callers, Start(c) PROVE [Abstract!Next]_(Abstract!vars)
  <2>1. /\ UNCHANGED <<exists, data, op, made>>
        /\ \A d \in Callers \ {c} : pc'[d] = pc[d]
        /\ pc[c] = "idle" /\ pc'[c] \in {"error", "version", "read"}
    BY <1>1 DEF Start, server, TypeOK
  <2> QED BY <2>1, QuietStep DEF VerdictOf
<1>2. ASSUME NEW c \in Callers, AnswerRead(c) PROVE [Abstract!Next]_(Abstract!vars)
  <2> DEFINE e == Target(c)
             cur == data[e.key][e.field]
  <2>1. UNCHANGED <<exists, data, op>> /\ pc[c] = "read"
    BY <1>2 DEF AnswerRead, server
  <2>2. op[c].kind # "trash" /\ op[c] \in Ops /\ ~Relational(op[c])
    BY <2>1 DEF ReadOnly, TypeOK, NoRelations
  <2>3. CASE exists[e.key] /\ ~Needed(e, cur) /\ SideDone(c)
    <3>1. /\ pc' = [pc EXCEPT ![c] = "ok"]
          /\ made' = [made EXCEPT ![c] = @ \union {e}]
      BY <2>2, <2>3 DEF SideDone
    <3>2. /\ \A d \in Callers \ {c} : pc'[d] = pc[d]
          /\ VerdictOf(c)' = "ok"
      BY <3>1 DEF TypeOK, VerdictOf
    <3>3. e.key \in Keys /\ e.field \in Fields
      BY TargetType
    <3>4. data' = [data EXCEPT ![e.key][e.field] = Revised(e, cur)]
      BY <2>1, <2>3, <3>3 DEF Needed, TypeOK
    <3>5. e.kind # "trash"
      BY <2>2 DEF Target, EditOf
    <3> QED BY <2>1, <2>3, <3>1, <3>2, <3>4, <3>5, MakeEditStep
  <2>4. CASE \E v \in {"error", "write", "version"} : Return(c, v)
    <3>1. /\ UNCHANGED made /\ \A d \in Callers \ {c} : pc'[d] = pc[d]
          /\ pc'[c] \in {"error", "write", "version"}
      BY <2>4 DEF Return, TypeOK
    <3> QED BY <2>1, <3>1, QuietStep DEF VerdictOf
  <2> QED BY <1>2, <2>3, <2>4 DEF AnswerRead
<1>3. ASSUME NEW c \in Callers, AnswerVersion(c) PROVE [Abstract!Next]_(Abstract!vars)
  <2>1. /\ UNCHANGED <<exists, data, op>> /\ pc[c] = "version"
        /\ \E v \in {"error", "write"} : Return(c, v)
    BY <1>3 DEF AnswerVersion, server
  <2>2. /\ UNCHANGED made /\ \A d \in Callers \ {c} : pc'[d] = pc[d]
        /\ pc'[c] \in {"error", "write"}
    BY <2>1 DEF Return, TypeOK
  <2> QED BY <2>1, <2>2, QuietStep DEF VerdictOf
<1>4. ASSUME NEW c \in Callers, AnswerWrite(c) PROVE [Abstract!Next]_(Abstract!vars)
  <2>1. UNCHANGED op /\ pc[c] = "write"
    BY <1>4 DEF AnswerWrite
  <2>2. CASE exists[Target(c).key] /\ version[Target(c).key] = seen[c] /\ Commit(c) /\ SideDone(c)
    <3>1. op[c] \in Ops /\ ~Relational(op[c])
      BY DEF NoRelations, TypeOK
    <3>2. /\ pc' = [pc EXCEPT ![c] = "ok"]
          /\ made' = [made EXCEPT ![c] = @ \union {Target(c)}]
      BY <2>2, <3>1 DEF SideDone
    <3>3. /\ \A d \in Callers \ {c} : pc'[d] = pc[d]
          /\ VerdictOf(c)' = "ok"
      BY <3>2 DEF TypeOK, VerdictOf
    <3> QED BY <2>1, <2>2, <3>2, <3>3, CommitIsEdit, MakeEditStep
  <2>3. CASE UNCHANGED server /\ (Conflict(c) \/ Return(c, "error"))
    <3>1. /\ UNCHANGED made /\ \A d \in Callers \ {c} : pc'[d] = pc[d]
          /\ pc'[c] \in {"error", "read", "version", "conflict"}
      BY <2>3 DEF Conflict, Return, TypeOK
    <3> QED BY <2>1, <2>3, <3>1, QuietStep DEF VerdictOf, server
  <2> QED BY <1>4, <2>2, <2>3 DEF AnswerWrite
<1>5. ASSUME NEW c \in Callers, RequestFails(c) PROVE [Abstract!Next]_(Abstract!vars)
  <2>1. /\ UNCHANGED <<exists, data, op, made>> /\ pc[c] \in Exchanges /\ (SendAgain(c) \/ GiveUp(c))
    BY <1>5 DEF RequestFails, server
  <2>2. /\ \A d \in Callers \ {c} : pc'[d] = pc[d]
        /\ pc'[c] = pc[c] \/ pc'[c] = "error"
    BY <2>1 DEF SendAgain, GiveUp, TypeOK
  <2> QED BY <2>1, <2>2, QuietStep DEF VerdictOf
<1>6. ASSUME NEW c \in Callers, ResponseLost(c) PROVE [Abstract!Next]_(Abstract!vars)
  <2>1. /\ UNCHANGED op /\ pc[c] = "write" /\ SendAgain(c) /\ Commit(c)
        /\ exists[Target(c).key] /\ version[Target(c).key] = seen[c]
        /\ made' = [made EXCEPT ![c] = @ \union {Target(c)}]
    BY <1>6 DEF ResponseLost
  <2>2. /\ \A d \in Callers \ {c} : pc'[d] = pc[d]
        /\ VerdictOf(c)' \in {"pending", "failed"}
    BY <2>1 DEF SendAgain, TypeOK, VerdictOf
  <2> QED BY <2>1, <2>2, CommitIsEdit, MakeEditStep
<1>7. CASE UNCHANGED vars
  BY <1>7 DEF vars, server, Abstract!vars, VerdictOf
<1> QED BY <1>1, <1>2, <1>3, <1>4, <1>5, <1>6, <1>7, ElsewhereStep DEF Next, Advance

LEMMA SimulationInit ==
  ASSUME Init
  PROVE  Abstract!Init /\ MadeAsked /\ ReadOnly
<1>1. data \in [Keys -> [Fields -> SUBSET Elems]]
  BY Assumption DEF Init
<1>2. asked \in [Callers -> SUBSET Abstract!Edits]
  <2>1. \A c \in Callers : EditsOf(op[c]) \subseteq Edits
    BY EditOfType DEF Init, EditsOf
  <2> QED BY <2>1 DEF asked, Abstract!Edits, Edits
<1>3. verdict = [c \in Callers |-> "idle"]
  BY DEF Init, verdict, VerdictOf, Exchanges
<1> QED BY <1>1, <1>2, <1>3 DEF Init, Abstract!Init, asked, verdict, MadeAsked, ReadOnly

\* The derived edits and TrashItem implement ItemEdits: atomic, never lost once
\* acknowledged, whatever the network and the other writers do.
THEOREM Refinement == NoRelations /\ Spec => ImplementsItemEdits
<1> SUFFICES ASSUME NoRelations PROVE Spec => ImplementsItemEdits
  OBVIOUS
<1>1. TypeOK /\ MadeAsked /\ ReadOnly /\ [Next]_vars => MadeAsked' /\ ReadOnly'
  BY MadeAskedStep, ReadOnlyStep
<1>2. TypeOK /\ FreshPayload /\ MadeAsked /\ ReadOnly /\ [Next]_vars
        => [Abstract!Next]_(Abstract!vars)
  BY SimulationStep
<1>3. Init => Abstract!Init /\ MadeAsked /\ ReadOnly
  BY SimulationInit
<1> QED BY <1>1, <1>2, <1>3, TypeCorrect, PayloadsFresh, PTL
        DEF Spec, ImplementsItemEdits, Abstract!Spec

-----------------------------------------------------------------------------
(***************************************************************************)
(* While nobody else writes its item, a derived edit meets at most one 412, *)
(* the one of its own committed write, and finds nothing left to do then.   *)
(***************************************************************************)
Undone(c) == Needed(Target(c), data[Target(c).key][Target(c).field])

Undisturbed(c) ==
  Derived(op[c]) /\ ~rival[c] =>
    /\ pc[c] # "conflict"
    /\ pc[c] = "idle" => round[c] = 0
    /\ pc[c] = "read" => round[c] = 0 \/ ~Undone(c)
    /\ pc[c] = "write" => round[c] = 0 /\ (version[Target(c).key] = seen[c] \/ ~Undone(c))

Alone == \A c \in Callers : Undisturbed(c)

-----------------------------------------------------------------------------
\* Steps of others, and steps of c outside its exchanges, leave it undisturbed.
LEMMA UndisturbedStutter ==
  ASSUME NEW c \in Callers, Undisturbed(c), UNCHANGED <<version, data, op>>, rival[c] => rival'[c],
         \/ pc'[c] \in {"ok", "error"}
         \/ UNCHANGED <<pc[c], side[c], round[c], seen[c]>>
  PROVE  Undisturbed(c)'
  BY DEF Undisturbed, Undone, Needed, Target

\* Writing item k leaves those undisturbed that it does not make a rival of.
LEMMA UndisturbedCommit ==
  ASSUME TypeOK, NEW c \in Callers, Undisturbed(c), NEW k \in Keys, NEW others \in SUBSET Callers,
         c \in others, RivalsOf(k, others),
         UNCHANGED <<op, pc[c], side[c], round[c], seen[c]>>,
         \A j \in Keys \ {k} : data'[j] = data[j] /\ version'[j] = version[j]
  PROVE  Undisturbed(c)'
<1> DEFINE e == Target(c)
<1>1. ~rival'[c] => ~rival[c]
  BY DEF RivalsOf
<1>2. CASE pc[c] = "idle" \/ rival'[c] \/ ~Derived(op[c])
  BY <1>1, <1>2 DEF Undisturbed
<1>3. CASE pc[c] # "idle" /\ ~rival'[c] /\ Derived(op[c])
  <2>1. e.key # k
    BY <1>3, TargetAsked DEF RivalsOf
  <2>2. e.key \in Keys /\ e' = e
    BY TargetType DEF Target
  <2>3. data'[e.key] = data[e.key] /\ version'[e.key] = version[e.key]
    BY <2>1, <2>2
  <2>4. Undone(c)' = Undone(c)
    BY <2>2, <2>3 DEF Undone, Needed
  <2> QED BY <1>1, <1>3, <2>2, <2>3, <2>4 DEF Undisturbed
<1> QED BY <1>2, <1>3

\* Once its own write is committed, a derived edit has nothing left to do.
LEMMA CommitDone ==
  ASSUME TypeOK, FreshPayload, NEW c \in Callers, pc[c] = "write", Derived(op[c]),
         exists[Target(c).key], version[Target(c).key] = seen[c], Commit(c), UNCHANGED <<op, side>>
  PROVE  ~Undone(c)'
<1> DEFINE e == Target(c)
<1>1. e.key \in Keys /\ e.field \in Fields /\ e' = e
  BY TargetType DEF Target
<1>2. e.kind \in {"add", "remove"}
  BY DEF Target, EditOf, Derived, Relational
<1>3. data' = [data EXCEPT ![e.key][e.field] = Revised(e, data[e.key][e.field])]
  BY <1>2 DEF Commit, FreshPayload, Fresh
<1>4. data'[e.key][e.field] = Revised(e, data[e.key][e.field])
  BY <1>1, <1>3 DEF TypeOK
<1>5. Revised(e, Revised(e, data[e.key][e.field])) = Revised(e, data[e.key][e.field])
  BY <1>2 DEF Revised
<1> QED BY <1>1, <1>4, <1>5 DEF Undone, Needed

LEMMA AloneStep ==
  ASSUME TypeOK, VersionOnly, FreshPayload, Alone, [Next]_vars
  PROVE  Alone'
<1> SUFFICES ASSUME NEW d \in Callers PROVE Undisturbed(d)'
  BY DEF Alone
<1>u. Undisturbed(d)
  BY DEF Alone
<1>1. ASSUME NEW c \in Callers, Start(c) PROVE Undisturbed(d)'
  <2>1. UNCHANGED <<version, data, op, rival, side, round, seen>>
    BY <1>1 DEF Start, server
  <2>2. CASE c # d
    <3>1. pc'[d] = pc[d]
      BY <1>1, <2>2 DEF Start, TypeOK
    <3> QED BY <2>1, <3>1, <1>u, UndisturbedStutter
  <2>3. CASE c = d
    <3>1. pc[d] = "idle" /\ pc'[d] \in {"error", "version", "read"}
      BY <1>1, <2>3 DEF Start, TypeOK
    <3> QED BY <2>1, <3>1, <1>u DEF Undisturbed
  <2> QED BY <2>2, <2>3
<1>2. ASSUME NEW c \in Callers, AnswerRead(c) PROVE Undisturbed(d)'
  <2>1. UNCHANGED <<version, data, op, rival>>
    BY <1>2 DEF AnswerRead, server
  <2>2. CASE c # d
    <3>1. UNCHANGED <<pc[d], side[d], round[d], seen[d]>>
      BY <1>2, <2>2 DEF AnswerRead, SideDone, Return, TypeOK
    <3> QED BY <2>1, <3>1, <1>u, UndisturbedStutter
  <2>3. CASE c = d /\ Derived(op[d])
    <3>1. CASE pc'[d] \in {"ok", "error"}
      BY <2>1, <3>1, <1>u, UndisturbedStutter
    <3>2. CASE pc'[d] \notin {"ok", "error"}
      <4>1. /\ Undone(d) /\ pc[d] = "read" /\ UNCHANGED <<side, round>>
            /\ seen' = [seen EXCEPT ![d] = version[Target(d).key]]
            /\ pc' = [pc EXCEPT ![d] = "write"]
        BY <1>2, <2>3, <3>2 DEF AnswerRead, SideDone, Return, Undone, Derived, Relational, TypeOK
      <4>2. seen'[d] = version[Target(d).key] /\ pc'[d] = "write" /\ Target(d)' = Target(d)
        BY <2>1, <4>1 DEF TypeOK, Target
      <4> QED BY <2>1, <4>1, <4>2, <1>u DEF Undisturbed
    <3> QED BY <3>1, <3>2
  <2>4. CASE ~Derived(op[d])
    BY <2>1, <2>4 DEF Undisturbed
  <2> QED BY <2>2, <2>3, <2>4
<1>3. ASSUME NEW c \in Callers, AnswerVersion(c) PROVE Undisturbed(d)'
  <2>1. UNCHANGED <<version, data, op, rival>>
    BY <1>3 DEF AnswerVersion, server
  <2>2. CASE c # d
    <3>1. UNCHANGED <<pc[d], side[d], round[d], seen[d]>>
      BY <1>3, <2>2 DEF AnswerVersion, Return, TypeOK
    <3> QED BY <2>1, <3>1, <1>u, UndisturbedStutter
  <2>3. CASE c = d
    BY <1>3, <2>1, <2>3 DEF AnswerVersion, VersionOnly, Undisturbed
  <2> QED BY <2>2, <2>3
<1>4. ASSUME NEW c \in Callers, AnswerWrite(c) PROVE Undisturbed(d)'
  <2>1. UNCHANGED <<op, seen>> /\ pc[c] = "write"
    BY <1>4 DEF AnswerWrite
  <2>2. ASSUME c # d PROVE UNCHANGED <<pc[d], side[d], round[d]>>
    BY <1>4, <2>2 DEF AnswerWrite, SideDone, Conflict, Return, TypeOK
  <2>3. CASE Commit(c) /\ SideDone(c)
    <3>1. CASE c # d
      <4>1. /\ Target(c).key \in Keys /\ RivalsOf(Target(c).key, Callers \ {c})
            /\ \A j \in Keys \ {Target(c).key} : data'[j] = data[j] /\ version'[j] = version[j]
        BY <2>3, CommitEffect DEF Commit, TypeOK
      <4> QED BY <2>1, <2>2, <3>1, <4>1, <1>u, UndisturbedCommit
    <3>2. CASE c = d
      <4>1. Derived(op[c]) => pc'[c] = "ok"
        BY <2>3 DEF SideDone, Derived, Relational, TypeOK
      <4> QED BY <2>1, <3>2, <4>1 DEF Undisturbed
    <3> QED BY <3>1, <3>2
  <2>4. CASE /\ exists[Target(c).key] /\ version[Target(c).key] # seen[c]
             /\ Conflict(c) /\ UNCHANGED <<server, rival>>
    <3>1. CASE c # d
      BY <2>1, <2>2, <2>4, <3>1, <1>u, UndisturbedStutter DEF server
    <3>2. CASE c = d
      <4> SUFFICES ASSUME Derived(op[d]), ~rival[d] PROVE Undisturbed(d)'
        BY <2>1, <2>4 DEF Undisturbed
      <4>1. round[d] = 0 /\ ~Undone(d)
        BY <2>1, <2>4, <3>2, <1>u DEF Undisturbed
      <4>2. pc'[d] = "read" /\ side' = side
        BY <2>4, <3>2, <4>1 DEF Conflict, TypeOK
      <4>3. ~Undone(d)'
        BY <2>1, <2>4, <4>1, <4>2 DEF Undone, Target, server
      <4> QED BY <4>2, <4>3 DEF Undisturbed
    <3> QED BY <3>1, <3>2
  <2>5. CASE Return(c, "error") /\ UNCHANGED <<server, rival>>
    <3>1. c = d => pc'[d] = "error"
      BY <2>5 DEF Return, TypeOK
    <3> QED BY <2>1, <2>2, <2>5, <3>1, <1>u, UndisturbedStutter DEF server
  <2> QED BY <1>4, <2>3, <2>4, <2>5 DEF AnswerWrite
<1>5. ASSUME NEW c \in Callers, RequestFails(c) PROVE Undisturbed(d)'
  <2>1. UNCHANGED <<version, data, op, rival, side, round, seen>>
    BY <1>5 DEF RequestFails, server
  <2>2. pc'[d] = pc[d] \/ pc'[d] = "error"
    BY <1>5 DEF RequestFails, SendAgain, GiveUp, TypeOK
  <2> QED BY <2>1, <2>2, <1>u, UndisturbedStutter
<1>6. ASSUME NEW c \in Callers, ResponseLost(c) PROVE Undisturbed(d)'
  <2>1. /\ UNCHANGED <<op, side, round, seen>> /\ pc[c] = "write"
        /\ exists[Target(c).key] /\ version[Target(c).key] = seen[c]
        /\ Commit(c) /\ SendAgain(c)
    BY <1>6 DEF ResponseLost
  <2>2. \A x \in Callers : pc'[x] = pc[x] \/ (x = c /\ pc'[x] = "error")
    BY <2>1 DEF SendAgain, TypeOK
  <2>3. CASE c # d
    <3>1. /\ Target(c).key \in Keys /\ RivalsOf(Target(c).key, Callers \ {c})
          /\ \A j \in Keys \ {Target(c).key} : data'[j] = data[j] /\ version'[j] = version[j]
      BY <2>1, CommitEffect DEF Commit, TypeOK
    <3> QED BY <2>1, <2>2, <2>3, <3>1, <1>u, UndisturbedCommit
  <2>4. CASE c = d /\ Derived(op[d])
    <3>1. ~Undone(d)'
      BY <2>1, <2>4, CommitDone
    <3>2. ~rival'[d] => ~rival[d]
      BY <2>1 DEF Commit, RivalsOf
    <3> QED BY <2>1, <2>2, <2>4, <3>1, <3>2, <1>u DEF Undisturbed
  <2>5. CASE ~Derived(op[d])
    BY <2>1, <2>5 DEF Undisturbed
  <2> QED BY <2>3, <2>4, <2>5
<1>7. ASSUME NEW k \in Keys, ElsewhereWrite(k) PROVE Undisturbed(d)'
  <2>1. \A j \in Keys \ {k} : data'[j] = data[j] /\ version'[j] = version[j]
    BY <1>7 DEF ElsewhereWrite, TypeOK
  <2>2. RivalsOf(k, Callers) /\ UNCHANGED <<op, pc, side, round, seen>>
    BY <1>7 DEF ElsewhereWrite
  <2> QED BY <2>1, <2>2, <1>u, UndisturbedCommit
<1>8. CASE UNCHANGED vars
  BY <1>8, <1>u, UndisturbedStutter DEF vars
<1> QED BY <1>1, <1>2, <1>3, <1>4, <1>5, <1>6, <1>7, <1>8 DEF Next, Advance

\* items.go:234-250: a derived edit ends in a version conflict only if somebody else
\* wrote the item while it ran; its own lost answer never makes it fail so.
THEOREM ConflictsHaveRivals == Spec => []ConflictHasRival
<1>1. Init => Alone /\ VersionOnly
  BY DEF Init, Alone, Undisturbed, VersionOnly
<1>2. TypeOK /\ VersionOnly /\ FreshPayload /\ Alone /\ [Next]_vars => Alone' /\ VersionOnly'
  BY AloneStep, VersionOnlyStep
<1>3. Alone => ConflictHasRival
  BY DEF Alone, Undisturbed, ConflictHasRival
<1> QED BY <1>1, <1>2, <1>3, TypeCorrect, PayloadsFresh, PTL DEF Spec
-----------------------------------------------------------------------------
(***************************************************************************)
(* Linking: a side that was written stays written, because every call that  *)
(* may write its array again sends the same new element.                   *)
(***************************************************************************)
InForce(e) == e.elem \in data[e.key][e.field]

\* Nobody but calls for the same pair writes the arrays that c writes.
Partners(c, d) == EditsOf(op[d]) = EditsOf(op[c])
Undivided(c) ==
  /\ op[c].kind = "link" /\ elsewhere = 0
  /\ \A d \in Callers : \/ Partners(c, d)
                        \/ op[d].kind # "trash" /\ op[d].field # op[c].field

\* What is about to be sent to add an element carries it.
AddPayload ==
  \A c \in Callers : Target(c).kind = "add" /\ pc[c] \in {"version", "write"}
                       => Target(c).elem \in payload[c]

\* The edits of a link: one array of each item of the pair gets the other item.
LEMMA LinkEdits ==
  ASSUME TypeOK, NEW c \in Callers, op[c].kind = "link", NEW e \in EditsOf(op[c])
  PROVE  /\ e.kind = "add" /\ e.field = op[c].field /\ e.key \in Keys /\ e.field \in Fields
         /\ \A d \in EditsOf(op[c]) : d.key = e.key => d = e
<1>1. op[c] \in Ops /\ Relational(op[c])
  BY DEF TypeOK, Relational
<1>2. \A s \in {1, 2} : EditOf(op[c], s) \in Edits
  BY <1>1, EditOfType
<1> QED BY <1>1, <1>2 DEF EditsOf, EditOf, Edits

LEMMA AddPayloadStep ==
  ASSUME TypeOK, AddPayload, [Next]_vars
  PROVE  AddPayload'
<1> SUFFICES ASSUME NEW d \in Callers, Target(d)'.kind = "add", pc'[d] \in {"version", "write"}
             PROVE  Target(d)'.elem \in payload'[d]
  BY DEF AddPayload
<1>1. ASSUME UNCHANGED <<op, side[d], payload[d]>>, pc[d] \in {"version", "write"}
      PROVE  Target(d)'.elem \in payload'[d]
  BY <1>1 DEF AddPayload, Target
<1>2. ASSUME NEW c \in Callers, Start(c) PROVE Target(d)'.elem \in payload'[d]
  <2>1. CASE pc'[d] = pc[d]
    BY <1>1, <1>2, <2>1 DEF Start
  <2>2. CASE pc'[d] # pc[d]
    <3>1. c = d /\ op[d].kind = "trash" /\ op' = op
      BY <1>2, <2>2 DEF Start, TypeOK
    <3> QED BY <3>1 DEF Target, EditOf, Relational
  <2> QED BY <2>1, <2>2
<1>3. ASSUME NEW c \in Callers, AnswerRead(c) PROVE Target(d)'.elem \in payload'[d]
  <2>1. CASE c # d
    <3>1. UNCHANGED <<op, side[d], payload[d], pc[d]>>
      BY <1>3, <2>1 DEF AnswerRead, SideDone, Return, TypeOK
    <3> QED BY <1>1, <3>1
  <2>2. CASE c = d
    <3>1. /\ payload' = [payload EXCEPT ![d] = Revised(Target(d), data[Target(d).key][Target(d).field])]
          /\ UNCHANGED <<op, side>>
      BY <1>3, <2>2 DEF AnswerRead, SideDone, Return, TypeOK
    <3>2. Target(d)' = Target(d) /\ payload'[d] = Revised(Target(d), data[Target(d).key][Target(d).field])
      BY <3>1 DEF Target, TypeOK
    <3> QED BY <3>2 DEF Revised
  <2> QED BY <2>1, <2>2
<1>4. ASSUME NEW c \in Callers, AnswerVersion(c) PROVE Target(d)'.elem \in payload'[d]
  BY <1>1, <1>4 DEF AnswerVersion, Return, TypeOK
<1>5. ASSUME NEW c \in Callers, AnswerWrite(c) PROVE Target(d)'.elem \in payload'[d]
  <2>1. UNCHANGED <<op, payload>> /\ pc[c] = "write"
    BY <1>5 DEF AnswerWrite
  <2>2. CASE c # d
    <3>1. UNCHANGED <<side[d], pc[d]>>
      BY <1>5, <2>2 DEF AnswerWrite, SideDone, Conflict, Return, TypeOK
    <3> QED BY <1>1, <2>1, <3>1
  <2>3. CASE c = d
    <3>1. side' = side
      BY <1>5, <2>3 DEF AnswerWrite, SideDone, Conflict, Return, TypeOK
    <3> QED BY <1>1, <2>1, <2>3, <3>1
  <2> QED BY <2>2, <2>3
<1>6. ASSUME NEW c \in Callers, RequestFails(c) \/ ResponseLost(c) PROVE Target(d)'.elem \in payload'[d]
  <2>1. UNCHANGED <<op, side, payload>> /\ (SendAgain(c) \/ GiveUp(c))
    BY <1>6 DEF RequestFails, ResponseLost
  <2>2. pc'[d] = pc[d]
    BY <2>1 DEF SendAgain, GiveUp, TypeOK
  <2> QED BY <1>1, <2>1, <2>2
<1>7. ASSUME NEW k \in Keys, ElsewhereWrite(k) PROVE Target(d)'.elem \in payload'[d]
  BY <1>1, <1>7 DEF ElsewhereWrite
<1>8. CASE UNCHANGED vars
  BY <1>1, <1>8 DEF vars
<1> QED BY <1>2, <1>3, <1>4, <1>5, <1>6, <1>7, <1>8 DEF Next, Advance

\* A relation of an undivided pair that is in force stays so whoever commits.
LEMMA InForceKept ==
  ASSUME TypeOK, AddPayload, NEW c \in Callers, Undivided(c), NEW e \in EditsOf(op[c]), InForce(e),
         NEW d \in Callers, pc[d] = "write", Commit(d)
  PROVE  InForce(e)'
<1> DEFINE t == Target(d)
<1>1. /\ e.kind = "add" /\ e.field = op[c].field /\ e.key \in Keys /\ e.field \in Fields
      /\ \A x \in EditsOf(op[c]) : x.key = e.key => x = e
  BY LinkEdits DEF Undivided
<1>2. t \in EditsOf(op[d]) /\ t.key \in Keys /\ t.field \in Fields
  BY TargetAsked, TargetType
<1>3. CASE Partners(c, d)
  <2>1. t.kind = "add" /\ (t.key = e.key => t = e)
    BY <1>1, <1>2, <1>3, LinkEdits DEF Partners, Undivided
  <2>2. t.elem \in payload[d]
    BY <2>1 DEF AddPayload
  <2>3. data' = [data EXCEPT ![t.key][t.field] = payload[d]]
    BY <2>1 DEF Commit
  <2> QED BY <1>1, <1>2, <2>1, <2>2, <2>3 DEF InForce, TypeOK
<1>4. CASE op[d].kind # "trash" /\ op[d].field # op[c].field
  <2>1. t.field # e.field
    BY <1>1, <1>4 DEF Target, EditOf
  <2>2. t.kind # "trash"
    BY <1>4 DEF Target, EditOf
  <2>3. data' = [data EXCEPT ![t.key][t.field] = payload[d]]
    BY <2>2 DEF Commit
  <2> QED BY <1>1, <1>2, <2>1, <2>3 DEF InForce, TypeOK
<1> QED BY <1>3, <1>4 DEF Undivided

\* The side a link goes on from is written, by this call or before it.
LEMMA SideInForce ==
  ASSUME TypeOK, AddPayload, NEW c \in Callers, op[c].kind = "link",
         \/ AnswerRead(c) /\ ~Needed(Target(c), data[Target(c).key][Target(c).field])
         \/ pc[c] = "write" /\ Commit(c)
  PROVE  Target(c).elem \in data'[Target(c).key][Target(c).field]
<1> DEFINE e == Target(c)
<1>1. e.kind = "add" /\ e.key \in Keys /\ e.field \in Fields
  BY TargetAsked, LinkEdits
<1>2. CASE AnswerRead(c) /\ ~Needed(e, data[e.key][e.field])
  BY <1>1, <1>2 DEF AnswerRead, server, Needed, Revised
<1>3. CASE pc[c] = "write" /\ Commit(c)
  <2>1. data' = [data EXCEPT ![e.key][e.field] = payload[c]] /\ e.elem \in payload[c]
    BY <1>1, <1>3 DEF Commit, AddPayload
  <2> QED BY <1>1, <2>1 DEF TypeOK
<1> QED BY <1>2, <1>3

\* Linked for one call.
LinkedOne(c) ==
  Undivided(c) => /\ pc[c] = "ok" => side[c] = 2 /\ InForce(EditOf(op[c], 2))
                  /\ side[c] = 2 => InForce(EditOf(op[c], 1))

\* Steps that write nothing and do not complete a side.
LEMMA LinkedQuiet ==
  ASSUME NEW c \in Callers, LinkedOne(c), UNCHANGED <<data, op, side[c]>>, elsewhere' = 0 => elsewhere = 0,
         pc'[c] = "ok" => pc[c] = "ok" \/ op[c].kind # "link"
  PROVE  LinkedOne(c)'
  BY DEF LinkedOne, Undivided, Partners, InForce

\* A commit of another call.
LEMMA LinkedCommit ==
  ASSUME TypeOK, AddPayload, NEW c \in Callers, LinkedOne(c), NEW d \in Callers, pc[d] = "write", Commit(d),
         UNCHANGED <<op, elsewhere, side[c]>>, pc'[c] = "ok" => pc[c] = "ok"
  PROVE  LinkedOne(c)'
<1> SUFFICES ASSUME Undivided(c) PROVE LinkedOne(c)'
  BY DEF LinkedOne, Undivided, Partners
<1>1. \A s \in {1, 2} : EditOf(op[c], s) \in EditsOf(op[c])
  BY DEF EditsOf
<1>2. \A s \in {1, 2} : InForce(EditOf(op[c], s)) => InForce(EditOf(op[c], s))'
  BY <1>1, InForceKept
<1> QED BY <1>2 DEF LinkedOne

\* A side of c is completed.
LEMMA LinkedSide ==
  ASSUME TypeOK, AddPayload, NEW c \in Callers, LinkedOne(c), SideDone(c), UNCHANGED <<op, elsewhere>>,
         \/ AnswerRead(c) /\ ~Needed(Target(c), data[Target(c).key][Target(c).field])
         \/ pc[c] = "write" /\ Commit(c)
  PROVE  LinkedOne(c)'
<1> SUFFICES ASSUME Undivided(c) PROVE LinkedOne(c)'
  BY DEF LinkedOne, Undivided, Partners
<1>1. op[c].kind = "link" /\ Relational(op[c])
  BY DEF Undivided, Relational
<1>2. Target(c) = EditOf(op[c], side[c]) /\ EditOf(op[c], side[c])' = EditOf(op[c], side'[c])
  BY DEF Target
<1>3. \A s \in {1, 2} : EditOf(op[c], s) \in EditsOf(op[c])
  BY DEF EditsOf
<1>4. Target(c).elem \in data'[Target(c).key][Target(c).field]
  BY <1>1, SideInForce
<1>5. CASE side[c] = 1
  <2>1. side'[c] = 2 /\ pc'[c] = "read"
    BY <1>1, <1>5 DEF SideDone, TypeOK
  <2> QED BY <1>2, <1>4, <1>5, <2>1 DEF LinkedOne, InForce
<1>6. CASE side[c] = 2
  <2>1. side'[c] = 2
    BY <1>6 DEF SideDone
  <2>2. InForce(EditOf(op[c], 1))'
    <3>1. InForce(EditOf(op[c], 1))
      BY <1>6 DEF LinkedOne
    <3>2. CASE AnswerRead(c)
      BY <3>1, <3>2 DEF AnswerRead, server, InForce
    <3>3. CASE pc[c] = "write" /\ Commit(c)
      BY <1>3, <3>1, <3>3, InForceKept
    <3> QED BY <3>2, <3>3
  <2> QED BY <1>2, <1>4, <1>6, <2>1, <2>2 DEF LinkedOne, InForce
<1> QED BY <1>5, <1>6 DEF TypeOK

LEMMA LinkedStep ==
  ASSUME TypeOK, AddPayload, \A c \in Callers : LinkedOne(c), [Next]_vars
  PROVE  \A c \in Callers : LinkedOne(c)'
<1> SUFFICES ASSUME NEW c \in Callers PROVE LinkedOne(c)'
  OBVIOUS
<1>l. LinkedOne(c)
  OBVIOUS
<1>1. ASSUME NEW d \in Callers, Start(d) PROVE LinkedOne(c)'
  <2>1. UNCHANGED <<data, op, side, elsewhere>> /\ (pc'[c] = "ok" => pc[c] = "ok")
    BY <1>1 DEF Start, server, TypeOK
  <2> QED BY <1>l, <2>1, LinkedQuiet
<1>2. ASSUME NEW d \in Callers, AnswerRead(d) PROVE LinkedOne(c)'
  <2>1. UNCHANGED <<data, op, elsewhere>>
    BY <1>2 DEF AnswerRead, server
  <2>2. CASE c = d /\ SideDone(c) /\ ~Needed(Target(c), data[Target(c).key][Target(c).field])
    BY <1>2, <1>l, <2>1, <2>2, LinkedSide
  <2>3. CASE ~(c = d /\ SideDone(c))
    <3>1. side'[c] = side[c] /\ (pc'[c] = "ok" => pc[c] = "ok")
      BY <1>2, <2>3 DEF AnswerRead, SideDone, Return, TypeOK
    <3> QED BY <1>l, <2>1, <3>1, LinkedQuiet
  <2>4. CASE c = d /\ \E v \in {"error", "write", "version"} : Return(c, v)
    <3>1. side'[c] = side[c] /\ pc'[c] # "ok"
      BY <2>4 DEF Return, TypeOK
    <3> QED BY <1>l, <2>1, <3>1, LinkedQuiet
  <2> QED BY <1>2, <2>2, <2>3, <2>4 DEF AnswerRead
<1>3. ASSUME NEW d \in Callers, AnswerVersion(d) PROVE LinkedOne(c)'
  <2>1. UNCHANGED <<data, op, side, elsewhere>> /\ (pc'[c] = "ok" => pc[c] = "ok")
    BY <1>3 DEF AnswerVersion, Return, server, TypeOK
  <2> QED BY <1>l, <2>1, LinkedQuiet
<1>4. ASSUME NEW d \in Callers, AnswerWrite(d) PROVE LinkedOne(c)'
  <2>1. UNCHANGED <<op, elsewhere>> /\ pc[d] = "write"
    BY <1>4 DEF AnswerWrite
  <2>2. CASE Commit(d) /\ SideDone(d)
    <3>1. CASE c = d
      BY <1>l, <2>1, <2>2, <3>1, LinkedSide
    <3>2. CASE c # d
      <4>1. side'[c] = side[c] /\ pc'[c] = pc[c]
        BY <2>2, <3>2 DEF SideDone, TypeOK
      <4> QED BY <1>l, <2>1, <2>2, <4>1, LinkedCommit
    <3> QED BY <3>1, <3>2
  <2>3. CASE UNCHANGED server /\ (Conflict(d) \/ Return(d, "error"))
    <3>1. side'[c] = side[c] /\ (pc'[c] = "ok" => pc[c] = "ok")
      BY <2>3 DEF Conflict, Return, TypeOK
    <3> QED BY <1>l, <2>1, <2>3, <3>1, LinkedQuiet DEF server
  <2> QED BY <1>4, <2>2, <2>3 DEF AnswerWrite
<1>5. ASSUME NEW d \in Callers, RequestFails(d) PROVE LinkedOne(c)'
  <2>1. UNCHANGED <<data, op, side, elsewhere>> /\ (pc'[c] = "ok" => pc[c] = "ok")
    BY <1>5 DEF RequestFails, SendAgain, GiveUp, server, TypeOK
  <2> QED BY <1>l, <2>1, LinkedQuiet
<1>6. ASSUME NEW d \in Callers, ResponseLost(d) PROVE LinkedOne(c)'
  <2>1. /\ UNCHANGED <<op, side, elsewhere>> /\ (pc'[c] = "ok" => pc[c] = "ok")
        /\ pc[d] = "write" /\ Commit(d)
    BY <1>6 DEF ResponseLost, SendAgain, TypeOK
  <2> QED BY <1>l, <2>1, LinkedCommit
<1>7. ASSUME NEW k \in Keys, ElsewhereWrite(k) PROVE LinkedOne(c)'
  <2>1. elsewhere' # 0
    BY <1>7 DEF ElsewhereWrite, TypeOK
  <2> QED BY <2>1 DEF LinkedOne, Undivided
<1>8. CASE UNCHANGED vars
  BY <1>8, <1>l, LinkedQuiet DEF vars
<1> QED BY <1>1, <1>2, <1>3, <1>4, <1>5, <1>6, <1>7, <1>8 DEF Next, Advance

\* relations.go:130-132: as long as only calls for the same pair write its arrays, the
\* first of them to return nil leaves both items related, and they stay so.
THEOREM LinksBothWays == Spec => []LinkedBothWays
<1> DEFINE Linked == \A c \in Callers : LinkedOne(c)
<1>1. Init => AddPayload /\ Linked
  BY DEF Init, AddPayload, LinkedOne
<1>2. TypeOK /\ AddPayload /\ Linked /\ [Next]_vars => AddPayload' /\ Linked'
  BY AddPayloadStep, LinkedStep
<1>3. Linked => LinkedBothWays
  <2> SUFFICES ASSUME Linked, NEW c \in Callers, pc[c] = "ok", Undivided(c)
               PROVE  \A e \in EditsOf(op[c]) : e.elem \in data[e.key][e.field]
    BY DEF LinkedBothWays, Undivided, Partners
  <2>1. InForce(EditOf(op[c], 1)) /\ InForce(EditOf(op[c], 2))
    BY DEF LinkedOne
  <2> QED BY <2>1 DEF EditsOf, InForce
<1> QED BY <1>1, <1>2, <1>3, TypeCorrect, PTL DEF Spec
=============================================================================
