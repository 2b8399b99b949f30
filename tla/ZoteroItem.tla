------------------------------ MODULE ZoteroItem ------------------------------
(***************************************************************************)
(* The single-item write plane of internal/zot/api: items.go               *)
(* (patchItemDerived and its four users, UpdateItem, TrashItem,             *)
(* withVersionRetry) and relations.go (LinkItems, UnlinkItems), over the    *)
(* retrying transport of retry.go.                                         *)
(*                                                                         *)
(* The Zotero server keeps a version per item and refuses (412) a write     *)
(* whose version is not the item's; a PATCH replaces the array it carries.  *)
(* Several invocations run against it at once, next to writers that are not*)
(* sci.  An exchange with the server is one step: the server acts and the   *)
(* caller handles the answer, which touches only the caller's own state.   *)
(* What the network can do to an exchange is RequestFails (nothing reached  *)
(* the server, or it answered 429/5xx) and ResponseLost (the write was      *)
(* committed and the answer never arrived): retryDoer then sends the same   *)
(* bytes again, up to MaxRetry times.                                      *)
(***************************************************************************)
EXTENDS Naturals

CONSTANTS Keys,        \* item keys of one library
          Fields,      \* array-valued item fields: collections, tags, relations
          Elems,       \* collection keys, tags, related item URIs (= keys)
          Starts,      \* what an array may hold at first
          Callers,     \* invocations of the client, one operation each
          Ops,         \* the operations they may be asked for
          MaxRetry,    \* Client.maxRetry
          MaxElsewhere \* bound: writes by other programs

Edits == [kind: {"add", "remove", "trash"}, key: Keys, field: Fields, elem: Elems]
Links == [kind: {"link", "unlink"}, key: Keys, field: Fields, elem: Keys \intersect Elems]

ASSUME Assumption ==
  /\ Ops \subseteq Edits \union Links
  /\ Keys \subseteq Elems /\ Starts \subseteq SUBSET Elems
  /\ MaxRetry \in Nat /\ MaxElsewhere \in Nat

VARIABLES
  exists,    \* server: the item is in the library
  version,   \* server: version of each item
  data,      \* server: data[k][f], the elements of array f of item k
  libver,    \* server: version of the library, the version of its last write
  elsewhere, \* number of writes made by other programs
  op,        \* op[c]: what invocation c was asked to do
  pc,        \* the exchange c is in, or its verdict
  side,      \* LinkItems: 1 while writing op.key, 2 while writing op.elem
  round,     \* 412 answers recovered from so far (at most one)
  attempt,   \* retryDoer's attempt for the current exchange
  seen,      \* the version c will send
  payload,   \* the array c will send
  made,      \* history: the edits of c that were in force since it began
  rival      \* history: somebody else wrote an item of c since it began

server == <<exists, version, data, libver>>
vars == <<exists, version, data, libver, elsewhere, op, pc, side, round, attempt,
          seen, payload, made, rival>>

Exchanges == {"read", "version", "write"}
Verdicts == {"ok", "conflict", "error"}

\* The kinds of operation, by how they build what they send.
Derived(o) == o.kind \in {"add", "remove"}      \* patchItemDerived
Relational(o) == o.kind \in {"link", "unlink"}  \* addRelation, removeRelation

\* The single-item edit an operation makes on its s-th side.
EditOf(o, s) ==
  IF ~Relational(o) THEN o
  ELSE [kind |-> IF o.kind = "link" THEN "add" ELSE "remove",
        key |-> IF s = 1 THEN o.key ELSE o.elem,
        field |-> o.field,
        elem |-> IF s = 1 THEN o.elem ELSE o.key]

EditsOf(o) == {EditOf(o, s) : s \in {1, 2}}

Target(c) == EditOf(op[c], side[c])

\* The closures passed to patchItemDerived, and addRelation / removeRelation:
\* the array to send, and whether there is anything to send.
Revised(e, S) == IF e.kind = "add" THEN S \union {e.elem} ELSE S \ {e.elem}
NeededAlways(e, S) == TRUE  \* mutant: no "already a member" check
Needed(e, S) == Revised(e, S) # S

Init ==
  /\ exists = [k \in Keys |-> TRUE]
  /\ version = [k \in Keys |-> 0]
  /\ data \in [Keys -> [Fields -> Starts]]
  /\ libver = 0
  /\ elsewhere = 0
  /\ op \in [Callers -> Ops]
  /\ pc = [c \in Callers |-> "idle"]
  /\ side = [c \in Callers |-> 1]
  /\ round = [c \in Callers |-> 0]
  /\ attempt = [c \in Callers |-> 0]
  /\ seen = [c \in Callers |-> 0]
  /\ payload = [c \in Callers |-> {}]
  /\ made = [c \in Callers |-> {}]
  /\ rival = [c \in Callers |-> FALSE]

-----------------------------------------------------------------------------
\* The server

\* Every call among others that concerns item k, and has begun, now has a rival.
RivalsOf(k, others) ==
  rival' = [d \in Callers |->
              \/ rival[d]
              \/ d \in others /\ pc[d] # "idle" /\ \E e \in EditsOf(op[d]) : e.key = k]

\* The server accepts the write of c: a DELETE, or a PATCH that replaces one array.
Commit(c) ==
  LET e == Target(c) IN
  /\ libver' = libver + 1
  /\ version' = [version EXCEPT ![e.key] = libver + 1]
  /\ IF e.kind = "trash"
     THEN exists' = [exists EXCEPT ![e.key] = FALSE] /\ UNCHANGED data
     ELSE data' = [data EXCEPT ![e.key][e.field] = payload[c]] /\ UNCHANGED exists
  /\ RivalsOf(e.key, Callers \ {c})

\* Zotero desktop or another tool adds or removes an element, or trashes an item.
ElsewhereWrite(k) ==
  /\ exists[k] /\ elsewhere < MaxElsewhere
  /\ elsewhere' = elsewhere + 1
  /\ libver' = libver + 1
  /\ version' = [version EXCEPT ![k] = libver + 1]
  /\ \/ \E f \in Fields, x \in Elems :
           /\ data' = [data EXCEPT ![k][f] = IF x \in @ THEN @ \ {x} ELSE @ \union {x}]
           /\ UNCHANGED exists
     \/ exists' = [exists EXCEPT ![k] = FALSE] /\ UNCHANGED data
  /\ RivalsOf(k, Callers)
  /\ UNCHANGED <<op, pc, side, round, attempt, seen, payload, made>>

-----------------------------------------------------------------------------
\* The client

\* The operation is called.  LinkItems (not UnlinkItems) refuses two equal keys.
Start(c) ==
  /\ pc[c] = "idle"
  /\ pc' = [pc EXCEPT ![c] =
              IF op[c].kind = "link" /\ op[c].key = op[c].elem THEN "error"
              ELSE IF op[c].kind = "trash" THEN "version"
              ELSE "read"]
  /\ UNCHANGED <<server, elsewhere, op, side, round, attempt, seen, payload, made, rival>>

\* Mutant of SideDone: the reverse side is never written.
SideDoneForward(c) ==
  /\ made' = [made EXCEPT ![c] = @ \union {Target(c)}]
  /\ pc' = [pc EXCEPT ![c] = "ok"]
  /\ UNCHANGED <<side, round>>

\* The edit of the current side is in force: LinkItems and UnlinkItems go on to
\* the reverse side, everything else returns nil.
SideDone(c) ==
  /\ made' = [made EXCEPT ![c] = @ \union {Target(c)}]
  /\ IF Relational(op[c]) /\ side[c] = 1
     THEN /\ pc' = [pc EXCEPT ![c] = "read"]
          /\ side' = [side EXCEPT ![c] = 2]
          /\ round' = [round EXCEPT ![c] = 0]
     ELSE /\ pc' = [pc EXCEPT ![c] = "ok"]
          /\ UNCHANGED <<side, round>>

Return(c, verdict) ==
  /\ pc' = [pc EXCEPT ![c] = verdict]
  /\ UNCHANGED <<side, round, made>>

\* The GET whose answer the new array is built from.
AnswerRead(c) ==
  LET e == Target(c)
      cur == data[e.key][e.field] IN
  /\ pc[c] = "read"
  /\ attempt' = [attempt EXCEPT ![c] = 0]
  /\ \/ ~exists[e.key] /\ Return(c, "error") /\ UNCHANGED <<seen, payload>>
     \/ exists[e.key] /\ ~Needed(e, cur) /\ SideDone(c) /\ UNCHANGED <<seen, payload>>
     \/ /\ exists[e.key] /\ Needed(e, cur)
        /\ payload' = [payload EXCEPT ![c] = Revised(e, cur)]
        /\ seen' = [seen EXCEPT ![c] = version[e.key]]
        /\ Return(c, IF Derived(op[c]) THEN "write" ELSE "version")
  /\ UNCHANGED <<server, elsewhere, op, rival>>

\* The GET that only supplies a version: UpdateItem's first fetch, getVersion.
AnswerVersion(c) ==
  LET e == Target(c) IN
  /\ pc[c] = "version"
  /\ attempt' = [attempt EXCEPT ![c] = 0]
  /\ \/ ~exists[e.key] /\ Return(c, "error") /\ UNCHANGED seen
     \/ /\ exists[e.key]
        /\ seen' = [seen EXCEPT ![c] = version[e.key]]
        /\ Return(c, "write")
  /\ UNCHANGED <<server, elsewhere, op, payload, rival>>

\* Mutants of Conflict: a derived payload is resent under a fresh version; the
\* second conflict is dropped.
ConflictResends(c) ==
  IF round[c] = 0
  THEN /\ round' = [round EXCEPT ![c] = 1]
       /\ pc' = [pc EXCEPT ![c] = "version"]
       /\ UNCHANGED <<side, made>>
  ELSE Return(c, "conflict")
ConflictSwallowed(c) ==
  IF round[c] = 0
  THEN /\ round' = [round EXCEPT ![c] = 1]
       /\ pc' = [pc EXCEPT ![c] = IF Derived(op[c]) THEN "read" ELSE "version"]
       /\ UNCHANGED <<side, made>>
  ELSE Return(c, "ok")

\* A 412: patchItemDerived re-reads and re-derives; withVersionRetry re-reads the
\* version and sends the same payload.  The second one is the caller's.
Conflict(c) ==
  IF round[c] = 0
  THEN /\ round' = [round EXCEPT ![c] = 1]
       /\ pc' = [pc EXCEPT ![c] = IF Derived(op[c]) THEN "read" ELSE "version"]
       /\ UNCHANGED <<side, made>>
  ELSE Return(c, "conflict")

\* The PATCH or DELETE is answered: 204, 412, or 404.
AnswerWrite(c) ==
  LET e == Target(c) IN
  /\ pc[c] = "write"
  /\ attempt' = [attempt EXCEPT ![c] = 0]
  /\ \/ exists[e.key] /\ version[e.key] = seen[c] /\ Commit(c) /\ SideDone(c)
     \/ exists[e.key] /\ version[e.key] # seen[c] /\ Conflict(c) /\ UNCHANGED <<server, rival>>
     \/ ~exists[e.key] /\ Return(c, "error") /\ UNCHANGED <<server, rival>>
  /\ UNCHANGED <<elsewhere, op, seen, payload>>

\* Mutants of SendAgain: one attempt too many; never gives up.
SendAgainPastLimit(c) ==
  IF attempt[c] <= MaxRetry
  THEN attempt' = [attempt EXCEPT ![c] = @ + 1] /\ UNCHANGED pc
  ELSE pc' = [pc EXCEPT ![c] = "error"] /\ UNCHANGED attempt
SendAgainForever(c) ==
  attempt' = [attempt EXCEPT ![c] = IF @ < MaxRetry THEN @ + 1 ELSE 0] /\ UNCHANGED pc

\* retryDoer: sleep and send the same request again, or give up.
SendAgain(c) ==
  IF attempt[c] < MaxRetry
  THEN attempt' = [attempt EXCEPT ![c] = @ + 1] /\ UNCHANGED pc
  ELSE pc' = [pc EXCEPT ![c] = "error"] /\ UNCHANGED attempt

\* Another status, or an answer that cannot be read: no layer tries again.
GiveUp(c) == pc' = [pc EXCEPT ![c] = "error"] /\ UNCHANGED attempt

\* The request had no effect: a network error, a 429 or a 5xx; or a refusal.
RequestFails(c) ==
  /\ pc[c] \in Exchanges
  /\ SendAgain(c) \/ GiveUp(c)
  /\ UNCHANGED <<server, elsewhere, op, side, round, seen, payload, made, rival>>

\* The write was committed but its answer is lost (connection reset, 30 s timeout).
ResponseLost(c) ==
  LET e == Target(c) IN
  /\ pc[c] = "write" /\ exists[e.key] /\ version[e.key] = seen[c]
  /\ Commit(c)
  /\ SendAgain(c)
  /\ made' = [made EXCEPT ![c] = @ \union {e}]
  /\ UNCHANGED <<elsewhere, op, side, round, seen, payload>>

Advance(c) == \/ AnswerRead(c) \/ AnswerVersion(c) \/ AnswerWrite(c)
              \/ RequestFails(c) \/ ResponseLost(c)

Next == \/ \E c \in Callers : Start(c) \/ Advance(c)
        \/ \E k \in Keys : ElsewhereWrite(k)

Spec == Init /\ [][Next]_vars

\* http.Client.Timeout bounds every attempt, so a call in flight goes on.
FairSpec == Spec /\ \A c \in Callers : WF_vars(Advance(c))

-----------------------------------------------------------------------------
\* Properties

TypeOK ==
  /\ exists \in [Keys -> BOOLEAN]
  /\ version \in [Keys -> Nat]
  /\ data \in [Keys -> [Fields -> SUBSET Elems]]
  /\ libver \in Nat
  /\ elsewhere \in 0..MaxElsewhere
  /\ op \in [Callers -> Ops]
  /\ pc \in [Callers -> {"idle"} \union Exchanges \union Verdicts]
  /\ side \in [Callers -> {1, 2}]
  /\ round \in [Callers -> {0, 1}]
  /\ attempt \in [Callers -> 0..MaxRetry]
  /\ seen \in [Callers -> Nat]
  /\ payload \in [Callers -> SUBSET Elems]
  /\ made \in [Callers -> SUBSET Edits]
  /\ rival \in [Callers -> BOOLEAN]

\* items.go:234-250: a derived payload that the server would still accept was
\* derived from exactly the contents it is about to replace, however many other
\* writers, retries and lost answers came between the GET and the PATCH.
Fresh(c) ==
  LET e == Target(c) IN
  (pc[c] = "write" /\ Derived(op[c]) /\ exists[e.key] /\ version[e.key] = seen[c])
    => payload[c] = Revised(e, data[e.key][e.field])

FreshPayload == \A c \in Callers : Fresh(c)

\* relations.go:207-210: "rels must carry every predicate the item had".  A step
\* of sci takes an element out of an array only when some running operation was
\* asked to remove that very element from that very item.
KeepsElements ==
  \A k \in Keys, f \in Fields : elsewhere' = elsewhere =>
    \A x \in data[k][f] \ data'[k][f] :
      \E c \in Callers : /\ pc[c] = "write"
                         /\ Target(c) = [kind |-> "remove", key |-> k, field |-> f, elem |-> x]

KeepsOtherElements == [][KeepsElements]_vars

\* A derived edit is answered with a version conflict only if somebody else wrote
\* the item while it ran: a retry that meets its own committed write re-reads the
\* item, finds nothing left to do and returns nil.
ConflictHasRival == \A c \in Callers : pc[c] = "conflict" /\ Derived(op[c]) => rival[c]

\* relations.go:130-132: LinkItems called several times for one pair, from either
\* end, at once or again after a partial failure, completes the pair: as soon as
\* one of the calls returns nil both items carry the relation, whatever requests
\* and answers were lost and whoever wrote another field of the two items.
LinkedBothWays ==
  \A c \in Callers :
    /\ op[c].kind = "link" /\ pc[c] = "ok"
    /\ elsewhere = 0
    /\ \A d \in Callers : \/ EditsOf(op[d]) = EditsOf(op[c])
                          \/ op[d].kind # "trash" /\ op[d].field # op[c].field
    => \A e \in EditsOf(op[c]) : e.elem \in data[e.key][e.field]

\* retry.go, items.go: every call returns (bounded attempts, bounded rounds).
Returns == \A c \in Callers : pc[c] \in Exchanges ~> pc[c] \in Verdicts

\* The verdict a caller of ItemEdits sees.
VerdictOf(c) == IF pc[c] \in Exchanges THEN "pending"
                ELSE IF pc[c] \in {"idle", "ok"} THEN pc[c]
                ELSE "failed"

\* The derived edits and TrashItem implement ItemEdits: each takes effect
\* atomically on what the item holds, and nil is returned only after it did.
Abstract == INSTANCE ItemEdits WITH
  asked <- [c \in Callers |-> EditsOf(op[c])],
  verdict <- [c \in Callers |-> VerdictOf(c)]
ImplementsItemEdits == Abstract!Spec
=============================================================================
