------------------------------ MODULE ZoteroBatch ------------------------------
(***************************************************************************)
(* UpdateItemsBatch of internal/zot/api/items.go: many items patched with  *)
(* POST /items, ChunkSize at a time, from payloads that were composed from *)
(* the local copy of the library.  One call runs next to other writers.    *)
(*                                                                         *)
(* A patch either appends an element to an array (then it has a Rebuild     *)
(* hook) or sets the array (nothing to rebuild).  A "loaded" patch carries  *)
(* the version and item type of the local copy and skips the GET.  The GETs*)
(* change nothing, so their retries are folded into one outcome; the POSTs  *)
(* go through retryDoer's attempts one by one.                             *)
(***************************************************************************)
EXTENDS Naturals, Sequences

CONSTANTS Keys, Elems,
          Starts,      \* what the arrays may hold at first
          Patches,     \* the argument: a sequence of patches, one per key
          ChunkSize,   \* maxBatchItems, 50 in the program
          MaxRetry,    \* Client.maxRetry
          MaxElsewhere \* bound: writes by other programs

PatchType == [key: Keys, elem: Elems, how: {"append", "set"}, loaded: BOOLEAN]
Slots == 1..Len(Patches)

ASSUME Assumption ==
  /\ Patches \in Seq(PatchType) /\ Starts \subseteq SUBSET Elems
  /\ \A i, j \in Slots : Patches[i].key = Patches[j].key => i = j
  /\ ChunkSize \in Nat \ {0} /\ MaxRetry \in Nat /\ MaxElsewhere \in Nat

VARIABLES
  exists, version, data, libver, \* the server, as in ZoteroItem, with one array per item
  elsewhere,  \* number of writes made by other programs
  local,      \* the local copy: [version, data] per item, taken before the call
  pc,         \* "build", "post", "refresh", or the return: "done", "failed"
  round,      \* 0, and 1 once the refused patches are sent again
  todo,       \* slots still to build or refresh
  group,      \* built entries still to be sent
  refused,    \* slots answered 412 in this round
  attempt,    \* retryDoer's attempt for the current POST
  results,    \* the map returned, per key
  made        \* history: slots whose edit was in force since the call began

server == <<exists, version, data, libver>>
client == <<pc, round, todo, group, refused, attempt, results, made>>
vars == <<server, elsewhere, local, client>>

Entry == [slot: Slots, version: Nat, load: SUBSET Elems]
Outcome == {"none", "nil", "error", "conflict", "unreported"}

KeyOf(i) == Patches[i].key

\* The array a patch asks for, composed from the contents S.
Load(i, S) == IF Patches[i].how = "append" THEN S \union {Patches[i].elem}
              ELSE {Patches[i].elem}

Init ==
  /\ exists = [k \in Keys |-> TRUE]
  /\ version = [k \in Keys |-> 1]
  /\ data \in [Keys -> Starts]
  /\ libver = 1
  /\ elsewhere = 0
  /\ local = [k \in Keys |-> [version |-> 1, data |-> data[k]]]
  /\ pc = "build"
  /\ round = 0
  /\ todo = [i \in Slots |-> i]
  /\ group = <<>>
  /\ refused = <<>>
  /\ attempt = 0
  /\ results = [k \in Keys |-> "none"]
  /\ made = {}

ElsewhereWrite(k) ==
  /\ exists[k] /\ elsewhere < MaxElsewhere
  /\ elsewhere' = elsewhere + 1
  /\ libver' = libver + 1
  /\ version' = [version EXCEPT ![k] = libver + 1]
  /\ \/ \E x \in Elems : /\ data' = [data EXCEPT ![k] = IF x \in @ THEN @ \ {x} ELSE @ \union {x}]
                         /\ UNCHANGED exists
     \/ exists' = [exists EXCEPT ![k] = FALSE] /\ UNCHANGED data
  /\ UNCHANGED <<local, client>>

Report(k, outcome) == results' = [results EXCEPT ![k] = outcome]

\* The first payload of the next patch: version and contents from the local copy,
\* or (slow path) the server's version over contents composed beforehand.
Build ==
  /\ pc = "build" /\ todo # <<>>
  /\ LET i == Head(todo)
         k == KeyOf(i)
         entry(v) == [slot |-> i, version |-> v, load |-> Load(i, local[k].data)] IN
     \/ /\ Patches[i].loaded
        /\ group' = Append(group, entry(local[k].version)) /\ UNCHANGED results
     \/ /\ ~Patches[i].loaded /\ exists[k]
        /\ group' = Append(group, entry(version[k])) /\ UNCHANGED results
     \/ /\ ~Patches[i].loaded  \* 404, or the GET fails for good
        /\ Report(k, "error") /\ UNCHANGED group
  /\ todo' = Tail(todo)
  /\ UNCHANGED <<server, elsewhere, local, pc, round, refused, attempt, made>>

\* Mutant: only the version is refreshed; the payload composed from the local copy
\* is sent again.
RefreshVersionOnly ==
  /\ pc = "refresh" /\ todo # <<>>
  /\ LET i == Head(todo)
         k == KeyOf(i) IN
     \/ /\ exists[k]
        /\ group' = Append(group, [slot |-> i, version |-> version[k],
                                   load |-> Load(i, local[k].data)])
        /\ UNCHANGED results
     \/ Report(k, "error") /\ UNCHANGED group
  /\ todo' = Tail(todo)
  /\ UNCHANGED <<server, elsewhere, local, pc, round, refused, attempt, made>>

\* After a 412: re-read, and rebuild the payload if the patch has a hook (which may
\* abandon it); the others are sent again under the fresh version.
Refresh ==
  /\ pc = "refresh" /\ todo # <<>>
  /\ LET i == Head(todo)
         k == KeyOf(i)
         load == IF Patches[i].how = "append" THEN Load(i, data[k]) ELSE Load(i, local[k].data) IN
     \/ /\ exists[k]
        /\ group' = Append(group, [slot |-> i, version |-> version[k], load |-> load])
        /\ UNCHANGED results
     \/ Report(k, "error") /\ UNCHANGED group
  /\ todo' = Tail(todo)
  /\ UNCHANGED <<server, elsewhere, local, pc, round, refused, attempt, made>>

\* The next POST and what is left after it.
Least(a, b) == IF a < b THEN a ELSE b
Chunk == SubSeq(group, 1, Least(ChunkSize, Len(group)))
Rest == SubSeq(group, Least(ChunkSize, Len(group)) + 1, Len(group))

Accepted == {n \in DOMAIN Chunk : LET k == KeyOf(Chunk[n].slot) IN
                                  exists[k] /\ version[k] = Chunk[n].version}
Conflicting == {n \in DOMAIN Chunk : LET k == KeyOf(Chunk[n].slot) IN
                                     exists[k] /\ version[k] # Chunk[n].version}

\* The server writes the entries whose version is current; one that changes
\* nothing is reported unchanged and keeps its version.
Commit ==
  LET load(k) == {n \in Accepted : KeyOf(Chunk[n].slot) = k /\ Chunk[n].load # data[k]} IN
  /\ data' = [k \in Keys |-> IF load(k) = {} THEN data[k]
                             ELSE Chunk[CHOOSE n \in load(k) : TRUE].load]
  /\ version' = [k \in Keys |-> IF load(k) = {} THEN version[k] ELSE libver + 1]
  /\ libver' = IF data' = data THEN libver ELSE libver + 1
  /\ made' = made \union {Chunk[n].slot : n \in Accepted}
  /\ UNCHANGED exists

\* The slot an index of the answer stands for.  Mutant: an index into all the
\* patches rather than into the slice that was sent.
SlotAtAll(n) == n
SlotAt(n) == Chunk[n].slot

\* The slots at some positions of the chunk, in order.
SlotsAt(S) ==
  LET pick[n \in 0..Len(Chunk)] ==
        IF n = 0 THEN <<>>
        ELSE IF n \in S THEN Append(pick[n - 1], SlotAt(n)) ELSE pick[n - 1]
  IN  pick[Len(Chunk)]

\* The POST is answered 200, with an outcome per index.
AnswerPost ==
  /\ pc = "post" /\ group # <<>>
  /\ Commit
  /\ results' = [k \in Keys |->
       IF \E n \in Accepted : KeyOf(SlotAt(n)) = k THEN "nil"
       ELSE IF \E n \in DOMAIN Chunk \ (Accepted \union Conflicting) : KeyOf(SlotAt(n)) = k
       THEN "error" ELSE results[k]]
  /\ refused' = refused \o SlotsAt(Conflicting)
  /\ group' = Rest
  /\ attempt' = 0
  /\ UNCHANGED <<elsewhere, local, pc, round, todo>>

\* Mutants: one attempt too many; retries that start over.
SendAgainPastLimit ==
  IF attempt <= MaxRetry
  THEN attempt' = attempt + 1 /\ UNCHANGED pc
  ELSE pc' = "failed" /\ UNCHANGED attempt
SendAgainForever == attempt' = (attempt + 1) % (MaxRetry + 1) /\ UNCHANGED pc

\* retryDoer sends the same bytes again, or UpdateItemsBatch returns the error.
SendAgain ==
  IF attempt < MaxRetry
  THEN attempt' = attempt + 1 /\ UNCHANGED pc
  ELSE pc' = "failed" /\ UNCHANGED attempt

\* Nothing was written: a network error, a 429, a 5xx; or another status.
PostFails ==
  /\ pc = "post" /\ group # <<>>
  /\ SendAgain \/ (pc' = "failed" /\ UNCHANGED attempt)
  /\ UNCHANGED <<server, elsewhere, local, round, todo, group, refused, results, made>>

\* The server wrote the chunk and the answer never arrived.
PostLost ==
  /\ pc = "post" /\ group # <<>>
  /\ Commit
  /\ SendAgain
  /\ UNCHANGED <<elsewhere, local, round, todo, group, refused, results>>

\* Mutant: the leftovers of the second round are not reported.
NextStageDropsLeftover ==
  /\ \/ /\ pc \in {"build", "refresh"} /\ todo = <<>>
        /\ pc' = "post"
        /\ UNCHANGED <<round, todo, refused, results>>
     \/ /\ pc = "post" /\ group = <<>> /\ round = 0 /\ refused # <<>>
        /\ pc' = "refresh" /\ round' = 1 /\ todo' = refused /\ refused' = <<>>
        /\ UNCHANGED results
     \/ /\ pc = "post" /\ group = <<>> /\ (round = 1 \/ refused = <<>>)
        /\ pc' = "done"
        /\ results' = [k \in Keys |->
             IF results[k] = "none" /\ \E i \in Slots : KeyOf(i) = k THEN "unreported"
             ELSE results[k]]
        /\ UNCHANGED <<round, todo, refused>>
  /\ UNCHANGED <<server, elsewhere, local, group, attempt, made>>

\* Everything of this stage is built, or sent.
NextStage ==
  /\ \/ /\ pc \in {"build", "refresh"} /\ todo = <<>>
        /\ pc' = "post"
        /\ UNCHANGED <<round, todo, refused, results>>
     \/ /\ pc = "post" /\ group = <<>> /\ round = 0 /\ refused # <<>>
        /\ pc' = "refresh" /\ round' = 1 /\ todo' = refused /\ refused' = <<>>
        /\ UNCHANGED results
     \/ /\ pc = "post" /\ group = <<>> /\ (round = 1 \/ refused = <<>>)
        /\ pc' = "done"
        /\ results' = [k \in Keys |->
             IF \E n \in DOMAIN refused : KeyOf(refused[n]) = k THEN "conflict"
             ELSE IF results[k] = "none" /\ \E i \in Slots : KeyOf(i) = k THEN "unreported"
             ELSE results[k]]
        /\ UNCHANGED <<round, todo, refused>>
  /\ UNCHANGED <<server, elsewhere, local, group, attempt, made>>

Call == Build \/ Refresh \/ AnswerPost \/ PostFails \/ PostLost \/ NextStage
Next == Call \/ \E k \in Keys : ElsewhereWrite(k)

Spec == Init /\ [][Next]_vars
FairSpec == Spec /\ WF_vars(Call)

-----------------------------------------------------------------------------
\* Properties

TypeOK ==
  /\ exists \in [Keys -> BOOLEAN] /\ version \in [Keys -> Nat]
  /\ data \in [Keys -> SUBSET Elems] /\ libver \in Nat
  /\ elsewhere \in 0..MaxElsewhere
  /\ local \in [Keys -> [version: Nat, data: SUBSET Elems]]
  /\ pc \in {"build", "post", "refresh", "done", "failed"}
  /\ round \in {0, 1} /\ attempt \in 0..MaxRetry
  /\ todo \in Seq(Slots) /\ refused \in Seq(Slots)
  /\ group \in Seq(Entry)
  /\ results \in [Keys -> Outcome] /\ made \subseteq Slots

\* items.go:352-364, ItemPatch.Rebuild: appending to an array never erases what
\* other writers put there after the local copy was taken: no step of the call
\* takes an element out of an item that is only appended to.
AppendKeeps ==
  [][\A i \in Slots : Patches[i].how = "append" /\ elsewhere' = elsewhere
                         => data[KeyOf(i)] \subseteq data'[KeyOf(i)]]_vars

\* items.go:392-394: nil means success.  A key is reported nil only if its own edit
\* was in force at some moment of the call, across chunks, rounds and lost answers.
NilMeansMade == \A i \in Slots : results[KeyOf(i)] = "nil" => i \in made

\* items.go:534-541: "shouldn't happen": a call that returns normally has an outcome
\* of its own for every patch, whatever was refused, refreshed or abandoned.
EveryKeyReported ==
  pc = "done" => \A i \in Slots : results[KeyOf(i)] \in {"nil", "error", "conflict"}

\* items.go:396-399: every call returns, after at most two rounds.
Returns == <>(pc \in {"done", "failed"})
=============================================================================
