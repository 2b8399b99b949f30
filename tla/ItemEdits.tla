------------------------------ MODULE ItemEdits ------------------------------
(***************************************************************************)
(* What a single-item edit through internal/zot/api promises its caller.   *)
(*                                                                         *)
(* A library is a set of items, each with array-valued fields (collections,*)
(* tags, relations).  A call asks for some edits.  Each edit takes effect   *)
(* atomically on whatever the item holds at that moment, so it can neither *)
(* erase nor resurrect an element it was not asked about, and a call is     *)
(* acknowledged only once every edit it asked for has taken effect.  A call*)
(* that fails promises nothing: its edits may or may not have been made,    *)
(* and an edit may be made twice (the HTTP layer retries).                  *)
(***************************************************************************)
EXTENDS Naturals

CONSTANTS Keys,      \* item keys of one library
          Fields,    \* array-valued item fields
          Elems,     \* what the arrays hold
          Callers    \* one invocation of the API client each

Edits == [kind: {"add", "remove", "trash"}, key: Keys, field: Fields, elem: Elems]

VARIABLES exists,    \* exists[k]: item k is in the library
          data,      \* data[k][f]: the elements of its array f
          asked,     \* asked[c]: the edits call c wants
          made,      \* made[c]: those that took effect since it began
          verdict    \* verdict[c]: what the caller knows

vars == <<exists, data, asked, made, verdict>>

Verdicts == {"idle", "pending", "ok", "failed"}

\* The contents of an array after an edit.
Revised(e, S) == IF e.kind = "add" THEN S \union {e.elem} ELSE S \ {e.elem}

Init ==
  /\ exists = [k \in Keys |-> TRUE]
  /\ data \in [Keys -> [Fields -> SUBSET Elems]]
  /\ asked \in [Callers -> SUBSET Edits]
  /\ made = [c \in Callers |-> {}]
  /\ verdict = [c \in Callers |-> "idle"]

\* A call starts, or is refused for its arguments.
Begin(c) ==
  /\ verdict[c] = "idle"
  /\ \E v \in {"pending", "failed"} : verdict' = [verdict EXCEPT ![c] = v]
  /\ UNCHANGED <<exists, data, asked, made>>

\* One edit of a pending call takes effect.  The caller may learn of it in the
\* same step ("ok" only when nothing is left to do), or lose track of it.
MakeEdit(c, e) ==
  /\ verdict[c] = "pending" /\ e \in asked[c] /\ exists[e.key]
  /\ made' = [made EXCEPT ![c] = @ \union {e}]
  /\ IF e.kind = "trash"
     THEN exists' = [exists EXCEPT ![e.key] = FALSE] /\ UNCHANGED data
     ELSE /\ data' = [data EXCEPT ![e.key][e.field] = Revised(e, @)]
          /\ UNCHANGED exists
  /\ \E v \in {"pending", "ok", "failed"} :
        /\ v = "ok" => made'[c] = asked[c]
        /\ verdict' = [verdict EXCEPT ![c] = v]
  /\ UNCHANGED asked

Fail(c) ==
  /\ verdict[c] = "pending"
  /\ verdict' = [verdict EXCEPT ![c] = "failed"]
  /\ UNCHANGED <<exists, data, asked, made>>

\* Another writer (Zotero desktop, another tool) changes one item.
Elsewhere(k) ==
  /\ exists[k]
  /\ \/ \E f \in Fields, S \in SUBSET Elems :
           data' = [data EXCEPT ![k][f] = S] /\ UNCHANGED exists
     \/ exists' = [exists EXCEPT ![k] = FALSE] /\ UNCHANGED data
  /\ UNCHANGED <<asked, made, verdict>>

Next == \/ \E c \in Callers : Begin(c) \/ Fail(c) \/ \E e \in asked[c] : MakeEdit(c, e)
        \/ \E k \in Keys : Elsewhere(k)

Spec == Init /\ [][Next]_vars
=============================================================================
