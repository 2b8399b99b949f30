------------------------------ MODULE TableRows ------------------------------
(***************************************************************************)
(* One tab of the table viewer (internal/tui/dbtui): three layers of rows   *)
(* (all, after the pin filter, after the search), sorting, pins, the cell   *)
(* editor, visual selection with delete, cut and paste, and the search bar  *)
(* with its debounced full-text query.                                     *)
(*                                                                         *)
(* A row is its rowid; the table has its primary key in column 0 and one   *)
(* data column.  A layer keeps row metadata and cells in parallel slices   *)
(* that every operation moves together, so it is one sequence of rowids;   *)
(* the cells themselves are one slice per row, shared by all layers: mem.  *)
(* Indices count from 1; the cursor 0 is the widget's -1, on no row.        *)
(***************************************************************************)
EXTENDS Integers, FiniteSets, Sequences, SequencesExt

CONSTANTS
  MaxId,         \* bound: the largest rowid
  Vals,          \* values of the data column, Null (the database's NULL) or not
  Starts,        \* what a viewer may be opened on: [fulltext, table]
  Queries,       \* texts of the search bar, the empty text excluded
  Meta,          \* Meta[q]: the values whose metadata match q
  Bodies,        \* Bodies[q]: the rows whose note body matches q
  Index,         \* Index[q]: the rows the full-text index has for q
  MaxSeq,        \* bound: full-text searches scheduled by one search bar
  MaxChanges,    \* bound: changes made to the table
  MaxClip,       \* bound: rows on the clipboard
  SortFiltered,  \* whether the user sorts while a filter or a search hides rows
  Reopens        \* whether a new search starts while answers of an old one are due

Null == 0
NoQuery == "empty"
Blank == 0       \* the zero row ReorderTab writes where an index has no row

Ids == 1..MaxId
Tables == UNION {[ids -> Vals] : ids \in SUBSET Ids}

ASSUME TableAssumption ==
  /\ MaxId \in Nat /\ MaxSeq \in Nat /\ MaxChanges \in Nat
  /\ Vals \subseteq Nat /\ NoQuery \notin Queries
  /\ Starts \subseteq [fulltext : BOOLEAN, table : Tables]
  /\ Meta \in [Queries -> SUBSET Vals]
  /\ Bodies \in [Queries -> SUBSET (1..MaxId)]
  /\ Index \in [Queries -> SUBSET (1..MaxId)]
  /\ SortFiltered \in BOOLEAN /\ Reopens \in BOOLEAN

VARIABLES
  fulltext,  \* the store answers full-text searches; such a store is read-only
  db,        \* the table in the database: rowid -> value
  changes,   \* how often it was changed
  tab,       \* the tab's layers, cells, cursor, sort and pins
  stale,     \* the last rebuild failed
  mode,      \* "normal", "edit" or "visual"; "panicked" once the program has died
  visual,    \* anchor (0 = none) and selected row indices
  editor,    \* the row under the cell editor; row = 0 when it is closed
  clip,      \* the clipboard: a sequence of values
  search,    \* the search bar
  full,      \* searchMode = modeFull
  ticks,     \* debounce timers running, by sequence number
  asks       \* full-text queries running: [seq, query]

vars == <<fulltext, db, changes, tab, stale, mode, visual, editor, clip, search, full, ticks, asks>>
userVars == <<mode, visual, editor, clip>>
searchVars == <<search, full, ticks, asks>>

NoSearch == [bar |-> "closed", query |-> NoQuery, seq |-> 0, hits |-> {}, loading |-> FALSE]
NoVisual == [anchor |-> 0, selected |-> {}]
NoEditor == [row |-> 0, at |-> 0]

------------------------------------------------------------------------------
(* Sorting and filtering: tabstate/sort.go, tabstate/filter.go. *)

\* Mutant: one row further than the last.
ClampPastEnd(c, n) == IF c > n + 1 THEN n + 1 ELSE c

\* The table widget when it is given n rows (SetRows): none leave the cursor on no row,
\* and there it stays when rows return.
Clamp(c, n) == IF c > n THEN n ELSE c

\* The widget's SetCursor after clampCursor: on a row, if there is one.
OnRow(c, n) == IF n > 0 /\ c = 0 THEN 1 ELSE Clamp(c, n)

\* The elements of S in the order of before, each at the place after those before it.
Sorted(S, before(_, _)) ==
  [k \in 1..Cardinality(S) |-> CHOOSE x \in S : Cardinality({y \in S : before(y, x)}) = k - 1]

\* The rows a layer has at some of its indices.
Kept(layer, indices) ==
  LET at == Sorted(indices, <) IN [k \in DOMAIN at |-> layer[at[k]]]

Show(t, rows) == [t EXCEPT !.rows = rows, !.cursor = Clamp(@, Len(rows))]

\* Row a goes before row b: NULL last either way, the primary key breaks ties.
Before(t, a, b) ==
  LET x == t.mem[a]  y == t.mem[b] IN
  IF t.sort = "none" \/ x = y THEN a < b
  ELSE IF x = Null \/ y = Null THEN y = Null
  ELSE IF t.sort = "asc" THEN x < y ELSE y < x

Reorder(layer, indices) ==
  [i \in DOMAIN indices |-> IF indices[i] \in DOMAIN layer THEN layer[indices[i]] ELSE Blank]

\* The indices are those of the rows on the screen, and move the full layer too.
Order(t) ==
  Sorted(DOMAIN t.rows, LAMBDA i, j : IF t.rows[i] = t.rows[j] THEN i < j
                                      ELSE Before(t, t.rows[i], t.rows[j]))

ApplySorts(t) ==
  IF Len(t.rows) <= 1 THEN t
  ELSE [Show(t, Reorder(t.rows, Order(t))) EXCEPT !.full = Reorder(t.full, Order(t))]

Visible(t, id) == t.pins = {} \/ ~t.active \/ (t.mem[id] \in t.pins) # t.inverted

ApplyRowFilter(t) ==
  LET rows == Kept(t.full, {i \in DOMAIN t.full : Visible(t, t.full[i])})
  IN [Show(t, rows) EXCEPT !.post = rows]

\* buildTab: rows in rowid order, no snapshot, cursor on the first row, if any.
Loaded(table) ==
  LET rows == Sorted(DOMAIN table, <)
  IN [full |-> rows, post |-> <<>>, rows |-> rows, mem |-> table, cursor |-> Clamp(1, Len(rows)),
      sort |-> "none", pins |-> {}, active |-> FALSE, inverted |-> FALSE]

\* rebuildTab: load again, then restore sort, pins, filter and cursor.
Rebuilt(table) ==
  LET sorted == ApplySorts([Loaded(table) EXCEPT !.sort = tab.sort])
      pinned == [sorted EXCEPT !.pins = tab.pins, !.active = tab.active, !.inverted = tab.inverted]
      shown == IF tab.pins = {} THEN pinned ELSE ApplyRowFilter(pinned)
  IN [shown EXCEPT !.cursor = OnRow(tab.cursor, Len(shown.rows))]

------------------------------------------------------------------------------
(* Searching: app/search.go. *)

Matches(t, s, fullMode, id) ==
  \/ t.mem[id] \in Meta[s.query]
  \/ fullMode /\ id \in s.hits \union Bodies[s.query]

\* Restore the rows after pinning, filter them by the query, and set the cursor.
Refilter(t, s, fullMode) ==
  LET rows == IF s.query = NoQuery THEN t.post
              ELSE Kept(t.post, {i \in DOMAIN t.post : Matches(t, s, fullMode, t.post[i])})
  IN [t EXCEPT !.rows = rows, !.cursor = OnRow(@, Len(rows))]

\* Mutant: an empty query schedules nothing but still outdates the query under way.
RerunSkipsEmpty(s, fullMode) ==
  /\ tab' = Refilter(tab, s, fullMode)
  /\ full' = fullMode
  /\ fullMode => s.seq < MaxSeq
  /\ search' = IF fullMode THEN [s EXCEPT !.seq = @ + 1] ELSE s
  /\ ticks' = IF fullMode /\ s.query # NoQuery THEN ticks \union {s.seq + 1} ELSE ticks
  /\ UNCHANGED <<fulltext, db, changes, stale, userVars, asks>>

\* rerunSearch: filter at once, and in full mode schedule the full-text query.
Rerun(s, fullMode) ==
  /\ tab' = Refilter(tab, s, fullMode)
  /\ full' = fullMode
  /\ fullMode => s.seq < MaxSeq
  /\ search' = IF fullMode THEN [s EXCEPT !.seq = @ + 1] ELSE s
  /\ ticks' = IF fullMode THEN ticks \union {s.seq + 1} ELSE ticks
  /\ UNCHANGED <<fulltext, db, changes, stale, userVars, asks>>

\* Mutant: the rows on the screen become the snapshot every time the bar opens.
OpenSearchSnapshots ==
  /\ search.bar # "open" /\ mode \in {"normal", "edit"} /\ editor = NoEditor
  /\ Reopens \/ search.bar = "committed" \/ (ticks = {} /\ asks = {})
  /\ tab' = [tab EXCEPT !.post = tab.rows]
  /\ search' = [(IF search.bar = "committed" THEN search ELSE NoSearch) EXCEPT !.bar = "open"]
  /\ UNCHANGED <<fulltext, db, changes, stale, userVars, full, ticks, asks>>

OpenSearch ==
  /\ search.bar # "open" /\ mode \in {"normal", "edit"} /\ editor = NoEditor
  /\ Reopens \/ search.bar = "committed" \/ (ticks = {} /\ asks = {})
  /\ tab' = IF tab.post = <<>> THEN [tab EXCEPT !.post = tab.rows] ELSE tab
  /\ search' = [(IF search.bar = "committed" THEN search ELSE NoSearch) EXCEPT !.bar = "open"]
  /\ UNCHANGED <<fulltext, db, changes, stale, userVars, full, ticks, asks>>

TypeQuery ==
  /\ search.bar = "open"
  /\ \E q \in (Queries \union {NoQuery}) \ {search.query} : Rerun([search EXCEPT !.query = q], full)

\* tab.  In a store without full text the two modes do the same.
ToggleMode ==
  /\ search.bar = "open" /\ fulltext
  /\ Rerun([search EXCEPT !.hits = {}, !.loading = FALSE], ~full)

CommitSearch ==
  /\ search.bar = "open"
  /\ search' = [search EXCEPT !.bar = "committed"]
  /\ UNCHANGED <<fulltext, db, changes, tab, stale, userVars, full, ticks, asks>>

\* esc on an empty query; on another one it clears the query, which TypeQuery does.
CloseSearch ==
  /\ search.bar = "open" /\ search.query = NoQuery
  /\ search' = NoSearch
  /\ tab' = Show(tab, tab.post)
  /\ UNCHANGED <<fulltext, db, changes, stale, userVars, full, ticks, asks>>

Tick(n) ==
  /\ n \in ticks
  /\ ticks' = ticks \ {n}
  /\ IF search.bar # "closed" /\ search.seq = n
     THEN /\ search' = [search EXCEPT !.loading = TRUE]
          /\ asks' = asks \union {[seq |-> n, query |-> search.query]}
     ELSE UNCHANGED <<search, asks>>
  /\ UNCHANGED <<fulltext, db, changes, tab, stale, userVars, full>>

\* Mutant: any answer is taken for the current one.
ResultAnySeq(a) ==
  /\ a \in asks
  /\ asks' = asks \ {a}
  /\ \E found \in {{}, IF a.query = NoQuery THEN {} ELSE Index[a.query]} :
       IF search.bar # "closed"
       THEN LET s == [search EXCEPT !.loading = FALSE, !.hits = found] IN
            search' = s /\ tab' = Refilter(tab, s, full)
       ELSE UNCHANGED <<search, tab>>
  /\ UNCHANGED <<fulltext, db, changes, stale, userVars, full, ticks>>

\* handleFTSResult.  A query that fails answers like one that found nothing.
Result(a) ==
  /\ a \in asks
  /\ asks' = asks \ {a}
  /\ \E found \in {{}, IF a.query = NoQuery THEN {} ELSE Index[a.query]} :
       IF search.bar # "closed" /\ search.seq = a.seq
       THEN LET s == [search EXCEPT !.loading = FALSE, !.hits = found] IN
            search' = s /\ tab' = Refilter(tab, s, full)
       ELSE UNCHANGED <<search, tab>>
  /\ UNCHANGED <<fulltext, db, changes, stale, userVars, full, ticks>>

------------------------------------------------------------------------------
(* Keys of normal mode, and the cursor, which the mouse wheel moves at any time. *)

NormalKey == mode = "normal" /\ search.bar # "open"

\* arrows, g, G, half pages, a click, the wheel
MoveCursor ==
  /\ mode # "panicked"
  /\ \E c \in DOMAIN tab.rows : tab' = [tab EXCEPT !.cursor = c]
  /\ UNCHANGED <<fulltext, db, changes, stale, userVars, searchVars>>

SortKey ==
  /\ NormalKey
  /\ SortFiltered \/ Len(tab.rows) = Len(tab.full)
  /\ \E next \in {"none", IF tab.sort = "none" THEN "asc" ELSE IF tab.sort = "asc" THEN "desc" ELSE "none"} :
       tab' = ApplySorts([tab EXCEPT !.sort = next])
  /\ UNCHANGED <<fulltext, db, changes, stale, userVars, searchVars>>

PinKey ==
  /\ NormalKey /\ tab.cursor \in DOMAIN tab.rows
  /\ LET v == tab.mem[tab.rows[tab.cursor]]
     IN tab' = ApplyRowFilter([tab EXCEPT !.pins = IF v \in @ THEN @ \ {v} ELSE @ \union {v}])
  /\ UNCHANGED <<fulltext, db, changes, stale, userVars, searchVars>>

FilterKey ==
  /\ NormalKey /\ tab.pins # {}
  /\ \/ tab' = ApplyRowFilter([tab EXCEPT !.active = ~@])
     \/ tab' = ApplyRowFilter([tab EXCEPT !.inverted = ~@])
  /\ UNCHANGED <<fulltext, db, changes, stale, userVars, searchVars>>

ClearPins ==
  /\ NormalKey
  /\ tab' = ApplyRowFilter([tab EXCEPT !.pins = {}, !.active = FALSE, !.inverted = FALSE])
  /\ UNCHANGED <<fulltext, db, changes, stale, userVars, searchVars>>

\* i, v, esc and n between the modes
SwitchMode ==
  /\ mode # "panicked"
  /\ search.bar # "open" /\ editor = NoEditor /\ ~fulltext
  /\ mode' \in IF mode = "normal" THEN {"edit", "visual"} ELSE {"normal"}
  /\ visual' = NoVisual
  /\ UNCHANGED <<fulltext, db, changes, tab, stale, editor, clip, searchVars>>

------------------------------------------------------------------------------
(* Changes to the table: app/cell_editor.go, app/visual.go, app/column_ops.go. *)

OpenEditor ==
  /\ mode = "edit" /\ search.bar # "open" /\ editor = NoEditor
  /\ tab.cursor \in DOMAIN tab.rows
  /\ editor' = [row |-> tab.rows[tab.cursor], at |-> tab.cursor]
  /\ UNCHANGED <<fulltext, db, changes, tab, stale, mode, visual, clip, searchVars>>

\* esc, a click outside the editor
CancelEditor ==
  /\ editor # NoEditor
  /\ editor' = NoEditor
  /\ UNCHANGED <<fulltext, db, changes, tab, stale, mode, visual, clip, searchVars>>

\* Mutant: the screen is updated at the cursor, which the wheel may have moved.
SaveEditorAtCursor ==
  /\ editor # NoEditor /\ editor.row \in DOMAIN db
  /\ changes < MaxChanges /\ changes' = changes + 1
  /\ \E v \in Vals :
       /\ db' = [db EXCEPT ![editor.row] = v]
       /\ tab' = [tab EXCEPT !.mem[tab.rows[tab.cursor]] = v]
  /\ editor' = NoEditor
  /\ UNCHANGED <<fulltext, stale, mode, visual, clip, searchVars>>

\* The database by rowid, the screen by the index the row had when the editor opened,
\* the full layer by rowid.  Without such a row the save fails and the editor stays.
SaveEditor ==
  /\ editor # NoEditor /\ editor.row \in DOMAIN db
  /\ changes < MaxChanges /\ changes' = changes + 1
  /\ \E v \in Vals :
       /\ db' = [db EXCEPT ![editor.row] = v]
       /\ tab' = [tab EXCEPT !.mem = [id \in DOMAIN @ |->
                    IF id = editor.row \/ (editor.at \in DOMAIN tab.rows /\ id = tab.rows[editor.at])
                    THEN v ELSE @[id]]]
  /\ editor' = NoEditor
  /\ UNCHANGED <<fulltext, stale, mode, visual, clip, searchVars>>

\* Mutant: the selection outlives the rows it was made on.
ChangeKeepsSelection(table) ==
  /\ changes < MaxChanges /\ changes' = changes + 1
  /\ db' = table
  /\ \/ tab' = Rebuilt(table) /\ stale' = FALSE
     \/ stale' = TRUE /\ UNCHANGED tab
  /\ UNCHANGED <<fulltext, mode, visual, editor, searchVars>>

\* A change is committed, then the tab is rebuilt and the selection dropped; when the
\* reload fails both stay as they were.
Change(table) ==
  /\ changes < MaxChanges /\ changes' = changes + 1
  /\ db' = table
  /\ \/ tab' = Rebuilt(table) /\ stale' = FALSE /\ visual' = NoVisual
     \/ stale' = TRUE /\ UNCHANGED <<tab, visual>>
  /\ UNCHANGED <<fulltext, mode, editor, searchVars>>

Lo(a, b) == IF a < b THEN a ELSE b
Hi(a, b) == IF a < b THEN b ELSE a

\* effectiveVisualSelection
Selection ==
  LET range == IF visual.anchor = 0 THEN {}
               ELSE Lo(visual.anchor, tab.cursor)..Hi(visual.anchor, tab.cursor)
      chosen == visual.selected \union range
  IN IF chosen = {} THEN {tab.cursor} ELSE chosen

SelectedRows == {tab.rows[i] : i \in Selection \intersect DOMAIN tab.rows}
Copied == LET rows == Kept(tab.rows, Selection \intersect DOMAIN tab.rows)
          IN [i \in DOMAIN rows |-> tab.mem[rows[i]]]

\* space
SelectRow ==
  /\ mode = "visual"
  /\ visual' = [visual EXCEPT !.selected =
                  IF tab.cursor \in @ THEN @ \ {tab.cursor} ELSE @ \union {tab.cursor}]
  /\ UNCHANGED <<fulltext, db, changes, tab, stale, mode, editor, clip, searchVars>>

\* J and K: anchor here, then move
ExtendSelection ==
  /\ mode = "visual"
  /\ visual' = [visual EXCEPT !.anchor = IF @ = 0 THEN tab.cursor ELSE @]
  /\ \E c \in {tab.cursor - 1, tab.cursor + 1} :
       tab' = IF c \in DOMAIN tab.rows THEN [tab EXCEPT !.cursor = c] ELSE tab
  /\ UNCHANGED <<fulltext, db, changes, stale, mode, editor, clip, searchVars>>

\* y, d, x: the selection may hold the index of no row, and the checks only ask that an
\* index is not past the last one.
Panic ==
  /\ mode = "visual" /\ 0 \in Selection
  /\ mode' = "panicked" /\ visual' = NoVisual
  /\ UNCHANGED <<fulltext, db, changes, tab, stale, editor, clip, searchVars>>

Yank ==
  /\ mode = "visual" /\ 0 \notin Selection /\ Len(Copied) <= MaxClip
  /\ clip' = Copied
  /\ UNCHANGED <<fulltext, db, changes, tab, stale, mode, visual, editor, searchVars>>

DeleteOrCut ==
  /\ mode = "visual" /\ 0 \notin Selection
  /\ Change([id \in DOMAIN db \ SelectedRows |-> db[id]])
  /\ clip' \in {clip} \union {c \in {Copied} : Len(c) <= MaxClip}

\* New rows get the rowids after the largest one.
Paste ==
  LET last == IF db = <<>> THEN 0 ELSE CHOOSE id \in DOMAIN db : \A other \in DOMAIN db : other <= id IN
  /\ mode = "visual" /\ clip # <<>> /\ last + Len(clip) <= MaxId
  /\ Change([id \in DOMAIN db \union (last + 1)..(last + Len(clip)) |->
               IF id \in DOMAIN db THEN db[id] ELSE clip[id - last]])
  /\ UNCHANGED clip

\* A column is renamed: the rows stay, the tab is rebuilt.
RenameColumn ==
  /\ NormalKey /\ ~fulltext
  /\ Change(db)
  /\ UNCHANGED clip

------------------------------------------------------------------------------
Init ==
  /\ \E start \in Starts : fulltext = start.fulltext /\ db = start.table
  /\ tab = Loaded(db)
  /\ changes = 0 /\ stale = FALSE
  /\ mode = "normal" /\ visual = NoVisual /\ editor = NoEditor /\ clip = <<>>
  /\ search = NoSearch /\ full = FALSE /\ ticks = {} /\ asks = {}

Next ==
  \/ MoveCursor \/ SortKey \/ PinKey \/ FilterKey \/ ClearPins \/ SwitchMode
  \/ OpenEditor \/ CancelEditor \/ SaveEditor
  \/ SelectRow \/ ExtendSelection \/ Panic \/ Yank \/ DeleteOrCut \/ Paste \/ RenameColumn
  \/ OpenSearch \/ TypeQuery \/ ToggleMode \/ CommitSearch \/ CloseSearch
  \/ \E n \in 1..MaxSeq : Tick(n)
  \/ \E a \in asks : Result(a)

Spec == Init /\ [][Next]_vars
FairSpec == Spec /\ \A n \in 1..MaxSeq : /\ WF_vars(Tick(n))
                                          /\ WF_vars(\E a \in asks : a.seq = n /\ Result(a))
------------------------------------------------------------------------------
(* Properties. *)

\* Every variable has its type; layers only hold rows whose cells were loaded, and the
\* cursor is on a row of the screen or on none.
TypeOK ==
  /\ fulltext \in BOOLEAN /\ full \in BOOLEAN /\ stale \in BOOLEAN
  /\ DOMAIN db \subseteq Ids /\ \A id \in DOMAIN db : db[id] \in Vals
  /\ changes \in 0..MaxChanges
  /\ \A layer \in {tab.full, tab.post, tab.rows} : ToSet(layer) \subseteq DOMAIN tab.mem \union {Blank}
  /\ tab.sort \in {"none", "asc", "desc"} /\ tab.pins \subseteq Vals
  /\ tab.cursor \in 0..Len(tab.rows)
  /\ mode \in {"normal", "edit", "visual", "panicked"}
  /\ search.bar \in {"closed", "open", "committed"} /\ search.seq \in 0..MaxSeq
  /\ ticks \subseteq 1..MaxSeq
  /\ asks \subseteq [seq : 1..MaxSeq, query : Queries \union {NoQuery}]

\* After any sequence of sorting, pinning, searching, editing, deleting and pasting the
\* full layer holds each row of the table once, with the table's value, unless the last
\* reload failed (rebuildTab, ReorderTab, saveCellEditor).
ScreenTruth ==
  ~stale => /\ ToSet(tab.full) = DOMAIN db /\ Len(tab.full) = Cardinality(DOMAIN db)
            /\ \A id \in DOMAIN db : tab.mem[id] = db[id]

\* With the search closed and no pin, no row is hidden: what openSearch snapshots and
\* closeSearch restores is never a set of rows that an earlier search or pin had left.
NothingHidden ==
  search.bar = "closed" /\ tab.pins = {} => ToSet(tab.rows) = ToSet(tab.full)

\* What is selected are rows: y, d and x never index the rows with the -1 of a widget that
\* was empty (visualYank, visualDelete; "returns the cursor row only", visual.go:74).
NeverPanics == mode # "panicked"

\* Once no timer and no query is under way, the full-text hits that filter the rows are
\* hits of the query in the bar, not of one typed before (ftsSeq).
HitsOwn ==
  full /\ ticks = {} /\ asks = {} /\ search.bar # "closed" =>
    search.hits \subseteq (IF search.query = NoQuery THEN {} ELSE Index[search.query])

\* A selected index never comes to mean another row than the one selected: what d and x
\* delete is what the user marked (handleVisualKey, resetVisualSelection).
SelectionPinned ==
  [][\A i \in visual.selected \intersect visual'.selected \intersect DOMAIN tab.rows :
       i \in DOMAIN tab'.rows /\ tab'.rows[i] = tab.rows[i]]_vars

\* The spinner of the search bar stops: a query whose answer is discarded as stale is
\* always followed by one that is not, when timers fire and queries end (handleFTSTick).
SpinnerStops == search.loading ~> ~search.loading
=============================================================================
