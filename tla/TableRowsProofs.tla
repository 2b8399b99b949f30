--------------------------- MODULE TableRowsProofs ---------------------------
EXTENDS TableRows, FiniteSetTheorems, SequenceTheorems, TLAPS

-----------------------------------------------------------------------------
(* The invariants: Control of the modes and the search bar, Inv of the layers. *)

\* What the theorems about the layers assume of the user: no sorting while a pin or a
\* search hides rows (the bound SortFiltered).
SortsAll == SortFiltered = FALSE

\* What HitsHold assumes: no new search is opened before the answers of the last one are
\* in (the bound Reopens).
Patient == Reopens = FALSE

\* The search bar and its timers and queries.
Bars == [bar : {"closed", "open", "committed"}, query : Queries \union {NoQuery},
         seq : 0..MaxSeq, hits : SUBSET Ids, loading : BOOLEAN]

BarTypes ==
  /\ search \in Bars /\ full \in BOOLEAN
  /\ ticks \subseteq 1..MaxSeq
  /\ asks \subseteq [seq : 1..MaxSeq, query : Queries \union {NoQuery}]

Fields == {"full", "post", "rows", "mem", "cursor", "sort", "pins", "active", "inverted"}

\* What excludes what: searching, selecting and editing never overlap, and only a
\* read-only store searches its full text.
Modes ==
  /\ mode # "normal" => ~fulltext
  /\ search.bar = "open" => mode # "visual" /\ editor = NoEditor
  /\ ~fulltext => ~full /\ ticks = {} /\ asks = {}
  /\ mode # "visual" => visual = NoVisual
  /\ editor # NoEditor => mode = "edit"

\* The part of the invariant that holds however the user sorts.
Control == BarTypes /\ Modes /\ DOMAIN tab = Fields

TabTypes == [full : Seq(Ids), post : Seq(Ids), rows : Seq(Ids), mem : Tables, cursor : Nat,
             sort : {"none", "asc", "desc"}, pins : SUBSET Vals, active : BOOLEAN, inverted : BOOLEAN]

\* Layers show loaded rows only, and the full one each of them once.
Layered(t) ==
  /\ t \in TabTypes
  /\ ToSet(t.post) \subseteq DOMAIN t.mem /\ ToSet(t.rows) \subseteq DOMAIN t.mem
  /\ t.cursor <= Len(t.rows)
  /\ ToSet(t.full) = DOMAIN t.mem /\ Len(t.full) = Cardinality(DOMAIN t.mem)

\* A full layer, a snapshot and a screen of which none hides a row from the other two.
SnapshotWhole(t) == t.post # <<>> => ToSet(t.post) = ToSet(t.full)
ScreenWhole(t) == t.post = <<>> => ToSet(t.rows) = ToSet(t.full)
Whole(t) == ToSet(t.post) = ToSet(t.full)

\* While no pin is set, the snapshot a search restores from is the whole table.
Hidden ==
  tab.pins = {} =>
    /\ SnapshotWhole(tab) /\ ScreenWhole(tab)
    /\ search.bar = "open" \/ (fulltext /\ search.bar # "closed") => Whole(tab)
    /\ search.bar = "closed" => ToSet(tab.rows) = ToSet(tab.full)

Types ==
  /\ fulltext \in BOOLEAN /\ stale \in BOOLEAN
  /\ db \in Tables /\ changes \in 0..MaxChanges
  /\ mode \in {"normal", "edit", "visual", "panicked"}
  /\ visual \in [anchor : Nat, selected : SUBSET Nat]
  /\ editor \in [row : Nat, at : Nat]
  /\ clip \in Seq(Vals)

\* The screen still shows the edited row where the editor opened.
EditorPinned ==
  editor # NoEditor => editor.at \in DOMAIN tab.rows /\ tab.rows[editor.at] = editor.row

Inv ==
  /\ Control /\ Types /\ Layered(tab) /\ EditorPinned /\ Hidden
  /\ ~stale => tab.mem = db

-----------------------------------------------------------------------------
(* Control holds whatever is sorted: of the layers only that a tab keeps its fields. *)

\* Rerun outdates what is under way and schedules a timer of its own.
LEMMA RerunFacts ==
  ASSUME BarTypes, TypeQuery \/ ToggleMode
  PROVE  /\ search.bar = "open" /\ search'.bar = "open" /\ BarTypes' /\ asks' = asks
         /\ UNCHANGED <<fulltext, db, changes, stale, userVars>>
         /\ \/ /\ full' /\ search'.seq = search.seq + 1 /\ ticks' = ticks \union {search'.seq}
               /\ full \/ fulltext
            \/ ~full' /\ search'.seq = search.seq /\ ticks' = ticks
         /\ \E s, fullMode : tab' = Refilter(tab, s, fullMode)
<1>1. search \in Bars /\ search.bar = "open"
  BY DEF BarTypes, TypeQuery, ToggleMode
<1>2. PICK s \in Bars, fullMode \in BOOLEAN :
        Rerun(s, fullMode) /\ s.bar = "open" /\ s.seq = search.seq /\ (fullMode => full \/ fulltext)
  <2>1. CASE TypeQuery
    <3>1. PICK q \in Queries \union {NoQuery} : Rerun([search EXCEPT !.query = q], full)
      BY <2>1 DEF TypeQuery
    <3>2. PICK s : s = [search EXCEPT !.query = q]
      OBVIOUS
    <3>3. s \in Bars /\ s.bar = "open" /\ s.seq = search.seq /\ full \in BOOLEAN
      BY <1>1, <3>2 DEF Bars, BarTypes
    <3> QED BY <3>1, <3>2, <3>3
  <2>2. CASE ToggleMode
    <3>1. Rerun([search EXCEPT !.hits = {}, !.loading = FALSE], ~full) /\ fulltext
      BY <2>2 DEF ToggleMode
    <3>2. PICK s : s = [search EXCEPT !.hits = {}, !.loading = FALSE]
      OBVIOUS
    <3>3. s \in Bars /\ s.bar = "open" /\ s.seq = search.seq
      BY <1>1, <3>2 DEF Bars
    <3> QED BY <3>1, <3>2, <3>3
  <2> QED BY <2>1, <2>2
<1>3. /\ tab' = Refilter(tab, s, fullMode) /\ full' = fullMode /\ (fullMode => s.seq < MaxSeq)
      /\ search' = IF fullMode THEN [s EXCEPT !.seq = @ + 1] ELSE s
      /\ ticks' = IF fullMode THEN ticks \union {s.seq + 1} ELSE ticks
      /\ asks' = asks /\ UNCHANGED <<fulltext, db, changes, stale, userVars>>
  BY <1>2 DEF Rerun
<1>4. fullMode => s.seq + 1 \in 1..MaxSeq /\ s.seq + 1 \in 0..MaxSeq
  BY <1>2, <1>3, TableAssumption DEF Bars
<1>5. search' \in Bars /\ search'.bar = "open"
      /\ search'.seq = IF fullMode THEN s.seq + 1 ELSE s.seq
  BY <1>2, <1>3, <1>4 DEF Bars
<1>6. ticks' \subseteq 1..MaxSeq
  BY <1>3, <1>4 DEF BarTypes
<1>7. BarTypes'
  BY <1>3, <1>5, <1>6 DEF BarTypes
<1> QED BY <1>1, <1>2, <1>3, <1>5, <1>7

\* A timer asks for the query of the bar, or has been outdated.
LEMMA TickFacts ==
  ASSUME BarTypes, NEW n \in 1..MaxSeq, Tick(n)
  PROVE  /\ BarTypes' /\ n \in ticks /\ ticks' = ticks \ {n}
         /\ UNCHANGED <<fulltext, db, changes, tab, stale, userVars, full>>
         /\ search'.bar = search.bar /\ search'.seq = search.seq
         /\ search'.query = search.query /\ search'.hits = search.hits
         /\ IF search.bar # "closed" /\ search.seq = n
            THEN asks' = asks \union {[seq |-> n, query |-> search.query]}
            ELSE asks' = asks
<1>1. /\ UNCHANGED <<fulltext, db, changes, tab, stale, userVars, full>> /\ n \in ticks /\ ticks' = ticks \ {n}
      /\ IF search.bar # "closed" /\ search.seq = n
         THEN /\ search' = [search EXCEPT !.loading = TRUE]
              /\ asks' = asks \union {[seq |-> n, query |-> search.query]}
         ELSE search' = search /\ asks' = asks
  BY DEF Tick
<1>2. search \in Bars /\ (search' = [search EXCEPT !.loading = TRUE] \/ search' = search)
  BY <1>1 DEF BarTypes
<1>3. /\ search' \in Bars /\ search'.bar = search.bar /\ search'.seq = search.seq
      /\ search'.query = search.query /\ search'.hits = search.hits
  BY <1>2 DEF Bars
<1>4. asks' \subseteq [seq : 1..MaxSeq, query : Queries \union {NoQuery}]
  BY <1>1, <1>2 DEF BarTypes, Bars
<1>5. BarTypes'
  BY <1>1, <1>3, <1>4 DEF BarTypes
<1> QED BY <1>1, <1>3, <1>5

Allowed(q) == IF q = NoQuery THEN {} ELSE Index[q]

\* An answer is taken if it carries the bar's number, and is thrown away otherwise.
LEMMA ResultFacts ==
  ASSUME BarTypes, NEW a \in asks, Result(a)
  PROVE  /\ BarTypes' /\ asks' = asks \ {a}
         /\ UNCHANGED <<fulltext, db, changes, stale, userVars, full, ticks>>
         /\ search'.bar = search.bar /\ search'.seq = search.seq /\ search'.query = search.query
         /\ IF search.bar # "closed" /\ search.seq = a.seq
            THEN search'.hits \subseteq Allowed(a.query) /\ \E s : tab' = Refilter(tab, s, full)
            ELSE search' = search /\ tab' = tab
<1>1. PICK found : /\ found \in {{}, Allowed(a.query)}
                   /\ IF search.bar # "closed" /\ search.seq = a.seq
                      THEN /\ search' = [search EXCEPT !.loading = FALSE, !.hits = found]
                           /\ tab' = Refilter(tab, search', full)
                      ELSE search' = search /\ tab' = tab
  BY DEF Result, Allowed
<1>2. asks' = asks \ {a} /\ UNCHANGED <<fulltext, db, changes, stale, userVars, full, ticks>>
  BY DEF Result
<1>3. search \in Bars /\ found \in SUBSET Ids /\ found \subseteq Allowed(a.query)
  <2>1. a.query \in Queries \union {NoQuery}
    BY DEF BarTypes
  <2> QED BY <1>1, <2>1, TableAssumption DEF Ids, BarTypes, Allowed
<1>4. search' = [search EXCEPT !.loading = FALSE, !.hits = found] \/ search' = search
  BY <1>1
<1>5. /\ search' \in Bars
      /\ search'.bar = search.bar /\ search'.seq = search.seq /\ search'.query = search.query
  BY <1>3, <1>4 DEF Bars
<1>6. search' = [search EXCEPT !.loading = FALSE, !.hits = found] => search'.hits = found
  BY <1>3 DEF Bars
<1>7. BarTypes'
  BY <1>2, <1>5 DEF BarTypes
<1> QED BY <1>1, <1>2, <1>3, <1>5, <1>6, <1>7

\* The tab's operators keep its fields.
LEMMA Shapes ==
  ASSUME NEW t, DOMAIN t = Fields
  PROVE  /\ \A rows : DOMAIN Show(t, rows) = Fields
         /\ DOMAIN ApplySorts(t) = Fields /\ DOMAIN ApplyRowFilter(t) = Fields
         /\ \A s, fullMode : DOMAIN Refilter(t, s, fullMode) = Fields
<1>1. \A rows : DOMAIN Show(t, rows) = Fields
  BY DEF Show
<1>2. DOMAIN ApplySorts(t) = Fields
  BY <1>1 DEF ApplySorts
<1>3. DOMAIN ApplyRowFilter(t) = Fields
  BY <1>1 DEF ApplyRowFilter
<1>4. \A s, fullMode : DOMAIN Refilter(t, s, fullMode) = Fields
  BY DEF Refilter
<1> QED BY <1>1, <1>2, <1>3, <1>4

LEMMA RebuiltShape == ASSUME NEW table PROVE DOMAIN Rebuilt(table) = Fields
<1>1. PICK l : l = [Loaded(table) EXCEPT !.sort = tab.sort]
  OBVIOUS
<1>2. DOMAIN l = Fields
  BY <1>1 DEF Loaded, Fields
<1>3. PICK p : p = [ApplySorts(l) EXCEPT !.pins = tab.pins, !.active = tab.active, !.inverted = tab.inverted]
  OBVIOUS
<1>4. DOMAIN p = Fields
  BY <1>2, <1>3, Shapes
<1>5. PICK w : w = IF tab.pins = {} THEN p ELSE ApplyRowFilter(p)
  OBVIOUS
<1>6. DOMAIN w = Fields
  BY <1>4, <1>5, Shapes
<1>7. Rebuilt(table) = [w EXCEPT !.cursor = OnRow(tab.cursor, Len(w.rows))]
  BY <1>1, <1>3, <1>5 DEF Rebuilt
<1> QED BY <1>6, <1>7

LEMMA ControlInitially == Init => Control
<1> SUFFICES ASSUME Init PROVE Control
  OBVIOUS
<1>1. 0 \in 0..MaxSeq
  BY TableAssumption
<1>2. BarTypes
  BY <1>1 DEF Init, BarTypes, Bars, NoSearch
<1>3. Modes
  BY DEF Init, Modes, NoSearch
<1>4. DOMAIN tab = Fields
  BY DEF Init, Loaded, Fields
<1> QED BY <1>2, <1>3, <1>4 DEF Control

LEMMA ControlSteps ==
  ASSUME Control, [Next]_vars
  PROVE  Control'
<1>1. BarTypes /\ Modes /\ DOMAIN tab = Fields
  BY DEF Control
<1>2. CASE SortKey \/ PinKey \/ FilterKey \/ ClearPins
  <2>1. UNCHANGED <<userVars, searchVars, fulltext>>
    BY <1>2 DEF SortKey, PinKey, FilterKey, ClearPins
  <2>2. PICK t : DOMAIN t = Fields /\ (tab' = ApplySorts(t) \/ tab' = ApplyRowFilter(t))
    <3>1. CASE SortKey
      <4>1. PICK next : tab' = ApplySorts([tab EXCEPT !.sort = next])
        BY <3>1 DEF SortKey
      <4>2. DOMAIN [tab EXCEPT !.sort = next] = Fields
        BY <1>1
      <4> QED BY <4>1, <4>2
    <3>2. CASE PinKey
      <4>1. PICK pins : tab' = ApplyRowFilter([tab EXCEPT !.pins = pins])
        BY <3>2 DEF PinKey
      <4>2. DOMAIN [tab EXCEPT !.pins = pins] = Fields
        BY <1>1
      <4> QED BY <4>1, <4>2
    <3>3. CASE FilterKey
      <4>1. PICK t \in {[tab EXCEPT !.active = ~@], [tab EXCEPT !.inverted = ~@]} : tab' = ApplyRowFilter(t)
        BY <3>3 DEF FilterKey
      <4>2. DOMAIN t = Fields
        BY <1>1, <4>1
      <4> QED BY <4>1, <4>2
    <3>4. CASE ClearPins
      <4>1. PICK t : t = [tab EXCEPT !.pins = {}, !.active = FALSE, !.inverted = FALSE] /\ tab' = ApplyRowFilter(t)
        BY <3>4 DEF ClearPins
      <4>2. DOMAIN t = Fields
        BY <1>1, <4>1
      <4> QED BY <4>1, <4>2
    <3> QED BY <1>2, <3>1, <3>2, <3>3, <3>4
  <2>3. DOMAIN tab' = Fields
    BY <2>2, Shapes
  <2> QED BY <1>1, <2>1, <2>3 DEF Control, BarTypes, Modes, userVars, searchVars
<1>3. CASE MoveCursor \/ SelectRow \/ ExtendSelection \/ Yank
  <2>1. UNCHANGED <<fulltext, mode, editor, search, full, ticks, asks>> /\ (visual' = visual \/ mode = "visual")
    BY <1>3 DEF MoveCursor, SelectRow, ExtendSelection, Yank, userVars, searchVars
  <2>2. DOMAIN tab' = Fields
    BY <1>1, <1>3 DEF MoveCursor, SelectRow, ExtendSelection, Yank
  <2> QED BY <1>1, <2>1, <2>2 DEF Control, BarTypes, Modes
<1>4. CASE SwitchMode \/ OpenEditor \/ CancelEditor \/ SaveEditor
  <2>1. UNCHANGED <<fulltext, search, full, ticks, asks>> /\ DOMAIN tab' = Fields
    BY <1>1, <1>4 DEF SwitchMode, OpenEditor, CancelEditor, SaveEditor, searchVars
  <2>2. Modes'
    BY <1>1, <1>4, <2>1 DEF SwitchMode, OpenEditor, CancelEditor, SaveEditor, Modes
  <2> QED BY <1>1, <2>1, <2>2 DEF Control, BarTypes
<1>5. CASE DeleteOrCut \/ Paste \/ RenameColumn
  <2>1. PICK table : Change(table)
    BY <1>5 DEF DeleteOrCut, Paste, RenameColumn
  <2>2. DOMAIN tab' = Fields
    BY <1>1, <2>1, RebuiltShape DEF Change
  <2>3. /\ UNCHANGED <<fulltext, mode, editor, search, full, ticks, asks>>
        /\ visual' = NoVisual \/ visual' = visual
    BY <2>1 DEF Change, searchVars
  <2> QED BY <1>1, <2>2, <2>3 DEF Control, BarTypes, Modes
<1>6. CASE OpenSearch
  <2>1. PICK s \in {search, NoSearch} : search' = [s EXCEPT !.bar = "open"]
    BY <1>6 DEF OpenSearch
  <2>2. s \in Bars
    <3>1. 0 \in 0..MaxSeq
      BY TableAssumption
    <3>2. NoSearch \in Bars
      BY <3>1 DEF NoSearch, Bars
    <3> QED BY <1>1, <2>1, <3>2 DEF BarTypes
  <2>3. search' \in Bars /\ search'.bar = "open"
    BY <2>1, <2>2 DEF Bars
  <2>4. /\ editor = NoEditor /\ mode # "visual" /\ UNCHANGED <<fulltext, userVars, full, ticks, asks>>
        /\ DOMAIN tab' = Fields
    BY <1>1, <1>6 DEF OpenSearch
  <2> QED BY <1>1, <2>3, <2>4 DEF Control, BarTypes, Modes, userVars
<1>7. CASE TypeQuery \/ ToggleMode
  <2>1. BarTypes' /\ search.bar = "open" /\ UNCHANGED <<fulltext, userVars>>
    BY <1>1, <1>7, RerunFacts
  <2>2. DOMAIN tab' = Fields
    BY <1>1, <1>7, RerunFacts, Shapes
  <2>3. Modes'
    BY <1>1, <1>7, <2>1, RerunFacts DEF Modes, userVars
  <2> QED BY <2>1, <2>2, <2>3 DEF Control
<1>8. CASE CommitSearch \/ CloseSearch
  <2>1. search' \in Bars /\ search'.bar # "open"
    <3>1. 0 \in 0..MaxSeq
      BY TableAssumption
    <3>2. CASE CommitSearch
      BY <1>1, <3>2 DEF CommitSearch, BarTypes, Bars
    <3>3. CASE CloseSearch
      BY <3>1, <3>3 DEF CloseSearch, NoSearch, Bars
    <3> QED BY <1>8, <3>2, <3>3
  <2>2. UNCHANGED <<fulltext, userVars, full, ticks, asks>>
    BY <1>8 DEF CommitSearch, CloseSearch
  <2>3. DOMAIN tab' = Fields
    BY <1>1, <1>8, Shapes DEF CommitSearch, CloseSearch
  <2> QED BY <1>1, <2>1, <2>2, <2>3 DEF Control, BarTypes, Modes, userVars
<1>9. CASE \E n \in 1..MaxSeq : Tick(n)
  <2>1. PICK n \in 1..MaxSeq : Tick(n)
    BY <1>9
  <2>2. BarTypes' /\ UNCHANGED <<fulltext, tab, userVars, full>> /\ n \in ticks /\ search'.bar = search.bar
    BY <1>1, <2>1, TickFacts
  <2> QED BY <1>1, <2>2 DEF Control, Modes, userVars
<1>10. CASE \E a \in asks : Result(a)
  <2>1. PICK a \in asks : Result(a)
    BY <1>10
  <2>2. /\ BarTypes' /\ UNCHANGED <<fulltext, userVars, full>> /\ search'.bar = search.bar
        /\ tab' = tab \/ \E s : tab' = Refilter(tab, s, full)
    BY <1>1, <2>1, ResultFacts
  <2>3. DOMAIN tab' = Fields
    BY <1>1, <2>2, Shapes
  <2> QED BY <1>1, <2>1, <2>2, <2>3 DEF Control, Modes, userVars
<1>11. CASE UNCHANGED vars
  BY <1>1, <1>11 DEF vars, Control, BarTypes, Modes
<1>12. CASE Panic
  BY <1>1, <1>12 DEF Panic, Control, BarTypes, Modes, searchVars
<1> QED BY <1>2, <1>3, <1>4, <1>5, <1>6, <1>7, <1>8, <1>9, <1>10, <1>11, <1>12 DEF Next

LEMMA ControlHolds == Spec => []Control
BY ControlInitially, ControlSteps, PTL DEF Spec

\* A selected index never comes to mean another row, whatever is sorted, and whether a
\* change's reload succeeds or fails (handleVisualKey, resetVisualSelection).
THEOREM SelectionHolds == Spec => SelectionPinned
<1> DEFINE Pinned == \A i \in visual.selected \intersect visual'.selected \intersect DOMAIN tab.rows :
                       i \in DOMAIN tab'.rows /\ tab'.rows[i] = tab.rows[i]
<1>1. ASSUME Control, [Next]_vars PROVE Pinned
  <2>1. CASE tab'.rows = tab.rows
    BY <2>1
  <2>2. CASE mode # "visual" \/ visual' = NoVisual
    <3>1. visual.selected \intersect visual'.selected = {}
      BY <1>1, <2>2 DEF Control, Modes, NoVisual
    <3> QED BY <3>1
  <2>3. CASE tab'.rows # tab.rows /\ mode = "visual" /\ visual' # NoVisual
    <3>1. Next /\ ~fulltext /\ search.bar # "open" /\ editor = NoEditor /\ asks = {} /\ ticks = {}
      BY <1>1, <2>3 DEF Control, Modes, vars
    <3>2. MoveCursor \/ ExtendSelection
      BY <2>3, <3>1 DEF Next, SortKey, PinKey, FilterKey, ClearPins, NormalKey, SwitchMode, OpenEditor,
         CancelEditor, SaveEditor, SelectRow, Panic, Yank, DeleteOrCut, Paste, RenameColumn, Change, OpenSearch,
         TypeQuery, ToggleMode, CommitSearch, CloseSearch, Tick
    <3>3. PICK c : tab' = [tab EXCEPT !.cursor = c]
      BY <2>3, <3>2 DEF MoveCursor, ExtendSelection
    <3>4. tab'.rows = tab.rows
      BY <1>1, <3>3 DEF Control, Fields
    <3> QED BY <2>3, <3>4
  <2> QED BY <2>1, <2>2, <2>3
<1>2. Control /\ [Next]_vars => Pinned
  BY <1>1
<1> QED BY <1>2, ControlHolds, PTL DEF Spec, SelectionPinned

-----------------------------------------------------------------------------
(* The hits. *)

\* While the bar is open or committed the answers under way are numbered by its counter,
\* and the one that carries its last number asks for its query; without such an answer
\* and without its timer the hits are those of the query.
HitsInv ==
  /\ search.bar = "closed" => search = NoSearch
  /\ search.bar # "closed" =>
       /\ \A n \in ticks : n <= search.seq
       /\ \A a \in asks : a.seq <= search.seq
       /\ full => /\ \A a \in asks : a.seq = search.seq => a.query = search.query
                  /\ \/ search.hits \subseteq Allowed(search.query)
                     \/ search.seq \in ticks
                     \/ \E a \in asks : a.seq = search.seq

LEMMA HitsInitially == Init => HitsInv
BY DEF Init, HitsInv, NoSearch

LEMMA HitsSteps ==
  ASSUME Patient, BarTypes, HitsInv, [Next]_vars
  PROVE  HitsInv'
<1>1. search \in Bars
  BY DEF BarTypes
<1>2. CASE UNCHANGED <<search, full, ticks, asks>>
  BY <1>2 DEF HitsInv
<1>3. CASE OpenSearch
  <2>1. UNCHANGED <<full, ticks, asks>> /\ search.bar # "open"
    BY <1>3 DEF OpenSearch
  <2>2. CASE search.bar = "committed"
    <3>1. search' = [search EXCEPT !.bar = "open"]
      BY <1>3, <2>2 DEF OpenSearch
    <3>2. search'.seq = search.seq /\ search'.query = search.query /\ search'.hits = search.hits
          /\ search'.bar = "open"
      BY <1>1, <3>1 DEF Bars
    <3> QED BY <2>1, <2>2, <3>2 DEF HitsInv
  <2>3. CASE search.bar # "committed"
    <3>1. ticks = {} /\ asks = {} /\ search' = [NoSearch EXCEPT !.bar = "open"]
      BY <1>3, <2>3 DEF OpenSearch, Patient
    <3>2. search'.hits = {} /\ search'.bar = "open"
      BY <3>1 DEF NoSearch
    <3> QED BY <2>1, <3>1, <3>2 DEF HitsInv
  <2> QED BY <2>2, <2>3
<1>4. CASE TypeQuery \/ ToggleMode
  <2>1. /\ search.bar = "open" /\ search'.bar = "open" /\ asks' = asks
        /\ \/ full' /\ search'.seq = search.seq + 1 /\ ticks' = ticks \union {search'.seq}
           \/ ~full' /\ search'.seq = search.seq /\ ticks' = ticks
    BY <1>4, RerunFacts
  <2>2. /\ search.seq \in Nat /\ \A n \in ticks : n \in Nat /\ n <= search.seq
        /\ \A a \in asks : a.seq \in Nat /\ a.seq <= search.seq
    BY <2>1, TableAssumption DEF HitsInv, BarTypes, Bars
  <2>3. CASE full'
    <3>1. search'.seq = search.seq + 1 /\ search'.seq \in ticks'
      BY <2>1, <2>3
    <3>2. \A n \in ticks' : n <= search'.seq
      BY <2>1, <2>2, <2>3
    <3>3. \A a \in asks' : a.seq <= search'.seq /\ a.seq # search'.seq
      BY <2>1, <2>2, <3>1
    <3> QED BY <2>1, <3>1, <3>2, <3>3 DEF HitsInv
  <2>4. CASE ~full'
    BY <2>1, <2>2, <2>4 DEF HitsInv
  <2> QED BY <2>3, <2>4
<1>5. CASE CommitSearch
  <2>1. UNCHANGED <<full, ticks, asks>> /\ search.bar = "open" /\ search' = [search EXCEPT !.bar = "committed"]
    BY <1>5 DEF CommitSearch
  <2>2. search'.seq = search.seq /\ search'.query = search.query /\ search'.hits = search.hits
        /\ search'.bar = "committed"
    BY <1>1, <2>1 DEF Bars
  <2> QED BY <2>1, <2>2 DEF HitsInv
<1>6. CASE CloseSearch
  BY <1>6 DEF CloseSearch, HitsInv, NoSearch
<1>7. CASE \E n \in 1..MaxSeq : Tick(n)
  <2>1. PICK n \in 1..MaxSeq : Tick(n)
    BY <1>7
  <2>2. /\ ticks' = ticks \ {n} /\ full' = full
        /\ search'.bar = search.bar /\ search'.seq = search.seq
        /\ search'.query = search.query /\ search'.hits = search.hits
    BY <2>1, TickFacts
  <2>3. CASE search.bar # "closed" /\ search.seq = n
    <3>1. PICK a : a = [seq |-> n, query |-> search.query]
      OBVIOUS
    <3>2. asks' = asks \union {a}
      BY <2>1, <2>3, <3>1, TickFacts
    <3>3. a.seq = search'.seq /\ a.query = search'.query /\ a \in asks' /\ a.seq <= search'.seq
      BY <2>2, <2>3, <3>1, <3>2
    <3>4. \A b \in asks' : b \in asks \/ b = a
      BY <3>2
    <3> QED BY <2>2, <2>3, <3>3, <3>4 DEF HitsInv
  <2>4. CASE search.bar # "closed" /\ search.seq # n
    <3>1. asks' = asks
      BY <2>1, <2>4, TickFacts
    <3> QED BY <2>2, <2>4, <3>1 DEF HitsInv
  <2>5. CASE search.bar = "closed"
    <3>1. search' = search
      BY <2>1, <2>5 DEF Tick
    <3> QED BY <2>5, <3>1 DEF HitsInv
  <2> QED BY <2>3, <2>4, <2>5
<1>8. CASE \E a \in asks : Result(a)
  <2>1. PICK a \in asks : Result(a)
    BY <1>8
  <2>2. /\ asks' = asks \ {a} /\ full' = full /\ ticks' = ticks
        /\ search'.bar = search.bar /\ search'.seq = search.seq /\ search'.query = search.query
    BY <2>1, ResultFacts
  <2>3. CASE search.bar # "closed" /\ search.seq = a.seq
    <3>1. search'.hits \subseteq Allowed(a.query)
      BY <2>1, <2>3, ResultFacts
    <3>2. full => a.query = search.query
      BY <2>3 DEF HitsInv
    <3> QED BY <2>2, <2>3, <3>1, <3>2 DEF HitsInv
  <2>4. CASE ~(search.bar # "closed" /\ search.seq = a.seq)
    <3>1. search' = search
      BY <2>1, <2>4, ResultFacts
    <3> QED BY <2>2, <2>4, <3>1 DEF HitsInv
  <2> QED BY <2>3, <2>4
<1>9. Next => \/ UNCHANGED <<search, full, ticks, asks>>
              \/ OpenSearch \/ TypeQuery \/ ToggleMode \/ CommitSearch \/ CloseSearch
              \/ \E n \in 1..MaxSeq : Tick(n)
              \/ \E a \in asks : Result(a)
  BY DEF Next, MoveCursor, SortKey, PinKey, FilterKey, ClearPins, SwitchMode, OpenEditor, CancelEditor, SaveEditor,
     SelectRow, ExtendSelection, Panic, Yank, DeleteOrCut, Paste, RenameColumn, Change, searchVars
<1>10. UNCHANGED vars => UNCHANGED <<search, full, ticks, asks>>
  BY DEF vars
<1> QED BY <1>2, <1>3, <1>4, <1>5, <1>6, <1>7, <1>8, <1>9, <1>10

\* The full-text hits that filter the rows are hits of the query in the bar once nothing is
\* under way, when a new search waits for the answers of the last one (handleFTSResult).
THEOREM HitsHold == ASSUME Patient PROVE Spec => []HitsOwn
<1>1. Control => BarTypes
  BY DEF Control
<1>2. BarTypes /\ HitsInv /\ [Next]_vars => HitsInv'
  BY HitsSteps
<1>3. HitsInv => HitsOwn
  BY DEF HitsInv, HitsOwn, Allowed
<1> QED BY <1>1, <1>2, <1>3, HitsInitially, ControlHolds, PTL DEF Spec
-----------------------------------------------------------------------------
(* Sorting: every element of a finite set gets a place of its own. *)

\* f lists S without repetition.
Enumerates(f, S) ==
  /\ f \in [1..Cardinality(S) -> S] /\ Cardinality(S) \in Nat
  /\ \A x \in S : \E k \in 1..Cardinality(S) : f[k] = x
  /\ \A j, k \in 1..Cardinality(S) : f[j] = f[k] => j = k

\* R orders S totally.
Orders(R, S) ==
  /\ \A x \in S : <<x, x>> \notin R
  /\ \A x, y, z \in S : <<x, y>> \in R /\ <<y, z>> \in R => <<x, z>> \in R
  /\ \A x, y \in S : x # y => <<x, y>> \in R \/ <<y, x>> \in R

\* The elements of S before x, and how many they are.
Earlier(R, S, x) == {y \in S : <<y, x>> \in R}
Rank(R, S, x) == Cardinality(Earlier(R, S, x))

\* The number of elements before an element is a number below the size of the set.
LEMMA Ranks ==
  ASSUME NEW S, IsFiniteSet(S), NEW R, Orders(R, S), NEW x \in S
  PROVE  Rank(R, S, x) \in Nat /\ Rank(R, S, x) < Cardinality(S)
<1>1. Earlier(R, S, x) \in SUBSET S /\ x \notin Earlier(R, S, x)
  BY DEF Orders, Earlier
<1>2. IsFiniteSet(Earlier(R, S, x)) /\ Rank(R, S, x) <= Cardinality(S)
      /\ (Cardinality(S) = Rank(R, S, x) => S = Earlier(R, S, x))
  BY <1>1, FS_Subset DEF Rank
<1>3. Rank(R, S, x) \in Nat /\ Cardinality(S) \in Nat
  BY <1>2, FS_CardinalityType DEF Rank
<1>4. Cardinality(S) # Rank(R, S, x)
  BY <1>1, <1>2
<1> QED BY <1>2, <1>3, <1>4

\* It grows with the element.
LEMMA RanksGrow ==
  ASSUME NEW S, IsFiniteSet(S), NEW R, Orders(R, S), NEW x \in S, NEW y \in S, <<x, y>> \in R
  PROVE  Rank(R, S, x) < Rank(R, S, y)
<1>1. Earlier(R, S, x) \in SUBSET Earlier(R, S, y) /\ x \in Earlier(R, S, y) /\ x \notin Earlier(R, S, x)
  BY DEF Orders, Earlier
<1>2. IsFiniteSet(Earlier(R, S, y))
  BY FS_Subset DEF Earlier
<1>3. /\ Rank(R, S, x) <= Rank(R, S, y)
      /\ Rank(R, S, y) = Rank(R, S, x) => Earlier(R, S, y) = Earlier(R, S, x)
  BY <1>1, <1>2, FS_Subset DEF Rank
<1>4. Rank(R, S, x) # Rank(R, S, y)
  BY <1>1, <1>3
<1>5. Rank(R, S, x) \in Nat /\ Rank(R, S, y) \in Nat
  BY Ranks
<1> QED BY <1>3, <1>4, <1>5

\* So it tells the elements apart.
LEMMA RanksDiffer ==
  ASSUME NEW S, IsFiniteSet(S), NEW R, Orders(R, S), NEW x \in S, NEW y \in S,
         Rank(R, S, x) = Rank(R, S, y)
  PROVE  x = y
<1>1. Rank(R, S, x) \in Nat
  BY Ranks
<1>2. <<x, y>> \notin R
  BY <1>1, RanksGrow
<1>3. <<y, x>> \notin R
  BY <1>1, RanksGrow
<1> QED BY <1>2, <1>3 DEF Orders

\* And each number below the size of the set is that of one element.
LEMMA RanksCover ==
  ASSUME NEW S, IsFiniteSet(S), NEW R, Orders(R, S), NEW k \in 1..Cardinality(S)
  PROVE  \E x \in S : Rank(R, S, x) = k - 1
<1> DEFINE n == Cardinality(S)
           r == [x \in S |-> Rank(R, S, x) + 1]
<1>1. n \in Nat
  BY FS_CardinalityType
<1>2. ASSUME NEW x \in S PROVE r[x] \in 1..n
  <2>1. Rank(R, S, x) \in Nat /\ Rank(R, S, x) < n
    BY Ranks
  <2> QED BY <1>1, <2>1
<1>3. ASSUME NEW x \in S, NEW y \in S, r[x] = r[y] PROVE x = y
  <2>1. Rank(R, S, x) \in Nat /\ Rank(R, S, y) \in Nat
    BY Ranks
  <2>2. Rank(R, S, x) = Rank(R, S, y)
    BY <1>3, <2>1
  <2> QED BY <2>2, RanksDiffer
<1>4. r \in [S -> 1..n]
  BY <1>2
<1> HIDE DEF r, n
<1>5. r \in Injection(S, 1..n)
  BY <1>3, <1>4 DEF Injection, IsInjective
<1>6. IsFiniteSet(1..n) /\ Cardinality(1..n) = n
  BY <1>1, FS_Interval
<1>7. r \in Surjection(S, 1..n)
  BY <1>5, <1>6, FS_Injection DEF n
<1>8. PICK x \in S : r[x] = k
  BY <1>7 DEF Surjection, n
<1>9. Rank(R, S, x) + 1 = k /\ Rank(R, S, x) \in Nat
  BY <1>8, Ranks DEF r
<1> QED BY <1>9

\* Taking at each place the element with that many before it lists the set.
LEMMA Places ==
  ASSUME NEW S, IsFiniteSet(S), NEW R, Orders(R, S),
         NEW f, f = [k \in 1..Cardinality(S) |-> CHOOSE x \in S : Rank(R, S, x) = k - 1]
  PROVE  Enumerates(f, S)
<1> DEFINE n == Cardinality(S)
<1>1. n \in Nat
  BY FS_CardinalityType
<1>2. ASSUME NEW k \in 1..n PROVE f[k] \in S /\ Rank(R, S, f[k]) = k - 1
  <2>1. \E x \in S : Rank(R, S, x) = k - 1
    BY <1>2, RanksCover
  <2>2. f[k] = CHOOSE x \in S : Rank(R, S, x) = k - 1
    OBVIOUS
  <2> QED BY <2>1, <2>2
<1>3. f \in [1..n -> S]
  BY <1>2
<1>4. ASSUME NEW x \in S PROVE \E k \in 1..n : f[k] = x
  <2>1. Rank(R, S, x) \in Nat /\ Rank(R, S, x) < n
    BY Ranks
  <2>2. PICK k \in 1..n : k - 1 = Rank(R, S, x)
    <3>1. Rank(R, S, x) + 1 \in 1..n /\ (Rank(R, S, x) + 1) - 1 = Rank(R, S, x)
      BY <1>1, <2>1
    <3> QED BY <3>1
  <2>3. f[k] \in S /\ Rank(R, S, f[k]) = Rank(R, S, x)
    BY <1>2, <2>2
  <2>4. f[k] = x
    BY <2>3, RanksDiffer
  <2> QED BY <2>4
<1>5. ASSUME NEW j \in 1..n, NEW k \in 1..n, f[j] = f[k] PROVE j = k
  <2>1. j - 1 = k - 1
    BY <1>2, <1>5
  <2> QED BY <1>1, <2>1
<1> QED BY <1>1, <1>3, <1>4, <1>5 DEF Enumerates

\* Numbers in ascending order.
LEMMA Ascending ==
  ASSUME NEW S \in SUBSET Int, IsFiniteSet(S)
  PROVE  Enumerates(Sorted(S, <), S)
<1> DEFINE R == {p \in S \X S : p[1] < p[2]}
<1>1. Orders(R, S)
  BY DEF Orders
<1>2. ASSUME NEW x \in S PROVE Rank(R, S, x) = Cardinality({y \in S : y < x})
  <2>1. Earlier(R, S, x) = {y \in S : y < x}
    BY DEF Earlier
  <2> QED BY <2>1 DEF Rank
<1> HIDE DEF R
<1>3. ASSUME NEW k PROVE (CHOOSE x \in S : Rank(R, S, x) = k - 1) = CHOOSE x \in S : Cardinality({y \in S : y < x}) = k - 1
  <2>1. \A x : (x \in S /\ Rank(R, S, x) = k - 1) <=> (x \in S /\ Cardinality({y \in S : y < x}) = k - 1)
    BY <1>2
  <2> QED BY <2>1, Zenon
<1>4. Sorted(S, <) = [k \in 1..Cardinality(S) |-> CHOOSE x \in S : Cardinality({y \in S : y < x}) = k - 1]
  BY DEF Sorted
<1>5. Sorted(S, <) = [k \in 1..Cardinality(S) |-> CHOOSE x \in S : Rank(R, S, x) = k - 1]
  BY <1>3, <1>4, Zenon
<1> QED BY <1>1, <1>5, Places

-----------------------------------------------------------------------------
(* The tab's operators. *)

\* Sets of row ids are finite, and so are those of a table and the indices of a layer.
LEMMA Finite ==
  /\ \A t \in Tables : IsFiniteSet(DOMAIN t) /\ DOMAIN t \subseteq Ids /\ t \in [DOMAIN t -> Vals]
  /\ \A n \in Nat : \A S \in SUBSET (1..n) : IsFiniteSet(S) /\ S \subseteq Int
<1>1. ASSUME NEW n \in Nat, NEW S \in SUBSET (1..n) PROVE IsFiniteSet(S) /\ S \subseteq Int
  <2>1. IsFiniteSet(1..n)
    BY FS_Interval
  <2>2. IsFiniteSet(S)
    BY <2>1, FS_Subset
  <2> QED BY <2>2
<1>2. MaxId \in Nat
  BY TableAssumption
<1> QED BY <1>1, <1>2 DEF Tables, Ids

\* The rows at some indices of a layer are rows of that layer, and all of them at all indices.
LEMMA KeptFacts ==
  ASSUME NEW S, NEW layer \in Seq(S), NEW indices \in SUBSET (DOMAIN layer)
  PROVE  /\ Kept(layer, indices) \in Seq(S) /\ Len(Kept(layer, indices)) = Cardinality(indices)
         /\ Cardinality(indices) \in Nat
         /\ ToSet(Kept(layer, indices)) = {layer[i] : i \in indices}
<1> DEFINE at == Sorted(indices, <)
           n == Cardinality(indices)
<1>1. Len(layer) \in Nat /\ DOMAIN layer = 1..Len(layer) /\ \A i \in DOMAIN layer : layer[i] \in S
  OBVIOUS
<1>2. IsFiniteSet(indices) /\ indices \subseteq Int
  BY <1>1, Finite
<1>3. Enumerates(at, indices)
  BY <1>2, Ascending
<1> HIDE DEF at, n
<1>4. at \in [1..n -> indices] /\ n \in Nat /\ \A x \in indices : \E k \in 1..n : at[k] = x
  BY <1>3 DEF Enumerates, n
<1>5. Kept(layer, indices) = [k \in 1..n |-> layer[at[k]]]
  BY <1>4 DEF Kept, at
<1>6. Kept(layer, indices) \in Seq(S) /\ Len(Kept(layer, indices)) = n
  BY <1>1, <1>4, <1>5
<1>7. ToSet(Kept(layer, indices)) = {layer[at[k]] : k \in 1..n}
  <2>1. DOMAIN Kept(layer, indices) = 1..n /\ \A k \in 1..n : Kept(layer, indices)[k] = layer[at[k]]
    BY <1>5
  <2> QED BY <2>1 DEF ToSet
<1>8. {layer[at[k]] : k \in 1..n} = {layer[i] : i \in indices}
  BY <1>4
<1> QED BY <1>4, <1>6, <1>7, <1>8 DEF n

\* Moving a layer by an enumeration of its indices changes neither its rows nor its length.
LEMMA ReorderFacts ==
  ASSUME NEW S, NEW layer \in Seq(S), NEW indices, NEW n \in Nat, DOMAIN layer = 1..n, Enumerates(indices, 1..n)
  PROVE  /\ Reorder(layer, indices) \in Seq(S) /\ Len(Reorder(layer, indices)) = Len(layer)
         /\ ToSet(Reorder(layer, indices)) = ToSet(layer)
<1>1. Len(layer) = n /\ \A i \in 1..n : layer[i] \in S
  OBVIOUS
<1>2. indices \in [1..n -> 1..n] /\ \A x \in 1..n : \E k \in 1..n : indices[k] = x
  <2>1. Cardinality(1..n) = n
    BY FS_Interval
  <2> QED BY <2>1 DEF Enumerates
<1>3. Reorder(layer, indices) = [i \in 1..n |-> layer[indices[i]]]
  BY <1>2 DEF Reorder
<1>4. Reorder(layer, indices) \in Seq(S) /\ Len(Reorder(layer, indices)) = n
  BY <1>1, <1>2, <1>3
<1>5. ToSet(Reorder(layer, indices)) = {layer[indices[i]] : i \in 1..n}
  BY <1>3 DEF ToSet
<1>6. {layer[indices[i]] : i \in 1..n} = ToSet(layer)
  BY <1>2 DEF ToSet
<1> QED BY <1>1, <1>4, <1>5, <1>6

\* Rows are ordered totally, whatever their values: NULL last, equal values by rowid.
LEMMA BeforeOrders ==
  ASSUME NEW t \in TabTypes, NEW a \in DOMAIN t.mem, NEW b \in DOMAIN t.mem, NEW c \in DOMAIN t.mem
  PROVE  /\ ~Before(t, a, a)
         /\ Before(t, a, b) /\ Before(t, b, c) => Before(t, a, c)
         /\ a # b => Before(t, a, b) \/ Before(t, b, a)
<1>1. t.mem \in Tables /\ DOMAIN t.mem \subseteq Nat
  BY Finite, TableAssumption DEF TabTypes, Ids
<1>2. PICK x, y, z : x = t.mem[a] /\ y = t.mem[b] /\ z = t.mem[c]
  OBVIOUS
<1>3. x \in Nat /\ y \in Nat /\ z \in Nat /\ a \in Nat /\ b \in Nat /\ c \in Nat
  BY <1>1, <1>2, Finite, TableAssumption
<1> QED BY <1>2, <1>3 DEF Before, Null

\* Order's comparison of two indices.
Precedes(t, i, j) == IF t.rows[i] = t.rows[j] THEN i < j ELSE Before(t, t.rows[i], t.rows[j])

\* The indices Order returns are those of the rows on the screen, each once.
LEMMA OrderFacts ==
  ASSUME NEW t \in TabTypes, ToSet(t.rows) \subseteq DOMAIN t.mem
  PROVE  Enumerates(Order(t), DOMAIN t.rows)
<1> DEFINE D == DOMAIN t.rows
           R == {p \in D \X D : Precedes(t, p[1], p[2])}
<1>1. Len(t.rows) \in Nat /\ D = 1..Len(t.rows)
  BY DEF TabTypes
<1>2. IsFiniteSet(D) /\ D \subseteq Nat
  BY <1>1, FS_Interval
<1>3. \A i \in D : t.rows[i] \in DOMAIN t.mem
  BY DEF ToSet
<1>4. ASSUME NEW x \in D PROVE ~Precedes(t, x, x)
  BY <1>2 DEF Precedes
<1>5. ASSUME NEW x \in D, NEW y \in D, NEW z \in D, Precedes(t, x, y), Precedes(t, y, z) PROVE Precedes(t, x, z)
  <2>1. PICK a, b, c : a = t.rows[x] /\ b = t.rows[y] /\ c = t.rows[z]
    OBVIOUS
  <2>2. a \in DOMAIN t.mem /\ b \in DOMAIN t.mem /\ c \in DOMAIN t.mem
    BY <1>3, <2>1
  <2>3. ~Before(t, a, a) /\ (Before(t, a, b) /\ Before(t, b, c) => Before(t, a, c))
    BY <2>2, BeforeOrders
  <2>4. (a = b => x < y) /\ (a # b => Before(t, a, b)) /\ (b = c => y < z) /\ (b # c => Before(t, b, c))
    BY <1>5, <2>1 DEF Precedes
  <2>5. CASE a = c
    <3>1. a = b
      BY <2>3, <2>4, <2>5
    <3>2. x < y /\ y < z
      BY <2>4, <2>5, <3>1
    <3>3. x < z
      BY <1>2, <3>2
    <3> QED BY <2>1, <2>5, <3>3 DEF Precedes
  <2>6. CASE a # c
    <3>1. Before(t, a, c)
      BY <2>3, <2>4, <2>6
    <3> QED BY <2>1, <2>6, <3>1 DEF Precedes
  <2> QED BY <2>5, <2>6
<1>6. ASSUME NEW x \in D, NEW y \in D, x # y PROVE Precedes(t, x, y) \/ Precedes(t, y, x)
  <2>1. CASE t.rows[x] = t.rows[y]
    BY <1>2, <1>6, <2>1 DEF Precedes
  <2>2. CASE t.rows[x] # t.rows[y]
    <3>1. Before(t, t.rows[x], t.rows[y]) \/ Before(t, t.rows[y], t.rows[x])
      BY <1>3, <2>2, BeforeOrders
    <3> QED BY <2>2, <3>1 DEF Precedes
  <2> QED BY <2>1, <2>2
<1>7. \A x, y \in D : <<x, y>> \in R <=> Precedes(t, x, y)
  OBVIOUS
<1> HIDE DEF R
<1>8. Orders(R, D)
  <2>1. \A x \in D : <<x, x>> \notin R
    BY <1>4, <1>7
  <2>2. \A x, y, z \in D : <<x, y>> \in R /\ <<y, z>> \in R => <<x, z>> \in R
    BY <1>5, <1>7
  <2>3. \A x, y \in D : x # y => <<x, y>> \in R \/ <<y, x>> \in R
    BY <1>6, <1>7
  <2> QED BY <2>1, <2>2, <2>3 DEF Orders
<1>9. ASSUME NEW x \in D PROVE Rank(R, D, x) = Cardinality({y \in D : Precedes(t, y, x)})
  <2>1. Earlier(R, D, x) = {y \in D : Precedes(t, y, x)}
    BY <1>7 DEF Earlier
  <2> QED BY <2>1 DEF Rank
<1>10. ASSUME NEW k
       PROVE  (CHOOSE x \in D : Rank(R, D, x) = k - 1) = CHOOSE x \in D : Cardinality({y \in D : Precedes(t, y, x)}) = k - 1
  <2>1. \A x : (x \in D /\ Rank(R, D, x) = k - 1) <=> (x \in D /\ Cardinality({y \in D : Precedes(t, y, x)}) = k - 1)
    BY <1>9
  <2> QED BY <2>1, Zenon
<1>11. Order(t) = [k \in 1..Cardinality(D) |-> CHOOSE x \in D : Cardinality({y \in D : Precedes(t, y, x)}) = k - 1]
  BY DEF Order, Sorted, Precedes
<1>12. Order(t) = [k \in 1..Cardinality(D) |-> CHOOSE x \in D : Rank(R, D, x) = k - 1]
  BY <1>10, <1>11, Zenon
<1> QED BY <1>2, <1>8, <1>12, Places

\* The cursor is on none of n rows or on one of them.
LEMMA ClampFacts ==
  ASSUME NEW c \in Nat, NEW n \in Nat
  PROVE  /\ Clamp(c, n) \in Nat /\ Clamp(c, n) <= n
         /\ OnRow(c, n) \in Nat /\ OnRow(c, n) <= n
BY DEF Clamp, OnRow

\* What a tab keeps besides its layers and its cursor.
Kin(s, t) ==
  /\ s.mem = t.mem /\ s.sort = t.sort
  /\ s.pins = t.pins /\ s.active = t.active /\ s.inverted = t.inverted

LEMMA ShowFacts ==
  ASSUME NEW t \in TabTypes, NEW rows \in Seq(Ids)
  PROVE  /\ Show(t, rows) \in TabTypes /\ Kin(Show(t, rows), t)
         /\ Show(t, rows).rows = rows /\ Show(t, rows).full = t.full /\ Show(t, rows).post = t.post
         /\ Show(t, rows).cursor <= Len(rows)
<1>1. Len(rows) \in Nat /\ t.cursor \in Nat
  BY DEF TabTypes
<1>2. PICK c : c = Clamp(t.cursor, Len(rows))
  OBVIOUS
<1>3. c \in Nat /\ c <= Len(rows)
  BY <1>1, <1>2, ClampFacts
<1>4. Show(t, rows) = [t EXCEPT !.rows = rows, !.cursor = c]
  BY <1>2 DEF Show
<1> QED BY <1>3, <1>4 DEF TabTypes, Kin

\* Sorting a tab that hides no row permutes both layers and loses nothing.
LEMMA SortFacts ==
  ASSUME NEW t, Layered(t), Len(t.rows) = Len(t.full)
  PROVE  /\ Layered(ApplySorts(t)) /\ Kin(ApplySorts(t), t) /\ ApplySorts(t).post = t.post
         /\ ToSet(ApplySorts(t).full) = ToSet(t.full) /\ ToSet(ApplySorts(t).rows) = ToSet(t.rows)
<1>1. CASE Len(t.rows) <= 1
  BY <1>1 DEF ApplySorts, Kin
<1>2. CASE ~(Len(t.rows) <= 1)
  <2>1. t \in TabTypes /\ t.rows \in Seq(Ids) /\ t.full \in Seq(Ids) /\ ToSet(t.rows) \subseteq DOMAIN t.mem
    BY DEF Layered, TabTypes
  <2> DEFINE o == Order(t)
  <2>2. PICK n \in Nat : n = Len(t.rows)
    BY <2>1
  <2>3. DOMAIN t.rows = 1..n /\ DOMAIN t.full = 1..n
    BY <2>1, <2>2
  <2>4. Enumerates(o, 1..n)
    BY <2>1, <2>3, OrderFacts
  <2> HIDE DEF o
  <2>5. /\ Reorder(t.rows, o) \in Seq(Ids) /\ ToSet(Reorder(t.rows, o)) = ToSet(t.rows)
        /\ Len(Reorder(t.rows, o)) = Len(t.rows)
    BY <2>1, <2>3, <2>4, ReorderFacts
  <2>6. /\ Reorder(t.full, o) \in Seq(Ids) /\ ToSet(Reorder(t.full, o)) = ToSet(t.full)
        /\ Len(Reorder(t.full, o)) = Len(t.full)
    BY <2>1, <2>3, <2>4, ReorderFacts
  <2>7. PICK s : s = Show(t, Reorder(t.rows, o))
    OBVIOUS
  <2>8. /\ s \in TabTypes /\ Kin(s, t) /\ s.rows = Reorder(t.rows, o) /\ s.post = t.post
        /\ s.cursor <= Len(s.rows)
    BY <2>1, <2>5, <2>7, ShowFacts
  <2>9. ApplySorts(t) = [s EXCEPT !.full = Reorder(t.full, o)]
    BY <1>2, <2>7 DEF ApplySorts, o
  <2>10. /\ ApplySorts(t) \in TabTypes /\ Kin(ApplySorts(t), s) /\ ApplySorts(t).post = s.post
         /\ ApplySorts(t).rows = s.rows /\ ApplySorts(t).full = Reorder(t.full, o)
         /\ ApplySorts(t).cursor = s.cursor
    BY <2>6, <2>8, <2>9 DEF TabTypes, Kin
  <2>11. Kin(ApplySorts(t), t)
    BY <2>8, <2>10 DEF Kin
  <2>12. Layered(ApplySorts(t))
    BY <2>5, <2>6, <2>8, <2>10, <2>11 DEF Layered, Kin
  <2> QED BY <2>5, <2>6, <2>8, <2>10, <2>11, <2>12
<1> QED BY <1>1, <1>2

\* The pin filter leaves rows of the full layer; without a pin, all of them.
LEMMA FilterFacts ==
  ASSUME NEW t \in TabTypes, ToSet(t.full) = DOMAIN t.mem, Len(t.full) = Cardinality(DOMAIN t.mem)
  PROVE  /\ Layered(ApplyRowFilter(t)) /\ Kin(ApplyRowFilter(t), t) /\ ApplyRowFilter(t).full = t.full
         /\ ApplyRowFilter(t).post = ApplyRowFilter(t).rows
         /\ t.pins = {} => ToSet(ApplyRowFilter(t).rows) = ToSet(t.full)
<1> DEFINE seen == {i \in DOMAIN t.full : Visible(t, t.full[i])}
           rows == Kept(t.full, seen)
<1>1. t.full \in Seq(Ids) /\ seen \in SUBSET (DOMAIN t.full)
  BY DEF TabTypes
<1>2. t.pins = {} => seen = DOMAIN t.full
  BY DEF Visible
<1> HIDE DEF seen
<1>3. rows \in Seq(Ids) /\ ToSet(rows) = {t.full[i] : i \in seen}
  BY <1>1, KeptFacts
<1>4. ToSet(rows) \subseteq ToSet(t.full) /\ (t.pins = {} => ToSet(rows) = ToSet(t.full))
  BY <1>1, <1>2, <1>3 DEF ToSet
<1>5. PICK r : r = rows
  OBVIOUS
<1>6. PICK s : s = Show(t, r)
  OBVIOUS
<1>7. /\ s \in TabTypes /\ Kin(s, t) /\ s.rows = r /\ s.full = t.full
      /\ s.cursor <= Len(r)
  BY <1>3, <1>5, <1>6, ShowFacts
<1>8. ApplyRowFilter(t) = [s EXCEPT !.post = r]
  BY <1>5, <1>6 DEF ApplyRowFilter, seen
<1>9. /\ ApplyRowFilter(t) \in TabTypes /\ Kin(ApplyRowFilter(t), t)
      /\ ApplyRowFilter(t).post = r /\ ApplyRowFilter(t).rows = r /\ ApplyRowFilter(t).full = t.full
      /\ ApplyRowFilter(t).cursor <= Len(r)
  BY <1>3, <1>5, <1>7, <1>8 DEF TabTypes, Kin
<1>10. ApplyRowFilter(t).mem = t.mem
  BY <1>9 DEF Kin
<1>11. ToSet(r) \subseteq DOMAIN t.mem
  BY <1>4, <1>5
<1>12. Layered(ApplyRowFilter(t))
  BY <1>9, <1>10, <1>11 DEF Layered
<1> QED BY <1>4, <1>5, <1>9, <1>12

\* A tab that was just loaded shows the table.
LEMMA LoadedFacts ==
  ASSUME NEW table \in Tables
  PROVE  /\ Layered(Loaded(table)) /\ Loaded(table).mem = table
         /\ Loaded(table).post = <<>> /\ Loaded(table).rows = Loaded(table).full
         /\ Loaded(table).pins = {}
<1> DEFINE S == DOMAIN table
           rows == Sorted(S, <)
<1>1. IsFiniteSet(S) /\ S \subseteq Ids /\ Ids \subseteq Int
  BY Finite, TableAssumption DEF Ids
<1>2. Enumerates(rows, S)
  BY <1>1, Ascending
<1>3. PICK r : r = rows
  OBVIOUS
<1>4. PICK n : n = Cardinality(S)
  OBVIOUS
<1>5. r \in [1..n -> S] /\ n \in Nat /\ \A x \in S : \E k \in 1..n : r[k] = x
  BY <1>2, <1>3, <1>4 DEF Enumerates
<1>6. r \in Seq(Ids) /\ Len(r) = n /\ DOMAIN r = 1..n
  BY <1>1, <1>5
<1>7. ToSet(r) = S
  BY <1>5, <1>6 DEF ToSet
<1>8. PICK c : c = Clamp(1, Len(r))
  OBVIOUS
<1>9. c \in Nat /\ c <= Len(r)
  BY <1>5, <1>6, <1>8, ClampFacts
<1>10. Loaded(table) = [full |-> r, post |-> <<>>, rows |-> r, mem |-> table, cursor |-> c,
                       sort |-> "none", pins |-> {}, active |-> FALSE, inverted |-> FALSE]
  BY <1>3, <1>8 DEF Loaded
<1>11. Loaded(table) \in TabTypes
  BY <1>6, <1>10, <1>9 DEF TabTypes
<1>12. ToSet(<<>>) = {}
  BY DEF ToSet
<1>13. Layered(Loaded(table))
  BY <1>4, <1>6, <1>7, <1>10, <1>11, <1>12, <1>9 DEF Layered
<1> QED BY <1>10, <1>13

\* A rebuilt tab shows the table it was given, all of it when no pin is set.
LEMMA RebuiltFacts ==
  ASSUME tab \in TabTypes, NEW table \in Tables
  PROVE  /\ Layered(Rebuilt(table)) /\ Rebuilt(table).mem = table /\ Rebuilt(table).pins = tab.pins
         /\ tab.pins = {} => /\ Rebuilt(table).post = <<>>
                             /\ ToSet(Rebuilt(table).rows) = ToSet(Rebuilt(table).full)
<1>1. PICK l : l = [Loaded(table) EXCEPT !.sort = tab.sort]
  OBVIOUS
<1>2. /\ Layered(Loaded(table)) /\ Loaded(table).mem = table /\ Loaded(table).post = <<>>
      /\ Loaded(table).rows = Loaded(table).full /\ Loaded(table).pins = {}
  BY LoadedFacts
<1>3. l \in TabTypes /\ l.mem = table /\ l.post = <<>> /\ l.rows = l.full
      /\ l.full = Loaded(table).full /\ l.cursor = Loaded(table).cursor
  BY <1>1, <1>2 DEF Layered, TabTypes
<1>4. Layered(l)
  BY <1>2, <1>3 DEF Layered
<1>5. PICK s : s = ApplySorts(l)
  OBVIOUS
<1>6. /\ Layered(s) /\ s.mem = table /\ s.post = <<>> /\ ToSet(s.rows) = ToSet(s.full)
  BY <1>3, <1>4, <1>5, SortFacts DEF Kin
<1>7. PICK p : p = [s EXCEPT !.pins = tab.pins, !.active = tab.active, !.inverted = tab.inverted]
  OBVIOUS
<1>8. p \in TabTypes /\ p.mem = table /\ p.post = <<>> /\ p.rows = s.rows /\ p.full = s.full
      /\ p.pins = tab.pins /\ p.cursor = s.cursor
  BY <1>6, <1>7 DEF Layered, TabTypes
<1>9. Layered(p)
  BY <1>6, <1>8 DEF Layered
<1>10. PICK w : w = IF tab.pins = {} THEN p ELSE ApplyRowFilter(p)
  OBVIOUS
<1>11. Layered(w) /\ w.mem = table /\ w.pins = tab.pins
       /\ (tab.pins = {} => w.post = <<>> /\ ToSet(w.rows) = ToSet(w.full))
  <2>1. CASE tab.pins = {}
    BY <1>6, <1>8, <1>9, <1>10, <2>1
  <2>2. CASE tab.pins # {}
    <3>1. ToSet(p.full) = DOMAIN p.mem /\ Len(p.full) = Cardinality(DOMAIN p.mem)
      BY <1>9 DEF Layered
    <3>2. Layered(ApplyRowFilter(p)) /\ ApplyRowFilter(p).mem = p.mem /\ ApplyRowFilter(p).pins = p.pins
      BY <1>8, <3>1, FilterFacts DEF Kin
    <3> QED BY <1>8, <1>10, <2>2, <3>2
  <2> QED BY <2>1, <2>2
<1>12. PICK c : c = OnRow(tab.cursor, Len(w.rows))
  OBVIOUS
<1>13. c \in Nat /\ c <= Len(w.rows)
  <2>1. Len(w.rows) \in Nat /\ tab.cursor \in Nat
    BY <1>11 DEF Layered, TabTypes
  <2> QED BY <1>12, <2>1, ClampFacts
<1>14. Rebuilt(table) = [w EXCEPT !.cursor = c]
  BY <1>1, <1>5, <1>7, <1>10, <1>12 DEF Rebuilt
<1>15. /\ Rebuilt(table) \in TabTypes /\ Rebuilt(table).mem = w.mem /\ Rebuilt(table).pins = w.pins
       /\ Rebuilt(table).post = w.post /\ Rebuilt(table).rows = w.rows /\ Rebuilt(table).full = w.full
       /\ Rebuilt(table).cursor = c
  BY <1>11, <1>13, <1>14 DEF Layered, TabTypes
<1>16. Layered(Rebuilt(table))
  BY <1>11, <1>13, <1>15 DEF Layered
<1> QED BY <1>11, <1>15, <1>16

\* A search shows rows of the snapshot only, and all of them for the empty query.
LEMMA RefilterFacts ==
  ASSUME NEW t, Layered(t), NEW s, NEW fullMode
  PROVE  /\ Layered(Refilter(t, s, fullMode)) /\ Kin(Refilter(t, s, fullMode), t)
         /\ Refilter(t, s, fullMode).full = t.full /\ Refilter(t, s, fullMode).post = t.post
         /\ ToSet(Refilter(t, s, fullMode).rows) \subseteq ToSet(t.post)
<1> DEFINE found == {i \in DOMAIN t.post : Matches(t, s, fullMode, t.post[i])}
<1>1. t \in TabTypes /\ t.post \in Seq(Ids) /\ found \in SUBSET (DOMAIN t.post)
  BY DEF Layered, TabTypes
<1>2. PICK r : r = IF s.query = NoQuery THEN t.post ELSE Kept(t.post, found)
  OBVIOUS
<1> HIDE DEF found
<1>3. r \in Seq(Ids) /\ ToSet(r) \subseteq ToSet(t.post)
  <2>1. Kept(t.post, found) \in Seq(Ids) /\ ToSet(Kept(t.post, found)) = {t.post[i] : i \in found}
    BY <1>1, KeptFacts
  <2>2. {t.post[i] : i \in found} \subseteq ToSet(t.post)
    BY <1>1 DEF ToSet
  <2> QED BY <1>1, <1>2, <2>1, <2>2
<1>4. PICK c : c = OnRow(t.cursor, Len(r))
  OBVIOUS
<1>5. c \in Nat /\ c <= Len(r)
  <2>1. Len(r) \in Nat /\ t.cursor \in Nat
    BY <1>1, <1>3 DEF TabTypes
  <2> QED BY <1>4, <2>1, ClampFacts
<1>6. PICK u : u = [t EXCEPT !.rows = r, !.cursor = c]
  OBVIOUS
<1>7. Refilter(t, s, fullMode) = u
  BY <1>2, <1>4, <1>6 DEF Refilter, found
<1>8. /\ u \in TabTypes /\ Kin(u, t) /\ u.rows = r /\ u.full = t.full /\ u.post = t.post
      /\ u.cursor = c
  BY <1>1, <1>3, <1>5, <1>6 DEF TabTypes, Kin
<1>9. Layered(u)
  BY <1>3, <1>5, <1>8 DEF Layered, Kin
<1> QED BY <1>3, <1>7, <1>8, <1>9

\* A table some rows are deleted from, and one with values under new row ids.
LEMMA FewerRows ==
  ASSUME NEW t \in Tables, NEW gone
  PROVE  [id \in DOMAIN t \ gone |-> t[id]] \in Tables
<1> DEFINE ids == DOMAIN t \ gone
<1>1. DOMAIN t \subseteq Ids /\ \A id \in DOMAIN t : t[id] \in Vals
  BY Finite
<1>2. ids \in SUBSET Ids /\ [id \in ids |-> t[id]] \in [ids -> Vals]
  BY <1>1
<1> QED BY <1>2 DEF Tables

LEMMA MoreRows ==
  ASSUME NEW t \in Tables, NEW values \in Seq(Vals), NEW last \in Nat, last + Len(values) <= MaxId
  PROVE  [id \in DOMAIN t \union (last + 1)..(last + Len(values)) |->
            IF id \in DOMAIN t THEN t[id] ELSE values[id - last]] \in Tables
<1>1. MaxId \in Nat /\ Len(values) \in Nat
  BY TableAssumption
<1>2. DOMAIN t \subseteq Ids /\ \A id \in DOMAIN t : t[id] \in Vals
  BY Finite
<1>3. \A id \in (last + 1)..(last + Len(values)) : id \in Ids /\ id - last \in 1..Len(values)
  BY <1>1 DEF Ids
<1>4. \A i \in 1..Len(values) : values[i] \in Vals
  OBVIOUS
<1> DEFINE ids == DOMAIN t \union (last + 1)..(last + Len(values))
<1>5. ids \in SUBSET Ids
  BY <1>2, <1>3
<1>6. [id \in ids |-> IF id \in DOMAIN t THEN t[id] ELSE values[id - last]] \in [ids -> Vals]
  BY <1>2, <1>3, <1>4
<1> QED BY <1>5, <1>6 DEF Tables

\* A nonempty table has a largest row id.
LEMMA LargestId ==
  ASSUME NEW S \in SUBSET Ids, S # {}
  PROVE  \E id \in S : \A other \in S : other <= id
<1> DEFINE at == Sorted(S, <)
           R == {p \in S \X S : p[1] < p[2]}
           n == Cardinality(S)
<1>1. S \subseteq Int /\ IsFiniteSet(S)
  BY TableAssumption, Finite DEF Ids
<1>2. Orders(R, S)
  BY <1>1 DEF Orders
<1> HIDE DEF R
<1>3. n \in Nat /\ n # 0
  BY <1>1, FS_CardinalityType, FS_EmptySet
<1>4. PICK id \in S : Rank(R, S, id) = n - 1
  <2>1. n \in 1..n
    BY <1>3
  <2> QED BY <1>1, <1>2, <2>1, RanksCover
<1>5. ASSUME NEW other \in S PROVE other <= id
  <2>1. SUFFICES ASSUME ~(other <= id) PROVE FALSE
    OBVIOUS
  <2>2. <<id, other>> \in R
    BY <1>1, <2>1 DEF R
  <2>3. Rank(R, S, id) < Rank(R, S, other) /\ Rank(R, S, other) < n /\ Rank(R, S, other) \in Nat
    BY <1>1, <1>2, <2>2, RanksGrow, Ranks
  <2> QED BY <1>3, <1>4, <2>3
<1> QED BY <1>5

-----------------------------------------------------------------------------
(* The invariant holds: one lemma for each way an action changes the tab. *)

\* What a tab's step must keep of the layers it is not about.
SameRows(s, t) == ToSet(s.full) = ToSet(t.full) /\ ToSet(s.rows) = ToSet(t.rows) /\ s.post = t.post

LEMMA Initially == Init => Inv
<1> SUFFICES ASSUME Init PROVE Inv
  OBVIOUS
<1>1. fulltext \in BOOLEAN /\ db \in Tables
  BY TableAssumption DEF Init
<1>2. /\ Layered(tab) /\ tab.mem = db /\ tab.post = <<>> /\ tab.rows = tab.full
  BY <1>1, LoadedFacts DEF Init
<1>3. Types
  <2>1. visual \in [anchor : Nat, selected : SUBSET Nat] /\ editor \in [row : Nat, at : Nat]
    BY DEF Init, NoVisual, NoEditor
  <2>2. 0 \in 0..MaxChanges
    BY TableAssumption
  <2>3. clip \in Seq(Vals)
    BY DEF Init
  <2> QED BY <1>1, <2>1, <2>2, <2>3 DEF Init, Types
<1>4. Control /\ EditorPinned
  BY ControlInitially DEF Init, EditorPinned
<1>5. Hidden
  BY <1>2 DEF Init, Hidden, SnapshotWhole, ScreenWhole, Whole, NoSearch
<1> QED BY <1>2, <1>3, <1>4, <1>5 DEF Inv

\* Moving the cursor.
LEMMA CursorFacts ==
  ASSUME NEW t, Layered(t), NEW c \in DOMAIN t.rows
  PROVE  /\ Layered([t EXCEPT !.cursor = c]) /\ SameRows([t EXCEPT !.cursor = c], t)
         /\ Kin([t EXCEPT !.cursor = c], t) /\ [t EXCEPT !.cursor = c].rows = t.rows
<1>1. t \in TabTypes /\ c \in Nat /\ c <= Len(t.rows)
  BY DEF Layered, TabTypes
<1>2. PICK u : u = [t EXCEPT !.cursor = c]
  OBVIOUS
<1>3. /\ u \in TabTypes /\ u.full = t.full /\ u.post = t.post /\ u.rows = t.rows /\ u.mem = t.mem
      /\ u.cursor = c /\ Kin(u, t)
  BY <1>1, <1>2 DEF TabTypes, Kin
<1>4. Layered(u)
  BY <1>1, <1>3 DEF Layered
<1> QED BY <1>2, <1>3, <1>4 DEF SameRows

\* A step that only reorders rows or moves the cursor.
LEMMA SameRowsStep ==
  ASSUME Inv, Layered(tab'), SameRows(tab', tab), tab'.mem = tab.mem, tab'.pins = tab.pins,
         tab'.rows = tab.rows \/ editor = NoEditor,
         UNCHANGED <<fulltext, db, stale, mode, editor, search, full, ticks, asks>>,
         Types', Control'
  PROVE  Inv'
<1>1. EditorPinned'
  BY DEF Inv, EditorPinned
<1>2. Hidden'
  BY DEF Inv, Hidden, SameRows, SnapshotWhole, ScreenWhole, Whole
<1> QED BY <1>1, <1>2 DEF Inv

\* A step that leaves the tab and the table alone.
LEMMA QuietStep ==
  ASSUME Inv, UNCHANGED <<tab, db, stale, fulltext>>, search'.bar = search.bar,
         Types', Control', EditorPinned'
  PROVE  Inv'
<1>1. Hidden'
  BY DEF Inv, Hidden, SnapshotWhole, ScreenWhole, Whole
<1> QED BY <1>1 DEF Inv

\* A step that filters all rows by pins.
LEMMA FilterStep ==
  ASSUME Inv, NormalKey, NEW t \in TabTypes, t.full = tab.full, t.mem = tab.mem, tab' = ApplyRowFilter(t),
         UNCHANGED <<fulltext, db, changes, stale, userVars, searchVars>>, Control'
  PROVE  Inv'
<1>1. ToSet(t.full) = DOMAIN t.mem /\ Len(t.full) = Cardinality(DOMAIN t.mem)
  BY DEF Inv, Layered
<1>2. /\ Layered(tab') /\ Kin(tab', t) /\ tab'.full = tab.full /\ tab'.post = tab'.rows
      /\ t.pins = {} => ToSet(tab'.rows) = ToSet(tab.full)
  BY <1>1, FilterFacts
<1>3. tab'.mem = tab.mem /\ tab'.pins = t.pins
  BY <1>2 DEF Kin
<1>4. editor = NoEditor
  BY DEF Inv, Control, Modes, NormalKey
<1>5. Types' /\ EditorPinned'
  BY <1>4 DEF Inv, Types, EditorPinned, userVars
<1>6. Hidden'
  BY <1>2, <1>3 DEF Hidden, SnapshotWhole, ScreenWhole, Whole, searchVars
<1> QED BY <1>2, <1>3, <1>5, <1>6 DEF Inv, userVars, searchVars

\* A step that filters the snapshot by a search; the bar stays open, or stays with a
\* full-text answer.
LEMMA RefilterStep ==
  ASSUME Inv, NEW s, NEW fullMode, tab' = Refilter(tab, s, fullMode),
         search.bar = "open" \/ (fulltext /\ search.bar # "closed"), search'.bar = search.bar,
         UNCHANGED <<fulltext, db, changes, stale, userVars>>, Control'
  PROVE  Inv'
<1>1. /\ Layered(tab') /\ Kin(tab', tab) /\ tab'.full = tab.full /\ tab'.post = tab.post
      /\ ToSet(tab'.rows) \subseteq ToSet(tab.post)
  BY RefilterFacts DEF Inv
<1>2. tab'.mem = tab.mem /\ tab'.pins = tab.pins
  BY <1>1 DEF Kin
<1>3. editor = NoEditor
  BY DEF Inv, Control, Modes
<1>4. Types' /\ EditorPinned'
  BY <1>3 DEF Inv, Types, EditorPinned, userVars
<1>5. Hidden'
  <2> SUFFICES ASSUME tab.pins = {}
               PROVE  /\ SnapshotWhole(tab') /\ ScreenWhole(tab')
                      /\ search'.bar = "open" \/ (fulltext' /\ search'.bar # "closed") => Whole(tab')
                      /\ search'.bar = "closed" => ToSet(tab'.rows) = ToSet(tab'.full)
    BY <1>2 DEF Hidden, SnapshotWhole, ScreenWhole, Whole
  <2>1. Whole(tab)
    BY DEF Inv, Hidden
  <2>2. Whole(tab')
    BY <1>1, <2>1 DEF Whole
  <2>3. tab'.post = <<>> => ToSet(tab'.post) = {}
    BY DEF ToSet
  <2>4. ScreenWhole(tab')
    BY <1>1, <2>2, <2>3 DEF ScreenWhole, Whole
  <2>5. search'.bar # "closed"
    OBVIOUS
  <2> QED BY <2>2, <2>4, <2>5 DEF SnapshotWhole, Whole
<1> QED BY <1>1, <1>2, <1>4, <1>5 DEF Inv, userVars

\* A change of the table and the rebuild after it.
LEMMA ChangeStep ==
  ASSUME Inv, NEW table \in Tables, Change(table), ~fulltext, search.bar # "open", editor = NoEditor,
         clip' \in Seq(Vals), Control'
  PROVE  Inv'
<1>1. Types'
  <2>1. changes' \in 0..MaxChanges /\ changes' = changes + 1
    BY TableAssumption DEF Change, Inv, Types
  <2>2. visual' \in [anchor : Nat, selected : SUBSET Nat] /\ stale' \in BOOLEAN
    <3>1. NoVisual \in [anchor : Nat, selected : SUBSET Nat]
      BY DEF NoVisual
    <3>2. visual \in [anchor : Nat, selected : SUBSET Nat] /\ (visual' = NoVisual \/ visual' = visual)
      BY DEF Change, Inv, Types
    <3>3. stale' \in BOOLEAN
      BY DEF Change
    <3> QED BY <3>1, <3>2, <3>3
  <2>3. UNCHANGED <<fulltext, mode, editor, search, full, ticks, asks>> /\ db' \in Tables
    BY DEF Change, searchVars
  <2> QED BY <2>1, <2>2, <2>3 DEF Inv, Types
<1>2. EditorPinned'
  BY DEF Change, EditorPinned
<1>3. CASE tab' = Rebuilt(table) /\ stale' = FALSE
  <2>1. tab \in TabTypes
    BY DEF Inv, Layered
  <2>2. /\ Layered(tab') /\ tab'.mem = table /\ tab'.pins = tab.pins
        /\ tab.pins = {} => tab'.post = <<>> /\ ToSet(tab'.rows) = ToSet(tab'.full)
    BY <1>3, <2>1, RebuiltFacts
  <2>3. Hidden'
    BY <2>2 DEF Change, Hidden, SnapshotWhole, ScreenWhole, Whole, searchVars
  <2> QED BY <1>1, <1>2, <2>2, <2>3 DEF Inv, Change
<1>4. CASE stale' = TRUE /\ UNCHANGED <<tab, visual>>
  <2>1. Layered(tab')
    BY <1>4 DEF Inv
  <2>2. Hidden'
    BY <1>4 DEF Inv, Change, Hidden, SnapshotWhole, ScreenWhole, Whole, searchVars
  <2> QED BY <1>1, <1>2, <1>4, <2>1, <2>2 DEF Inv
<1> QED BY <1>3, <1>4 DEF Change

\* SaveEditor writes one row, in the table and on the screen alike.
LEMMA SaveStep ==
  ASSUME Inv, SaveEditor, Control'
  PROVE  Inv'
<1>1. PICK v \in Vals :
        /\ db' = [db EXCEPT ![editor.row] = v]
        /\ tab' = [tab EXCEPT !.mem = [id \in DOMAIN @ |->
                     IF id = editor.row \/ (editor.at \in DOMAIN tab.rows /\ id = tab.rows[editor.at])
                     THEN v ELSE @[id]]]
  BY DEF SaveEditor
<1>2. /\ editor # NoEditor /\ editor.row \in DOMAIN db /\ changes' = changes + 1 /\ changes < MaxChanges
      /\ editor' = NoEditor
      /\ UNCHANGED <<fulltext, stale, mode, visual, clip, search, full, ticks, asks>>
  BY DEF SaveEditor, searchVars
<1>3. editor.at \in DOMAIN tab.rows /\ tab.rows[editor.at] = editor.row
  BY <1>2 DEF Inv, EditorPinned
<1>4. PICK m : m = [id \in DOMAIN tab.mem |-> IF id = editor.row THEN v ELSE tab.mem[id]]
  OBVIOUS
<1>5. tab' = [tab EXCEPT !.mem = m]
  BY <1>1, <1>3, <1>4
<1>6. tab \in TabTypes /\ tab.mem \in Tables
  BY DEF Inv, Layered, TabTypes
<1>7. m \in Tables /\ DOMAIN m = DOMAIN tab.mem
  <2>1. DOMAIN tab.mem \in SUBSET Ids /\ \A id \in DOMAIN tab.mem : tab.mem[id] \in Vals
    BY <1>6, Finite
  <2>2. m \in [DOMAIN tab.mem -> Vals]
    BY <1>4, <2>1
  <2> QED BY <1>4, <2>1, <2>2 DEF Tables
<1>8. /\ tab' \in TabTypes /\ tab'.mem = m /\ tab'.full = tab.full /\ tab'.post = tab.post
      /\ tab'.rows = tab.rows /\ tab'.cursor = tab.cursor /\ tab'.pins = tab.pins
  BY <1>5, <1>6, <1>7 DEF TabTypes
<1>9. Layered(tab')
  BY <1>7, <1>8 DEF Inv, Layered
<1>10. db' \in Tables
  <2>1. DOMAIN db \in SUBSET Ids /\ \A id \in DOMAIN db : db[id] \in Vals
    BY Finite DEF Inv, Types
  <2>2. db' \in [DOMAIN db -> Vals]
    BY <1>1, <2>1, Finite DEF Inv, Types
  <2> QED BY <2>1, <2>2 DEF Tables
<1>11. ~stale => tab'.mem = db'
  <2> SUFFICES ASSUME ~stale PROVE m = db'
    BY <1>8
  <2>1. tab.mem = db
    BY DEF Inv
  <2> QED BY <1>1, <1>4, <2>1, <1>10, Finite DEF Inv, Types
<1>12. Types'
  <2>1. changes' \in 0..MaxChanges
    BY <1>2, TableAssumption DEF Inv, Types
  <2>2. editor' \in [row : Nat, at : Nat]
    BY <1>2 DEF NoEditor
  <2> QED BY <1>2, <1>10, <2>1, <2>2 DEF Inv, Types
<1>13. EditorPinned'
  BY <1>2 DEF EditorPinned
<1>14. Hidden'
  BY <1>2, <1>8 DEF Inv, Hidden, SnapshotWhole, ScreenWhole, Whole
<1> QED BY <1>2, <1>9, <1>11, <1>12, <1>13, <1>14 DEF Inv

\* Keys of normal mode.
LEMMA NormalKeys ==
  ASSUME SortsAll, Inv, Control', SortKey \/ PinKey \/ FilterKey \/ ClearPins
  PROVE  Inv'
<1>1. /\ NormalKey /\ editor = NoEditor
      /\ UNCHANGED <<fulltext, db, changes, stale, userVars, searchVars>>
  BY DEF SortKey, PinKey, FilterKey, ClearPins, Inv, Control, Modes, NormalKey
<1>2. tab \in TabTypes
  BY DEF Inv, Layered
<1>3. CASE SortKey
  <2>1. PICK next \in {"none", "asc", "desc"} : tab' = ApplySorts([tab EXCEPT !.sort = next])
    BY <1>3 DEF SortKey
  <2>2. Len(tab.rows) = Len(tab.full)
    BY <1>3 DEF SortKey, SortsAll
  <2>3. PICK t : t = [tab EXCEPT !.sort = next]
    OBVIOUS
  <2>4. /\ t \in TabTypes /\ t.full = tab.full /\ t.post = tab.post /\ t.rows = tab.rows
        /\ t.mem = tab.mem /\ t.pins = tab.pins /\ t.cursor = tab.cursor
    BY <1>2, <2>3 DEF TabTypes
  <2>5. Layered(t)
    BY <2>4 DEF Inv, Layered
  <2>6. /\ Layered(tab') /\ Kin(tab', t) /\ tab'.post = t.post
        /\ ToSet(tab'.full) = ToSet(t.full) /\ ToSet(tab'.rows) = ToSet(t.rows)
    BY <2>1, <2>2, <2>3, <2>4, <2>5, SortFacts
  <2>7. tab'.mem = tab.mem /\ tab'.pins = tab.pins /\ SameRows(tab', tab)
    BY <2>4, <2>6 DEF Kin, SameRows
  <2>8. Types'
    BY <1>1 DEF Inv, Types, userVars
  <2> QED BY <1>1, <2>6, <2>7, <2>8, SameRowsStep DEF userVars, searchVars
<1>4. CASE PinKey
  <2>1. PICK v : /\ v = tab.mem[tab.rows[tab.cursor]] /\ tab.cursor \in DOMAIN tab.rows
                 /\ tab' = ApplyRowFilter([tab EXCEPT !.pins = IF v \in @ THEN @ \ {v} ELSE @ \union {v}])
    BY <1>4 DEF PinKey
  <2>2. v \in Vals
    <3>1. tab.rows[tab.cursor] \in DOMAIN tab.mem
      BY <2>1 DEF Inv, Layered, ToSet
    <3> QED BY <1>2, <2>1, <3>1, Finite DEF TabTypes
  <2>3. PICK pins \in SUBSET Vals : pins = IF v \in tab.pins THEN tab.pins \ {v} ELSE tab.pins \union {v}
    BY <1>2, <2>2 DEF TabTypes
  <2>4. PICK t : t = [tab EXCEPT !.pins = pins]
    OBVIOUS
  <2>5. t \in TabTypes /\ t.full = tab.full /\ t.mem = tab.mem
    BY <1>2, <2>4 DEF TabTypes
  <2>6. tab' = ApplyRowFilter(t)
    BY <2>1, <2>3, <2>4
  <2> QED BY <1>1, <2>5, <2>6, FilterStep
<1>5. CASE FilterKey
  <2>1. PICK t : t \in {[tab EXCEPT !.active = ~@], [tab EXCEPT !.inverted = ~@]} /\ tab' = ApplyRowFilter(t)
    BY <1>5 DEF FilterKey
  <2>2. t \in TabTypes /\ t.full = tab.full /\ t.mem = tab.mem
    BY <1>2, <2>1 DEF TabTypes
  <2> QED BY <1>1, <2>1, <2>2, FilterStep
<1>6. CASE ClearPins
  <2>1. PICK t : /\ t = [tab EXCEPT !.pins = {}, !.active = FALSE, !.inverted = FALSE]
                 /\ tab' = ApplyRowFilter(t)
    BY <1>6 DEF ClearPins
  <2>2. t \in TabTypes /\ t.full = tab.full /\ t.mem = tab.mem
    BY <1>2, <2>1 DEF TabTypes
  <2> QED BY <1>1, <2>1, <2>2, FilterStep
<1> QED BY <1>3, <1>4, <1>5, <1>6

\* What Yank, d and x copy is a sequence of values.
LEMMA CopiedFacts ==
  ASSUME Inv
  PROVE  Copied \in Seq(Vals)
<1> DEFINE chosen == Selection \intersect DOMAIN tab.rows
<1>1. tab \in TabTypes /\ tab.rows \in Seq(Ids) /\ chosen \in SUBSET (DOMAIN tab.rows)
  BY DEF Inv, Layered, TabTypes
<1> HIDE DEF chosen
<1>2. PICK rows : rows = Kept(tab.rows, chosen)
  OBVIOUS
<1>3. rows \in Seq(Ids) /\ ToSet(rows) = {tab.rows[i] : i \in chosen}
  BY <1>1, <1>2, KeptFacts
<1>4. \A i \in 1..Len(rows) : rows[i] \in DOMAIN tab.mem
  <2>1. ToSet(rows) \subseteq ToSet(tab.rows)
    BY <1>1, <1>3 DEF ToSet
  <2>2. ToSet(rows) \subseteq DOMAIN tab.mem
    BY <2>1 DEF Inv, Layered
  <2> QED BY <1>3, <2>2 DEF ToSet
<1>5. \A i \in 1..Len(rows) : tab.mem[rows[i]] \in Vals
  BY <1>1, <1>4, Finite DEF TabTypes
<1>6. Copied = [i \in 1..Len(rows) |-> tab.mem[rows[i]]]
  BY <1>2, <1>3 DEF Copied, chosen
<1>7. Len(rows) \in Nat
  BY <1>3
<1> QED BY <1>5, <1>6, <1>7

\* Keys of visual and edit mode that leave the table alone, and the cursor.
LEMMA ModeKeys ==
  ASSUME Inv, Control', MoveCursor \/ SwitchMode \/ OpenEditor \/ CancelEditor \/ SelectRow \/ ExtendSelection \/ Panic \/ Yank
  PROVE  Inv'
<1>1. tab \in TabTypes /\ tab.cursor \in Nat /\ Layered(tab)
  BY DEF Inv, Layered, TabTypes
<1>2. CASE MoveCursor
  <2>1. PICK c \in DOMAIN tab.rows : tab' = [tab EXCEPT !.cursor = c]
    BY <1>2 DEF MoveCursor
  <2>2. Layered(tab') /\ SameRows(tab', tab) /\ Kin(tab', tab) /\ tab'.rows = tab.rows
    BY <1>1, <2>1, CursorFacts
  <2>3. tab'.mem = tab.mem /\ tab'.pins = tab.pins
    BY <2>2 DEF Kin
  <2>4. UNCHANGED <<fulltext, db, changes, stale, mode, visual, editor, clip, search, full, ticks, asks>>
    BY <1>2 DEF MoveCursor, userVars, searchVars
  <2>5. Types'
    BY <2>4 DEF Inv, Types
  <2> QED BY <2>2, <2>3, <2>4, <2>5, SameRowsStep
<1>3. CASE SwitchMode
  <2>1. Types'
    <3>1. NoVisual \in [anchor : Nat, selected : SUBSET Nat]
      BY DEF NoVisual
    <3>2. mode' \in {"normal", "edit", "visual", "panicked"}
      BY <1>3 DEF SwitchMode
    <3> QED BY <1>3, <3>1, <3>2 DEF SwitchMode, Inv, Types
  <2>2. EditorPinned'
    BY <1>3 DEF SwitchMode, EditorPinned
  <2> QED BY <1>3, <2>1, <2>2, QuietStep DEF SwitchMode, searchVars
<1>4. CASE OpenEditor
  <2>1. tab.cursor \in DOMAIN tab.rows /\ tab.rows[tab.cursor] \in Nat
    <3>1. tab.rows \in Seq(Ids) /\ tab.cursor \in DOMAIN tab.rows
      BY <1>1, <1>4 DEF OpenEditor, TabTypes
    <3>2. tab.rows[tab.cursor] \in Ids
      BY <3>1
    <3> QED BY <3>1, <3>2, TableAssumption DEF Ids
  <2>2. Types'
    BY <1>1, <1>4, <2>1 DEF OpenEditor, Inv, Types
  <2>3. EditorPinned'
    BY <1>4, <2>1 DEF OpenEditor, Inv, EditorPinned
  <2> QED BY <1>4, <2>2, <2>3, QuietStep DEF OpenEditor, searchVars
<1>5. CASE CancelEditor
  <2>1. Types'
    BY <1>5 DEF CancelEditor, Inv, Types, NoEditor
  <2>2. EditorPinned'
    BY <1>5 DEF CancelEditor, Inv, EditorPinned
  <2> QED BY <1>5, <2>1, <2>2, QuietStep DEF CancelEditor, searchVars
<1>6. CASE SelectRow
  <2>1. visual' \in [anchor : Nat, selected : SUBSET Nat]
    BY <1>1, <1>6 DEF SelectRow, Inv, Types
  <2>2. Types'
    BY <1>6, <2>1 DEF SelectRow, Inv, Types
  <2>3. EditorPinned'
    BY <1>6 DEF SelectRow, Inv, EditorPinned
  <2> QED BY <1>6, <2>2, <2>3, QuietStep DEF SelectRow, searchVars
<1>7. CASE ExtendSelection
  <2>1. PICK c : tab' = IF c \in DOMAIN tab.rows THEN [tab EXCEPT !.cursor = c] ELSE tab
    BY <1>7 DEF ExtendSelection
  <2>2. Layered(tab') /\ SameRows(tab', tab) /\ Kin(tab', tab) /\ tab'.rows = tab.rows
    <3>1. CASE c \in DOMAIN tab.rows
      BY <1>1, <2>1, <3>1, CursorFacts
    <3>2. CASE c \notin DOMAIN tab.rows
      BY <1>1, <2>1, <3>2 DEF SameRows, Kin
    <3> QED BY <3>1, <3>2
  <2>3. tab'.mem = tab.mem /\ tab'.pins = tab.pins
    BY <2>2 DEF Kin
  <2>4. /\ UNCHANGED <<fulltext, db, changes, stale, mode, editor, clip, search, full, ticks, asks>>
        /\ mode = "visual"
    BY <1>7 DEF ExtendSelection, searchVars
  <2>5. visual' \in [anchor : Nat, selected : SUBSET Nat]
    BY <1>1, <1>7 DEF ExtendSelection, Inv, Types
  <2>6. Types'
    BY <2>4, <2>5 DEF Inv, Types
  <2> QED BY <2>2, <2>3, <2>4, <2>6, SameRowsStep
<1>8. CASE Yank
  <2>1. clip' \in Seq(Vals)
    BY <1>8, CopiedFacts DEF Yank
  <2>2. Types'
    BY <1>8, <2>1 DEF Yank, Inv, Types
  <2>3. EditorPinned'
    BY <1>8 DEF Yank, Inv, EditorPinned
  <2> QED BY <1>8, <2>2, <2>3, QuietStep DEF Yank, searchVars
<1>9. CASE Panic
  <2>1. Types'
    BY <1>9 DEF Panic, Inv, Types, NoVisual
  <2>2. EditorPinned'
    BY <1>9 DEF Panic, Inv, EditorPinned
  <2> QED BY <1>9, <2>1, <2>2, QuietStep DEF Panic, searchVars
<1> QED BY <1>2, <1>3, <1>4, <1>5, <1>6, <1>7, <1>8, <1>9

\* Deleting, cutting, pasting and renaming a column.
LEMMA Changes ==
  ASSUME Inv, Control', DeleteOrCut \/ Paste \/ RenameColumn
  PROVE  Inv'
<1>1. db \in Tables /\ clip \in Seq(Vals)
  BY DEF Inv, Types
<1>2. ~fulltext /\ search.bar # "open" /\ editor = NoEditor
  BY DEF DeleteOrCut, Paste, RenameColumn, NormalKey, Inv, Control, Modes
<1>3. CASE DeleteOrCut
  <2>1. clip' \in Seq(Vals)
    BY <1>1, <1>3, CopiedFacts DEF DeleteOrCut
  <2>2. PICK gone : gone = SelectedRows
    OBVIOUS
  <2>3. PICK t : t = [id \in DOMAIN db \ gone |-> db[id]]
    OBVIOUS
  <2>4. t \in Tables /\ Change(t)
    BY <1>1, <1>3, <2>2, <2>3, FewerRows DEF DeleteOrCut
  <2> QED BY <1>2, <2>1, <2>4, ChangeStep
<1>4. CASE Paste
  <2>1. PICK last : last = IF db = <<>> THEN 0 ELSE CHOOSE id \in DOMAIN db : \A other \in DOMAIN db : other <= id
    OBVIOUS
  <2>2. last \in Nat
    <3>1. CASE db = <<>>
      BY <2>1, <3>1
    <3>2. CASE db # <<>>
      <4>1. DOMAIN db \in SUBSET Ids /\ db \in [DOMAIN db -> Vals]
        BY <1>1, Finite
      <4>2. DOMAIN db # {}
        <5>1. SUFFICES ASSUME DOMAIN db = {} PROVE db = <<>>
          BY <3>2
        <5>2. 1..0 = {} /\ 0 \in Nat
          OBVIOUS
        <5>3. db \in [1..0 -> Vals]
          BY <4>1, <5>1, <5>2
        <5>4. db \in Seq(Vals) /\ Len(db) = 0
          BY <5>2, <5>3
        <5> QED BY <5>4, EmptySeq
      <4>3. \E id \in DOMAIN db : \A other \in DOMAIN db : other <= id
        BY <4>1, <4>2, LargestId
      <4>4. last \in DOMAIN db
        BY <2>1, <3>2, <4>3
      <4> QED BY <4>1, <4>4, TableAssumption DEF Ids
    <3> QED BY <3>1, <3>2
  <2>3. PICK t : t = [id \in DOMAIN db \union (last + 1)..(last + Len(clip)) |->
                        IF id \in DOMAIN db THEN db[id] ELSE clip[id - last]]
    OBVIOUS
  <2>4. last + Len(clip) <= MaxId /\ Change(t) /\ clip' = clip
    BY <1>4, <2>1, <2>3 DEF Paste
  <2>5. t \in Tables
    BY <1>1, <2>2, <2>3, <2>4, MoreRows
  <2> QED BY <1>1, <1>2, <2>4, <2>5, ChangeStep
<1>5. CASE RenameColumn
  BY <1>1, <1>2, <1>5, ChangeStep DEF RenameColumn
<1> QED BY <1>3, <1>4, <1>5

\* Typing and switching the search mode.
LEMMA Typing ==
  ASSUME Inv, Control', TypeQuery \/ ToggleMode
  PROVE  Inv'
<1>1. BarTypes
  BY DEF Inv, Control
<1>2. /\ search.bar = "open" /\ search'.bar = "open"
      /\ UNCHANGED <<fulltext, db, changes, stale, userVars>>
      /\ \E s, fullMode : tab' = Refilter(tab, s, fullMode)
  BY <1>1, RerunFacts
<1> QED BY <1>2, RefilterStep

\* A full-text answer, taken or thrown away.
LEMMA Answering ==
  ASSUME Inv, Control', NEW a \in asks, Result(a)
  PROVE  Inv'
<1>1. fulltext /\ editor = NoEditor /\ BarTypes
  BY DEF Inv, Control, Types, Modes
<1>2. /\ UNCHANGED <<fulltext, db, changes, stale, userVars>> /\ search'.bar = search.bar
      /\ IF search.bar # "closed" /\ search.seq = a.seq
         THEN \E s : tab' = Refilter(tab, s, full)
         ELSE tab' = tab
  BY <1>1, ResultFacts
<1>3. CASE search.bar # "closed" /\ search.seq = a.seq
  BY <1>1, <1>2, <1>3, RefilterStep
<1>4. CASE ~(search.bar # "closed" /\ search.seq = a.seq)
  <2>1. Types' /\ EditorPinned'
    BY <1>1, <1>2 DEF Inv, Types, EditorPinned, userVars
  <2> QED BY <1>2, <1>4, <2>1, QuietStep
<1> QED BY <1>3, <1>4

\* Opening, committing and closing the bar, and its timer.
LEMMA Searching ==
  ASSUME Inv, Control', OpenSearch \/ CommitSearch \/ CloseSearch \/ \E n \in 1..MaxSeq : Tick(n)
  PROVE  Inv'
<1>1. tab \in TabTypes /\ Layered(tab) /\ search \in Bars
  BY DEF Inv, Control, BarTypes, Layered
<1>2. CASE OpenSearch
  <2>1. search' = [search EXCEPT !.bar = "open"] \/ search' = [NoSearch EXCEPT !.bar = "open"]
    BY <1>2 DEF OpenSearch
  <2>2. search'.bar = "open"
    BY <1>1, <2>1 DEF Bars, NoSearch
  <2>3. /\ editor = NoEditor /\ mode # "visual" /\ search.bar # "open"
        /\ UNCHANGED <<fulltext, db, changes, stale, userVars, full, ticks, asks>>
        /\ tab' = IF tab.post = <<>> THEN [tab EXCEPT !.post = tab.rows] ELSE tab
    BY <1>2 DEF OpenSearch
  <2>4. Types'
    BY <2>3 DEF Inv, Types, userVars
  <2>5. EditorPinned'
    BY <2>3 DEF EditorPinned, userVars
  <2>6. /\ tab' \in TabTypes /\ Kin(tab', tab) /\ tab'.full = tab.full /\ tab'.rows = tab.rows
        /\ tab'.post = (IF tab.post = <<>> THEN tab.rows ELSE tab.post) /\ tab'.cursor = tab.cursor
    BY <1>1, <2>3 DEF TabTypes, Kin
  <2>7. Layered(tab')
    BY <1>1, <2>6 DEF Layered, Kin
  <2>8. Hidden'
    <3>1. tab'.pins = tab.pins
      BY <2>6 DEF Kin
    <3>2. ASSUME tab.pins = {} PROVE Whole(tab') /\ ScreenWhole(tab')
      <4>1. CASE tab.post = <<>>
        BY <2>6, <3>2, <4>1 DEF Inv, Hidden, ScreenWhole, Whole
      <4>2. CASE tab.post # <<>>
        BY <2>6, <3>2, <4>2 DEF Inv, Hidden, SnapshotWhole, ScreenWhole, Whole
      <4> QED BY <4>1, <4>2
    <3> QED BY <2>2, <3>1, <3>2 DEF Hidden, SnapshotWhole, ScreenWhole, Whole
  <2>9. ~stale => tab'.mem = db
    BY <2>6 DEF Inv, Kin
  <2> QED BY <2>3, <2>4, <2>5, <2>7, <2>8, <2>9 DEF Inv
<1>3. CASE CommitSearch
  <2>1. /\ search'.bar = "committed" /\ search.bar = "open"
        /\ UNCHANGED <<fulltext, db, changes, tab, stale, userVars, full, ticks, asks>>
    BY <1>1, <1>3 DEF CommitSearch, Bars
  <2>2. Types'
    BY <2>1 DEF Inv, Types, userVars
  <2>3. EditorPinned'
    BY <2>1 DEF Inv, EditorPinned, userVars
  <2>4. Hidden'
    BY <2>1 DEF Inv, Hidden, SnapshotWhole, ScreenWhole, Whole
  <2> QED BY <2>1, <2>2, <2>3, <2>4 DEF Inv
<1>4. CASE CloseSearch
  <2>1. /\ search' = NoSearch /\ tab' = Show(tab, tab.post) /\ search.bar = "open" /\ editor = NoEditor
        /\ UNCHANGED <<fulltext, db, changes, stale, userVars, full, ticks, asks>>
    BY <1>4 DEF CloseSearch, Inv, Control, Modes
  <2>2. search'.bar = "closed"
    BY <2>1 DEF NoSearch
  <2>3. Types'
    BY <2>1 DEF Inv, Types, userVars
  <2>4. EditorPinned'
    BY <2>1 DEF EditorPinned, userVars
  <2>5. tab.post \in Seq(Ids)
    BY <1>1 DEF TabTypes
  <2>6. /\ tab' \in TabTypes /\ Kin(tab', tab)
        /\ tab'.rows = tab.post /\ tab'.full = tab.full /\ tab'.post = tab.post
        /\ tab'.cursor <= Len(tab.post)
    BY <1>1, <2>1, <2>5, ShowFacts
  <2>7. Layered(tab')
    BY <1>1, <2>6 DEF Layered, Kin
  <2>8. tab'.mem = tab.mem /\ tab'.pins = tab.pins
    BY <2>6 DEF Kin
  <2>9. tab.pins = {} => ToSet(tab.post) = ToSet(tab.full)
    BY <2>1 DEF Inv, Hidden, Whole
  <2>10. Hidden'
    BY <2>2, <2>6, <2>8, <2>9 DEF Hidden, SnapshotWhole, ScreenWhole, Whole
  <2> QED BY <2>1, <2>3, <2>4, <2>7, <2>8, <2>10 DEF Inv
<1>5. CASE \E n \in 1..MaxSeq : Tick(n)
  <2>1. PICK n \in 1..MaxSeq : Tick(n)
    BY <1>5
  <2>2. UNCHANGED <<fulltext, db, changes, tab, stale, userVars>> /\ search'.bar = search.bar
    BY <2>1, TickFacts DEF Inv, Control
  <2>3. Types' /\ EditorPinned'
    BY <2>2 DEF Inv, Types, EditorPinned, userVars
  <2> QED BY <2>2, <2>3, QuietStep
<1> QED BY <1>2, <1>3, <1>4, <1>5

LEMMA Steps ==
  ASSUME SortsAll, Inv, [Next]_vars
  PROVE  Inv'
<1>0. Control'
  BY ControlSteps DEF Inv
<1>1. CASE Next
  <2>1. CASE SortKey \/ PinKey \/ FilterKey \/ ClearPins
    BY <1>0, <2>1, NormalKeys
  <2>2. CASE \/ MoveCursor \/ SwitchMode \/ OpenEditor \/ CancelEditor
            \/ SelectRow \/ ExtendSelection \/ Panic \/ Yank
    BY <1>0, <2>2, ModeKeys
  <2>3. CASE SaveEditor
    BY <1>0, <2>3, SaveStep
  <2>4. CASE DeleteOrCut \/ Paste \/ RenameColumn
    BY <1>0, <2>4, Changes
  <2>5. CASE OpenSearch \/ CommitSearch \/ CloseSearch \/ \E n \in 1..MaxSeq : Tick(n)
    BY <1>0, <2>5, Searching
  <2>6. CASE TypeQuery \/ ToggleMode
    BY <1>0, <2>6, Typing
  <2>7. CASE \E a \in asks : Result(a)
    BY <1>0, <2>7, Answering
  <2> QED BY <1>1, <2>1, <2>2, <2>3, <2>4, <2>5, <2>6, <2>7 DEF Next
<1>2. CASE UNCHANGED vars
  <2>1. UNCHANGED <<fulltext, db, changes, tab, stale, mode, visual, editor, clip, search, full, ticks, asks>>
    BY <1>2 DEF vars
  <2>2. Types' /\ EditorPinned'
    BY <2>1 DEF Inv, Types, EditorPinned
  <2> QED BY <1>0, <2>1, <2>2, QuietStep
<1> QED BY <1>1, <1>2

LEMMA Invariance == ASSUME SortsAll PROVE Spec => []Inv
<1>1. Inv /\ [Next]_vars => Inv'
  BY Steps
<1> QED BY <1>1, Initially, PTL DEF Spec

\* Every reachable state is well typed, as long as the user sorts what is all on the
\* screen: layers hold loaded rows only, and the cursor is on a row of the screen or, like
\* the widget's -1, on none, never past the last one (SetRows, clampCursor).
THEOREM TypeCorrect == ASSUME SortsAll PROVE Spec => []TypeOK
<1>1. Inv => TypeOK
  <2> SUFFICES ASSUME Inv PROVE TypeOK
    OBVIOUS
  <2>1. tab \in TabTypes
    BY DEF Inv, Layered
  <2>2. DOMAIN db \subseteq Ids /\ \A id \in DOMAIN db : db[id] \in Vals
    BY Finite DEF Inv, Types
  <2>3. \A layer \in {tab.full, tab.post, tab.rows} : ToSet(layer) \subseteq DOMAIN tab.mem \union {Blank}
    BY DEF Inv, Layered
  <2>4. tab.cursor \in 0..Len(tab.rows)
    <3>1. tab.rows \in Seq(Ids) /\ tab.cursor \in Nat /\ tab.cursor <= Len(tab.rows)
      BY <2>1 DEF Inv, Layered, TabTypes
    <3> QED BY <3>1
  <2>5. tab.sort \in {"none", "asc", "desc"} /\ tab.pins \subseteq Vals
    BY <2>1 DEF TabTypes
  <2>6. search.bar \in {"closed", "open", "committed"} /\ search.seq \in 0..MaxSeq
    BY DEF Inv, Control, BarTypes, Bars
  <2> QED BY <2>2, <2>3, <2>4, <2>5, <2>6 DEF Inv, Types, Control, BarTypes, TypeOK
<1> QED BY <1>1, Invariance, PTL

\* Whatever is sorted, pinned, searched, edited, deleted, cut and pasted in whatever
\* order, the full layer is the table, each row once and with its value, unless the last
\* reload failed (rebuildTab, ReorderTab, saveCellEditor).
THEOREM ScreenHolds == ASSUME SortsAll PROVE Spec => []ScreenTruth
<1>1. Inv => ScreenTruth
  BY DEF Inv, Layered, ScreenTruth
<1> QED BY <1>1, Invariance, PTL

\* No snapshot of a search or a pin outlives it: with neither, every row is on the screen
\* (openSearch, closeSearch).
THEOREM NothingStaysHidden == ASSUME SortsAll PROVE Spec => []NothingHidden
<1>1. Inv => NothingHidden
  BY DEF Inv, Hidden, NothingHidden
<1> QED BY <1>1, Invariance, PTL
=============================================================================
