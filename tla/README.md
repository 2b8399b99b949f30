# sci in TLA+

TLA+ specifications of the parts of `sci` (a Go command-line toolbox: Zotero, grades,
lab storage, a table viewer, cloud sharing, Brewfile upkeep) whose correctness depends on
the order in which things happen: writers that race, answers that are lost, processes that
die between two statements, goroutines that share a child process. The specifications are
checked with TLC on small instances, and their invariants and action properties are proved with
TLAPS for every instance.

`PROJECT.json` is the index: components, runs, the source lines of every definition,
hazards, findings and theorems.

## 1. The system

`sci` is one binary that starts, does something and exits. Nothing runs in the background
but a detached self-update refresh. What it shares with others is outside the process: the
Zotero web library, Canvas, an ssh server, SQLite files, a cache file, a Brewfile.

| Part | Source | State it keeps | Operations | Talks to |
|---|---|---|---|---|
| Zotero item edits | `internal/zot/api/items.go`, `relations.go`, `retry.go` | none locally; versions and arrays on the server | add/remove collection, tag; update; trash; link, unlink | Zotero web API, over a retrying transport |
| Zotero batch update | `internal/zot/api/items.go` | payloads composed from the local copy | `UpdateItemsBatch` | the same |
| Zotero uploads, creation | `internal/zot/api/files.go`, `notes.go` | an attachment item with or without bytes | create item, register/upload file | the same, and a storage host |
| Collections, searches, tags | `internal/zot/api/collections.go`, ... | server only | create, delete, in chunks | the same |
| Desktop connector | `internal/zot/connector`, `internal/zot/cli/import.go` | sessions in Zotero desktop, a result shared with a goroutine | import a PDF and await its metadata, batches | a local HTTP server, under a progress display |
| Progress displays | `internal/uikit/ui_spinner.go` | a display that owns the keyboard | run work, quit or cancel on ctrl+c | every long command |
| Hygiene, citation keys | `internal/zot/hygiene`, `pkg/citekey` | none | pure functions over the local copy | local reader |
| DuckDB subprocess | `internal/store/duck/subproc.go` | a child, its pipes, sentinel, error buffer | `query`, `drainStderr`, `close` | `duckdb -jsonlines` |
| Stores | `internal/store/duck`, `internal/store/sqlite` | caches, a connection | schema, rows, import, rename | subprocess, SQLite |
| Grades | `internal/cass` | tables `grades`, `_grades_synced`, ... | pull, match, push, revert | Canvas, GitHub |
| Lab transfers | `internal/tui/labtui/app`, `internal/lab/transferlog.go` | screens, queue, a manifest on disk, partial files | select, download, abort, retry, skip, resume | rsync over ssh |
| Table viewer | `internal/tui/dbtui` | layers of rows, sort, pins, search, selection, editor | sort, pin, search, edit, delete, paste, reload | stores |
| Brewfile | `internal/brew` | a Brewfile, what is installed | sync, install, remove | brew |
| Self-update | `internal/selfupdate` | a cache file | refresh (detached), notice | GitHub |
| Sharing | `internal/share`, `internal/cloud` | objects in a bucket | check, upload, list | object store |
| Interrupts | `internal/cmdutil/interrupt.go` | a registered handler | cancel, then kill | nothing calls it |

The full list, with what is modelled of each and why the others are not, is in
`PROJECT.json` under `components`.

### What is hard, and what would make it correct

* **Zotero edits.** A PATCH replaces a whole array, so an edit is a read, a computation and
  a write guarded by a version. Two retry mechanisms are stacked on it (transport, 412), and a
  write can be committed while its answer is lost. Correct means: an edit never erases what
  it did not read, a success was in force, a conflict had a cause, every call returns.
* **Batches.** Outcomes come back as indices into the slice that was sent; the slice is a
  chunk, and in the second round a selection. Correct means: the right key gets the right
  outcome, every key gets one, an append erases nothing.
* **DuckDB subprocess.** Two streams without a common order, one lock, a close that runs
  without the lock. Correct means: rows and errors belong to the query that returns them;
  everybody is freed at the end.
* **Grades.** Two tables that only the code keeps consistent with what Canvas was told, a
  job that runs when Canvas likes, and an instructor who edits. Correct means: what is not
  pending was pushed; what was pushed is not thrown away.
* **Pulling and matching grades.** Five phases, each a few transactions, from two services that
  change between them, into tables whose unique columns another pull or a match also writes.
  Correct means: a pull that ends well is the course; one that fails had a cause; a
  student keeps the GitHub name found; nothing is reported matched that is not.
* **Table viewer.** Rows live in three layers that every operation moves together, search
  answers arrive after the query has changed, and a selection is a set of row numbers. Correct
  means: no row is lost or shown with another's value, hits belong to the text in the bar,
  what is deleted is what was marked.
* **Desktop imports.** A goroutine imports, a display owns the keyboard, and the command goes
  on when the display ends, whatever the work is at. Correct means: the report is true of what
  desktop has, nothing sent is left out of it, and every command ends.
* **Lab transfers.** An event loop whose commands answer late, goroutines that write the
  manifest on their own, and a process that may be killed. Correct means: partial files are
  offered again unless given up; the summary is true; the screen is left.
* **Not modelled yet**: creation repeated after a lost answer, four-phase uploads, one
  cache file written by two processes, Brewfile decisions from a stale snapshot,
  deletion in chunks.

## 2. Modules

| Module | Models | MC module |
|---|---|---|
| `ItemEdits` | the promise of a single-item edit: atomic, acknowledged after the effect | — |
| `ZoteroItem` | items.go, relations.go, retry.go against a versioned server | `MCZoteroItem` |
| `ZoteroItemProofs` | theorems about `ZoteroItem`, and that it implements `ItemEdits` | — |
| `ZoteroBatch` | `UpdateItemsBatch` over the same server | `MCZoteroBatch` |
| `ZoteroBatchProofs` | theorems about `ZoteroBatch` | — |
| `DuckSubproc` | subproc.go and its child | `MCDuckSubproc` |
| `DuckSubprocProofs` | theorems about `DuckSubproc` | — |
| `GradePush` | push, SyncGrades, revert, Canvas's jobs | `MCGradePush` |
| `GradePushProofs` | theorems about `GradePush` | — |
| `GradePull` | pull, match, and a course that changes | `MCGradePull` |
| `GradePullProofs` | theorems about `GradePull` | — |
| `TableRows` | one tab: layers of rows, search, editor, selection | `MCTableRows` |
| `TableRowsProofs` | theorems about `TableRows` | — |
| `DesktopImport` | zot import, its batch goroutine, the display, desktop | `MCDesktopImport` |
| `DesktopImportProofs` | theorems about `DesktopImport` | — |
| `LabTransfer` | the transfer screens, their commands, rsync, the manifest | `MCLabTransfer` |
| `LabTransferProofs` | theorems about `LabTransfer` | — |

### ZoteroItem

The server is `exists`, `version`, `data`, `libver`: a version per item, a library version
that grows with every write. Each caller is one invocation of the client with an operation
`op[c]` chosen at first. `pc[c]` is the HTTP exchange it is in: `read` (the GET whose answer
the array is built from), `version` (a GET that only supplies the version), `write` (PATCH
or DELETE), or its verdict. An exchange is one step, because a caller's answer touches
only that caller's variables: nothing can see the moment between the server's action and
the answer, except through the answer's loss, which is an action.

| Action | Code |
|---|---|
| `Start` | the public methods; `LinkItems` refuses equal keys |
| `AnswerRead` | `patchItemDerived`, `addRelation`, `removeRelation`: already done, or compose the array |
| `AnswerVersion` | `UpdateItem`'s and `getVersion`'s fetch |
| `AnswerWrite` | 204, 412 or 404; `SideDone` goes on to the reverse side of a link |
| `Conflict` | re-derive (`patchItemDerived`) or re-read the version only (`withVersionRetry`) |
| `RequestFails` | nothing was written: `SendAgain` is retryDoer, `GiveUp` another status |
| `ResponseLost` | the write was committed, the answer was not received |
| `ElsewhereWrite` | another program |

`made` and `rival` are history variables; no action reads them. The history `made` is also
the refinement mapping's witness: `ItemEdits` is instantiated with `asked` (the edits an
operation stands for) and `verdict` (what the caller knows).

### ZoteroBatch

One call of `UpdateItemsBatch`, one array per item. `todo` holds the slots to build or
refresh, `group` the built entries, `refused` the slots answered 412, `results` the map
returned. GETs change nothing, so each GET with its retries is one step with three
outcomes; POSTs go through the attempts one by one because they can be committed and lost.
A POST that changes nothing leaves the version, as the server does. `local` is the copy of
the library the payloads are composed from.

### DuckSubproc

The three pipes are sequences of lines; a line carries the number of the query that caused
it. `query()` is `Enter` (the closed check, before the lock), `Lock` (arms the sentinel),
`WriteStdin`, `ReadLine`/`ReadFails`, `Sample`. `drainStderr` handles one line per step, by
the state it finds: counting off the framing statement's own error lines, recognising the
marker, appending to the buffer, or dying of an oversized line. `close()` is four steps and
takes no lock. The child (external) executes in order and may get stuck. Not modelled: the
write of `.exit` (subproc.go:340) may itself block on a full pipe, before close() has set its timer.

### GradePush

A cell is a (student, assignment) pair. `grades` and `synced` are the two tables;
`changes` is the diff a push works from. SyncGrades and revert are two SQL statements each
and are two actions each, because the process may end in between (`Crash`). Canvas
(external) runs a job when it likes: also one the push abandoned (`late`). `acked` is history: what
the push saw completed.

### GradePull

`course` is what Canvas and GitHub Classroom answer; the actions that change it
(`NameAssignment`, `DeleteAssignment`, `Enrol`, `AddToClassroom`, `Accept`) are external. Of
the tables the model keeps the columns that decide where a later row goes: `students` maps a
student to a GitHub name, `rows` maps a slug to `[id, gh]`, `fromCanvas` and `fromGitHub` are
the submissions. A pull is at `pull.pc`; each transaction is an action (`PullStudents`,
`PullAssignments`, `PullSubmissions`, one `MergeAssignment` per GitHub assignment,
`PullGHSubmissions`), so that a crash, ctrl-c or a match may come between two. `Collides` is
SQLite's `UNIQUE(canvas_id)`, which makes an upsert by slug fail. A match reads its names
(`StartMatch`), gives the exact ones (`Give`), asks about the others (`Choose`, `Leave`) and
sets `match_pending` (`FinishMatch`). How two names compare is given by the constants `Exact`
and `Similar`. GitHub's own names are usually `owner/repo`, so an exact match is rare in
practice; the code allows it and the model does. `quiet` (the course kept
still since the pull began) and `strayed` (an assignment was deleted or renamed while a row had
its id) are history.

### TableRows

A row is its rowid and a layer a sequence of rowids (`tab.full`, what pins leave, `tab.rows` on
the screen); the cells are shared between layers in the code and are one map here. Every key
is an action; so are a debounce timer (`Tick`), a full-text answer (`Result`), the wheel, which
moves the cursor under an open editor (`MoveCursor`), and a rebuild of the tab after a
change. `Reorder` writes blanks where an index has no row, as ReorderTab does. `Sorted`
places an element of a finite set after the elements that go before it, which is what a stable
sort by a total order returns: `Order` sorts the indices on the screen, `Loaded` the rowids, and
`Kept` the indices a filter leaves. Two constants
restrict the user: `SortFiltered` and `Reopens` (section 4 says why).
The cursor is the widget's (bubbles, external), counted from 1, and 0 is the -1 it has when it
was last given no rows: `Clamp` is its `SetRows`, which lowers a cursor past the end and never
raises one, so that 0 stays 0 when rows return; `OnRow` is `SetCursor` after `clampCursor`, which
a reload, a search being typed and the movement keys do. `Panic` is what `y`, `d` and `x` do with
a selection that holds 0; the program has ended then.
Left out: more than one tab (a tab's load message carries its index only), several columns
(after `dropColumn` pins and sorts keep column numbers), the preview of a note. The properties
say which rows are shown, not in which order: sorting does not reorder the layer a search
restores.

### DesktopImport

`pc` is where the work is: `open`, `ping`, `upload`, `answer`, `await` for a single file, and
`ping`, then `next`, `open`, `upload`, `answer`, `record` around the batch loop. `Settle` is
what a file's outcome means: the command's own for a single file, an item for a batch. The
work of a batch runs in a goroutine; `AssignBatch` and `SendDone` are its last two steps,
because the command may read `batch` between them, or before both. `CtrlC` and
`DisplayBreaks` are the display's, `Exit` is the command's (with what it waited for: `Ended`,
`Abandon`, `WorkDone`), after which the goroutine takes no step and desktop (external) still
does: `Import` and `Recognize` go on with any upload that reached it. `lost` is history.
A run begins single or batch, with or without a terminal, and under either runner:
`RunWithProgress`, which `zot import` uses, or `RunWithProgressCtx`, whose context
`ImportBatch` is written for and which no command uses yet. CollectPaths only reads and is the
choice of a run; counters and titles of the display are left out.

### LabTransfer

Update handles one message at a time, so a message is an action. What the UI's commands do on
goroutines (`startTransferCmd`: size probe, the started record, launching rsync) are
separate actions between which keys may be handled. The manifest is append-only and read
latest-wins: the model keeps the latest record per remote. `Exit` may happen anywhere and
leaves only `log` and `local`. Left out: walking remote directories, what the total on the
confirm screen says, two remotes with one base name, sessions started in another directory.

## 3. Runs

| Run | Question | Bounds |
|---|---|---|
| `item_derived` | Does an add, remove or trash behave as one atomic edit next to another invocation and two foreign writes? | 1 item, 2 callers, `MaxRetry` 1, 2 foreign writes, any initial array |
| `item_links` | Do concurrent calls complete a link? Do all calls return? | 2 items, 2 fields, 2 callers, `MaxRetry` 1 |
| `link_lost_update` | **violated**: can linking erase another program's relation? | 2 items, 1 caller, 1 foreign write |
| `batch_update` | Are outcomes given to the right keys, and does an append erase nothing? | 3 patches in chunks of 2, 2 foreign writes, `MaxRetry` 1 |
| `duck_subproc` | Do answers belong to their queries, and does everything end? | 2 goroutines, 3 queries, all kinds of statement |
| `push_tables` | Is the baseline what Canvas accepted? Does revert clear? Do commands end? | 2 cells in 2 assignments, 3 edits, 1 edit in Canvas |
| `push_edit_race` | **violated**: the baseline, with edits during a push | 2 edits |
| `lab_manifest` | Are partial files offered, is the summary true, is the screen left? | 2 remotes, unbounded sessions |
| `table_rows` | Does the screen show the table, whatever is sorted, pinned, searched, edited, deleted, pasted? Do hits and selections mean what they did? Does the spinner stop? | 2 rows, 2 values, 2 texts, 2 changes, 2 full-text queries, 1 row on the clipboard |
| `grade_pull` | Is the database the course after a good pull? Does a pull fail of itself only after an assignment was deleted or renamed? Are names kept, and is a cleared `match_pending` true? | 2 students, 2 assignments, 2 slugs, 2 repositories, 3 pulls, 2 matches, 3 changes of the course |
| `desktop_import` | Is the report true of desktop, and complete? Does every command end? | 3 files, both runners |
| `import_interrupt` | **violated**: does a command that reports no batch have imported nothing? | 2 files, zot import's runner |

Further instances show one disagreement each and are kept beside the runs; TLC finds each
violated within seconds:

| Configuration | Module | Violated |
|---|---|---|
| `batch_unloaded_append.cfg` | `MCZoteroBatch` | an append whose item was not loaded erases another program's elements |
| `duck_stalled_drain.cfg` | `MCDuckSubproc` | the framing's trailer reaches the next query's buffer |
| `push_partial_revert.cfg` | `MCGradePush` | revert discards what Canvas accepted |
| `lab_abort_race.cfg` | `MCLabTransfer` | an aborted item is offered again |
| `table_filtered_sort.cfg` | `MCTableRows` | sorting while a pin hides a row loses the hidden row |
| `table_stale_answer.cfg` | `MCTableRows` | the answer of a search that was closed filters the next one |
| `pull_match_again.cfg` | `MCGradePull` | a second match counts repositories that have an owner as unmatched |
| `pull_shared_slug.cfg` | `MCGradePull` | `SharedSlugLinked`: the GitHub pull takes the `canvas_id` from a row with the same slug |
| `table_empty_cursor.cfg` | `MCTableRows` | `NeverPanics`: with the cursor of an emptied table, `y`, `d` and `x` index row -1 |
| `import_all_failed.cfg` | `MCDesktopImport` | a batch of which every file failed exits with success |
| `import_display_only.cfg` | `MCDesktopImport` | after ctrl+c the work does not run to completion |

Why the bounds are enough:

* `Client.maxRetry` is 3; the models use 1 (0 in the run that needs none). What matters is
  that an exchange can be repeated and that it can run out: one repetition shows both, and
  the proofs cover every value.
* `MaxElsewhere` 2: one foreign write causes the first 412, one more the second, which is the
  last the code recovers from.
* Chunks of 2 for 3 patches: a full chunk and a short one, so that an index in the second
  chunk differs from the slot it stands for; the second round mixes slots of both.
* Two goroutines and three queries: the drain can be one whole query behind while a third
  waits for the lock. The trailer has 4 lines in the program and 2 in the model: more
  than one, so that it can be cut in the middle.
* Two cells in two assignments: one may fail after the other was accepted.
* `TableRows`: two rows are enough to sort, to hide one and to select across the cursor; two
  queries in flight are enough for a late answer. Three rows are used where one is hidden and
  two are left to sort.
* `GradePull`: three pulls, because an id is freed by one, reused by the next and missed by the
  third; three changes of the course, one for each; two matches, because only the second meets
  repositories matched before. Two slugs and two ids give every pattern of sharing.
* `DesktopImport`: three files are a first, a middle and a last one; ctrl+c twice is all the
  display takes.
* `LabTransfer` has no counter to bound: sessions, retries and aborts repeat for ever in a
  finite state space.

Deadlock is checked in `lab_*`. The others stop by design: callers finish, edits and pulls run
out, a closed child answers nothing, a command exits, the viewer panics (finding 13), so
`CHECK_DEADLOCK` is off there.

### Fairness

* `ZoteroItem`, `ZoteroBatch`: weak fairness of a call's own steps. `http.Client.Timeout`
  bounds each attempt and retryDoer's sleeps are finite, so an exchange in flight ends some way.
  Nothing is assumed of other writers or of the network's kindness.
* `DuckSubproc`: weak fairness of each goroutine, of the child unless it is stuck, and of
  `close()` once called (its timer fires); strong fairness of taking the lock, which
  `sync.Mutex`'s starvation mode provides. Nobody has to call `close()`.
* `GradePush`: weak fairness of the command only. Canvas may never run a job: the two-minute
  timeout is a step of the command.
* `TableRows`: a debounce timer fires, and a query that was sent ends. No key is pressed.
* `DesktopImport`: weak fairness of the work and of the command. `http.DefaultClient` has no
  timeout, so that a call ends is assumed of the local connection: it is answered or breaks.
  Nobody has to press ctrl+c, and desktop need not import anything.
* `LabTransfer`: weak fairness of the transfer's goroutine and its messages. That rsync ends
  is assumed: the ssh connection either moves or breaks. No key has to be pressed.

## 4. Findings

Three are runs that TLC finds violated, with the line each contradicts in `PROJECT.json`:

1. `addRelation` composes the relations from its own GET; `patchRelations` (relations.go:213)
   gives them to `UpdateItem`, which begins with another GET (items.go:174) and stamps that
   version on them. What another program added between the two GETs is erased, and no conflict
   is seen (`link_lost_update`; its trace has no 412). A 412 would not help, since
   `withVersionRetry` re-reads the version only. `patchItemDerived` was written to avoid this
   for the other arrays.
2. SyncGrades copies the grades current when it runs, not those that were sent: an edit
   during a push becomes baseline without being pushed (`push_edit_race`).
3. ctrl+c during a batch import quits the display while the goroutine goes on. The command
   reads the `batch` the goroutine has not assigned yet, takes it for a failure "before any
   per-file work" (cli/import.go:149) and reports no file, though some were imported; the work
   does not "keep running to completion" either (ui_spinner.go:389), because the process
   exits (`import_interrupt`, `import_display_only.cfg`).

The others are shown by the configurations listed above:

4. The slow path of `UpdateItemsBatch` (items.go:427) stamps a version fetched *after* the
   payload was composed, so that the version guard, which the doc of `Rebuild` relies on, passes.
5. After `stderrDrainTimeout` the framing's marker and trailer are appended to the buffer
   of the next query, which then reports an error it did not have.
6. A push that fails at its second assignment leaves the first one's grades pending;
   `sci cass revert`, which discards *unpushed* edits, discards them too.
7. ctrl-c while the transfer's size probe is running writes `done` before the goroutine
   writes `started`: the aborted item is offered again.
8. ApplySorts (tabstate/sort.go:154) computes its indices over the rows on the screen and
   reorders all three layers by them; a row hidden by a pin or a search is lost from the layer
   that types.go:13 calls "never filtered".
9. A search that is reopened counts its queries from 0 again, so the late answer of the search
   before passes the staleness test (search.go:70).
10. `RunMatch` reads every repository's name, also of students already matched, where
    match.go:228 says "not yet matched": a second match leaves `match_pending` set, and the gate
    of the push closed, though every repository has its student.
11. The GitHub pull "merges into the assignments table" (pull.go:270) by `gh_slug` only; the
    upsert of a row with the same slug clears its `canvas_id`. `SharedSlugLinked` states what is
    promised ("or by slug match", pull.go:292; "(linked)", pull.go:301), that an assignment
    known to both services has the ids of both after a pull; the first pull violates it.
12. "Surface a non-zero exit when the whole batch failed" (cli/import.go:174): per-file failures
    are no error of ImportBatch, so a batch of which every file failed exits with success.
13. A table whose last row is deleted, or whose rows a search or pins hide, leaves the widget's
    cursor at -1, and none of `ApplyRowFilter`, `closeSearch` and the filter keys sets it when
    rows return. In visual mode with nothing marked, the selection is then the index -1, which
    `visualYank` (visual.go:164) and `visualDelete` (visual.go:232) only compare with the length
    before they index with it: the program panics. `selectedCell` (cursor.go:113) does guard
    against it. `NeverPanics` is violated in `table_empty_cursor.cfg`.

Disagreements that are plain from the lines and have no instance: `drainStderr` never restarts
after an oversized line (subproc.go:180), and failing statements then return no error; the push
never looks for conflicts in Canvas (cmd/sci/cass.go:510) though README.md:302 says so; a size
probe's answer does not say which selection it measured (update.go:43); `looksUnfinished`
does not count a missing file (transferlog.go:127) though `PendingTransfers`' doc does; the
first pull never sets `match_pending`, so the gate of the push ("Must not have unresolved
matches", push.go:19) is open before the first match; a pull without a GitHub token ends well
after deleting GitHub's submissions; an assignment deleted or renamed in Canvas makes every
later pull fail (`FailureHasCause` says that nothing else makes one fail of itself).

## 5. Proofs

All theorems hold for every value of the constants that satisfies the module's `Assumption`:
the types of the constants, that sets the program can only have finitely many members of are
finite (goroutines, remotes, Canvas ids), and what the model's inputs are (a batch names each
item once, exact names are similar ones). Bounds such as `MaxRetry` are any natural number.
Where a claim is false without a restriction, the restriction is a named hypothesis of the
theorem:

| Hypothesis | Theorems | Without it |
|---|---|---|
| `NoRelations`: no operation of relations.go | `OthersKept`, `Refinement` | finding 1 |
| `AppendsLoaded`: appends carry the version they were composed at | `AppendsKeep` | finding 4 |
| `NoEditDuring`: nobody edits while a command runs | `BaselineHolds`, `RevertComplete` | finding 2; an edit between revert's two statements |
| `Prompt`: the drain meets `stderrDrainTimeout` | `BufferHolds`, `AnswersHold` | finding 5 |
| `SortsAll`: sorting only when every row is on the screen | `TypeCorrect`, `ScreenHolds`, `NothingStaysHidden` of `TableRows` | finding 8 |
| `Patient`: a search opens when no answer is due | `HitsHold` | finding 9 |

**ZoteroItemProofs.**
* `TypeCorrect`: `Spec => []TypeOK`.
* `PayloadsFresh`: `Spec => []FreshPayload`. `FreshPayload` speaks of a caller whose version
  is still the server's. That is inductive only with `VersionsBelow` (no item's version and no
  caller's `seen` is above the library's, so a new write's version is nobody's), `VersionOnly`
  (a derived edit never is in the exchange that fetches a version alone) and the same
  statement for one caller at a time, `FreshPayload` itself. The invariant is their
  conjunction with `TypeOK`; the proof goes through the actions one by one.
* `OthersKept`: `NoRelations /\ Spec => KeepsOtherElements`. With `NoRelations` no operation of
  relations.go is among `Ops`; without it the property is violated (finding 1). A PATCH that is
  accepted carries a fresh payload, so it removes at most the element asked for.
* `Refinement`: `NoRelations /\ Spec => ImplementsItemEdits`. Beside `PayloadsFresh` it needs
  that `made` holds only edits asked for (`MadeAsked`) and that a trash never is in the exchange
  that reads an array (`ReadOnly`). An accepted PATCH maps to `MakeEdit`, also when its answer is
  lost; every other step maps to `Begin`, `Fail` or a stutter.
* `ConflictsHaveRivals`: `Spec => []ConflictHasRival`. `Undisturbed` follows one derived edit
  while nobody else writes its item: it meets at most one 412, that of its own committed write
  sent again, and in the second round finds nothing left to do. It rests on `PayloadsFresh`.
* `LinksBothWays`: `Spec => []LinkedBothWays`, for any number of calls for any pairs. A
  written side stays written because everyone who may write that array again adds the same
  element to it (`Undivided`, `AddPayload`); `LinkedOne` says so for a call on its second side.

**ZoteroBatchProofs.** The server's answer names entries by their index in the chunk sent.
* `TypeCorrect`: `Spec => []TypeOK`.
* `NilMadeHolds` and `EveryKeyReportedHolds`: `Spec => []NilMeansMade`, `Spec =>
  []EveryKeyReported`, from `ReportInv`: until the call returns, every slot is still to be
  built, is in the group, was refused, or has its outcome (`Tracked`). The lemmas `SlotsAtFacts`
  and `SlotAt` say that `SlotsAt`, a recursive function, returns the slots at the given positions
  in order, for every list. The induction is over a set of naturals whose least missing member
  is picked (`InductionOnSet`), so that it needs no theorem with an operator for parameter.
* `AppendsKeep`: `Spec => AppendKeeps` under `AppendsLoaded`. A version number stands for one
  state of an item on the server and in the local copy (`VersionsOwn`), so an entry that is
  still acceptable holds all the item holds (`EntriesFresh`).

**GradePushProofs.** `NoEditDuring` is the discipline under which the tables are kept right
(finding 2 is what happens without it).
* `TypeCorrect`: `Spec => []TypeOK`.
* `BaselineHolds`: `NoEditDuring /\ Spec => []BaselinePushed`. SyncGrades copies the *table*,
  so one needs that the table is still the diff (`DiffCurrent`: a grade in the table is in
  the diff or was already acknowledged when the push began) and that every grade of the diff
  is to be posted, being polled, or acknowledged (`DiffProgress`).
* `RevertComplete`: `NoEditDuring /\ Spec => RevertClears`, from `RevertHalfway`: between
  revert's two statements only cells with a baseline have rows.

**GradePullProofs.** A pull and a match each disturb an invariant of their own: `PullInv`, and
over it `MatchInv`; `PhaseInv` stands apart.
* `TypeCorrect`: `Spec => []TypeOK`.
* `FailuresExplained`: `Spec => []FailureHasCause`. That a slug has a row of another id, or a row
  an id Canvas does not know, must be the work of a deletion or a renaming. `PullInv` says what
  the pulls keep up until then (`RowsNamed`): a row with an id is the row of that assignment's
  slug. An upsert keeps it because the last entry of a slug names the row (`UpsertedRows`), the
  merge because it drops the id it overwrites, and a new assignment because its id is in no row.
* `ClearedIsMatched` (`[]ClearedMeansMatched`), from `MatchInv`. A match writes names it planned
  from a table other commands write, so the invariant says that the students still on offer
  have no name and are students of the table (`OffersFree`), and that every name it
  found is still to be given, to be asked about, was left, or has an owner (`NamesCounted`).
* `NamesStay`: `Spec => NamesKept`, from the same invariants: a name is only given to a
  student who has none.
* `CompletePull`: `Spec => []PullComplete`. The invariant `PhaseInv` has one part for what each
  phase leaves behind, which holds from the end of that phase on while the course keeps
  still: the students (`StudentsIn`), the Canvas assignments and their slugs (`AssignmentsIn`,
  `LinksNamed`), their submissions and no others (`SubmissionsIn`, `LinksKnown`), the
  GitHub assignments merged so far (`Merged`) and their repositories (`RepositoriesIn`). What a
  phase leaves is not disturbed by the later ones, nor by a match between two of them.

**DesktopImportProofs.** `Inv` says at every place of the work which files are reported.
* `TypeCorrect`: `Spec => []TypeOK`.
* `ReportHolds`: `Spec => []ReportTrue`, for any number of files and both runners. Needed are
  that the items are the files before the current one (`InStep`), that nothing was sent ahead
  of it (`SentInOrder`), that a failure reported is of an upload that never left, was refused,
  or lost its answer (`OutcomesTrue`: `ItemsTrue` alone is not inductive, since desktop may save
  an upload after its failure was reported), and that a result without an error is a
  whole batch (`ResultTrue`).

**DuckSubprocProofs.** The lock lets one query at a time into the pipes, so a pipe holds at most
what the query before left and what the running one has put there.
* `TypeCorrect`: `Spec => []TypeOK`, together with `Locking` (one holder; enough query numbers
  for those who wait, which counts the callers and needs them finite).
* `BufferHolds` and `AnswersHold`: `Spec => []BufferOwn`, `Spec => []AnswersOwn` under `Prompt`.
  `PipeInv` describes the three pipes while the child lives, and after its death until the
  running query returns: what is left of the payload (`Inputs`), the rows read and to be read
  (`Outputs`), the trailer still owed, then the query's complaints, then its marker with a whole
  trailer (`Errors`), whose sentinel is armed (`Sentinels`), and that the complaint of a
  failing statement is in the buffer or on its way (`Heard`). An answer is fixed when it is
  sampled; `Answered` carries what it was from then on.

**LabTransferProofs.** `LabInv` is where the run stands (`Place`), which goroutine works and for
which remote (`AtWork`), what the manifest holds of it (`Manifest`) and what was counted
(`Counted`).
* `TypeCorrect`, `PartialsOffered`: `Spec => []TypeOK`, `Spec => []PartialOffered`. A goroutine that may
  write a local file has an unfinished record in the manifest, or its item was given up.
* `SummaryHolds`: `Spec => []SummaryTrue`. The count is the number of items behind the index that are
  recorded done, which needs that the queue names each remote once.

**TableRowsProofs.**
* `SelectionHolds`: `Spec => SelectionPinned`, whatever the user does. `Control` says which modes
  exclude each other (no selection while the search bar is open, none outside visual mode), so
  that no step that moves rows has a selection to keep.
* `HitsHold`: `Spec => []HitsOwn` under `Patient`. Timers and queries under way carry numbers up to
  the bar's counter, and a query with the last number is the bar's own; unless a timer or a
  query with that number is still due, the hits are of the bar's query (`HitsInv`).
* `TypeCorrect`, `ScreenHolds`, `NothingStaysHidden`: `Spec => []TypeOK`, `[]ScreenTruth`, `[]NothingHidden`
  under `SortsAll`. The cursor is on a row of the screen or on none, and never past the last.
  `Layered`: the full layer has each row of the cells once and the other layers
  hold rows of it only. `Hidden`: a layer is short of rows only if a pin or a search
  explains it. The lemmas are about sorting: in a finite set with a total order every element
  has a place and every place an element (`Ranks`, `RanksCover`, `Places`), the order with NULLs
  last is total (`BeforeOrders`), and so sorting permutes each layer (`SortFacts`).

Only model-checked are the liveness properties, which need fairness and ENABLED and are out of
this prover's reach: `Returns` of `ZoteroItem` and of `ZoteroBatch`, `QueriesReturn` and
`CloseFrees` of `DuckSubproc`, `CommandEnds` of `GradePush` and of `DesktopImport`, `TransferLeaves`
of `LabTransfer`, `SpinnerStops` of `TableRows`. Every invariant and action property of the passing
runs is stated by a theorem.

## 6. Plan

Next modules, in this order:

1. `ZoteroUpload`: CreateItem (a POST repeated after a lost answer), the four-phase upload,
   the register retry after a 412. Hazards: a second item, an attachment without bytes.
2. `NoticeCache` (one cache file, a detached refresh and foreground commands) and `BrewSync`
   (decisions from a snapshot that has aged), which are small and share the shape
   read-change-write; one abstract specification of an atomic update for both, shown
   implemented where the code is right.
3. `DuckStore`: the store's caches over `DuckSubproc`; `SqliteStore`: import and rename as
   transactions.
4. Several tabs of the table viewer and their load messages.
5. Pure operators: duplicate clustering, citation keys, Brewfile merging, checked against
   reference definitions over bounded inputs in one run.

Theorems: `Refinement` of `ZoteroItem` without `NoRelations`, for the callers of whom no partner
edits a relation; the type invariant and the main invariant of each new module.

## 7. Not modelled, and why

Generated code (`internal/zot/client`), rendering and layout (`internal/uikit`), argument
handling (`cmd/sci`, `internal/zot/cli`), interactive wizards (`internal/doctor`,
`internal/lab/setup.go`) and file generation (`internal/proj`, `internal/py`,
`internal/vid`) are sequential and keep no state whose order matters. SQL semantics are
abstracted to the tables' contents. In `ZoteroItem` a DELETE whose answer is lost is
answered 404 when sent again and reported as an error: `ItemEdits` allows a failure after
the effect, so this is not counted as wrong.
