----------------------------- MODULE ResultGrid -----------------------------
(***************************************************************************)
(* The editable result grid: pending cell edits and their batch of         *)
(* UPDATEs, the selection and its batch of DELETEs, single and bulk        *)
(* inserts, under the SQL page that swaps the grid's result whenever the   *)
(* focus moves to another tab and unmounts the grid while a query runs.    *)
(*                                                                         *)
(* Dialogs are modal to the mouse, but the page's shortcuts listen on the  *)
(* document: the focus can move while a batch is being applied. A batch is *)
(* a loop over what it captured; the ref to the grid is read at each step, *)
(* and the grid reports what it is made to show as if it had been typed.   *)
(* An answer can be lost of a statement that has landed.                   *)
(*                                                                         *)
(* A row of a table is a pair of the table and its key; rows have the same *)
(* places in every result, which is what the grid's row ids are. Left out: *)
(* sorting, copies to the clipboard, cell renderers, the layout that is    *)
(* saved per table.                                                        *)
(***************************************************************************)
EXTENDS Naturals, FiniteSets

CONSTANTS
  Tables, \* every tab starts with the rows of a table of its own
  Rows,
  Cols,   \* the editable columns
  Cells,  \* values of them
  Gone,   \* no such row
  Lines,  \* what a paste into the bulk insert dialog holds
  None,
  MaxJobs, MaxShown, MaxGestures

Tabs == Tables
Jobs == 1..MaxJobs
Objects == Tables \X Rows
Spots == Rows \X Cols
Contents == [Rows -> [Cols -> Cells] \cup {Gone}]
Edits == [at : Spots, of : Objects, from : Cells, to : Cells]

ASSUME ResultGridAssumption ==
  /\ {MaxJobs, MaxGestures} \subseteq Nat /\ MaxShown \in Nat \ {0}
  /\ Gone \notin [Cols -> Cells]
  /\ None \notin Cells \cup {Gone} \cup Tables
  /\ None \notin Edits
  /\ None \notin {"update", "delete", "insert", "bulk"}

VARIABLES
  db,
  tabs,     \* runByTab: what each tab ran, whether it has answered, with what
  front,    \* the tab in focus
  shown,    \* how many results the page has shown
  mount,    \* the first of them that this instance of the grid was given
  data,     \* the grid's row objects, which edits write to
  pending,  \* pendingEditsRef, by row and column
  apply,    \* applyState
  dialog,   \* the open dialog other than the preview of pending edits
  busy,     \* that dialog's `applying`
  hidden,   \* rows the search box filters out
  nodes,    \* the rows the grid has selected
  selected, \* selectedRows: the row objects of the last report of the grid
  job,      \* every batch, by number
  lastJob,
  paste,    \* what is in the bulk insert dialog
  typed,    \* history: the cells the user typed, with the row they belong to
  strays,   \* history: those that an answer made pending
  stained,  \* history: rows here that an answer to edits made elsewhere came to
  updates,  \* history: the UPDATEs sent
  written,  \* history: by cell of this result, the last UPDATE that was answered
  picked,   \* history: the rows the user selected
  deletes,  \* history: the DELETEs sent
  removed,  \* history: the rows answered as deleted since the result was shown
  again,    \* history: the DELETEs sent for such a row
  landed,   \* history: the lines of this paste that were answered as in
  unheard,  \* history: those that are in by an INSERT whose answer was lost
  doubled,  \* history: those that are in twice
  gestures

gridVars == <<data, pending, apply, dialog, busy, hidden, nodes, selected, paste>>
editHistory == <<typed, strays, stained, updates, written>>
pasteHistory == <<landed, unheard, doubled>>
pickHistory == <<picked, deletes, removed, again, pasteHistory>>
vars == <<db, tabs, front, shown, mount, gridVars, job, lastJob, editHistory, pickHistory,
          gestures>>

\* loose are the rows whose edits changed under a batch that had some of them to do.
Batches(kind, things) ==
  [kind : {kind}, table : Tables, shown : 1..MaxShown, todo : SUBSET things,
   done : SUBSET things, bad : SUBSET things, loose : SUBSET Rows]
NoJob == [kind |-> None, table |-> None, shown |-> 0,
          todo |-> {}, done |-> {}, bad |-> {}, loose |-> {}]

TypeOK ==
  /\ db \in [Tables -> Contents]
  /\ tabs \in [Tabs -> [table : Tables, st : {"running", "ok", "error"}, snap : Contents]]
  /\ front \in Tabs
  /\ shown \in 1..MaxShown
  /\ mount \in 1..shown
  /\ data \in Contents
  /\ pending \in [Spots -> Edits \cup {None}]
  /\ apply \in {"idle", "previewing", "applying", "errors"}
  /\ dialog \in {None, "delete", "insert", "bulk"}
  /\ busy \in BOOLEAN
  /\ {hidden, nodes, stained} \subseteq SUBSET Rows
  /\ {selected, picked, deletes, removed, again} \subseteq SUBSET Objects
  /\ lastJob \in 0..MaxJobs
  /\ job \in [Jobs -> {NoJob} \cup Batches("update", Edits) \cup Batches("delete", Objects)
                              \cup Batches("insert", {}) \cup Batches("bulk", Lines)]
  /\ \A j \in Jobs : job[j].shown <= shown /\ (j > lastJob => job[j] = NoJob)
  /\ {paste, landed, unheard, doubled} \subseteq SUBSET Lines
  /\ {typed, strays, updates} \subseteq SUBSET (Objects \X Cols \X Cells)
  /\ written \in [Spots -> Cells \cup {None}]
  /\ gestures \in 0..MaxGestures

Mounted == tabs[front].st = "ok"
Table == tabs[front].table
Modal == apply \in {"previewing", "applying"} \/ dialog # None
\* The buttons of the card and of the dialogs are not counted.
Gesture == gestures < MaxGestures /\ gestures' = gestures + 1

Present(contents) == {i \in Rows : contents[i] # Gone}
NoEdits == [s \in Spots |-> None]

\* detectEditableQuery and editableReady: every tab holds a plain SELECT * of a
\* known table with its key, once it has answered.
Editable == Mounted

Init ==
  /\ db \in [Tables -> [Rows -> [Cols -> Cells]]]
  /\ tabs = [t \in Tabs |-> [table |-> t, st |-> "ok", snap |-> db[t]]]
  /\ front \in Tabs
  /\ shown = 1 /\ mount = 1
  /\ data = db[front]
  /\ pending = NoEdits
  /\ apply = "idle" /\ dialog = None /\ busy = FALSE
  /\ hidden = {} /\ nodes = {} /\ selected = {}
  /\ job = [j \in Jobs |-> NoJob] /\ lastJob = 0
  /\ paste = {}
  /\ typed = {} /\ strays = {} /\ stained = {} /\ updates = {}
  /\ written = [s \in Spots |-> None]
  /\ picked = {} /\ deletes = {} /\ removed = {} /\ again = {}
  /\ landed = {} /\ unheard = {} /\ doubled = {}
  /\ gestures = 0

-----------------------------------------------------------------------------
(* What the page does to the grid.                                         *)

\* A new instance, with nothing of the old one's state.
Mounts(contents) ==
  /\ mount' = shown'
  /\ dialog' = None /\ busy' = FALSE
  /\ hidden' = {} /\ nodes' = {} /\ selected' = {}
  /\ paste' = {} /\ landed' = {} /\ unheard' = {} /\ doubled' = {}

\* The same instance gets another result: every state of the component but the
\* pending edits stays. The grid keeps its selection by row id, and may or may
\* not report it again.
Swapped(contents, t) ==
  /\ nodes' = nodes \cap Present(contents)
  /\ selected' \in {selected, {t} \X nodes'}
  /\ UNCHANGED <<mount, dialog, busy, hidden, paste, pasteHistory>>

\* Mutant: pending edits outlive the result they were made in.
SurvivingAll(p) == p

\* The pending edits that a new result leaves.
Surviving(p) == NoEdits

\* The grid, which showed something if `st` is "ok", is given tab r's result.
Shows(r, st) ==
  IF r.st # "ok"
  THEN UNCHANGED <<shown, mount, gridVars, stained, written, removed, pasteHistory>>
  ELSE /\ shown < MaxShown
       /\ shown' = shown + 1
       /\ data' = r.snap
       /\ pending' = Surviving(pending) /\ apply' = "idle"
       /\ written' = [s \in Spots |-> None] /\ stained' = {} /\ removed' = {}
       /\ IF st = "ok" THEN Swapped(r.snap, r.table) ELSE Mounts(r.snap)

\* Cmd+1..9, and every other way to move the focus.
Switch(k) ==
  /\ k # front
  /\ front' = k
  /\ UNCHANGED tabs
  /\ Shows(tabs[k], tabs[front].st)
  /\ Gesture
  /\ UNCHANGED <<db, job, lastJob, typed, strays, updates, picked, deletes, again>>

\* onRun, for the tab in focus: Cmd+Enter, or the onChanged of a batch.
Rerun(t) == tabs' = [tabs EXCEPT ![front].st = "running", ![front].table = t]

Run ==
  /\ ~Modal
  /\ Rerun(Table)
  /\ Gesture
  /\ UNCHANGED <<db, front, shown, mount, gridVars, job, lastJob, editHistory, pickHistory>>

Answer(k, out) ==
  /\ tabs[k].st = "running"
  /\ tabs' = [tabs EXCEPT ![k].st = out,
                          ![k].snap = IF out = "ok" THEN db[tabs[k].table] ELSE @]
  /\ IF k = front THEN Shows(tabs'[k], "running")
     ELSE UNCHANGED <<shown, mount, gridVars, stained, written, removed, pasteHistory>>
  /\ UNCHANGED <<db, front, job, lastJob, typed, strays, updates, picked, deletes,
                 again, gestures>>

\* Another client deletes a row.
Elsewhere(o) ==
  /\ db[o[1]][o[2]] # Gone
  /\ db' = [db EXCEPT ![o[1]][o[2]] = Gone]
  /\ Gesture
  /\ UNCHANGED <<tabs, front, shown, mount, gridVars, job, lastJob, editHistory, pickHistory>>

-----------------------------------------------------------------------------
(* Pending edits.                                                          *)

\* onCellValueChanged: what is pending at s once the cell there, which changes,
\* holds v.
Changed(s, v) ==
  IF pending[s] = None
  THEN [at |-> s, of |-> <<Table, s[1]>>, from |-> data[s[1]][s[2]], to |-> v]
  ELSE IF v = pending[s].from THEN None
  ELSE [pending[s] EXCEPT !.to = v]

\* A batch of UPDATEs of this result that is at work. Only the end of an older
\* one, which takes the preview away, lets its edits be changed by the user.
AtWork(k) == job[k].kind = "update" /\ job[k].shown = shown
RowsLeft(k) == {e.at[1] : e \in job[k].todo}

\* Such batches when f is to be pending at s: one that has not come to that row
\* takes f, one that works on the row, or on a map that is no longer the row's,
\* goes on with what it has. Which of them are that far is left open.
Following(s, f) ==
  {[k \in Jobs |->
     IF AtWork(k) /\ s[1] \in RowsLeft(k)
     THEN [job[k] EXCEPT !.loose = @ \cup {s[1]},
                         !.todo = IF k \in K THEN (@ \ {pending[s]}) \cup ({f} \ {None}) ELSE @]
     ELSE job[k]] : K \in SUBSET Jobs}

Type(s, v) ==
  /\ Editable /\ ~Modal
  /\ s[1] \in Present(data) \ hidden
  /\ v # data[s[1]][s[2]]
  /\ data' = [data EXCEPT ![s[1]][s[2]] = v]
  /\ pending' = [pending EXCEPT ![s] = Changed(s, v)]
  /\ job' \in Following(s, Changed(s, v))
  /\ typed' = typed \cup {<<<<Table, s[1]>>, s[2], v>>}
  /\ Gesture
  /\ UNCHANGED <<db, tabs, front, shown, mount, apply, dialog, busy, hidden, nodes, selected,
                 paste, lastJob, strays, stained, updates, written, pickHistory>>

\* revertPending.
Reverted(i) ==
  IF data[i] = Gone THEN Gone
  ELSE [c \in Cols |-> IF pending[<<i, c>>] = None THEN data[i][c] ELSE pending[<<i, c>>].from]

\* The maps that a batch has still to come to are empty then.
Emptying ==
  {[k \in Jobs |->
     IF AtWork(k) THEN [job[k] EXCEPT !.loose = RowsLeft(k) \cup @, !.todo = @ \ E]
     ELSE job[k]] : E \in SUBSET {pending[s] : s \in Spots}}

Revert ==
  /\ Editable /\ pending # NoEdits
  /\ ~Modal
  /\ data' = [i \in Rows |-> Reverted(i)]
  /\ pending' = NoEdits
  /\ apply' = "idle"
  /\ job' \in Emptying
  /\ Gesture
  /\ UNCHANGED <<db, tabs, front, shown, mount, dialog, busy, hidden, nodes, selected, paste,
                 lastJob, editHistory, pickHistory>>

\* The card's Apply.
Preview ==
  /\ Editable /\ pending # NoEdits
  /\ ~Modal
  /\ apply' = "previewing"
  /\ UNCHANGED <<db, tabs, front, shown, mount, data, pending, dialog, busy, hidden, nodes,
                 selected, paste, job, lastJob, editHistory, pickHistory, gestures>>

\* The preview's Cancel, the cross of the banner that lists failures.
Dismiss ==
  /\ Editable
  /\ apply \in {"previewing", "errors"}
  /\ apply' = "idle"
  /\ UNCHANGED <<db, tabs, front, shown, mount, data, pending, dialog, busy, hidden, nodes,
                 selected, paste, job, lastJob, editHistory, pickHistory, gestures>>

Starts(kind, todo) ==
  /\ lastJob < MaxJobs
  /\ lastJob' = lastJob + 1
  /\ job' = [job EXCEPT ![lastJob'] = [kind |-> kind, table |-> Table, shown |-> shown,
                                       todo |-> todo, done |-> {}, bad |-> {},
                                       loose |-> {}]]

\* applyPending.
Apply ==
  /\ Editable
  /\ apply = "previewing"
  /\ apply' = "applying"
  /\ Starts("update", {pending[s] : s \in Spots} \ {None})
  /\ UNCHANGED <<db, tabs, front, shown, mount, data, pending, dialog, busy, hidden, nodes,
                 selected, paste, editHistory, pickHistory, gestures>>

\* gridApiRef.current: the grid of the batch, unless it has been unmounted.
Reaches(j) == Mounted /\ job[j].shown >= mount

\* Mutant: the key is looked up by the row's place when the UPDATE is sent.
TargetByPlace(e) == <<Table, e.at[1]>>

\* The WHERE of an UPDATE: the key's snapshot.
Target(e) == e.of

\* An UPDATE of e at the database, if the row is there.
Stores(e) ==
  LET o == Target(e) IN
  /\ db[o[1]][o[2]] # Gone
  /\ db' = [db EXCEPT ![o[1]][o[2]][e.at[2]] = e.to]

\* A batch goes through one row's edits after the other.
Turn(j, e) ==
  \A f \in job[j].done \cup job[j].bad : f.at[1] = e.at[1] \/ f.at[1] \notin RowsLeft(j)

\* The pending edits without those of row i.
Dropped(p, i) == [s \in Spots |-> IF s[1] = i THEN None ELSE p[s]]

\* What the end of e's UPDATE leaves of the pending edits p, when the batch has a
\* map of its own for the row: its last edit there takes all that is pending in
\* that row of this result with it. Of a loose row that may be the map it has.
LeftBy(j, e, p) ==
  LET i == e.at[1] IN
  IF i \in job[j].loose THEN {p, [p EXCEPT ![e.at] = None], Dropped(p, i)}
  ELSE IF \E f \in (job[j].todo \ {e}) \cup job[j].bad : f.at[1] = i THEN {p}
  ELSE {Dropped(p, i)}

\* The answer goes to the row in that place of whatever result the grid has by
\* now. If it changes the cell, the grid says so as if the user had.
Shown(j, e) ==
  LET s == e.at
      f == IF data[s[1]] # Gone /\ data[s[1]][s[2]] # e.to THEN Changed(s, e.to)
           ELSE pending[s]
      put == IF data[s[1]] # Gone THEN [data EXCEPT ![s[1]][s[2]] = e.to] ELSE data IN
  /\ data' = put
  /\ IF AtWork(j) /\ s[1] \notin job[j].loose
     THEN /\ pending' = [pending EXCEPT ![s] = None]
          /\ written' = IF data[s[1]] # Gone THEN [written EXCEPT ![s] = e.to] ELSE written
          /\ job' = [job EXCEPT ![j].todo = @ \ {e}, ![j].done = @ \cup {e}]
          /\ UNCHANGED <<strays, stained>>
     ELSE /\ pending' \in LeftBy(j, e, [pending EXCEPT ![s] = f])
          /\ strays' = IF f \in {None, pending[s]} THEN strays
                       ELSE strays \cup {<<f.of, s[2], f.to>>}
          /\ stained' = stained \cup {s[1]}
          /\ \E jobs \in Following(s, f) :
               job' = [jobs EXCEPT ![j] = [job[j] EXCEPT !.todo = @ \ {e}, !.done = @ \cup {e}]]
          /\ UNCHANGED written

\* The next UPDATE of a batch and its answer; it may be refused, find no row, or
\* have its answer lost.
Updated(j, e) ==
  /\ job[j].kind = "update" /\ e \in job[j].todo /\ Turn(j, e)
  /\ updates' = updates \cup {<<Target(e), e.at[2], e.to>>}
  /\ \/ /\ Stores(e)
        /\ IF Reaches(j) THEN Shown(j, e)
           ELSE /\ job' = [job EXCEPT ![j].todo = @ \ {e}, ![j].done = @ \cup {e}]
                /\ UNCHANGED <<data, pending, strays, stained, written>>
     \/ /\ Stores(e) \/ UNCHANGED db
        /\ job' = [job EXCEPT ![j].todo = @ \ {e}, ![j].bad = @ \cup {e}]
        /\ UNCHANGED <<data, pending, strays, stained, written>>
  /\ UNCHANGED <<tabs, front, shown, mount, apply, dialog, busy, hidden, nodes, selected,
                 paste, lastJob, typed, pickHistory, gestures>>

\* The end of a batch. Where it found the map of a loose row empty, it has dropped
\* what is pending there by now.
UpdatesDone(j) ==
  /\ job[j].kind = "update" /\ job[j].todo = {}
  /\ IF Reaches(j)
     THEN /\ apply' = IF job[j].bad = {} THEN "idle" ELSE "errors"
          /\ \E R \in SUBSET job[j].loose :
               /\ pending' = [s \in Spots |-> IF s[1] \in R THEN None ELSE pending[s]]
               /\ stained' = stained \cup R
     ELSE UNCHANGED <<apply, pending, stained>>
  /\ job' = [job EXCEPT ![j] = NoJob]
  /\ UNCHANGED <<db, tabs, front, shown, mount, data, dialog, busy, hidden, nodes, selected,
                 paste, lastJob, typed, strays, updates, written, pickHistory, gestures>>

-----------------------------------------------------------------------------
(* The selection.                                                          *)

\* onSelectionChanged.
Reported(ns) == nodes' = ns /\ selected' = {Table} \X ns

Picks(ns) ==
  /\ Reported(ns)
  /\ picked' = picked \cup ({Table} \X ns)
  /\ Gesture
  /\ UNCHANGED <<db, tabs, front, shown, mount, data, pending, apply, dialog, busy, hidden,
                 paste, job, lastJob, editHistory, deletes, removed, again, pasteHistory>>

\* selectRowRange: drag, Shift+click and Shift+arrows leave hidden rows as
\* they are.
SelectRange(ns) ==
  /\ Editable /\ ~Modal
  /\ ns \subseteq Present(data) \ hidden
  /\ ns # {}
  /\ Picks(ns \cup (nodes \cap hidden))

\* Cmd+A selects the rows that are filtered out too, or clears.
SelectAll ==
  /\ Mounted /\ ~Modal
  /\ Picks(IF Cardinality(nodes) >= Cardinality(Present(data) \ hidden) /\ nodes # {}
           THEN {} ELSE Present(data))

\* The search box, typed in or cleared.
Search(h) ==
  /\ Mounted /\ ~Modal
  /\ h # hidden
  /\ hidden' = h
  /\ Gesture
  /\ UNCHANGED <<db, tabs, front, shown, mount, data, pending, apply, dialog, busy, nodes,
                 selected, paste, job, lastJob, editHistory, pickHistory>>

-----------------------------------------------------------------------------
(* The dialogs, and the batches behind them.                               *)

Opens(d) ==
  /\ Editable /\ ~Modal
  /\ d = "delete" => selected # {}
  /\ dialog' = d
  /\ UNCHANGED <<db, tabs, front, shown, mount, data, pending, apply, busy, hidden, nodes,
                 selected, paste, job, lastJob, editHistory, pickHistory, gestures>>

\* Cancel, Escape or a click outside. Closing the bulk insert forgets its text.
Closes ==
  /\ Editable
  /\ dialog # None /\ ~busy
  /\ dialog' = None
  /\ paste' = {} /\ landed' = {} /\ unheard' = {} /\ doubled' = {}
  /\ UNCHANGED <<db, tabs, front, shown, mount, data, pending, apply, busy, hidden, nodes,
                 selected, job, lastJob, editHistory, picked, deletes, removed, again, gestures>>

Pastes(ls) ==
  /\ Editable
  /\ dialog = "bulk" /\ ~busy
  /\ paste = {}
  /\ paste' = ls
  /\ Gesture
  /\ UNCHANGED <<db, tabs, front, shown, mount, data, pending, apply, dialog, busy, hidden,
                 nodes, selected, job, lastJob, editHistory, pickHistory>>

\* applyBulkDelete, applyInsert and the bulk insert's apply, up to their first
\* await.
Confirm ==
  /\ Editable
  /\ dialog # None /\ ~busy
  /\ busy' = TRUE
  /\ \/ dialog = "delete" /\ selected # {} /\ Starts("delete", selected)
     \/ dialog = "insert" /\ Starts("insert", {})
     \/ dialog = "bulk" /\ paste # {} /\ Starts("bulk", paste)
  /\ UNCHANGED <<db, tabs, front, shown, mount, data, pending, apply, dialog, hidden, nodes,
                 selected, paste, editHistory, pickHistory, gestures>>

\* The grid drops the row in that place, and reports a selection it was in.
Drops(i) ==
  /\ data' = [data EXCEPT ![i] = Gone]
  /\ IF i \in nodes THEN Reported(nodes \ {i}) ELSE UNCHANGED <<nodes, selected>>

\* The next DELETE of a batch: the key is the row object's, the table that of
\* the grid when the batch began. One that fails may have landed.
Deleted(j, o) ==
  LET d == <<job[j].table, o[2]>>
      without == [db EXCEPT ![d[1]][d[2]] = Gone] IN
  /\ job[j].kind = "delete" /\ o \in job[j].todo /\ job[j].bad = {}
  /\ deletes' = deletes \cup {d}
  /\ again' = IF job[j].shown = shown THEN again \cup ({d} \cap removed) ELSE again
  /\ \/ /\ db[d[1]][d[2]] # Gone
        /\ db' = without
        /\ job' = [job EXCEPT ![j].todo = @ \ {o}, ![j].done = @ \cup {o}]
        /\ removed' = IF job[j].shown = shown THEN removed \cup {d} ELSE removed
        /\ IF Reaches(j) THEN Drops(o[2]) ELSE UNCHANGED <<data, nodes, selected>>
     \/ /\ job' = [job EXCEPT ![j].bad = {o}]
        /\ db' \in {db, without}
        /\ UNCHANGED <<data, nodes, selected, removed>>
  /\ UNCHANGED <<tabs, front, shown, mount, pending, apply, dialog, busy, hidden, paste,
                 lastJob, editHistory, picked, pasteHistory, gestures>>

\* The selection that a failed batch leaves.
Remaining(j) == job[j].todo

DeletesDone(j) ==
  /\ job[j].kind = "delete"
  /\ job[j].todo = {} \/ job[j].bad # {}
  /\ job' = [job EXCEPT ![j] = NoJob]
  /\ busy' = IF Reaches(j) THEN FALSE ELSE busy
  /\ IF job[j].bad = {}
     THEN /\ Rerun(job[j].table)
          /\ selected' = IF Reaches(j) THEN {} ELSE selected
          /\ dialog' = IF Reaches(j) THEN None ELSE dialog
     ELSE /\ selected' = IF Reaches(j) /\ job[j].done # {} THEN Remaining(j) ELSE selected
          /\ UNCHANGED <<tabs, dialog>>
  /\ UNCHANGED <<db, front, shown, mount, data, pending, apply, hidden, nodes, paste,
                 lastJob, editHistory, pickHistory, gestures>>

\* The dialog is closed and the page told when the row is in.
Inserted(j, ok) ==
  /\ job[j].kind = "insert"
  /\ job' = [job EXCEPT ![j] = NoJob]
  /\ busy' = IF Reaches(j) THEN FALSE ELSE busy
  /\ IF ok THEN Rerun(job[j].table) /\ dialog' = IF Reaches(j) THEN None ELSE dialog
     ELSE UNCHANGED <<tabs, dialog>>
  /\ UNCHANGED <<db, front, shown, mount, data, pending, apply, hidden, nodes, selected,
                 paste, lastJob, editHistory, pickHistory, gestures>>

\* onChanged is called if any line is in.
MustTell(j) == job[j].bad = {} \/ job[j].done # {}

\* One more line of this paste is in.
Doubles(l) == doubled' = doubled \cup ({l} \cap (landed \cup unheard))

\* The next INSERT of a bulk insert. One that fails may have landed.
BulkLine(j, l) ==
  /\ job[j].kind = "bulk" /\ l \in job[j].todo /\ job[j].bad = {}
  /\ \/ /\ job' = [job EXCEPT ![j].todo = @ \ {l}, ![j].done = @ \cup {l}]
        /\ IF Reaches(j) THEN landed' = landed \cup {l} /\ Doubles(l) /\ UNCHANGED unheard
           ELSE UNCHANGED pasteHistory
     \/ /\ job' = [job EXCEPT ![j].bad = {l}]
        /\ \/ UNCHANGED pasteHistory
           \/ Reaches(j) /\ unheard' = unheard \cup {l} /\ Doubles(l) /\ UNCHANGED landed
  /\ UNCHANGED <<db, tabs, front, shown, mount, gridVars, lastJob, editHistory, picked,
                 deletes, removed, again, gestures>>

BulkDone(j) ==
  /\ job[j].kind = "bulk"
  /\ job[j].todo = {} \/ job[j].bad # {}
  /\ job' = [job EXCEPT ![j] = NoJob]
  /\ busy' = IF Reaches(j) THEN FALSE ELSE busy
  /\ IF MustTell(j) THEN Rerun(job[j].table) ELSE UNCHANGED tabs
  /\ IF Reaches(j) /\ job[j].bad = {}
     THEN /\ dialog' = None
          /\ paste' = {} /\ landed' = {} /\ unheard' = {} /\ doubled' = {}
     ELSE UNCHANGED <<dialog, paste, pasteHistory>>
  /\ UNCHANGED <<db, front, shown, mount, data, pending, apply, hidden, nodes, selected,
                 lastJob, editHistory, picked, deletes, removed, again, gestures>>

Next ==
  \/ \E k \in Tabs : Switch(k)
  \/ \E k \in Tabs, out \in {"ok", "error"} : Answer(k, out)
  \/ \E o \in Objects : Elsewhere(o)
  \/ \E s \in Spots, v \in Cells : Type(s, v)
  \/ Run \/ Revert \/ Preview \/ Dismiss \/ Apply \/ SelectAll \/ Closes \/ Confirm
  \/ \E ns \in SUBSET Rows : SelectRange(ns) \/ Search(ns)
  \/ \E d \in {"delete", "insert", "bulk"} : Opens(d)
  \/ \E ls \in SUBSET Lines : Pastes(ls)
  \/ \E j \in Jobs :
       \/ \E e \in job[j].todo : Updated(j, e)
       \/ \E o \in job[j].todo : Deleted(j, o)
       \/ \E l \in job[j].todo : BulkLine(j, l)
       \/ UpdatesDone(j) \/ DeletesDone(j) \/ BulkDone(j)
       \/ \E ok \in BOOLEAN : Inserted(j, ok)

Spec == Init /\ [][Next]_vars

-----------------------------------------------------------------------------
(* What must hold.                                                         *)

\* What a cell holds when nothing is pending in it.
Settled(s) == IF written[s] # None THEN written[s] ELSE tabs[front].snap[s[1]][s[2]]

\* A cell that is not tinted shows what the query returned or what an UPDATE
\* has stored since; a tinted one differs from that, and its edit is of the row
\* it is shown in. Rows of this result that an answer to edits made elsewhere
\* came to may show anything.
CellsAreHonest ==
  Mounted =>
    \A s \in Spots : s[1] \in Present(data) \ stained =>
      LET shows == data[s[1]][s[2]] IN
      IF pending[s] = None THEN shows = Settled(s)
      ELSE /\ shows = pending[s].to
           /\ pending[s].from = Settled(s)
           /\ pending[s].to # pending[s].from
           /\ pending[s].of = <<Table, s[1]>>

\* Every UPDATE carries a value to the row it was typed in, also when the batch
\* outlives the result that the row was shown in. The grid itself types into a
\* row where a batch's answer has met another result: those are the strays.
UpdatesAreMeant == updates \subseteq typed \cup strays

\* After a batch has failed, a retry sends no DELETE for a row that was answered
\* as deleted, and inserts no line that was answered as in. A line whose answer
\* was lost it does insert again.
RetriesAreFresh == again = {} /\ doubled \subseteq unheard

\* Both, of every write that the grid sends.
WritesAreMeant == UpdatesAreMeant /\ RetriesAreFresh

\* What makes them inductive. An edit that waits, in the grid or in a batch, was
\* typed or is a stray, and in the row where it is.
Meant(e) == <<e.of, e.at[2], e.to>> \in typed \cup strays
EditsAreTyped ==
  /\ \A s \in Spots : pending[s] # None =>
       /\ pending[s].at = s /\ Meant(pending[s])
       /\ Mounted => pending[s].of = <<Table, s[1]>>
  /\ \A j \in Jobs : job[j].kind = "update" => \A e \in job[j].todo : Meant(e)

\* Every edit that is pending, and so listed in the preview, was made by the user.
\* It does not hold (strays).
PendingWasTyped ==
  \A s \in Spots : pending[s] # None => <<pending[s].of, s[2], pending[s].to>> \in typed

\* A dialog's batch of this instance of the grid. There is one at a time, and
\* its dialog stays.
Working(j) == job[j].kind \in {"delete", "insert", "bulk"} /\ job[j].shown >= mount
OneBatchWorks ==
  \A j \in Jobs : Working(j) =>
    busy /\ dialog # None /\ \A k \in Jobs : Working(k) => k = j

\* The rows a batch of this result has deleted are neither in the grid nor in
\* what is still to do; nor in a selection that a retry could take.
GoneRows == {d[2] : d \in removed}
SelectionIsFresh ==
  /\ \A o, p \in selected : o[1] = p[1]
  /\ Mounted => \A i \in GoneRows : data[i] = Gone /\ i \notin nodes
  /\ \A j \in Jobs : job[j].kind = "delete" =>
       /\ \A o, p \in job[j].todo : o[1] = p[1]
       /\ Working(j) => \A o \in job[j].todo : o[2] \notin GoneRows
  /\ Mounted /\ (\A j \in Jobs : job[j].kind = "delete" /\ Working(j) => job[j].done = {}) =>
       \A o \in selected : o[2] \notin GoneRows

\* The lines of this paste that were answered are those of the batch at work.
PasteIsFresh ==
  /\ doubled \subseteq unheard
  /\ \A j \in Jobs : job[j].kind = "bulk" => job[j].todo \cap job[j].done = {}
  /\ Mounted /\ landed # {} =>
       \E j \in Jobs : job[j].kind = "bulk" /\ Working(j) /\ landed \subseteq job[j].done

IInv ==
  /\ TypeOK /\ CellsAreHonest /\ EditsAreTyped /\ OneBatchWorks /\ SelectionIsFresh
  /\ PasteIsFresh

\* Only rows that the user picked, in a result of their own table, are deleted.
\* This one the code does not keep: a selection outlives the result it was made
\* in (the effect on the result keeps `selected`), and Delete takes what is in
\* its places now.
DeletesArePicked == deletes \subseteq picked

=============================================================================
