---------------------------- MODULE ResultGridProofs ----------------------------
(***************************************************************************)
(* What the result grid keeps, for any tables, rows, values and bounds.    *)
(*                                                                         *)
(* A step swaps the result (ShowsKeeps), or leaves it where it is; then    *)
(* each part of the invariant has a lemma that says what must not move for *)
(* it to stay (CellsStay and its likes).                                   *)
(***************************************************************************)
EXTENDS ResultGrid, TLAPS

AnyBatch == {NoJob} \cup Batches("update", Edits) \cup Batches("delete", Objects)
                    \cup Batches("insert", {}) \cup Batches("bulk", Lines)

\* TypeOK, by who writes what.
PageOK ==
  /\ tabs \in [Tabs -> [table : Tables, st : {"running", "ok", "error"}, snap : Contents]]
  /\ front \in Tabs
  /\ shown \in 1..MaxShown
  /\ mount \in 1..shown
CellsOK ==
  /\ data \in Contents
  /\ pending \in [Spots -> Edits \cup {None}]
  /\ apply \in {"idle", "previewing", "applying", "errors"}
  /\ stained \subseteq Rows
  /\ written \in [Spots -> Cells \cup {None}]
DialogOK ==
  /\ dialog \in {None, "delete", "insert", "bulk"}
  /\ busy \in BOOLEAN
  /\ {hidden, nodes} \subseteq SUBSET Rows
  /\ selected \subseteq Objects
  /\ paste \subseteq Lines
JobsOK ==
  /\ lastJob \in 0..MaxJobs
  /\ job \in [Jobs -> AnyBatch]
  /\ \A j \in Jobs : job[j].shown <= shown /\ (j > lastJob => job[j] = NoJob)
HistoryOK ==
  /\ {picked, deletes, removed, again} \subseteq SUBSET Objects
  /\ {landed, unheard, doubled} \subseteq SUBSET Lines
  /\ {typed, strays, updates} \subseteq SUBSET (Objects \X Cols \X Cells)
RestOK == db \in [Tables -> Contents] /\ gestures \in 0..MaxGestures

LEMMA TypeParts ==
  /\ TypeOK <=> PageOK /\ CellsOK /\ DialogOK /\ JobsOK /\ HistoryOK /\ RestOK
  /\ TypeOK' <=> PageOK' /\ CellsOK' /\ DialogOK' /\ JobsOK' /\ HistoryOK' /\ RestOK'
BY DEF TypeOK, PageOK, CellsOK, DialogOK, JobsOK, HistoryOK, RestOK, AnyBatch

LEMMA Numbers == MaxJobs \in Nat /\ MaxShown \in Nat /\ MaxShown >= 1 /\ MaxGestures \in Nat
BY ResultGridAssumption

-----------------------------------------------------------------------------
(* The records of batches.                                                 *)

Dialogs == {"delete", "insert", "bulk"}

LEMMA KindsDiffer == /\ None \notin {"update", "delete", "insert", "bulk"}
                     /\ "update" # "delete" /\ "update" # "insert" /\ "update" # "bulk"
                     /\ "delete" # "insert" /\ "delete" # "bulk" /\ "insert" # "bulk"
BY ResultGridAssumption

\* A batch is of its kind.
LEMMA BatchTypes ==
  ASSUME NEW b \in AnyBatch
  PROVE  /\ b.shown \in Nat
         /\ b.kind = None => b = NoJob
         /\ b.kind # None => b.table \in Tables
         /\ b.kind = "update" => b \in Batches("update", Edits) /\ b.todo \subseteq Edits
         /\ b.kind = "delete" => /\ b \in Batches("delete", Objects)
                                 /\ b.todo \subseteq Objects
         /\ b.kind = "insert" => b.done = {}
         /\ b.kind = "bulk" => b \in Batches("bulk", Lines) /\ b.todo \subseteq Lines
<1>1. CASE b = NoJob
  BY <1>1, KindsDiffer DEF NoJob
<1>2. ASSUME NEW kind \in {"update", "delete", "insert", "bulk"}, NEW things,
             b \in Batches(kind, things)
      PROVE  /\ b.kind = kind /\ b.shown \in Nat /\ b.table \in Tables
             /\ b.todo \subseteq things /\ b.done \subseteq things
  BY <1>2, Numbers DEF Batches
<1>3. CASE b \in Batches("update", Edits)
  BY <1>2, <1>3, KindsDiffer
<1>4. CASE b \in Batches("delete", Objects)
  BY <1>2, <1>4, KindsDiffer
<1>5. CASE b \in Batches("insert", {})
  BY <1>2, <1>5, KindsDiffer
<1>6. CASE b \in Batches("bulk", Lines)
  BY <1>2, <1>6, KindsDiffer
<1> QED
  BY <1>1, <1>3, <1>4, <1>5, <1>6 DEF AnyBatch

\* One thing of a batch is done, or refused.
LEMMA BatchSteps ==
  ASSUME NEW kind, NEW things, NEW b \in Batches(kind, things), NEW x \in b.todo
  PROVE  /\ [b EXCEPT !.todo = @ \ {x}, !.bad = @ \cup {x}] \in Batches(kind, things)
         /\ [b EXCEPT !.todo = @ \ {x}, !.done = @ \cup {x}] \in Batches(kind, things)
         /\ [b EXCEPT !.bad = {x}] \in Batches(kind, things)
BY DEF Batches

LEMMA BatchFields ==
  ASSUME NEW b \in AnyBatch, NEW x
  PROVE  /\ LET c == [b EXCEPT !.todo = @ \ {x}, !.bad = @ \cup {x}] IN
            /\ c.kind = b.kind /\ c.table = b.table /\ c.shown = b.shown
            /\ c.todo = b.todo \ {x} /\ c.done = b.done
         /\ LET c == [b EXCEPT !.todo = @ \ {x}, !.done = @ \cup {x}] IN
            /\ c.kind = b.kind /\ c.table = b.table /\ c.shown = b.shown
            /\ c.todo = b.todo \ {x} /\ c.done = b.done \cup {x}
         /\ LET c == [b EXCEPT !.bad = {x}] IN
            /\ c.kind = b.kind /\ c.table = b.table /\ c.shown = b.shown
            /\ c.todo = b.todo /\ c.done = b.done
BY DEF AnyBatch, Batches, NoJob

\* The edits of a batch of UPDATEs change under it.
Loosened(b, R, T) == [b EXCEPT !.loose = R, !.todo = T]
LEMMA BatchLoosened ==
  ASSUME NEW b \in Batches("update", Edits), NEW R \in SUBSET Rows, NEW T \in SUBSET Edits
  PROVE  LET c == Loosened(b, R, T) IN
         /\ c \in Batches("update", Edits)
         /\ c.kind = b.kind /\ c.shown = b.shown /\ c.todo = T /\ c.done = b.done
BY DEF Batches, Loosened

LEMMA NoJobFields ==
  /\ NoJob \in AnyBatch /\ NoJob.kind = None /\ NoJob.shown = 0
  /\ NoJob.todo = {} /\ NoJob.done = {}
BY DEF NoJob, AnyBatch

-----------------------------------------------------------------------------
(* What keeps each part of the invariant.                                  *)

\* A batch that is still there is the one it was; only one of UPDATEs may find
\* that it has other things to do.
GoesOn(j) ==
  /\ job'[j].kind = job[j].kind /\ job'[j].shown = job[j].shown
  /\ job[j].kind # "update" => job'[j].todo \subseteq job[j].todo
Ended(j) == job'[j] = NoJob

\* Of UPDATEs a batch has nothing to do that it did not have, but for things that
\* are meant.
EditsGoOn(j) ==
  job'[j].kind = "update" =>
    job[j].kind = "update" /\ \A e \in job'[j].todo : e \in job[j].todo \/ Meant(e)'

\* A cell that is not in a stained row, by itself.
Honest(s) ==
  LET shows == data[s[1]][s[2]] IN
  IF pending[s] = None THEN shows = Settled(s)
  ELSE /\ shows = pending[s].to
       /\ pending[s].from = Settled(s)
       /\ pending[s].to # pending[s].from
       /\ pending[s].of = <<Table, s[1]>>
Kept(s) == data[s[1]] # Gone /\ s[1] \notin stained

LEMMA CellsByCell ==
  /\ CellsAreHonest <=> (Mounted => \A s \in Spots : Kept(s) => Honest(s))
  /\ CellsAreHonest' <=> (Mounted' => \A s \in Spots : Kept(s)' => Honest(s)')
BY DEF CellsAreHonest, Present, Kept, Honest, Spots

\* Each cell stays as it was, or is honest anew.
LEMMA CellsMove ==
  ASSUME CellsAreHonest, UNCHANGED <<tabs, front>>,
         ASSUME NEW s \in Spots, Mounted, Kept(s)'
         PROVE  \/ Honest(s)'
                \/ /\ Kept(s) /\ data'[s[1]][s[2]] = data[s[1]][s[2]]
                   /\ pending'[s] = pending[s] /\ written'[s] = written[s]
  PROVE  CellsAreHonest'
<1>1. Mounted' = Mounted /\ Table' = Table
  BY DEF Mounted, Table
<1>2. ASSUME NEW s \in Spots, Mounted, Kept(s)' PROVE Honest(s)'
  <2>1. CASE /\ Kept(s) /\ data'[s[1]][s[2]] = data[s[1]][s[2]]
             /\ pending'[s] = pending[s] /\ written'[s] = written[s]
    <3>1. Honest(s)
      BY <1>2, <2>1, CellsByCell
    <3>2. Settled(s)' = Settled(s)
      BY <2>1 DEF Settled
    <3> QED
      BY <1>1, <2>1, <3>1, <3>2 DEF Honest
  <2> QED
    BY <1>2, <2>1
<1> QED
  BY <1>1, <1>2, CellsByCell

LEMMA CellsStay ==
  ASSUME CellsAreHonest, UNCHANGED <<tabs, front, data, pending, stained, written>>
  PROVE  CellsAreHonest'
BY DEF CellsAreHonest, Settled, Mounted, Table, Present

LEMMA CellsHide == ASSUME ~Mounted' PROVE CellsAreHonest'
BY DEF CellsAreHonest

\* Each pending edit stays as it was, or is a good one.
LEMMA EditsMove ==
  ASSUME EditsAreTyped, typed \subseteq typed', strays \subseteq strays',
         Mounted' => Mounted /\ Table' = Table,
         \A s \in Spots : \/ pending'[s] \in {pending[s], None}
                          \/ /\ pending'[s].at = s /\ Meant(pending[s])'
                             /\ Mounted' => pending'[s].of = <<Table, s[1]>>,
         \A j \in Jobs : EditsGoOn(j)
  PROVE  EditsAreTyped'
<1>1. \A e : Meant(e) => Meant(e)'
  BY DEF Meant
<1>2. ASSUME NEW s \in Spots, pending'[s] # None
      PROVE  /\ pending'[s].at = s /\ Meant(pending[s])'
             /\ Mounted' => pending'[s].of = <<Table', s[1]>>
  <2>1. CASE pending'[s] = pending[s]
    <3>1. pending[s].at = s /\ Meant(pending[s]) /\ (Mounted => pending[s].of = <<Table, s[1]>>)
      BY <1>2, <2>1 DEF EditsAreTyped
    <3>2. <<pending[s].of, pending[s].at[2], pending[s].to>> \in typed' \cup strays'
      BY <3>1 DEF Meant
    <3> QED
      BY <2>1, <3>1, <3>2 DEF Meant
  <2> QED
    BY <1>2, <2>1
<1>3. ASSUME NEW j \in Jobs, job'[j].kind = "update", NEW e \in job'[j].todo
      PROVE  Meant(e)'
  BY <1>1, <1>3 DEF EditsAreTyped, EditsGoOn
<1> QED
  BY <1>2, <1>3 DEF EditsAreTyped

LEMMA EditsStay ==
  ASSUME EditsAreTyped, pending' = pending, typed \subseteq typed', strays \subseteq strays',
         Mounted' => Mounted /\ Table' = Table,
         \A j \in Jobs : EditsGoOn(j)
  PROVE  EditsAreTyped'
BY EditsMove

\* No batch starts to work.
LEMMA WorkingLess ==
  ASSUME mount' = mount, NEW j, Ended(j) \/ GoesOn(j)
  PROVE  Working(j)' => Working(j) /\ GoesOn(j)
BY NoJobFields, KindsDiffer DEF Ended, GoesOn, Working

LEMMA WorkStays ==
  ASSUME OneBatchWorks, mount' = mount, \A j \in Jobs : Ended(j) \/ GoesOn(j),
         \A j \in Jobs : Working(j)' => busy' = busy /\ dialog' = dialog
  PROVE  OneBatchWorks'
BY WorkingLess DEF OneBatchWorks

\* What must stay of a batch of DELETEs for the selection to stay fresh.
LEMMA SelectionStays ==
  ASSUME SelectionIsFresh, mount' = mount, removed' = removed,
         \A j \in Jobs : Ended(j) \/ GoesOn(j),
         \A o, p \in selected' : o[1] = p[1],
         Mounted' => /\ Mounted
                     /\ \A i \in GoneRows : data[i] = Gone => data'[i] = Gone
                     /\ nodes' \subseteq nodes,
         Mounted' /\ (\A j \in Jobs : job'[j].kind = "delete" /\ Working(j)' => job'[j].done = {})
           => \A o \in selected' : o[2] \notin GoneRows
  PROVE  SelectionIsFresh'
<1>1. GoneRows' = GoneRows
  BY DEF GoneRows
<1>2. Mounted' => \A i \in GoneRows' : data'[i] = Gone /\ i \notin nodes'
  BY <1>1 DEF SelectionIsFresh
<1>3. ASSUME NEW j \in Jobs, job'[j].kind = "delete"
      PROVE  /\ \A o, p \in job'[j].todo : o[1] = p[1]
             /\ Working(j)' => \A o \in job'[j].todo : o[2] \notin GoneRows'
  <2>1. GoesOn(j)
    BY <1>3, NoJobFields, KindsDiffer DEF Ended
  <2>2. job[j].kind = "delete" /\ job'[j].todo \subseteq job[j].todo
    BY <1>3, <2>1 DEF GoesOn
  <2>3. Working(j)' => Working(j)
    BY <2>1, WorkingLess
  <2> QED
    BY <1>1, <2>2, <2>3 DEF SelectionIsFresh
<1> QED
  BY <1>1, <1>2, <1>3 DEF SelectionIsFresh

\* The same, for a step that leaves the selection alone.
LEMMA SelectionRests ==
  ASSUME SelectionIsFresh, UNCHANGED <<mount, removed, selected>>,
         \A j \in Jobs : job'[j] = job[j] \/ (job[j].kind # "delete" /\ (Ended(j) \/ GoesOn(j))),
         Mounted' => /\ Mounted
                     /\ \A i \in GoneRows : data[i] = Gone => data'[i] = Gone
                     /\ nodes' \subseteq nodes
  PROVE  SelectionIsFresh'
<1>1. \A j \in Jobs : Ended(j) \/ GoesOn(j)
  BY DEF GoesOn
<1>2. ASSUME NEW j \in Jobs, job[j].kind = "delete", Working(j)
      PROVE  job'[j].kind = "delete" /\ Working(j)' /\ job'[j].done = job[j].done
  <2>1. job'[j] = job[j]
    BY <1>2
  <2> QED
    BY <1>2, <2>1 DEF Working
<1>3. \A o, p \in selected' : o[1] = p[1]
  BY DEF SelectionIsFresh
<1>4. Mounted' /\ (\A j \in Jobs : job'[j].kind = "delete" /\ Working(j)' => job'[j].done = {})
        => \A o \in selected' : o[2] \notin GoneRows
  BY <1>2 DEF SelectionIsFresh
<1> QED
  BY <1>1, <1>3, <1>4, SelectionStays

LEMMA PasteStays ==
  ASSUME PasteIsFresh, pasteHistory' = pasteHistory, mount' = mount, Mounted' => Mounted,
         \A j \in Jobs : \/ job'[j] = job[j]
                         \/ Ended(j) /\ (Mounted' => job[j].kind # "bulk" \/ ~Working(j))
                         \/ GoesOn(j) /\ job[j].kind # "bulk"
  PROVE  PasteIsFresh'
<1>1. \A j \in Jobs : job'[j].kind = "bulk" => job'[j].todo \cap job'[j].done = {}
  BY NoJobFields, KindsDiffer DEF PasteIsFresh, Ended, GoesOn
<1>2. ASSUME Mounted', landed' # {}
      PROVE  \E j \in Jobs : job'[j].kind = "bulk" /\ Working(j)' /\ landed' \subseteq job'[j].done
  <2>1. PICK j \in Jobs : job[j].kind = "bulk" /\ Working(j) /\ landed \subseteq job[j].done
    BY <1>2 DEF PasteIsFresh, pasteHistory
  <2>2. job'[j] = job[j]
    BY <1>2, <2>1
  <2> QED
    BY <2>1, <2>2 DEF Working, pasteHistory
<1> QED
  BY <1>1, <1>2 DEF PasteIsFresh, pasteHistory

-----------------------------------------------------------------------------
(* Steps that leave the batches alone.                                     *)

LEMMA NoBatchMoves ==
  ASSUME job' = job
  PROVE  \A j \in Jobs : GoesOn(j) /\ job'[j].done = job[j].done /\ EditsGoOn(j)
BY DEF GoesOn, EditsGoOn

\* Of a batch that has ended or has not got more to do, no more can be sent.
LEMMA LessToDo ==
  ASSUME NEW j, Ended(j) \/ (job'[j].kind = job[j].kind /\ job'[j].todo \subseteq job[j].todo)
  PROVE  EditsGoOn(j)
BY NoJobFields, KindsDiffer DEF Ended, EditsGoOn

LEMMA GesturesOK ==
  ASSUME gestures \in 0..MaxGestures, Gesture
  PROVE  gestures' \in 0..MaxGestures
BY Numbers DEF Gesture

\* The grid is given a result, or is taken away.
LEMMA ShowsKeeps ==
  ASSUME IInv, front' \in Tabs,
         tabs' \in [Tabs -> [table : Tables, st : {"running", "ok", "error"}, snap : Contents]],
         Shows(tabs'[front'], tabs[front].st),
         UNCHANGED <<db, job, lastJob, typed, strays, updates, picked, deletes, again>>,
         gestures' \in 0..MaxGestures
  PROVE  IInv'
<1>1. PageOK /\ CellsOK /\ DialogOK /\ JobsOK /\ HistoryOK /\ RestOK
  BY TypeParts DEF IInv
<1>2. CASE tabs'[front'].st # "ok"
  <2>1. UNCHANGED <<shown, mount, gridVars, stained, written, removed, pasteHistory>>
    BY <1>2 DEF Shows
  <2>2. ~Mounted'
    BY <1>2 DEF Mounted
  <2>3. TypeOK'
    BY <1>1, <2>1, TypeParts
       DEF PageOK, CellsOK, DialogOK, JobsOK, HistoryOK, RestOK, gridVars, pasteHistory
  <2>4. CellsAreHonest'
    BY <2>2, CellsHide
  <2>5. EditsAreTyped'
    BY <2>1, <2>2, EditsStay, NoBatchMoves DEF IInv, gridVars
  <2>6. OneBatchWorks'
    BY <2>1, WorkStays, NoBatchMoves DEF IInv, gridVars
  <2>7. SelectionIsFresh'
    BY <2>1, <2>2, SelectionRests DEF IInv, gridVars
  <2>8. PasteIsFresh'
    BY <2>1, <2>2, PasteStays DEF IInv, gridVars
  <2> QED
    BY <2>3, <2>4, <2>5, <2>6, <2>7, <2>8 DEF IInv
<1>3. CASE tabs'[front'].st = "ok"
  <2> DEFINE r == tabs'[front']
  <2>1. /\ shown < MaxShown /\ shown' = shown + 1
        /\ data' = r.snap /\ pending' = NoEdits /\ apply' = "idle"
        /\ written' = [s \in Spots |-> None] /\ stained' = {} /\ removed' = {}
        /\ IF tabs[front].st = "ok" THEN Swapped(r.snap, r.table) ELSE Mounts(r.snap)
    BY <1>3 DEF Shows, Surviving
  <2>2. r.table \in Tables /\ r.snap \in Contents /\ Mounted'
    BY <1>3 DEF Mounted, Tabs
  <2>3. /\ mount' \in 1..shown' /\ dialog' \in {None, "delete", "insert", "bulk"}
        /\ busy' \in BOOLEAN /\ hidden' \subseteq Rows /\ nodes' \subseteq Rows
        /\ selected' \subseteq Objects /\ paste' \subseteq Lines
        /\ {landed', unheard', doubled'} \subseteq SUBSET Lines
        /\ \A o, p \in selected' : o[1] = p[1]
    <3>1. CASE tabs[front].st = "ok"
      <4>1. Swapped(r.snap, r.table)
        BY <2>1, <3>1
      <4>2. nodes' \subseteq Rows /\ UNCHANGED <<mount, dialog, busy, hidden, paste, pasteHistory>>
        BY <4>1, <1>1 DEF Swapped, DialogOK
      <4>3. mount' \in 1..shown'
        BY <4>2, <1>1, <2>1, Numbers DEF PageOK
      <4>4. selected' = selected \/ selected' = {r.table} \X nodes'
        BY <4>1 DEF Swapped
      <4>5. selected' \subseteq Objects /\ \A o, p \in selected' : o[1] = p[1]
        <5>1. CASE selected' = selected
          BY <5>1, <1>1 DEF DialogOK, IInv, SelectionIsFresh
        <5>2. CASE selected' = {r.table} \X nodes'
          BY <5>2, <2>2, <4>2 DEF Objects
        <5> QED
          BY <4>4, <5>1, <5>2
      <4> QED
        BY <4>2, <4>3, <4>5, <1>1 DEF DialogOK, HistoryOK, pasteHistory
    <3>2. CASE tabs[front].st # "ok"
      <4>1. Mounts(r.snap)
        BY <2>1, <3>2
      <4>2. mount' \in 1..shown'
        BY <4>1, <1>1, <2>1, Numbers DEF Mounts, PageOK
      <4> QED
        BY <4>1, <4>2 DEF Mounts
    <3> QED
      BY <3>1, <3>2
  <2>4. PageOK'
    BY <2>1, <2>3, <1>1, Numbers DEF PageOK
  <2>5. CellsOK'
    <3>1. pending' \in [Spots -> Edits \cup {None}]
      BY <2>1 DEF NoEdits
    <3> QED
      BY <2>1, <2>2, <3>1 DEF CellsOK
  <2>6. DialogOK'
    BY <2>3 DEF DialogOK
  <2>7. JobsOK'
    <3>1. \A j \in Jobs : job[j].shown \in Nat /\ job[j].shown <= shown
      BY <1>1, BatchTypes DEF JobsOK
    <3>2. \A j \in Jobs : job[j].shown <= shown + 1
      BY <3>1, <1>1, Numbers DEF PageOK
    <3> QED
      BY <1>1, <2>1, <3>2 DEF JobsOK
  <2>8. HistoryOK' /\ RestOK'
    BY <1>1, <2>1, <2>3 DEF HistoryOK, RestOK
  <2>9. CellsAreHonest'
    <3>1. ASSUME NEW s \in Spots PROVE Honest(s)'
      BY <2>1, <3>1 DEF Honest, Settled, NoEdits
    <3> QED
      BY <3>1, CellsByCell
  <2>10. EditsAreTyped'
    BY <2>1 DEF EditsAreTyped, NoEdits, IInv, Meant
  <2>11. OneBatchWorks' /\ (tabs[front].st # "ok" => \A j \in Jobs : ~Working(j)')
    <3>1. CASE tabs[front].st = "ok"
      <4>1. UNCHANGED <<mount, dialog, busy>>
        BY <2>1, <3>1 DEF Swapped
      <4> QED
        BY <4>1, <3>1, WorkStays, NoBatchMoves DEF IInv
    <3>2. CASE tabs[front].st # "ok"
      <4>1. mount' = shown + 1
        BY <2>1, <3>2 DEF Mounts
      <4>2. ASSUME NEW j \in Jobs PROVE ~Working(j)'
        <5>1. job'[j].shown \in Nat /\ job'[j].shown <= shown
          BY <1>1, BatchTypes DEF JobsOK
        <5> QED
          BY <4>1, <5>1, <1>1, Numbers DEF Working, PageOK
      <4> QED
        BY <4>2 DEF OneBatchWorks
    <3> QED
      BY <3>1, <3>2
  <2>12. SelectionIsFresh'
    <3>1. GoneRows' = {}
      BY <2>1 DEF GoneRows
    <3>2. \A j \in Jobs : job'[j].kind = "delete" => \A o, p \in job'[j].todo : o[1] = p[1]
      BY DEF IInv, SelectionIsFresh
    <3> QED
      BY <2>3, <3>1, <3>2 DEF SelectionIsFresh
  <2>13. PasteIsFresh'
    <3>1. CASE tabs[front].st = "ok"
      <4>1. UNCHANGED <<mount, pasteHistory>> /\ Mounted
        BY <2>1, <3>1 DEF Swapped, Mounted
      <4> QED
        BY <4>1, PasteStays DEF IInv
    <3>2. CASE tabs[front].st # "ok"
      BY <2>1, <3>2 DEF Mounts, PasteIsFresh, IInv
    <3> QED
      BY <3>1, <3>2
  <2> QED
    BY <2>4, <2>5, <2>6, <2>7, <2>8, <2>9, <2>10, <2>11, <2>12, <2>13, TypeParts DEF IInv
<1> QED
  BY <1>2, <1>3

LEMMA SwitchKeeps ==
  ASSUME IInv, NEW k \in Tabs, Switch(k)
  PROVE  IInv'
<1>1. PageOK /\ RestOK
  BY TypeParts DEF IInv
<1>2. front' \in Tabs /\ tabs' = tabs /\ gestures' \in 0..MaxGestures
  BY <1>1, GesturesOK DEF Switch, RestOK
<1>3. Shows(tabs'[front'], tabs[front].st)
  BY DEF Switch
<1> QED
  BY <1>1, <1>2, <1>3, ShowsKeeps DEF Switch, PageOK

LEMMA AnswerKeeps ==
  ASSUME IInv, NEW k \in Tabs, NEW out \in {"ok", "error"}, Answer(k, out)
  PROVE  IInv'
<1>1. PageOK /\ CellsOK /\ DialogOK /\ JobsOK /\ HistoryOK /\ RestOK
  BY TypeParts DEF IInv
<1>2. tabs' \in [Tabs -> [table : Tables, st : {"running", "ok", "error"}, snap : Contents]]
  <2>1. db[tabs[k].table] \in Contents
    BY <1>1 DEF PageOK, RestOK, Tabs
  <2> QED
    BY <1>1, <2>1 DEF PageOK, Answer, Tabs
<1>3. CASE k = front
  <2>1. Shows(tabs'[front'], tabs[front].st)
    BY <1>3 DEF Answer
  <2> QED
    BY <1>1, <1>2, <2>1, ShowsKeeps DEF Answer, PageOK, RestOK
<1>4. CASE k # front
  <2>1. /\ UNCHANGED <<shown, mount, gridVars, stained, written, removed, pasteHistory>>
        /\ UNCHANGED <<db, front, job, lastJob, typed, strays, updates, picked, deletes, again,
                       gestures>>
    BY <1>4 DEF Answer
  <2>2. tabs'[front'] = tabs[front]
    BY <1>1, <1>4, <2>1 DEF Answer, PageOK
  <2>3. Mounted' = Mounted /\ Table' = Table
    BY <2>2 DEF Mounted, Table
  <2>4. TypeOK'
    BY <1>1, <1>2, <2>1, TypeParts
       DEF PageOK, CellsOK, DialogOK, JobsOK, HistoryOK, RestOK, gridVars, pasteHistory
  <2>5. CellsAreHonest'
    BY <2>1, <2>2, <2>3 DEF IInv, CellsAreHonest, Settled, Present, gridVars
  <2>6. EditsAreTyped'
    BY <2>1, <2>3, EditsStay, NoBatchMoves DEF IInv, gridVars
  <2>7. OneBatchWorks'
    BY <2>1, WorkStays, NoBatchMoves DEF IInv, gridVars
  <2>8. SelectionIsFresh'
    BY <2>1, <2>3, SelectionRests DEF IInv, gridVars
  <2>9. PasteIsFresh'
    BY <2>1, <2>3, PasteStays DEF IInv, gridVars
  <2> QED
    BY <2>4, <2>5, <2>6, <2>7, <2>8, <2>9 DEF IInv
<1> QED
  BY <1>3, <1>4

\* A page that runs the query again keeps its type, and shows no grid.
LEMMA RerunHides ==
  ASSUME PageOK, NEW t \in Tables, Rerun(t), UNCHANGED <<front, shown, mount>>
  PROVE  PageOK' /\ ~Mounted'
<1> DEFINE all == [table : Tables, st : {"running", "ok", "error"}, snap : Contents]
<1>1. [tabs[front] EXCEPT !.st = "running", !.table = t] \in all
  BY DEF PageOK
<1>2. tabs' = [tabs EXCEPT ![front] = [@ EXCEPT !.st = "running", !.table = t]]
  BY DEF Rerun
<1>3. tabs' \in [Tabs -> all] /\ tabs'[front].st = "running"
  BY <1>1, <1>2 DEF PageOK
<1> QED
  BY <1>3 DEF PageOK, Mounted

LEMMA RunKeeps ==
  ASSUME IInv, Run
  PROVE  IInv'
<1>1. PageOK /\ CellsOK /\ DialogOK /\ JobsOK /\ HistoryOK /\ RestOK
  BY TypeParts DEF IInv
<1>2. Table \in Tables
  BY <1>1 DEF PageOK, Table, Tabs
<1>3. PageOK' /\ ~Mounted'
  BY <1>1, <1>2, RerunHides DEF Run
<1>4. TypeOK'
  <2>1. RestOK'
    BY <1>1, GesturesOK DEF Run, RestOK
  <2> QED
    BY <1>1, <1>3, <2>1, TypeParts
       DEF Run, CellsOK, DialogOK, JobsOK, HistoryOK, gridVars, editHistory, pickHistory,
           pasteHistory
<1>5. CellsAreHonest'
  BY <1>3, CellsHide
<1>6. EditsAreTyped'
  BY <1>3, EditsStay, NoBatchMoves DEF Run, IInv, gridVars, editHistory
<1>7. OneBatchWorks'
  BY WorkStays, NoBatchMoves DEF Run, IInv, gridVars
<1>8. SelectionIsFresh'
  BY <1>3, SelectionRests DEF Run, IInv, gridVars, pickHistory
<1>9. PasteIsFresh'
  BY <1>3, PasteStays DEF Run, IInv, gridVars, pickHistory
<1> QED
  BY <1>4, <1>5, <1>6, <1>7, <1>8, <1>9 DEF IInv

\* The page, the batches and what was written stay: what is left to show of a
\* gesture in the grid.
LEMMA GestureKeeps ==
  ASSUME IInv, UNCHANGED <<tabs, front, shown, mount, job, lastJob>>,
         CellsOK', DialogOK', HistoryOK', RestOK',
         CellsAreHonest', EditsAreTyped', OneBatchWorks', SelectionIsFresh', PasteIsFresh'
  PROVE  IInv'
<1>1. PageOK' /\ JobsOK'
  BY TypeParts DEF IInv, PageOK, JobsOK
<1> QED
  BY <1>1, TypeParts DEF IInv

LEMMA SameShown ==
  ASSUME UNCHANGED <<tabs, front, mount, job>>
  PROVE  /\ Mounted' = Mounted /\ Table' = Table
         /\ \A j : Working(j)' = Working(j)
BY DEF Mounted, Table, Working

LEMMA ElsewhereKeeps ==
  ASSUME IInv, NEW o \in Objects, Elsewhere(o)
  PROVE  IInv'
<1>1. CellsOK /\ DialogOK /\ HistoryOK /\ RestOK
  BY TypeParts DEF IInv
<1>2. CellsOK' /\ DialogOK' /\ HistoryOK'
  BY <1>1 DEF Elsewhere, CellsOK, DialogOK, HistoryOK, gridVars, editHistory, pickHistory,
                   pasteHistory
<1>3. RestOK'
  <2>1. db' \in [Tables -> Contents]
    BY <1>1 DEF Elsewhere, RestOK, Contents, Objects
  <2> QED
    BY <1>1, <2>1, GesturesOK DEF Elsewhere, RestOK
<1>4. CellsAreHonest'
  BY CellsStay DEF Elsewhere, IInv, gridVars, editHistory
<1>5. EditsAreTyped'
  BY EditsStay, NoBatchMoves, SameShown DEF Elsewhere, IInv, gridVars, editHistory
<1>6. OneBatchWorks'
  BY WorkStays, NoBatchMoves DEF Elsewhere, IInv, gridVars
<1>7. SelectionIsFresh'
  BY SelectionRests, SameShown DEF Elsewhere, IInv, gridVars, pickHistory
<1>8. PasteIsFresh'
  BY PasteStays, SameShown DEF Elsewhere, IInv, gridVars, pickHistory
<1> QED
  BY <1>2, <1>3, <1>4, <1>5, <1>6, <1>7, <1>8, GestureKeeps DEF Elsewhere

-----------------------------------------------------------------------------
(* Cells and edits.                                                        *)

\* A value is put into a cell of a row that is there.
PutAt(s, v) == [data EXCEPT ![s[1]][s[2]] = v]
IsPut(put, s, v) ==
  /\ put \in Contents
  /\ put[s[1]][s[2]] = v
  /\ \A i \in Rows : put[i] = Gone <=> data[i] = Gone
  /\ \A t \in Spots : data[t[1]] # Gone /\ t # s => put[t[1]][t[2]] = data[t[1]][t[2]]

LEMMA Puts ==
  ASSUME data \in Contents, NEW s \in Spots, NEW v \in Cells, data[s[1]] # Gone,
         NEW put, put = PutAt(s, v)
  PROVE  IsPut(put, s, v)
<1>1. s[1] \in Rows /\ s[2] \in Cols /\ data[s[1]] \in [Cols -> Cells]
  BY DEF Spots, Contents
<1>2. data \in [Rows -> [Cols -> Cells] \cup {Gone}] /\ Gone \notin [Cols -> Cells]
  BY ResultGridAssumption DEF Contents
<1>3. [data[s[1]] EXCEPT ![s[2]] = v] \in [Cols -> Cells]
  BY <1>1
<1>4. put[s[1]] = [data[s[1]] EXCEPT ![s[2]] = v]
  BY <1>1, <1>2 DEF PutAt
<1>5. put \in Contents
  BY <1>1, <1>2, <1>3 DEF Contents, PutAt
<1>6. \A i \in Rows : i # s[1] => put[i] = data[i]
  BY <1>1, <1>2 DEF PutAt
<1>7. \A i \in Rows : put[i] = Gone <=> data[i] = Gone
  BY <1>1, <1>2, <1>3, <1>4, <1>6
<1>8. ASSUME NEW t \in Spots, data[t[1]] # Gone, t # s
      PROVE  put[t[1]][t[2]] = data[t[1]][t[2]]
  <2>1. t[1] \in Rows /\ t[2] \in Cols /\ (t[1] # s[1] \/ t[2] # s[2])
    BY <1>8 DEF Spots
  <2>2. CASE t[1] # s[1]
    BY <1>6, <2>1, <2>2
  <2>3. CASE t[1] = s[1] /\ t[2] # s[2]
    BY <1>1, <1>4, <2>1, <2>3
  <2> QED
    BY <2>1, <2>2, <2>3
<1> QED
  BY <1>1, <1>4, <1>5, <1>7, <1>8 DEF IsPut

\* What is pending in a cell once it has changed.
LEMMA ChangedFacts ==
  ASSUME PageOK, CellsOK, EditsAreTyped, NEW s \in Spots, NEW v \in Cells,
         data[s[1]] # Gone, v # data[s[1]][s[2]], NEW f, f = Changed(s, v)
  PROVE  /\ f \in Edits \cup {None}
         /\ f = None => pending[s] # None /\ v = pending[s].from
         /\ f # None =>
              /\ f.at = s /\ f.to = v /\ f.from # v
              /\ f.from = IF pending[s] = None THEN data[s[1]][s[2]] ELSE pending[s].from
              /\ Mounted => f.of = <<Table, s[1]>>
<1> DEFINE fresh == [at |-> s, of |-> <<Table, s[1]>>, from |-> data[s[1]][s[2]], to |-> v]
<1>1. s[1] \in Rows /\ s[2] \in Cols /\ data[s[1]] \in [Cols -> Cells] /\ Table \in Tables
  BY DEF Spots, CellsOK, Contents, PageOK, Table, Tabs
<1>2. fresh \in Edits /\ None \notin Edits
  BY <1>1, ResultGridAssumption DEF Edits, Objects
<1>3. pending[s] \in Edits \cup {None}
  BY DEF CellsOK
<1>4. CASE pending[s] = None
  BY <1>2, <1>4 DEF Changed
<1>5. CASE pending[s] # None /\ v = pending[s].from
  BY <1>5 DEF Changed
<1>6. CASE pending[s] # None /\ v # pending[s].from
  <2>1. pending[s] \in Edits /\ pending[s].at = s /\ (Mounted => pending[s].of = <<Table, s[1]>>)
    BY <1>3, <1>6 DEF EditsAreTyped
  <2>2. f = [pending[s] EXCEPT !.to = v]
    BY <1>6 DEF Changed
  <2>3. f \in Edits /\ f.to = v /\ f.at = s /\ f.from = pending[s].from /\ f.of = pending[s].of
    BY <2>1, <2>2 DEF Edits
  <2> QED
    BY <1>2, <1>6, <2>1, <2>3
<1> QED
  BY <1>4, <1>5, <1>6

\* jobs are the batches as they are, but for what those of UPDATEs have to do,
\* where f may come in.
Alike(jobs, f) ==
  /\ jobs \in [Jobs -> AnyBatch]
  /\ \A k \in Jobs :
       /\ jobs[k].kind = job[k].kind /\ jobs[k].shown = job[k].shown
       /\ jobs[k].done = job[k].done
       /\ jobs[k].todo \subseteq job[k].todo \cup ({f} \ {None})
       /\ job[k].kind # "update" => jobs[k] = job[k]

LEMMA FollowingIsAlike ==
  ASSUME JobsOK, CellsOK, NEW s \in Spots, NEW f \in Edits \cup {None}, NEW jobs \in Following(s, f)
  PROVE  Alike(jobs, f)
<1>1. PICK K \in SUBSET Jobs :
        jobs = [k \in Jobs |->
                  IF AtWork(k) /\ s[1] \in RowsLeft(k)
                  THEN [job[k] EXCEPT !.loose = @ \cup {s[1]},
                                      !.todo = IF k \in K THEN (@ \ {pending[s]}) \cup ({f} \ {None})
                                               ELSE @]
                  ELSE job[k]]
  BY DEF Following
<1>2. ASSUME NEW k \in Jobs
      PROVE  /\ jobs[k] \in AnyBatch
             /\ jobs[k].kind = job[k].kind /\ jobs[k].shown = job[k].shown
             /\ jobs[k].done = job[k].done
             /\ jobs[k].todo \subseteq job[k].todo \cup ({f} \ {None})
             /\ job[k].kind # "update" => jobs[k] = job[k]
  <2>1. CASE ~(AtWork(k) /\ s[1] \in RowsLeft(k))
    <3>1. jobs[k] = job[k]
      BY <1>1, <2>1
    <3> QED
      BY <3>1 DEF JobsOK
  <2>2. CASE AtWork(k) /\ s[1] \in RowsLeft(k)
    <3> DEFINE b == job[k]
               R == b.loose \cup {s[1]}
               T == IF k \in K THEN (b.todo \ {pending[s]}) \cup ({f} \ {None}) ELSE b.todo
    <3>1. b \in Batches("update", Edits) /\ b.kind = "update"
      BY <2>2, BatchTypes DEF AtWork, JobsOK
    <3>2. R \in SUBSET Rows /\ T \in SUBSET Edits
      BY <3>1 DEF Batches, Spots
    <3>3. jobs[k] = Loosened(b, R, T)
      BY <1>1, <2>2, <3>1 DEF Batches, Loosened
    <3>4. T \subseteq b.todo \cup ({f} \ {None})
      OBVIOUS
    <3> HIDE DEF R, T
    <3> QED
      BY <3>1, <3>2, <3>3, <3>4, BatchLoosened DEF AnyBatch
  <2> QED
    BY <2>1, <2>2
<1>3. jobs \in [Jobs -> AnyBatch]
  BY <1>1, <1>2
<1> QED
  BY <1>2, <1>3 DEF Alike

LEMMA EmptyingIsAlike ==
  ASSUME JobsOK, CellsOK, NEW jobs \in Emptying
  PROVE  Alike(jobs, None)
<1>1. PICK E \in SUBSET {pending[s] : s \in Spots} :
        jobs = [k \in Jobs |->
                  IF AtWork(k) THEN [job[k] EXCEPT !.loose = RowsLeft(k) \cup @, !.todo = @ \ E]
                  ELSE job[k]]
  BY DEF Emptying
<1>2. ASSUME NEW k \in Jobs
      PROVE  /\ jobs[k] \in AnyBatch
             /\ jobs[k].kind = job[k].kind /\ jobs[k].shown = job[k].shown
             /\ jobs[k].done = job[k].done
             /\ jobs[k].todo \subseteq job[k].todo
             /\ job[k].kind # "update" => jobs[k] = job[k]
  <2>1. CASE ~AtWork(k)
    <3>1. jobs[k] = job[k]
      BY <1>1, <2>1
    <3> QED
      BY <3>1 DEF JobsOK
  <2>2. CASE AtWork(k)
    <3> DEFINE b == job[k]
               R == RowsLeft(k) \cup b.loose
               T == b.todo \ E
    <3>1. b \in Batches("update", Edits) /\ b.kind = "update"
      BY <2>2, BatchTypes DEF AtWork, JobsOK
    <3>2. RowsLeft(k) \subseteq Rows
      BY <3>1 DEF RowsLeft, Batches, Edits, Spots
    <3>3. R \in SUBSET Rows /\ T \in SUBSET Edits
      BY <3>1, <3>2 DEF Batches
    <3>4. jobs[k] = Loosened(b, R, T)
      BY <1>1, <2>2, <3>1 DEF Batches, Loosened
    <3> HIDE DEF R
    <3> QED
      BY <3>1, <3>3, <3>4, BatchLoosened DEF AnyBatch
  <2> QED
    BY <2>1, <2>2
<1>3. jobs \in [Jobs -> AnyBatch]
  BY <1>1, <1>2
<1> QED
  BY <1>2, <1>3 DEF Alike

LEMMA AlikeKeeps ==
  ASSUME JobsOK, NEW f, Alike(job', f), UNCHANGED <<shown, lastJob>>, f # None => Meant(f)'
  PROVE  /\ JobsOK'
         /\ \A j \in Jobs : /\ GoesOn(j) /\ job'[j].done = job[j].done /\ EditsGoOn(j)
                            /\ job[j].kind # "update" => job'[j] = job[j]
<1>1. \A k \in Jobs : job'[k].shown <= shown' /\ (k > lastJob' => job'[k] = NoJob)
  BY NoJobFields, KindsDiffer DEF JobsOK, Alike
<1>2. JobsOK'
  BY <1>1 DEF JobsOK, Alike
<1> QED
  BY <1>2 DEF Alike, GoesOn, EditsGoOn

LEMMA TypeKeeps ==
  ASSUME IInv, NEW s \in Spots, NEW v \in Cells, Type(s, v)
  PROVE  IInv'
<1> PICK f : f = Changed(s, v)
  OBVIOUS
<1>1. PageOK /\ CellsOK /\ DialogOK /\ JobsOK /\ HistoryOK /\ RestOK
  BY TypeParts DEF IInv
<1>2. /\ Mounted /\ data[s[1]] # Gone /\ v # data[s[1]][s[2]]
      /\ data' = [data EXCEPT ![s[1]][s[2]] = v] /\ pending' = [pending EXCEPT ![s] = f]
      /\ job' \in Following(s, f)
      /\ typed' = typed \cup {<<<<Table, s[1]>>, s[2], v>>} /\ Gesture
      /\ UNCHANGED <<tabs, front, shown, mount, lastJob, strays, stained, updates, written>>
      /\ UNCHANGED <<db, apply, dialog, busy, hidden, nodes, selected, paste, pickHistory>>
  BY DEF Type, Editable, Present
<1>3. <<<<Table, s[1]>>, s[2], v>> \in Objects \X Cols \X Cells
  BY <1>1 DEF PageOK, Table, Tabs, Objects, Spots
<1>4. /\ f \in Edits \cup {None}
      /\ f = None => pending[s] # None /\ v = pending[s].from
      /\ f # None =>
           /\ f.at = s /\ f.to = v /\ f.from # v
           /\ f.from = IF pending[s] = None THEN data[s[1]][s[2]] ELSE pending[s].from
           /\ f.of = <<Table, s[1]>>
  BY <1>1, <1>2, ChangedFacts DEF IInv
<1>5. /\ pending' \in [Spots -> Edits \cup {None}] /\ pending'[s] = f
      /\ \A k \in Spots : k # s => pending'[k] = pending[k]
  BY <1>1, <1>2, <1>4 DEF CellsOK
<1>6. /\ data' \in Contents /\ data'[s[1]][s[2]] = v
      /\ \A i \in Rows : data'[i] = Gone <=> data[i] = Gone
      /\ \A k \in Spots : data[k[1]] # Gone /\ k # s => data'[k[1]][k[2]] = data[k[1]][k[2]]
  <2>1. data \in Contents /\ data[s[1]] # Gone
    BY <1>1, <1>2 DEF CellsOK
  <2>2. data' = PutAt(s, v)
    BY <1>2 DEF PutAt
  <2>3. IsPut(data', s, v)
    BY <2>1, <2>2, Puts
  <2> QED
    BY <2>3 DEF IsPut
<1>7. f # None => Meant(f)'
  BY <1>2, <1>4 DEF Meant
<1>8. /\ JobsOK'
      /\ \A j \in Jobs : /\ GoesOn(j) /\ job'[j].done = job[j].done /\ EditsGoOn(j)
                         /\ job[j].kind # "update" => job'[j] = job[j]
  <2>1. Alike(job', f)
    BY <1>1, <1>2, <1>4, FollowingIsAlike
  <2> QED
    BY <1>1, <1>2, <1>7, <2>1, AlikeKeeps
<1>9. PageOK' /\ CellsOK' /\ DialogOK'
  BY <1>1, <1>2, <1>5, <1>6 DEF PageOK, CellsOK, DialogOK
<1>10. HistoryOK' /\ RestOK'
  BY <1>1, <1>2, <1>3, GesturesOK DEF HistoryOK, RestOK, pickHistory, pasteHistory
<1>11. Mounted' = Mounted /\ Table' = Table
  BY <1>2 DEF Mounted, Table
<1>12. CellsAreHonest'
  <2>1. ASSUME NEW k \in Spots, Kept(k)', k # s
        PROVE  /\ Kept(k) /\ data'[k[1]][k[2]] = data[k[1]][k[2]]
               /\ pending'[k] = pending[k] /\ written'[k] = written[k]
    BY <1>2, <1>5, <1>6, <2>1 DEF Kept, Spots
  <2>2. ASSUME Kept(s)' PROVE Honest(s)'
    <3>1. Kept(s)
      BY <1>2, <2>2 DEF Kept
    <3>2. Honest(s)
      BY <1>2, <3>1, CellsByCell DEF IInv
    <3>3. Settled(s)' = Settled(s)
      BY <1>2 DEF Settled
    <3> QED
      BY <1>4, <1>5, <1>6, <1>11, <3>2, <3>3 DEF Honest
  <2> QED
    BY <1>2, <2>1, <2>2, CellsMove DEF IInv
<1>13. EditsAreTyped'
  <2>1. \A k \in Spots : \/ pending'[k] \in {pending[k], None}
                         \/ /\ pending'[k].at = k /\ Meant(pending[k])'
                            /\ Mounted' => pending'[k].of = <<Table, k[1]>>
    <3>1. pending'[s] = None \/ (pending'[s].at = s /\ Meant(pending[s])' /\ pending'[s].of = <<Table, s[1]>>)
      BY <1>4, <1>5, <1>7 DEF Meant
    <3> QED
      BY <1>5, <3>1
  <2> QED
    BY <1>2, <1>8, <1>11, <2>1, EditsMove DEF IInv
<1>14. OneBatchWorks'
  BY <1>2, <1>8, WorkStays DEF IInv
<1>15. SelectionIsFresh'
  <2>1. \A k \in GoneRows : data[k] = Gone => data'[k] = Gone
    BY <1>1, <1>6 DEF GoneRows, HistoryOK, Objects
  <2> QED
    BY <1>2, <1>8, <1>11, <2>1, SelectionRests DEF IInv, pickHistory
<1>16. PasteIsFresh'
  BY <1>2, <1>8, <1>11, PasteStays, KindsDiffer DEF IInv, pickHistory
<1> QED
  BY <1>8, <1>9, <1>10, <1>12, <1>13, <1>14, <1>15, <1>16, TypeParts DEF IInv

LEMMA RevertKeeps ==
  ASSUME IInv, Revert
  PROVE  IInv'
<1>1. PageOK /\ CellsOK /\ DialogOK /\ JobsOK /\ HistoryOK /\ RestOK
  BY TypeParts DEF IInv
<1>2. /\ data' = [i \in Rows |-> Reverted(i)] /\ pending' = NoEdits /\ apply' = "idle"
      /\ Gesture /\ job' \in Emptying
      /\ UNCHANGED <<tabs, front, shown, mount, lastJob, editHistory, pickHistory>>
      /\ UNCHANGED <<db, dialog, busy, hidden, nodes, selected, paste>>
  BY DEF Revert
<1>3. /\ pending \in [Spots -> Edits \cup {None}] /\ Gone \notin [Cols -> Cells]
      /\ data \in [Rows -> [Cols -> Cells] \cup {Gone}]
  BY <1>1, ResultGridAssumption DEF CellsOK, Contents
<1>4. ASSUME NEW i \in Rows
      PROVE  /\ data'[i] \in [Cols -> Cells] \cup {Gone} /\ (data'[i] = Gone <=> data[i] = Gone)
             /\ \A c \in Cols : data[i] # Gone =>
                  data'[i][c] = IF pending[<<i, c>>] = None THEN data[i][c]
                                ELSE pending[<<i, c>>].from
  <2>1. CASE data[i] = Gone
    BY <1>2, <2>1 DEF Reverted
  <2>2. CASE data[i] # Gone
    <3>1. ASSUME NEW c \in Cols
          PROVE  (IF pending[<<i, c>>] = None THEN data[i][c] ELSE pending[<<i, c>>].from) \in Cells
      <4>1. <<i, c>> \in Spots
        BY DEF Spots
      <4> QED
        BY <1>3, <2>2, <4>1 DEF Edits
    <3>2. data'[i] = [c \in Cols |-> IF pending[<<i, c>>] = None THEN data[i][c]
                                     ELSE pending[<<i, c>>].from]
      BY <1>2, <2>2 DEF Reverted
    <3>3. data'[i] \in [Cols -> Cells]
      BY <3>1, <3>2
    <3> QED
      BY <1>3, <2>2, <3>2, <3>3
  <2> QED
    BY <2>1, <2>2
<1>5. Alike(job', None)
  BY <1>1, <1>2, EmptyingIsAlike
<1>6. /\ JobsOK'
      /\ \A j \in Jobs : /\ GoesOn(j) /\ job'[j].done = job[j].done /\ EditsGoOn(j)
                         /\ job[j].kind # "update" => job'[j] = job[j]
  BY <1>1, <1>2, <1>5, AlikeKeeps
<1>7. PageOK' /\ CellsOK' /\ DialogOK' /\ HistoryOK' /\ RestOK'
  <2>1. data' \in Contents /\ pending' \in [Spots -> Edits \cup {None}]
    BY <1>2, <1>4 DEF NoEdits, Contents
  <2> QED
    BY <1>1, <1>2, <2>1, GesturesOK
       DEF PageOK, CellsOK, DialogOK, HistoryOK, RestOK, editHistory, pickHistory, pasteHistory
<1>8. Mounted' = Mounted /\ Table' = Table
  BY <1>2 DEF Mounted, Table
<1>9. CellsAreHonest'
  <2>1. ASSUME NEW s \in Spots, Mounted, Kept(s)' PROVE Honest(s)'
    <3>1. s[1] \in Rows /\ s[2] \in Cols /\ s = <<s[1], s[2]>>
      BY DEF Spots
    <3>2. Kept(s)
      BY <1>2, <1>4, <2>1, <3>1 DEF Kept, editHistory
    <3>3. Honest(s)
      BY <2>1, <3>2, CellsByCell DEF IInv
    <3>4. Settled(s)' = Settled(s) /\ pending'[s] = None
      BY <1>2 DEF Settled, editHistory, NoEdits
    <3>5. data'[s[1]][s[2]] = IF pending[s] = None THEN data[s[1]][s[2]] ELSE pending[s].from
      BY <1>4, <3>1, <3>2 DEF Kept
    <3> QED
      BY <3>3, <3>4, <3>5 DEF Honest
  <2> QED
    BY <1>2, <2>1, CellsMove DEF IInv
<1>10. EditsAreTyped'
  BY <1>2, <1>6, <1>8, EditsMove DEF IInv, NoEdits, editHistory
<1>11. OneBatchWorks'
  BY <1>2, <1>6, WorkStays DEF IInv
<1>12. SelectionIsFresh'
  <2>1. GoneRows \subseteq Rows
    BY <1>1 DEF GoneRows, HistoryOK, Objects
  <2> QED
    BY <1>2, <1>4, <1>6, <1>8, <2>1, SelectionRests DEF IInv, pickHistory
<1>13. PasteIsFresh'
  BY <1>2, <1>6, <1>8, PasteStays, KindsDiffer DEF IInv, pickHistory
<1> QED
  BY <1>6, <1>7, <1>9, <1>10, <1>11, <1>12, <1>13, TypeParts DEF IInv

LEMMA PreviewKeeps ==
  ASSUME IInv, Preview \/ Dismiss
  PROVE  IInv'
<1>1. CellsOK /\ DialogOK /\ HistoryOK /\ RestOK
  BY TypeParts DEF IInv
<1>2. /\ apply' \in {"idle", "previewing"}
      /\ UNCHANGED <<db, tabs, front, shown, mount, data, pending, dialog, busy, hidden>>
      /\ UNCHANGED <<nodes, selected, paste, job, lastJob, editHistory, pickHistory, gestures>>
  BY DEF Preview, Dismiss
<1>3. CellsOK' /\ DialogOK' /\ HistoryOK' /\ RestOK'
  BY <1>1, <1>2, GesturesOK
     DEF CellsOK, DialogOK, HistoryOK, RestOK, editHistory, pickHistory, pasteHistory
<1>4. CellsAreHonest'
  BY <1>2, CellsStay DEF IInv, editHistory
<1>5. EditsAreTyped' /\ OneBatchWorks'
  BY <1>2, EditsStay, WorkStays, NoBatchMoves, SameShown DEF IInv, editHistory
<1>6. SelectionIsFresh' /\ PasteIsFresh'
  BY <1>2, SelectionRests, PasteStays, SameShown DEF IInv, pickHistory
<1> QED
  BY <1>2, <1>3, <1>4, <1>5, <1>6, GestureKeeps

\* Whatever rows that are there are picked: those that a batch deleted are not.
LEMMA PicksKeeps ==
  ASSUME IInv, Mounted, NEW ns \in SUBSET Rows, \A i \in ns : data[i] # Gone \/ i \in nodes,
         Picks(ns)
  PROVE  IInv'
<1>1. PageOK /\ CellsOK /\ DialogOK /\ HistoryOK /\ RestOK
  BY TypeParts DEF IInv
<1>2. Table \in Tables
  BY <1>1 DEF PageOK, Table, Tabs
<1>3. /\ nodes' = ns /\ selected' = {Table} \X ns /\ picked' = picked \cup ({Table} \X ns)
      /\ Gesture
      /\ UNCHANGED <<db, tabs, front, shown, mount, data, pending, apply, dialog, busy, hidden>>
      /\ UNCHANGED <<paste, job, lastJob, editHistory, deletes, removed, again, pasteHistory>>
  BY DEF Picks, Reported
<1>4. {Table} \X ns \subseteq Objects
  BY <1>2 DEF Objects
<1>5. CellsOK' /\ DialogOK' /\ HistoryOK' /\ RestOK'
  BY <1>1, <1>3, <1>4, GesturesOK
     DEF CellsOK, DialogOK, HistoryOK, RestOK, editHistory, pasteHistory
<1>6. CellsAreHonest'
  BY <1>3, CellsStay DEF IInv, editHistory
<1>7. EditsAreTyped' /\ OneBatchWorks'
  BY <1>3, EditsStay, WorkStays, NoBatchMoves, SameShown DEF IInv, editHistory
<1>8. SelectionIsFresh'
  <2>1. GoneRows' = GoneRows /\ \A i \in GoneRows : i \notin ns /\ data[i] = Gone
    BY <1>3 DEF GoneRows, IInv, SelectionIsFresh
  <2>2. \A o \in selected' : o[1] = Table /\ o[2] \in ns
    BY <1>3
  <2>3. \A j \in Jobs : Working(j)' = Working(j)
    BY <1>3, SameShown
  <2> QED
    BY <1>3, <2>1, <2>2, <2>3 DEF IInv, SelectionIsFresh
<1>9. PasteIsFresh'
  BY <1>3, PasteStays, SameShown DEF IInv
<1> QED
  BY <1>3, <1>5, <1>6, <1>7, <1>8, <1>9, GestureKeeps

LEMMA SelectsKeeps ==
  ASSUME IInv, SelectAll \/ \E ns \in SUBSET Rows : SelectRange(ns)
  PROVE  IInv'
<1>1. nodes \subseteq Rows
  BY DEF IInv, TypeOK
<1>2. CASE SelectAll
  <2>1. Mounted /\ (Picks({}) \/ Picks(Present(data)))
    BY <1>2 DEF SelectAll
  <2> QED
    BY <2>1, PicksKeeps DEF Present
<1>3. ASSUME NEW ns \in SUBSET Rows, SelectRange(ns)
      PROVE  IInv'
  <2>1. Mounted /\ Picks(ns \cup (nodes \cap hidden)) /\ ns \subseteq Present(data)
    BY <1>3 DEF SelectRange, Editable
  <2> QED
    BY <1>1, <2>1, PicksKeeps DEF Present
<1> QED
  BY <1>2, <1>3

LEMMA SearchKeeps ==
  ASSUME IInv, NEW h \in SUBSET Rows, Search(h)
  PROVE  IInv'
<1>1. CellsOK /\ DialogOK /\ HistoryOK /\ RestOK
  BY TypeParts DEF IInv
<1>2. /\ hidden' = h /\ Gesture
      /\ UNCHANGED <<db, tabs, front, shown, mount, data, pending, apply, dialog, busy, nodes>>
      /\ UNCHANGED <<selected, paste, job, lastJob, editHistory, pickHistory>>
  BY DEF Search
<1>3. CellsOK' /\ DialogOK' /\ HistoryOK' /\ RestOK'
  BY <1>1, <1>2, GesturesOK
     DEF CellsOK, DialogOK, HistoryOK, RestOK, editHistory, pickHistory, pasteHistory
<1>4. CellsAreHonest'
  BY <1>2, CellsStay DEF IInv, editHistory
<1>5. EditsAreTyped' /\ OneBatchWorks'
  BY <1>2, EditsStay, WorkStays, NoBatchMoves, SameShown DEF IInv, editHistory
<1>6. SelectionIsFresh' /\ PasteIsFresh'
  BY <1>2, SelectionRests, PasteStays, SameShown DEF IInv, pickHistory
<1> QED
  BY <1>2, <1>3, <1>4, <1>5, <1>6, GestureKeeps

\* A dialog opens, is filled in or closes only while its batch is not at work.
LEMMA DialogsKeep ==
  ASSUME IInv,
         (\E d \in Dialogs : Opens(d)) \/ Closes \/ (\E ls \in SUBSET Lines : Pastes(ls))
  PROVE  IInv'
<1>1. CellsOK /\ DialogOK /\ HistoryOK /\ RestOK
  BY TypeParts DEF IInv
<1>2. /\ dialog' \in {None, "delete", "insert", "bulk"} /\ paste' \subseteq Lines
      /\ pasteHistory' = pasteHistory \/ pasteHistory' = <<{}, {}, {}>>
      /\ \A j \in Jobs : ~Working(j)
      /\ gestures' = gestures \/ Gesture
      /\ UNCHANGED <<db, tabs, front, shown, mount, data, pending, apply, busy, hidden>>
      /\ UNCHANGED <<nodes, selected, job, lastJob, editHistory>>
      /\ UNCHANGED <<picked, deletes, removed, again>>
  <2>1. CASE \E d \in Dialogs : Opens(d)
    BY <1>1, <2>1 DEF Opens, Modal, Dialogs, DialogOK, pickHistory, IInv, OneBatchWorks
  <2>2. CASE Closes
    BY <1>1, <2>2 DEF Closes, IInv, OneBatchWorks, pasteHistory
  <2>3. CASE \E ls \in SUBSET Lines : Pastes(ls)
    BY <1>1, <2>3 DEF Pastes, DialogOK, pickHistory, IInv, OneBatchWorks
  <2> QED
    BY <2>1, <2>2, <2>3
<1>3. CellsOK' /\ DialogOK' /\ HistoryOK' /\ RestOK'
  BY <1>1, <1>2, GesturesOK
     DEF CellsOK, DialogOK, HistoryOK, RestOK, editHistory, pasteHistory
<1>4. CellsAreHonest'
  BY <1>2, CellsStay DEF IInv, editHistory
<1>5. EditsAreTyped'
  BY <1>2, EditsStay, NoBatchMoves, SameShown DEF IInv, editHistory
<1>6. OneBatchWorks'
  BY <1>2, SameShown DEF OneBatchWorks
<1>7. SelectionIsFresh'
  BY <1>2, SelectionRests, SameShown DEF IInv
<1>8. PasteIsFresh'
  BY <1>2, SameShown DEF IInv, PasteIsFresh, pasteHistory
<1> QED
  BY <1>2, <1>3, <1>4, <1>5, <1>6, <1>7, <1>8, GestureKeeps

-----------------------------------------------------------------------------
(* A batch begins.                                                         *)

\* The batch that begins takes a number that no other has.
LEMMA StartsTyped ==
  ASSUME PageOK, JobsOK, NEW kind, NEW things, NEW todo, todo \subseteq things,
         Starts(kind, todo), UNCHANGED <<tabs, front, shown, mount>>,
         Batches(kind, things) \subseteq AnyBatch
  PROVE  /\ JobsOK' /\ lastJob' \in Jobs
         /\ job[lastJob'] = NoJob
         /\ LET b == job'[lastJob'] IN
            b.kind = kind /\ b.shown = shown /\ b.todo = todo /\ b.done = {}
         /\ \A j \in Jobs : j # lastJob' => job'[j] = job[j]
<1> DEFINE new == [kind |-> kind, table |-> Table, shown |-> shown, todo |-> todo,
                   done |-> {}, bad |-> {}, loose |-> {}]
<1>1. /\ lastJob \in 0..MaxJobs /\ lastJob < MaxJobs /\ lastJob' = lastJob + 1
      /\ job' = [job EXCEPT ![lastJob'] = new]
  BY DEF Starts, JobsOK
<1>2. lastJob' \in Jobs /\ lastJob' \in 0..MaxJobs /\ lastJob' > lastJob
  BY <1>1, Numbers DEF Jobs
<1>3. new \in AnyBatch
  <2>1. Table \in Tables /\ shown \in 1..MaxShown
    BY DEF PageOK, Table, Tabs
  <2> QED
    BY <2>1 DEF Batches
<1>4. job \in [Jobs -> AnyBatch]
  BY DEF JobsOK
<1>5. job' \in [Jobs -> AnyBatch] /\ job'[lastJob'] = new
      /\ \A j \in Jobs : j # lastJob' => job'[j] = job[j]
  BY <1>1, <1>2, <1>3, <1>4
<1>6. \A j \in Jobs : job'[j].shown <= shown' /\ (j > lastJob' => job'[j] = NoJob)
  <2>1. shown \in Nat /\ shown' = shown
    BY Numbers DEF PageOK
  <2>2. ASSUME NEW j \in Jobs PROVE job'[j].shown <= shown' /\ (j > lastJob' => job'[j] = NoJob)
    <3>1. CASE j = lastJob'
      BY <1>1, <1>5, <2>1, <3>1, <1>2
    <3>2. CASE j # lastJob'
      <4>1. j > lastJob' => j > lastJob
        BY <1>1, <1>2, Numbers DEF Jobs
      <4> QED
        BY <1>5, <2>1, <3>2, <4>1 DEF JobsOK
    <3> QED
      BY <3>1, <3>2
  <2> QED
    BY <2>2
<1> QED
  BY <1>2, <1>5, <1>6 DEF JobsOK

LEMMA ApplyKeeps ==
  ASSUME IInv, Apply
  PROVE  IInv'
<1> DEFINE todo == {pending[s] : s \in Spots} \ {None}
<1>1. PageOK /\ CellsOK /\ DialogOK /\ JobsOK /\ HistoryOK /\ RestOK
  BY TypeParts DEF IInv
<1>2. /\ Mounted /\ apply' = "applying" /\ Starts("update", todo)
      /\ UNCHANGED <<db, tabs, front, shown, mount, data, pending, dialog, busy, hidden>>
      /\ UNCHANGED <<nodes, selected, paste, editHistory, pickHistory, gestures>>
  BY DEF Apply, Editable
<1>3. todo \subseteq Edits
  BY <1>1 DEF CellsOK
<1>4. /\ JobsOK' /\ lastJob' \in Jobs /\ job[lastJob'] = NoJob
      /\ job'[lastJob'].kind = "update" /\ job'[lastJob'].todo = todo
      /\ job'[lastJob'].done = {} /\ job'[lastJob'].shown = shown
      /\ \A j \in Jobs : j # lastJob' => job'[j] = job[j]
  BY <1>1, <1>2, <1>3, StartsTyped DEF AnyBatch
<1>5. PageOK' /\ CellsOK' /\ DialogOK' /\ HistoryOK' /\ RestOK'
  BY <1>1, <1>2
     DEF PageOK, CellsOK, DialogOK, HistoryOK, RestOK, editHistory, pickHistory, pasteHistory
<1>6. Mounted' = Mounted /\ Table' = Table
  BY <1>2 DEF Mounted, Table
<1>7. CellsAreHonest'
  BY <1>2, CellsStay DEF IInv, editHistory
<1>8. EditsAreTyped'
  <2>1. \A e \in todo : Meant(e)
    BY DEF IInv, EditsAreTyped
  <2>2. \A e : Meant(e)' <=> Meant(e)
    BY <1>2 DEF Meant, editHistory
  <2>3. \A s \in Spots : pending[s] # None => Meant(pending[s]) /\ Meant(pending[s])'
    BY <1>2 DEF IInv, EditsAreTyped, Meant, editHistory
  <2> QED
    BY <1>2, <1>4, <1>6, <2>1, <2>2, <2>3 DEF IInv, EditsAreTyped
<1>9. \A j \in Jobs : Working(j)' = Working(j)
  BY <1>2, <1>4, NoJobFields, KindsDiffer DEF Working
<1>10. OneBatchWorks'
  BY <1>2, <1>9 DEF IInv, OneBatchWorks
<1>11. SelectionIsFresh'
  <2>1. GoneRows' = GoneRows
    BY <1>2 DEF GoneRows, pickHistory
  <2>2. \A j \in Jobs : job'[j].kind = "delete" \/ job[j].kind = "delete" => job'[j] = job[j]
    BY <1>4, NoJobFields, KindsDiffer
  <2> QED
    BY <1>2, <1>6, <1>9, <2>1, <2>2 DEF IInv, SelectionIsFresh
<1>12. PasteIsFresh'
  <2>1. \A j \in Jobs : job[j].kind = "bulk" => job'[j] = job[j]
    BY <1>4, NoJobFields, KindsDiffer
  <2>2. \A j \in Jobs : job'[j].kind = "bulk" => job'[j].todo \cap job'[j].done = {}
    BY <1>4 DEF IInv, PasteIsFresh
  <2>3. UNCHANGED <<landed, unheard, doubled>>
    BY <1>2 DEF pickHistory, pasteHistory
  <2> QED
    BY <1>6, <1>9, <2>1, <2>2, <2>3 DEF IInv, PasteIsFresh
<1> QED
  BY <1>4, <1>5, <1>7, <1>8, <1>10, <1>11, <1>12, TypeParts DEF IInv

\* A dialog's batch begins when no other works: there is nothing it could send
\* again.
LEMMA ConfirmKeeps ==
  ASSUME IInv, Confirm
  PROVE  IInv'
<1>1. PageOK /\ CellsOK /\ DialogOK /\ JobsOK /\ HistoryOK /\ RestOK
  BY TypeParts DEF IInv
<1>2. /\ Mounted /\ dialog # None /\ ~busy /\ busy' = TRUE
      /\ UNCHANGED <<db, tabs, front, shown, mount, data, pending, apply, dialog, hidden>>
      /\ UNCHANGED <<nodes, selected, paste, editHistory, pickHistory, gestures>>
  BY DEF Confirm, Editable
<1>3. /\ JobsOK' /\ lastJob' \in Jobs /\ job[lastJob'] = NoJob
      /\ job'[lastJob'].kind \in Dialogs /\ job'[lastJob'].shown = shown
      /\ job'[lastJob'].done = {}
      /\ job'[lastJob'].kind = "delete" => job'[lastJob'].todo = selected
      /\ \A j \in Jobs : j # lastJob' => job'[j] = job[j]
  <2>1. CASE Starts("delete", selected)
    <3>1. selected \subseteq Objects
      BY <1>1 DEF DialogOK
    <3> QED
      BY <1>1, <1>2, <2>1, <3>1, StartsTyped DEF AnyBatch, Dialogs
  <2>2. CASE Starts("insert", {})
    <3>1. lastJob' \in Jobs /\ job'[lastJob'].kind = "insert"
      BY <1>1, <1>2, <2>2, StartsTyped DEF AnyBatch
    <3> QED
      BY <1>1, <1>2, <2>2, <3>1, StartsTyped, KindsDiffer DEF AnyBatch, Dialogs
  <2>3. CASE Starts("bulk", paste)
    <3>1. paste \subseteq Lines
      BY <1>1 DEF DialogOK
    <3>2. lastJob' \in Jobs /\ job'[lastJob'].kind = "bulk"
      BY <1>1, <1>2, <2>3, <3>1, StartsTyped DEF AnyBatch
    <3> QED
      BY <1>1, <1>2, <2>3, <3>1, <3>2, StartsTyped, KindsDiffer DEF AnyBatch, Dialogs
  <2> QED
    BY <2>1, <2>2, <2>3 DEF Confirm
<1>4. PageOK' /\ CellsOK' /\ DialogOK' /\ HistoryOK' /\ RestOK'
  BY <1>1, <1>2
     DEF PageOK, CellsOK, DialogOK, HistoryOK, RestOK, editHistory, pickHistory, pasteHistory
<1>5. Mounted' = Mounted /\ Table' = Table
  BY <1>2 DEF Mounted, Table
<1>6. CellsAreHonest'
  BY <1>2, CellsStay DEF IInv, editHistory
<1>7. EditsAreTyped'
  <2>1. \A j \in Jobs : EditsGoOn(j)
    BY <1>3, KindsDiffer DEF Dialogs, EditsGoOn
  <2> QED
    BY <1>2, <1>5, <2>1, EditsStay DEF IInv, editHistory
<1>8. \A j \in Jobs : ~Working(j)
  BY <1>2 DEF IInv, OneBatchWorks
<1>9. \A j \in Jobs : Working(j)' => j = lastJob'
  BY <1>2, <1>3, <1>8 DEF Working
<1>10. OneBatchWorks'
  BY <1>2, <1>9 DEF OneBatchWorks
<1>11. SelectionIsFresh'
  <2>1. GoneRows' = GoneRows
    BY <1>2 DEF GoneRows, pickHistory
  <2>2. \A o \in selected : o[2] \notin GoneRows
    BY <1>2, <1>8 DEF IInv, SelectionIsFresh
  <2>3. \A o, p \in selected : o[1] = p[1]
    BY DEF IInv, SelectionIsFresh
  <2>4. ASSUME NEW j \in Jobs, job'[j].kind = "delete"
        PROVE  /\ \A o, p \in job'[j].todo : o[1] = p[1]
               /\ Working(j)' => \A o \in job'[j].todo : o[2] \notin GoneRows
    <3>1. CASE j = lastJob'
      BY <1>3, <2>2, <2>3, <2>4, <3>1
    <3>2. CASE j # lastJob'
      BY <1>3, <1>9, <2>4, <3>2 DEF IInv, SelectionIsFresh
    <3> QED
      BY <3>1, <3>2
  <2>5. Mounted => \A i \in GoneRows : data[i] = Gone /\ i \notin nodes
    BY DEF IInv, SelectionIsFresh
  <2> QED
    BY <1>2, <1>5, <2>1, <2>2, <2>3, <2>4, <2>5 DEF SelectionIsFresh
<1>12. PasteIsFresh'
  <2>1. landed = {} /\ UNCHANGED <<landed, unheard, doubled>>
    BY <1>2, <1>8 DEF IInv, PasteIsFresh, pickHistory, pasteHistory
  <2>2. \A j \in Jobs : job'[j].kind = "bulk" => job'[j].todo \cap job'[j].done = {}
    BY <1>3 DEF IInv, PasteIsFresh
  <2> QED
    BY <2>1, <2>2 DEF IInv, PasteIsFresh
<1> QED
  BY <1>3, <1>4, <1>6, <1>7, <1>10, <1>11, <1>12, TypeParts DEF IInv

-----------------------------------------------------------------------------
(* A batch goes on.                                                        *)

\* One batch becomes c.
LEMMA OneMoves ==
  ASSUME PageOK, JobsOK, NEW j \in Jobs, NEW c \in AnyBatch, job' = [job EXCEPT ![j] = c],
         c = NoJob \/ (c.shown = job[j].shown /\ job[j] # NoJob), UNCHANGED <<shown, lastJob>>
  PROVE  JobsOK' /\ job'[j] = c /\ \A k \in Jobs : k # j => job'[k] = job[k]
<1>1. job \in [Jobs -> AnyBatch]
  BY DEF JobsOK
<1>2. job' \in [Jobs -> AnyBatch] /\ job'[j] = c /\ \A k \in Jobs : k # j => job'[k] = job[k]
  BY <1>1
<1>3. ASSUME NEW k \in Jobs
      PROVE  job'[k].shown <= shown' /\ (k > lastJob' => job'[k] = NoJob)
  <2>1. CASE k # j
    BY <1>2, <2>1 DEF JobsOK
  <2>2. CASE k = j /\ c = NoJob
    <3>1. shown \in Nat
      BY Numbers DEF PageOK
    <3> QED
      BY <1>2, <2>2, <3>1, NoJobFields
  <2>3. CASE k = j /\ c # NoJob
    BY <1>2, <2>3 DEF JobsOK
  <2> QED
    BY <2>1, <2>2, <2>3
<1> QED
  BY <1>2, <1>3 DEF JobsOK

\* j has one thing less to do; x is refused or done.
LEMMA JobSteps ==
  ASSUME PageOK, JobsOK, NEW j \in Jobs, job[j].kind \in {"update", "delete", "bulk"},
         NEW x \in job[j].todo,
         \/ job' = [job EXCEPT ![j].todo = @ \ {x}, ![j].bad = @ \cup {x}]
         \/ job' = [job EXCEPT ![j].todo = @ \ {x}, ![j].done = @ \cup {x}]
         \/ job' = [job EXCEPT ![j].bad = {x}],
         UNCHANGED <<shown, lastJob>>
  PROVE  /\ JobsOK' /\ GoesOn(j) /\ EditsGoOn(j)
         /\ \/ job'[j].done = job[j].done
            \/ job'[j].done = job[j].done \cup {x} /\ job'[j].todo = job[j].todo \ {x}
         /\ \A k \in Jobs : k # j => job'[k] = job[k]
<1> DEFINE b == job[j]
<1>1. b \in AnyBatch /\ b # NoJob /\ job \in [Jobs -> AnyBatch]
  BY NoJobFields, KindsDiffer DEF JobsOK
<1>2. PICK things : b \in Batches(b.kind, things) /\ Batches(b.kind, things) \subseteq AnyBatch
  <2>1. CASE b.kind = "update"
    BY <1>1, <2>1, BatchTypes DEF AnyBatch
  <2>2. CASE b.kind = "delete"
    BY <1>1, <2>2, BatchTypes DEF AnyBatch
  <2>3. CASE b.kind = "bulk"
    BY <1>1, <2>3, BatchTypes DEF AnyBatch
  <2> QED
    BY <2>1, <2>2, <2>3
<1>3. ASSUME NEW c \in AnyBatch, job' = [job EXCEPT ![j] = c],
             c.kind = b.kind, c.shown = b.shown, c.todo \subseteq b.todo,
             c.done = b.done \/ (c.done = b.done \cup {x} /\ c.todo = b.todo \ {x})
      PROVE  /\ JobsOK' /\ GoesOn(j) /\ EditsGoOn(j)
             /\ \/ job'[j].done = job[j].done
                \/ job'[j].done = job[j].done \cup {x} /\ job'[j].todo = job[j].todo \ {x}
             /\ \A k \in Jobs : k # j => job'[k] = job[k]
  <2>1. JobsOK' /\ job'[j] = c /\ \A k \in Jobs : k # j => job'[k] = job[k]
    BY <1>1, <1>3, OneMoves
  <2> QED
    BY <1>3, <2>1 DEF GoesOn, EditsGoOn
<1>4. CASE job' = [job EXCEPT ![j].todo = @ \ {x}, ![j].bad = @ \cup {x}]
  <2> DEFINE c == [b EXCEPT !.todo = @ \ {x}, !.bad = @ \cup {x}]
  <2>1. job' = [job EXCEPT ![j] = c]
    BY <1>4, <1>1
  <2>2. c \in AnyBatch
    BY <1>2, BatchSteps
  <2>3. /\ c.kind = b.kind /\ c.shown = b.shown /\ c.todo \subseteq b.todo
        /\ c.done = b.done \/ (c.done = b.done \cup {x} /\ c.todo = b.todo \ {x})
    BY <1>1, BatchFields
  <2> HIDE DEF c
  <2> QED
    BY <1>3, <2>1, <2>2, <2>3
<1>5. CASE job' = [job EXCEPT ![j].todo = @ \ {x}, ![j].done = @ \cup {x}]
  <2> DEFINE c == [b EXCEPT !.todo = @ \ {x}, !.done = @ \cup {x}]
  <2>1. job' = [job EXCEPT ![j] = c]
    BY <1>5, <1>1
  <2>2. c \in AnyBatch
    BY <1>2, BatchSteps
  <2>3. /\ c.kind = b.kind /\ c.shown = b.shown /\ c.todo \subseteq b.todo
        /\ c.done = b.done \/ (c.done = b.done \cup {x} /\ c.todo = b.todo \ {x})
    BY <1>1, BatchFields
  <2> HIDE DEF c
  <2> QED
    BY <1>3, <2>1, <2>2, <2>3
<1>6. CASE job' = [job EXCEPT ![j].bad = {x}]
  <2> DEFINE c == [b EXCEPT !.bad = {x}]
  <2>1. job' = [job EXCEPT ![j] = c]
    BY <1>6
  <2>2. c \in AnyBatch
    BY <1>2, BatchSteps
  <2>3. /\ c.kind = b.kind /\ c.shown = b.shown /\ c.todo \subseteq b.todo
        /\ c.done = b.done \/ (c.done = b.done \cup {x} /\ c.todo = b.todo \ {x})
    BY <1>1, BatchFields
  <2> HIDE DEF c
  <2> QED
    BY <1>3, <2>1, <2>2, <2>3
<1> QED
  BY <1>4, <1>5, <1>6

LEMMA JobEnds ==
  ASSUME PageOK, JobsOK, NEW j \in Jobs, job' = [job EXCEPT ![j] = NoJob],
         UNCHANGED <<shown, lastJob>>
  PROVE  JobsOK' /\ Ended(j) /\ \A k \in Jobs : k # j => job'[k] = job[k]
BY OneMoves, NoJobFields DEF Ended

-----------------------------------------------------------------------------
(* The answers to UPDATEs.                                                 *)

\* j has done e, and others may have f to do.
LEMMA StepsAmongAlike ==
  ASSUME PageOK, JobsOK, NEW j \in Jobs, job[j].kind = "update", NEW e \in job[j].todo,
         NEW f, f # None => Meant(f)', NEW jobs, Alike(jobs, f),
         job' = [jobs EXCEPT ![j] = [job[j] EXCEPT !.todo = @ \ {e}, !.done = @ \cup {e}]],
         UNCHANGED <<shown, lastJob>>
  PROVE  /\ JobsOK'
         /\ \A k \in Jobs : /\ GoesOn(k) /\ EditsGoOn(k)
                            /\ job[k].kind # "update" => job'[k] = job[k]
<1> DEFINE c == [job[j] EXCEPT !.todo = @ \ {e}, !.done = @ \cup {e}]
<1>1. job[j] \in AnyBatch /\ job[j] \in Batches("update", Edits)
  BY BatchTypes DEF JobsOK
<1>2. c \in AnyBatch
  BY <1>1, BatchSteps DEF AnyBatch
<1>3. c.kind = "update" /\ c.shown = job[j].shown /\ c.todo = job[j].todo \ {e}
  BY <1>1, BatchFields
<1>4. job' = [jobs EXCEPT ![j] = c]
  OBVIOUS
<1> HIDE DEF c
<1>5. jobs \in [Jobs -> AnyBatch]
  BY DEF Alike
<1>6. job' \in [Jobs -> AnyBatch] /\ job'[j] = c /\ \A k \in Jobs : k # j => job'[k] = jobs[k]
  BY <1>2, <1>4, <1>5
<1>7. ASSUME NEW k \in Jobs
      PROVE  /\ GoesOn(k) /\ EditsGoOn(k)
             /\ job[k].kind # "update" => job'[k] = job[k]
  <2>1. CASE k = j
    BY <1>3, <1>6, <2>1 DEF GoesOn, EditsGoOn
  <2>2. CASE k # j
    BY <1>6, <2>2 DEF GoesOn, EditsGoOn, Alike
  <2> QED
    BY <2>1, <2>2
<1>8. \A k \in Jobs : job'[k].shown <= shown' /\ (k > lastJob' => job'[k] = NoJob)
  BY <1>7, NoJobFields, KindsDiffer DEF JobsOK, GoesOn
<1> QED
  BY <1>6, <1>7, <1>8 DEF JobsOK

\* What there is to show of such an answer.
AnswerRests ==
  /\ CellsOK' /\ CellsAreHonest' /\ EditsAreTyped' /\ JobsOK'
  /\ strays \subseteq strays' /\ strays' \subseteq Objects \X Cols \X Cells
  /\ \A i \in Rows : data'[i] = Gone <=> data[i] = Gone
  /\ \A k \in Jobs : GoesOn(k) /\ (job[k].kind # "update" => job'[k] = job[k])

LEMMA EditParts ==
  ASSUME JobsOK, NEW j \in Jobs, job[j].kind = "update", NEW e \in job[j].todo
  PROVE  /\ e \in Edits /\ e.at \in Spots /\ e.at[1] \in Rows /\ e.at[2] \in Cols
         /\ e.of \in Objects /\ e.to \in Cells
<1>1. e \in Edits
  BY BatchTypes DEF JobsOK
<1> QED
  BY <1>1 DEF Edits, Spots

\* It is shown in the result of its batch: the cell holds what was written.
LEMMA OwnAnswerRests ==
  ASSUME IInv, NEW j \in Jobs, job[j].kind = "update", NEW e \in job[j].todo,
         Reaches(j), Shown(j, e), AtWork(j), e.at[1] \notin job[j].loose,
         UNCHANGED <<tabs, front, shown, mount, apply, lastJob, typed>>
  PROVE  AnswerRests
<1> PICK s : s = e.at
  OBVIOUS
<1>1. PageOK /\ CellsOK /\ JobsOK /\ HistoryOK
  BY TypeParts DEF IInv
<1>2. s \in Spots /\ s[1] \in Rows /\ s[2] \in Cols /\ e.to \in Cells
  BY <1>1, EditParts
<1>3. /\ data' = IF data[s[1]] # Gone THEN PutAt(s, e.to) ELSE data
      /\ pending' = [pending EXCEPT ![s] = None]
      /\ written' = IF data[s[1]] # Gone THEN [written EXCEPT ![s] = e.to] ELSE written
      /\ job' = [job EXCEPT ![j].todo = @ \ {e}, ![j].done = @ \cup {e}]
      /\ UNCHANGED <<strays, stained>>
  BY DEF Shown, PutAt
<1>4. /\ data' \in Contents
      /\ \A i \in Rows : data'[i] = Gone <=> data[i] = Gone
      /\ \A t \in Spots : data[t[1]] # Gone /\ t # s => data'[t[1]][t[2]] = data[t[1]][t[2]]
      /\ data[s[1]] # Gone => data'[s[1]][s[2]] = e.to
  <2>1. data \in Contents
    BY <1>1 DEF CellsOK
  <2>2. CASE data[s[1]] # Gone
    <3>1. IsPut(data', s, e.to)
      BY <1>2, <1>3, <2>1, <2>2, Puts
    <3> QED
      BY <3>1 DEF IsPut
  <2>3. CASE data[s[1]] = Gone
    BY <1>3, <2>1, <2>3
  <2> QED
    BY <2>2, <2>3
<1>5. /\ pending' \in [Spots -> Edits \cup {None}] /\ written' \in [Spots -> Cells \cup {None}]
      /\ pending'[s] = None /\ (data[s[1]] # Gone => written'[s] = e.to)
      /\ \A t \in Spots : t # s => pending'[t] = pending[t] /\ written'[t] = written[t]
  BY <1>1, <1>2, <1>3 DEF CellsOK
<1>6. CellsOK'
  BY <1>1, <1>3, <1>4, <1>5 DEF CellsOK
<1>7. JobsOK' /\ GoesOn(j) /\ EditsGoOn(j) /\ \A k \in Jobs : k # j => job'[k] = job[k]
  BY <1>1, <1>3, JobSteps
<1>8. \A k \in Jobs : GoesOn(k) /\ EditsGoOn(k) /\ (job[k].kind # "update" => job'[k] = job[k])
  BY <1>7 DEF GoesOn, EditsGoOn
<1>9. CellsAreHonest'
  <2>1. ASSUME NEW t \in Spots, Kept(t)', t # s
        PROVE  /\ Kept(t) /\ data'[t[1]][t[2]] = data[t[1]][t[2]]
               /\ pending'[t] = pending[t] /\ written'[t] = written[t]
    BY <1>3, <1>4, <1>5, <2>1 DEF Kept, Spots
  <2>2. ASSUME Kept(s)' PROVE Honest(s)'
    <3>1. data[s[1]] # Gone
      BY <1>2, <1>4, <2>2 DEF Kept
    <3>2. Settled(s)' = e.to
      BY <1>2, <1>5, <3>1, ResultGridAssumption DEF Settled
    <3> QED
      BY <1>4, <1>5, <3>1, <3>2 DEF Honest
  <2> QED
    BY <2>1, <2>2, CellsMove DEF IInv
<1>10. EditsAreTyped'
  <2>1. Mounted' = Mounted /\ Table' = Table
    BY DEF Mounted, Table
  <2>2. \A t \in Spots : pending'[t] \in {pending[t], None}
    BY <1>5
  <2> QED
    BY <1>3, <1>8, <2>1, <2>2, EditsMove DEF IInv
<1> QED
  BY <1>1, <1>3, <1>4, <1>6, <1>7, <1>8, <1>9, <1>10 DEF AnswerRests, HistoryOK

\* It is shown in another result, or in a row that has been edited since: the row
\* is stained, and what becomes pending there is a stray.
LEMMA StrangeAnswerRests ==
  ASSUME IInv, NEW j \in Jobs, job[j].kind = "update", NEW e \in job[j].todo,
         Reaches(j), Shown(j, e), ~(AtWork(j) /\ e.at[1] \notin job[j].loose),
         UNCHANGED <<tabs, front, shown, mount, apply, lastJob, typed>>
  PROVE  AnswerRests
<1> PICK s : s = e.at
  OBVIOUS
<1> PICK f : f = IF data[s[1]] # Gone /\ data[s[1]][s[2]] # e.to THEN Changed(s, e.to)
                 ELSE pending[s]
  OBVIOUS
<1>1. PageOK /\ CellsOK /\ JobsOK /\ HistoryOK
  BY TypeParts DEF IInv
<1>2. s \in Spots /\ s[1] \in Rows /\ s[2] \in Cols /\ e.to \in Cells /\ Mounted
  BY <1>1, EditParts DEF Reaches
<1>3. PICK jobs \in Following(s, f) :
        job' = [jobs EXCEPT ![j] = [job[j] EXCEPT !.todo = @ \ {e}, !.done = @ \cup {e}]]
  BY DEF Shown
<1>4. /\ data' = IF data[s[1]] # Gone THEN PutAt(s, e.to) ELSE data
      /\ pending' \in LeftBy(j, e, [pending EXCEPT ![s] = f])
      /\ strays' = IF f \in {None, pending[s]} THEN strays
                   ELSE strays \cup {<<f.of, s[2], f.to>>}
      /\ stained' = stained \cup {s[1]} /\ written' = written
  BY DEF Shown, PutAt
<1>5. /\ data' \in Contents
      /\ \A i \in Rows : data'[i] = Gone <=> data[i] = Gone
      /\ \A t \in Spots : data[t[1]] # Gone /\ t # s => data'[t[1]][t[2]] = data[t[1]][t[2]]
  <2>1. data \in Contents
    BY <1>1 DEF CellsOK
  <2>2. CASE data[s[1]] # Gone
    <3>1. IsPut(data', s, e.to)
      BY <1>2, <1>4, <2>1, <2>2, Puts
    <3> QED
      BY <3>1 DEF IsPut
  <2>3. CASE data[s[1]] = Gone
    BY <1>4, <2>1, <2>3
  <2> QED
    BY <2>2, <2>3
<1>6. /\ f \in Edits \cup {None}
      /\ f # None => f.at = s /\ f.of = <<Table, s[1]>>
      /\ f # None /\ f = pending[s] => Meant(f)
  <2>1. CASE f = pending[s]
    BY <1>1, <1>2, <2>1 DEF CellsOK, IInv, EditsAreTyped
  <2>2. CASE f # pending[s]
    <3>1. data[s[1]] # Gone /\ e.to # data[s[1]][s[2]] /\ f = Changed(s, e.to)
      BY <2>2
    <3> QED
      BY <1>1, <1>2, <2>2, <3>1, ChangedFacts DEF IInv
  <2> QED
    BY <2>1, <2>2
<1>7. strays \subseteq strays' /\ strays' \subseteq Objects \X Cols \X Cells /\ (f # None => Meant(f)')
  <2>1. CASE f \in {None, pending[s]}
    BY <1>1, <1>4, <1>6, <2>1 DEF Meant, HistoryOK
  <2>2. CASE f \notin {None, pending[s]}
    <3>1. f \in Edits /\ f.at = s
      BY <1>6, <2>2
    <3>2. <<f.of, s[2], f.to>> \in Objects \X Cols \X Cells
      BY <1>2, <3>1 DEF Edits
    <3> QED
      BY <1>1, <1>4, <2>2, <3>1, <3>2 DEF Meant, HistoryOK
  <2> QED
    BY <2>1, <2>2
<1>8. /\ pending' \in [Spots -> Edits \cup {None}]
      /\ \A t \in Spots : /\ pending'[t] \in {pending[t], None} \/ (t = s /\ pending'[t] = f)
                          /\ t[1] # s[1] => pending'[t] = pending[t]
  <2> DEFINE p == [pending EXCEPT ![s] = f]
  <2>1. /\ p \in [Spots -> Edits \cup {None}] /\ p[s] = f
        /\ \A t \in Spots : t # s => p[t] = pending[t]
    BY <1>1, <1>2, <1>6 DEF CellsOK
  <2>2. pending' \in {p, [p EXCEPT ![s] = None], Dropped(p, s[1])}
    BY <1>4 DEF LeftBy
  <2> HIDE DEF p
  <2>3. CASE pending' = p
    BY <2>1, <2>3
  <2>4. CASE pending' = [p EXCEPT ![s] = None]
    BY <2>1, <2>4
  <2>5. CASE pending' = Dropped(p, s[1])
    BY <1>2, <2>1, <2>5 DEF Dropped
  <2> QED
    BY <2>2, <2>3, <2>4, <2>5
<1>9. CellsOK'
  BY <1>1, <1>2, <1>4, <1>5, <1>8 DEF CellsOK
<1>10. Alike(jobs, f)
  BY <1>1, <1>2, <1>6, FollowingIsAlike
<1>11. /\ JobsOK'
       /\ \A k \in Jobs : GoesOn(k) /\ EditsGoOn(k) /\ (job[k].kind # "update" => job'[k] = job[k])
  BY <1>1, <1>3, <1>7, <1>10, StepsAmongAlike
<1>12. CellsAreHonest'
  <2>1. ASSUME NEW t \in Spots, Kept(t)'
        PROVE  /\ Kept(t) /\ data'[t[1]][t[2]] = data[t[1]][t[2]]
               /\ pending'[t] = pending[t] /\ written'[t] = written[t]
    <3>1. t[1] \in Rows /\ t[1] # s[1] /\ t[1] \notin stained /\ data[t[1]] # Gone /\ t # s
      BY <1>4, <1>5, <2>1 DEF Kept, Spots
    <3> QED
      BY <1>4, <1>5, <1>8, <3>1 DEF Kept
  <2> QED
    BY <2>1, CellsMove DEF IInv
<1>13. EditsAreTyped'
  <2>1. Mounted' = Mounted /\ Table' = Table
    BY DEF Mounted, Table
  <2>2. ASSUME NEW t \in Spots
        PROVE  \/ pending'[t] \in {pending[t], None}
               \/ /\ pending'[t].at = t /\ Meant(pending[t])'
                  /\ Mounted' => pending'[t].of = <<Table, t[1]>>
    <3>1. CASE pending'[t] \in {pending[t], None}
      BY <3>1
    <3>2. CASE t = s /\ pending'[t] = f /\ f # None
      BY <1>6, <1>7, <3>2 DEF Meant
    <3> QED
      BY <1>8, <3>1, <3>2
  <2> QED
    BY <1>7, <1>11, <2>1, <2>2, EditsMove DEF IInv
<1> QED
  BY <1>5, <1>7, <1>9, <1>11, <1>12, <1>13 DEF AnswerRests

\* An UPDATE is answered: it carried what was typed, or is a stray, to the row it
\* belongs to.
LEMMA UpdatedKeeps ==
  ASSUME IInv, NEW j \in Jobs, NEW e \in job[j].todo, Updated(j, e)
  PROVE  IInv' /\ updates' \subseteq updates \cup typed \cup strays
<1>1. PageOK /\ CellsOK /\ DialogOK /\ JobsOK /\ HistoryOK /\ RestOK
  BY TypeParts DEF IInv
<1>2. /\ job[j].kind = "update" /\ updates' = updates \cup {<<e.of, e.at[2], e.to>>}
      /\ UNCHANGED <<tabs, front, shown, mount, apply, dialog, busy, hidden, nodes, selected>>
      /\ UNCHANGED <<paste, lastJob, typed, pickHistory, gestures>>
  BY DEF Updated, Target
<1>3. /\ e \in Edits /\ e.at \in Spots /\ e.at[2] \in Cols
      /\ e.of \in Objects /\ e.to \in Cells
  BY <1>1, <1>2, EditParts
<1>4. <<e.of, e.at[2], e.to>> \in typed \cup strays
  BY <1>2 DEF IInv, EditsAreTyped, Meant
<1>5. AnswerRests
  <2>1. CASE Reaches(j) /\ Shown(j, e)
    BY <1>2, <2>1, OwnAnswerRests, StrangeAnswerRests
  <2>2. CASE /\ \/ job' = [job EXCEPT ![j].todo = @ \ {e}, ![j].done = @ \cup {e}]
                \/ job' = [job EXCEPT ![j].todo = @ \ {e}, ![j].bad = @ \cup {e}]
             /\ UNCHANGED <<data, pending, strays, stained, written>>
    <3>1. JobsOK' /\ GoesOn(j) /\ EditsGoOn(j) /\ \A k \in Jobs : k # j => job'[k] = job[k]
      BY <1>1, <1>2, <2>2, JobSteps
    <3>2. \A k \in Jobs : GoesOn(k) /\ EditsGoOn(k) /\ (job[k].kind # "update" => job'[k] = job[k])
      BY <1>2, <3>1 DEF GoesOn, EditsGoOn
    <3>3. Mounted' = Mounted /\ Table' = Table
      BY <1>2 DEF Mounted, Table
    <3>4. CellsOK' /\ CellsAreHonest' /\ EditsAreTyped'
      BY <1>1, <1>2, <2>2, <3>2, <3>3, CellsStay, EditsStay DEF IInv, CellsOK
    <3> QED
      BY <1>1, <2>2, <3>1, <3>2, <3>4 DEF AnswerRests, HistoryOK
  <2> QED
    BY <2>1, <2>2 DEF Updated
<1>6. RestOK'
  <2>1. e.of[1] \in Tables /\ e.of[2] \in Rows /\ e.at[2] \in Cols
    BY <1>3 DEF Objects
  <2>2. CASE db' = db
    BY <1>1, <1>2, <2>2 DEF RestOK
  <2>3. CASE Stores(e)
    <3>1. db[e.of[1]][e.of[2]] # Gone /\ db' = [db EXCEPT ![e.of[1]][e.of[2]][e.at[2]] = e.to]
      BY <2>3 DEF Stores, Target
    <3>2. db[e.of[1]] \in Contents /\ db[e.of[1]][e.of[2]] \in [Cols -> Cells]
      BY <1>1, <2>1, <3>1 DEF RestOK, Contents
    <3>3. [db[e.of[1]][e.of[2]] EXCEPT ![e.at[2]] = e.to] \in [Cols -> Cells]
      BY <1>3, <3>2
    <3>4. [db[e.of[1]] EXCEPT ![e.of[2]][e.at[2]] = e.to] \in Contents
      BY <2>1, <3>2, <3>3 DEF Contents
    <3> QED
      BY <1>1, <1>2, <2>1, <3>1, <3>4 DEF RestOK
  <2> QED
    BY <2>2, <2>3 DEF Updated
<1>7. PageOK' /\ DialogOK'
  BY <1>1, <1>2 DEF PageOK, DialogOK
<1>8. HistoryOK'
  <2>1. <<e.of, e.at[2], e.to>> \in Objects \X Cols \X Cells
    BY <1>3
  <2> QED
    BY <1>1, <1>2, <1>5, <2>1 DEF HistoryOK, pickHistory, pasteHistory, AnswerRests
<1>9. Mounted' = Mounted
  BY <1>2 DEF Mounted
<1>10. OneBatchWorks'
  BY <1>2, <1>5, WorkStays DEF IInv, AnswerRests
<1>11. SelectionIsFresh'
  <2>1. \A k \in GoneRows : data[k] = Gone => data'[k] = Gone
    BY <1>1, <1>5 DEF GoneRows, HistoryOK, Objects, AnswerRests
  <2>2. \A k \in Jobs : job'[k] = job[k] \/ (job[k].kind # "delete" /\ GoesOn(k))
    BY <1>5, KindsDiffer DEF AnswerRests
  <2> QED
    BY <1>2, <1>9, <2>1, <2>2, SelectionRests DEF IInv, pickHistory
<1>12. PasteIsFresh'
  <2>1. \A k \in Jobs : job'[k] = job[k] \/ (GoesOn(k) /\ job[k].kind # "bulk")
    BY <1>5, KindsDiffer DEF AnswerRests
  <2> QED
    BY <1>2, <1>9, <2>1, PasteStays DEF IInv, pickHistory
<1> QED
  BY <1>2, <1>4, <1>5, <1>6, <1>7, <1>8, <1>10, <1>11, <1>12, TypeParts DEF IInv, AnswerRests

LEMMA UpdatesDoneKeeps ==
  ASSUME IInv, NEW j \in Jobs, UpdatesDone(j)
  PROVE  IInv'
<1>1. PageOK /\ CellsOK /\ DialogOK /\ JobsOK /\ HistoryOK /\ RestOK
  BY TypeParts DEF IInv
<1>2. PICK R \in SUBSET Rows :
        /\ pending' = [s \in Spots |-> IF s[1] \in R THEN None ELSE pending[s]]
        /\ stained' = stained \cup R
  <2>1. CASE Reaches(j)
    <3>1. job[j].loose \subseteq Rows
      BY <1>1, BatchTypes DEF UpdatesDone, JobsOK, Batches
    <3> QED
      BY <2>1, <3>1 DEF UpdatesDone
  <2>2. CASE ~Reaches(j)
    <3>1. pending' = [s \in Spots |-> pending[s]] /\ stained' = stained \cup {}
      BY <1>1, <2>2 DEF UpdatesDone, CellsOK
    <3> QED
      BY <3>1
  <2> QED
    BY <2>1, <2>2
<1>3. /\ job[j].kind = "update" /\ job' = [job EXCEPT ![j] = NoJob]
      /\ apply' \in {"idle", "previewing", "applying", "errors"}
      /\ UNCHANGED <<db, tabs, front, shown, mount, data, dialog, busy, hidden, nodes>>
      /\ UNCHANGED <<selected, paste, lastJob, typed, strays, updates, written, pickHistory>>
      /\ UNCHANGED gestures
  BY <1>1 DEF UpdatesDone, CellsOK
<1>4. JobsOK' /\ Ended(j) /\ \A k \in Jobs : k # j => job'[k] = job[k]
  BY <1>1, <1>3, JobEnds
<1>5. /\ pending' \in [Spots -> Edits \cup {None}]
      /\ \A s \in Spots : /\ pending'[s] \in {pending[s], None}
                          /\ s[1] \notin R => pending'[s] = pending[s]
  BY <1>1, <1>2 DEF CellsOK
<1>6. PageOK' /\ CellsOK' /\ DialogOK' /\ HistoryOK' /\ RestOK'
  BY <1>1, <1>2, <1>3, <1>5
     DEF PageOK, CellsOK, DialogOK, HistoryOK, RestOK, pickHistory, pasteHistory
<1>7. Mounted' = Mounted /\ Table' = Table
  BY <1>3 DEF Mounted, Table
<1>8. \A k \in Jobs : (Ended(k) \/ GoesOn(k)) /\ EditsGoOn(k)
  BY <1>4, LessToDo DEF GoesOn
<1>9. CellsAreHonest'
  <2>1. ASSUME NEW s \in Spots, Kept(s)'
        PROVE  /\ Kept(s) /\ data'[s[1]][s[2]] = data[s[1]][s[2]]
               /\ pending'[s] = pending[s] /\ written'[s] = written[s]
    BY <1>2, <1>3, <1>5, <2>1 DEF Kept
  <2> QED
    BY <1>3, <2>1, CellsMove DEF IInv
<1>10. EditsAreTyped' /\ OneBatchWorks'
  BY <1>3, <1>5, <1>7, <1>8, EditsMove, WorkStays DEF IInv
<1>11. SelectionIsFresh'
  BY <1>3, <1>4, <1>7, KindsDiffer, SelectionRests DEF IInv, pickHistory
<1>12. PasteIsFresh'
  BY <1>3, <1>4, <1>7, PasteStays, KindsDiffer DEF IInv, pickHistory
<1> QED
  BY <1>4, <1>6, <1>9, <1>10, <1>11, <1>12, TypeParts DEF IInv

\* A DELETE is answered. A batch of this result has no row left to do that one
\* of this result has deleted, so none is sent again.
LEMMA DeletedKeeps ==
  ASSUME IInv, NEW j \in Jobs, NEW o \in job[j].todo, Deleted(j, o)
  PROVE  IInv' /\ again' = again
<1> DEFINE d == <<job[j].table, o[2]>>
           own == job[j].shown = shown
<1>1. PageOK /\ CellsOK /\ DialogOK /\ JobsOK /\ HistoryOK /\ RestOK
  BY TypeParts DEF IInv
<1>2. /\ job[j].kind = "delete" /\ deletes' = deletes \cup {d}
      /\ again' = IF own THEN again \cup ({d} \cap removed) ELSE again
      /\ \/ /\ db' = [db EXCEPT ![d[1]][d[2]] = Gone]
            /\ job' = [job EXCEPT ![j].todo = @ \ {o}, ![j].done = @ \cup {o}]
            /\ removed' = IF own THEN removed \cup {d} ELSE removed
            /\ IF Reaches(j) THEN Drops(o[2]) ELSE UNCHANGED <<data, nodes, selected>>
         \/ /\ job' = [job EXCEPT ![j].bad = {o}]
            /\ db' \in {db, [db EXCEPT ![d[1]][d[2]] = Gone]}
            /\ UNCHANGED <<data, nodes, selected, removed>>
      /\ UNCHANGED <<tabs, front, shown, mount, pending, apply, dialog, busy, hidden, paste>>
      /\ UNCHANGED <<lastJob, editHistory, picked, pasteHistory, gestures>>
  BY DEF Deleted
<1>3. job[j] \in AnyBatch /\ job \in [Jobs -> AnyBatch] /\ job[j].table \in Tables
  BY <1>1, <1>2, BatchTypes, KindsDiffer DEF JobsOK
<1>4. o \in Objects /\ o[2] \in Rows /\ d \in Objects /\ o = <<o[1], o[2]>>
  <2>1. o \in Objects
    BY <1>1, <1>2, BatchTypes DEF JobsOK
  <2> QED
    BY <1>3, <2>1 DEF Objects
<1>5. JobsOK' /\ GoesOn(j) /\ EditsGoOn(j) /\ \A k \in Jobs : k # j => job'[k] = job[k]
  BY <1>1, <1>2, JobSteps
<1>6. /\ \A k \in Jobs : GoesOn(k) /\ EditsGoOn(k)
      /\ \A k \in Jobs : job[k].kind # "delete" => job'[k] = job[k]
      /\ \A k \in Jobs : job'[k].kind = job[k].kind /\ Working(k)' = Working(k)
  BY <1>2, <1>5 DEF GoesOn, Working, EditsGoOn
<1>7. own => Working(j)
  BY <1>1, <1>2, Numbers DEF Working, PageOK
<1>8. again' = again
  <2>1. ASSUME own PROVE d \notin removed
    <3>1. o[2] \notin GoneRows
      BY <1>2, <1>7, <2>1 DEF IInv, SelectionIsFresh
    <3> QED
      BY <3>1 DEF GoneRows
  <2> QED
    BY <1>2, <2>1
<1>9. Mounted' = Mounted /\ Table' = Table /\ Table \in Tables
  BY <1>1, <1>2 DEF Mounted, Table, PageOK, Tabs
<1>10. /\ data \in [Rows -> [Cols -> Cells] \cup {Gone}] /\ nodes \subseteq Rows
       /\ selected \subseteq Objects
  BY <1>1 DEF CellsOK, DialogOK, Contents
<1>11. /\ data' \in [Rows -> [Cols -> Cells] \cup {Gone}] /\ nodes' \subseteq nodes
       /\ \A k \in Rows : data'[k] = data[k] \/ data'[k] = Gone
       /\ selected' = selected \/ (selected' = {Table} \X nodes')
       /\ selected' # selected => Reaches(j)
  <2>1. CASE Drops(o[2])
    BY <1>2, <1>4, <1>10, <2>1 DEF Drops, Reported
  <2>2. CASE UNCHANGED <<data, nodes, selected>>
    BY <1>10, <2>2
  <2> QED
    BY <1>2, <2>1, <2>2
<1>12. selected' \subseteq Objects /\ \A p, q \in selected' : p[1] = q[1]
  <2>1. CASE selected' = selected
    BY <1>10, <2>1 DEF IInv, SelectionIsFresh
  <2>2. CASE selected' = {Table} \X nodes'
    BY <1>9, <1>10, <1>11, <2>2 DEF Objects
  <2> QED
    BY <1>11, <2>1, <2>2
<1>13. PageOK' /\ CellsOK' /\ DialogOK'
  BY <1>1, <1>2, <1>11, <1>12, <1>10 DEF PageOK, CellsOK, DialogOK, Contents, editHistory
<1>14. HistoryOK' /\ RestOK'
  <2>1. [db EXCEPT ![d[1]][d[2]] = Gone] \in [Tables -> Contents]
    BY <1>1, <1>4 DEF RestOK, Contents, Objects
  <2>2. RestOK'
    BY <1>1, <1>2, <2>1 DEF RestOK
  <2>3. removed' \subseteq Objects /\ deletes' \subseteq Objects
    BY <1>1, <1>2, <1>4 DEF HistoryOK
  <2> QED
    BY <1>1, <1>2, <1>8, <2>2, <2>3 DEF HistoryOK, editHistory, pasteHistory
<1>15. CellsAreHonest'
  <2>1. ASSUME NEW s \in Spots, Kept(s)'
        PROVE  /\ Kept(s) /\ data'[s[1]][s[2]] = data[s[1]][s[2]]
               /\ pending'[s] = pending[s] /\ written'[s] = written[s]
    BY <1>2, <1>11, <2>1 DEF Kept, Spots, editHistory
  <2> QED
    BY <1>2, <2>1, CellsMove DEF IInv
<1>16. EditsAreTyped'
  BY <1>2, <1>6, <1>9, EditsStay DEF IInv, editHistory
<1>17. OneBatchWorks'
  BY <1>2, <1>6, WorkStays DEF IInv
<1>18. SelectionIsFresh'
  <2>1. CASE job' = [job EXCEPT ![j].bad = {o}] /\ UNCHANGED <<data, nodes, selected, removed>>
    <3>1. [job[j] EXCEPT !.bad = {o}].done = job[j].done /\ job'[j] = [job[j] EXCEPT !.bad = {o}]
      BY <1>3, <2>1, BatchFields
    <3>2. \A k \in Jobs : GoesOn(k) /\ job'[k].done = job[k].done
      BY <1>5, <1>6, <3>1
    <3>3. /\ \A k \in GoneRows : data[k] = Gone => data'[k] = Gone
          /\ Mounted' /\ (\A k \in Jobs : job'[k].kind = "delete" /\ Working(k)'
                                            => job'[k].done = {})
               => \A p \in selected' : p[2] \notin GoneRows
      BY <1>6, <1>9, <2>1, <3>2 DEF IInv, SelectionIsFresh
    <3> QED
      BY <1>2, <1>9, <1>12, <2>1, <3>2, <3>3, SelectionStays DEF IInv
  <2>2. CASE /\ job' = [job EXCEPT ![j].todo = @ \ {o}, ![j].done = @ \cup {o}]
             /\ removed' = IF own THEN removed \cup {d} ELSE removed
             /\ IF Reaches(j) THEN Drops(o[2]) ELSE UNCHANGED <<data, nodes, selected>>
    <3>1. job'[j].todo = job[j].todo \ {o} /\ job'[j].done = job[j].done \cup {o}
      <4> DEFINE c == [job[j] EXCEPT !.todo = @ \ {o}, !.done = @ \cup {o}]
      <4>1. c.todo = job[j].todo \ {o} /\ c.done = job[j].done \cup {o}
        BY <1>3, BatchFields
      <4>2. job'[j] = c
        BY <1>3, <2>2
      <4> HIDE DEF c
      <4> QED
        BY <4>1, <4>2
    <3>2. GoneRows' = GoneRows \/ (own /\ GoneRows' = GoneRows \cup {o[2]})
      <4>1. CASE own
        <5>1. removed' = removed \cup {d} /\ d[2] = o[2]
          BY <2>2, <4>1
        <5> HIDE DEF d
        <5>2. GoneRows' = GoneRows \cup {o[2]}
          BY <5>1 DEF GoneRows
        <5> QED
          BY <4>1, <5>2
      <4>2. CASE ~own
        BY <2>2, <4>2 DEF GoneRows
      <4> QED
        BY <4>1, <4>2
    <3>3. \A k \in Rows : data[k] = Gone => data'[k] = Gone
      BY <1>11
    <3>4. GoneRows \subseteq Rows
      BY <1>1 DEF GoneRows, HistoryOK, Objects
    <3>5. Mounted => \A i \in GoneRows' : data'[i] = Gone /\ i \notin nodes'
      <4> SUFFICES ASSUME Mounted, NEW i \in GoneRows' PROVE data'[i] = Gone /\ i \notin nodes'
        OBVIOUS
      <4>1. CASE i \in GoneRows
        BY <1>11, <3>3, <3>4, <4>1 DEF IInv, SelectionIsFresh
      <4>2. CASE i = o[2] /\ own
        <5>1. Drops(o[2])
          BY <1>7, <2>2, <4>2 DEF Reaches, Working
        <5> QED
          BY <1>4, <1>10, <4>2, <5>1 DEF Drops, Reported
      <4> QED
        BY <3>2, <4>1, <4>2
    <3>6. ASSUME NEW k \in Jobs, job'[k].kind = "delete"
          PROVE  /\ \A p, q \in job'[k].todo : p[1] = q[1]
                 /\ Working(k)' => \A p \in job'[k].todo : p[2] \notin GoneRows'
      <4>1. job[k].kind = "delete" /\ job'[k].todo \subseteq job[k].todo
        BY <1>6, <3>6 DEF GoesOn
      <4>2. \A p, q \in job'[k].todo : p[1] = q[1]
        BY <4>1 DEF IInv, SelectionIsFresh
      <4>3. ASSUME Working(k)', NEW p \in job'[k].todo PROVE p[2] \notin GoneRows'
        <5>1. Working(k)
          BY <1>6, <4>3
        <5>2. p[2] \notin GoneRows
          BY <4>1, <4>3, <5>1 DEF IInv, SelectionIsFresh
        <5>3. ASSUME own PROVE p[2] # o[2]
          <6>1. k = j
            BY <1>7, <5>1, <5>3 DEF IInv, OneBatchWorks
          <6>2. p \in job[j].todo /\ p # o
            BY <3>1, <4>3, <6>1
          <6>3. p[1] = o[1]
            BY <1>2, <6>2 DEF IInv, SelectionIsFresh
          <6>4. p \in Objects
            BY <1>1, <1>2, <6>2, BatchTypes DEF JobsOK
          <6> QED
            BY <1>4, <6>2, <6>3, <6>4 DEF Objects
        <5> QED
          BY <3>2, <5>2, <5>3
      <4> QED
        BY <4>2, <4>3
    <3>7. ASSUME Mounted, \A k \in Jobs : job'[k].kind = "delete" /\ Working(k)' => job'[k].done = {}
          PROVE  \A p \in selected' : p[2] \notin GoneRows'
      <4>1. ~Working(j)
        BY <1>2, <1>6, <3>1, <3>7
      <4>2. ~own /\ ~Reaches(j)
        BY <1>2, <1>7, <4>1 DEF Reaches, Working
      <4>3. selected' = selected /\ GoneRows' = GoneRows
        BY <1>11, <3>2, <4>2
      <4>4. \A k \in Jobs : job[k].kind = "delete" /\ Working(k) => job[k].done = {}
        BY <1>5, <1>6, <3>7, <4>1
      <4> QED
        BY <3>7, <4>3, <4>4 DEF IInv, SelectionIsFresh
    <3> QED
      BY <1>9, <1>12, <3>5, <3>6, <3>7 DEF SelectionIsFresh
  <2> QED
    BY <1>2, <2>1, <2>2
<1>19. PasteIsFresh'
  <2>1. \A k \in Jobs : job'[k] = job[k] \/ (GoesOn(k) /\ job[k].kind # "bulk")
    BY <1>2, <1>6, KindsDiffer
  <2> QED
    BY <1>2, <1>9, <2>1, PasteStays DEF IInv
<1> QED
  BY <1>5, <1>8, <1>13, <1>14, <1>15, <1>16, <1>17, <1>18, <1>19, TypeParts DEF IInv

\* A line of a paste is answered; one that was answered as in is not sent again.
LEMMA BulkLineKeeps ==
  ASSUME IInv, NEW j \in Jobs, NEW l \in job[j].todo, BulkLine(j, l)
  PROVE  IInv' /\ doubled' \subseteq unheard'
<1>1. PageOK /\ CellsOK /\ DialogOK /\ JobsOK /\ HistoryOK /\ RestOK
  BY TypeParts DEF IInv
<1>2. /\ job[j].kind = "bulk"
      /\ \/ /\ job' = [job EXCEPT ![j].todo = @ \ {l}, ![j].done = @ \cup {l}]
            /\ IF Reaches(j) THEN landed' = landed \cup {l} /\ Doubles(l) /\ UNCHANGED unheard
               ELSE UNCHANGED pasteHistory
         \/ /\ job' = [job EXCEPT ![j].bad = {l}]
            /\ \/ UNCHANGED pasteHistory
               \/ Reaches(j) /\ unheard' = unheard \cup {l} /\ Doubles(l) /\ UNCHANGED landed
      /\ UNCHANGED <<db, tabs, front, shown, mount, gridVars, lastJob, editHistory, picked>>
      /\ UNCHANGED <<deletes, removed, again, gestures>>
  BY DEF BulkLine
<1>3. job[j] \in AnyBatch /\ job \in [Jobs -> AnyBatch] /\ l \in Lines
  BY <1>1, <1>2, BatchTypes DEF JobsOK
<1>4. JobsOK' /\ GoesOn(j) /\ EditsGoOn(j) /\ \A k \in Jobs : k # j => job'[k] = job[k]
  BY <1>1, <1>2, JobSteps
<1>5. /\ \A k \in Jobs : GoesOn(k) /\ EditsGoOn(k)
      /\ \A k \in Jobs : job'[k].kind = job[k].kind /\ Working(k)' = Working(k)
      /\ \A k \in Jobs : job[k].kind # "bulk" => job'[k] = job[k]
  BY <1>2, <1>4 DEF GoesOn, Working, EditsGoOn
<1>6. Mounted' = Mounted /\ Table' = Table
  BY <1>2 DEF Mounted, Table
<1>7. Reaches(j) => landed \subseteq job[j].done
  <2>1. Reaches(j) => Mounted /\ Working(j)
    BY <1>2 DEF Reaches, Working
  <2> QED
    BY <2>1 DEF IInv, PasteIsFresh, OneBatchWorks
<1>8. doubled' \subseteq unheard' /\ {landed', unheard', doubled'} \subseteq SUBSET Lines
  <2>1. l \notin job[j].done /\ doubled \subseteq unheard
    BY <1>2 DEF IInv, PasteIsFresh
  <2>2. {landed, unheard, doubled} \subseteq SUBSET Lines
    BY <1>1 DEF HistoryOK
  <2> QED
    BY <1>2, <1>3, <1>7, <2>1, <2>2 DEF Doubles, pasteHistory
<1>9. PageOK' /\ CellsOK' /\ DialogOK' /\ RestOK'
  BY <1>1, <1>2 DEF PageOK, CellsOK, DialogOK, RestOK, gridVars, editHistory
<1>10. HistoryOK'
  BY <1>1, <1>2, <1>8 DEF HistoryOK, editHistory
<1>11. CellsAreHonest'
  BY <1>2, CellsStay DEF IInv, editHistory, gridVars
<1>12. EditsAreTyped' /\ OneBatchWorks'
  BY <1>2, <1>5, <1>6, EditsStay, WorkStays DEF IInv, editHistory, gridVars
<1>13. SelectionIsFresh'
  <2>1. GoneRows' = GoneRows
    BY <1>2 DEF GoneRows
  <2>2. \A k \in Jobs : job'[k].kind = "delete" \/ job[k].kind = "delete" => job'[k] = job[k]
    BY <1>2, <1>5, KindsDiffer
  <2>3. UNCHANGED <<data, nodes, selected>>
    BY <1>2 DEF gridVars
  <2> QED
    BY <1>5, <1>6, <2>1, <2>2, <2>3 DEF IInv, SelectionIsFresh
<1>14. PasteIsFresh'
  <2>1. \/ job'[j].done = job[j].done
        \/ job'[j].done = job[j].done \cup {l} /\ job'[j].todo = job[j].todo \ {l}
    BY <1>1, <1>2, JobSteps
  <2>2. job'[j].todo \cap job'[j].done = {}
    <3>1. job'[j].todo \subseteq job[j].todo /\ job[j].todo \cap job[j].done = {}
      BY <1>2, <1>4, KindsDiffer DEF GoesOn, IInv, PasteIsFresh
    <3> QED
      BY <2>1, <3>1
  <2>3. \A k \in Jobs : job'[k].kind = "bulk" => job'[k].todo \cap job'[k].done = {}
    BY <1>4, <2>2 DEF IInv, PasteIsFresh
  <2>4. ASSUME Mounted', landed' # {}
        PROVE  \E k \in Jobs : job'[k].kind = "bulk" /\ Working(k)' /\ landed' \subseteq job'[k].done
    <3>1. CASE landed' = landed
      <4>1. PICK k \in Jobs : job[k].kind = "bulk" /\ Working(k) /\ landed \subseteq job[k].done
        BY <1>6, <2>4, <3>1 DEF IInv, PasteIsFresh
      <4>2. landed \subseteq job'[k].done
        BY <1>4, <2>1, <4>1
      <4> QED
        BY <1>5, <3>1, <4>1, <4>2
    <3>2. CASE landed' # landed
      <4>1. /\ landed' = landed \cup {l} /\ Reaches(j)
            /\ job' = [job EXCEPT ![j].todo = @ \ {l}, ![j].done = @ \cup {l}]
        BY <1>2, <3>2 DEF pasteHistory
      <4>2. job'[j].done = job[j].done \cup {l}
        <5> DEFINE c == [job[j] EXCEPT !.todo = @ \ {l}, !.done = @ \cup {l}]
        <5>1. c.done = job[j].done \cup {l}
          BY <1>3, BatchFields
        <5>2. job'[j] = c
          BY <1>3, <4>1
        <5> HIDE DEF c
        <5> QED
          BY <5>1, <5>2
      <4>3. landed' \subseteq job'[j].done
        BY <1>7, <4>1, <4>2
      <4> QED
        BY <1>2, <1>5, <4>1, <4>3 DEF Reaches, Working
    <3> QED
      BY <3>1, <3>2
  <2> QED
    BY <1>8, <2>3, <2>4 DEF PasteIsFresh
<1> QED
  BY <1>4, <1>8, <1>9, <1>10, <1>11, <1>12, <1>13, <1>14, TypeParts DEF IInv

-----------------------------------------------------------------------------
(* A dialog's batch ends.                                                  *)

\* Without a word to the page nothing of the batch is done that this grid has
\* seen; or it was one of DELETEs, and what is selected is what it has not done.
NotTold(j) ==
  /\ UNCHANGED <<tabs, pasteHistory>>
  /\ \/ selected' = selected /\ (Reaches(j) => job[j].done = {})
     \/ job[j].kind = "delete" /\ Reaches(j) /\ selected' = job[j].todo

\* It tells its dialog, if that is there, and the page if something is done.
LEMMA EndKeeps ==
  ASSUME IInv, NEW j \in Jobs, job[j].kind \in Dialogs, job' = [job EXCEPT ![j] = NoJob],
         dialog' \in {dialog, None}, busy' \in {busy, FALSE},
         paste' \in {paste, {}}, pasteHistory' \in {pasteHistory, <<{}, {}, {}>>},
         ~Reaches(j) => UNCHANGED <<dialog, busy>>,
         (\E t \in Tables : Rerun(t) /\ selected' \in {selected, {}}) \/ NotTold(j),
         UNCHANGED <<db, front, shown, mount, data, pending, apply, hidden, nodes, lastJob>>,
         UNCHANGED <<editHistory, picked, deletes, removed, again, gestures>>
  PROVE  IInv'
<1>1. PageOK /\ CellsOK /\ DialogOK /\ JobsOK /\ HistoryOK /\ RestOK
  BY TypeParts DEF IInv
<1>2. JobsOK' /\ Ended(j) /\ \A k \in Jobs : k # j => job'[k] = job[k]
  BY <1>1, JobEnds
<1>3. /\ \A k \in Jobs : (Ended(k) \/ GoesOn(k)) /\ EditsGoOn(k)
      /\ job[j].kind # "update"
  BY <1>2, KindsDiffer, LessToDo DEF GoesOn, Dialogs
<1>4. PageOK' /\ (Mounted' => Mounted /\ Table' = Table /\ NotTold(j))
  <2>1. CASE NotTold(j)
    BY <1>1, <2>1 DEF PageOK, Mounted, Table, NotTold
  <2>2. CASE \E t \in Tables : Rerun(t)
    BY <1>1, <2>2, RerunHides
  <2> QED
    BY <2>1, <2>2
<1>5. job[j].kind = "delete" => job[j].todo \subseteq Objects /\ \A o, p \in job[j].todo : o[1] = p[1]
  BY <1>1, BatchTypes DEF JobsOK, IInv, SelectionIsFresh
<1>6. selected' \subseteq Objects /\ \A o, p \in selected' : o[1] = p[1]
  BY <1>1, <1>5 DEF DialogOK, IInv, SelectionIsFresh, NotTold
<1>7. CellsOK' /\ DialogOK' /\ HistoryOK' /\ RestOK'
  BY <1>1, <1>6 DEF CellsOK, DialogOK, HistoryOK, RestOK, editHistory, pasteHistory
<1>8. CellsAreHonest'
  <2>1. CASE Mounted'
    BY <1>4, <2>1, CellsStay DEF IInv, editHistory, NotTold
  <2> QED
    BY <2>1, CellsHide
<1>9. EditsAreTyped'
  BY <1>3, <1>4, EditsStay DEF IInv, editHistory
<1>10. \A k \in Jobs : Working(k)' => Working(k) /\ k # j
  <2>1. ASSUME NEW k \in Jobs, Working(k)' PROVE Working(k) /\ k # j
    <3>1. Working(k)
      BY <1>3, <2>1, WorkingLess
    <3>2. ~Working(j)'
      BY <1>2, NoJobFields, KindsDiffer DEF Working, Ended
    <3> QED
      BY <2>1, <3>1, <3>2
  <2> QED
    BY <2>1
<1>11. OneBatchWorks'
  <2>1. CASE Working(j)
    <3>1. \A k \in Jobs : ~Working(k)'
      BY <1>10, <2>1 DEF IInv, OneBatchWorks
    <3> QED
      BY <3>1 DEF OneBatchWorks
  <2>2. CASE ~Working(j)
    <3>1. ~Reaches(j)
      BY <2>2 DEF Reaches, Working, Dialogs
    <3> QED
      BY <1>3, <3>1, WorkStays DEF IInv
  <2> QED
    BY <2>1, <2>2
<1>12. SelectionIsFresh'
  <2>1. ASSUME Mounted',
               \A k \in Jobs : job'[k].kind = "delete" /\ Working(k)' => job'[k].done = {}
        PROVE  \A o \in selected' : o[2] \notin GoneRows
    <3>1. Mounted /\ NotTold(j)
      BY <1>4, <2>1
    <3>2. CASE selected' = selected /\ (Working(j) /\ job[j].kind = "delete" => job[j].done = {})
      <4>1. ASSUME NEW k \in Jobs, job[k].kind = "delete", Working(k)
            PROVE  job[k].done = {}
        <5>1. CASE k = j
          BY <3>2, <4>1, <5>1
        <5>2. CASE k # j
          BY <1>2, <2>1, <4>1, <5>2 DEF Working
        <5> QED
          BY <5>1, <5>2
      <4> QED
        BY <3>1, <3>2, <4>1 DEF IInv, SelectionIsFresh
    <3>3. CASE job[j].kind = "delete" /\ Reaches(j) /\ selected' = job[j].todo
      <4>1. Working(j)
        BY <3>3 DEF Reaches, Working
      <4> QED
        BY <3>3, <4>1 DEF IInv, SelectionIsFresh
    <3>4. Working(j) => Reaches(j)
      BY <3>1 DEF Working, Reaches
    <3> QED
      BY <3>1, <3>2, <3>3, <3>4 DEF NotTold
  <2> QED
    BY <1>3, <1>4, <1>6, <2>1, SelectionStays DEF IInv
<1>13. PasteIsFresh'
  <2>1. /\ \A k \in Jobs : job'[k].kind = "bulk" => job'[k].todo \cap job'[k].done = {}
        /\ doubled' \subseteq unheard'
    BY <1>2, NoJobFields DEF IInv, PasteIsFresh, Ended, pasteHistory
  <2>2. ASSUME Mounted', landed' # {}
        PROVE  \E k \in Jobs : job'[k].kind = "bulk" /\ Working(k)' /\ landed' \subseteq job'[k].done
    <3>1. Mounted /\ NotTold(j) /\ landed' = landed
      BY <1>4, <2>2 DEF NotTold, pasteHistory
    <3>2. PICK k \in Jobs : job[k].kind = "bulk" /\ Working(k) /\ landed \subseteq job[k].done
      BY <2>2, <3>1 DEF IInv, PasteIsFresh
    <3>3. k # j
      <4>1. Reaches(k)
        BY <3>1, <3>2 DEF Reaches, Working
      <4> QED
        BY <2>2, <3>1, <3>2, <4>1, KindsDiffer DEF NotTold
    <3>4. job'[k] = job[k]
      BY <1>2, <3>3
    <3> QED
      BY <3>1, <3>2, <3>4 DEF Working
  <2> QED
    BY <2>1, <2>2 DEF PasteIsFresh
<1> QED
  BY <1>2, <1>4, <1>7, <1>8, <1>9, <1>11, <1>12, <1>13, TypeParts DEF IInv

LEMMA EndsKeep ==
  ASSUME IInv, NEW j \in Jobs,
         DeletesDone(j) \/ (\E ok \in BOOLEAN : Inserted(j, ok)) \/ BulkDone(j)
  PROVE  IInv'
<1>1. job[j] \in AnyBatch
  BY TypeParts DEF IInv, JobsOK
<1>2. job[j].kind # None => job[j].table \in Tables
  BY <1>1, BatchTypes
<1>3. CASE DeletesDone(j)
  <2>1. /\ job[j].kind = "delete" /\ job[j].kind \in Dialogs /\ job[j].table \in Tables
    BY <1>2, <1>3, KindsDiffer DEF DeletesDone, Dialogs
  <2>2. /\ dialog' \in {dialog, None} /\ busy' \in {busy, FALSE}
        /\ ~Reaches(j) => UNCHANGED <<dialog, busy>>
        /\ UNCHANGED <<paste, pasteHistory>>
    BY <1>3 DEF DeletesDone, pickHistory
  <2>3. (\E t \in Tables : Rerun(t) /\ selected' \in {selected, {}}) \/ NotTold(j)
    BY <1>3, <2>1, <2>2 DEF DeletesDone, Remaining, NotTold
  <2> QED
    BY <1>3, <2>1, <2>2, <2>3, EndKeeps DEF DeletesDone, pickHistory
<1>4. ASSUME NEW ok \in BOOLEAN, Inserted(j, ok) PROVE IInv'
  <2>1. /\ job[j].kind = "insert" /\ job[j].kind \in Dialogs /\ job[j].table \in Tables
    BY <1>2, <1>4, KindsDiffer DEF Inserted, Dialogs
  <2>2. /\ dialog' \in {dialog, None} /\ busy' \in {busy, FALSE}
        /\ ~Reaches(j) => UNCHANGED <<dialog, busy>>
        /\ UNCHANGED <<paste, pasteHistory, selected>>
    BY <1>4 DEF Inserted, pickHistory
  <2>3. (\E t \in Tables : Rerun(t) /\ selected' \in {selected, {}}) \/ NotTold(j)
    <3>1. job[j].done = {}
      BY <1>1, <2>1, KindsDiffer, BatchTypes
    <3> QED
      BY <1>4, <2>1, <2>2, <3>1 DEF Inserted, NotTold
  <2> QED
    BY <1>4, <2>1, <2>2, <2>3, EndKeeps DEF Inserted, pickHistory
<1>5. CASE BulkDone(j)
  <2>1. /\ job[j].kind = "bulk" /\ job[j].kind \in Dialogs /\ job[j].table \in Tables
    BY <1>2, <1>5, KindsDiffer DEF BulkDone, Dialogs
  <2>2. /\ dialog' \in {dialog, None} /\ busy' \in {busy, FALSE}
        /\ ~Reaches(j) => UNCHANGED <<dialog, busy>>
        /\ paste' \in {paste, {}} /\ pasteHistory' \in {pasteHistory, <<{}, {}, {}>>}
        /\ selected' = selected
    BY <1>5 DEF BulkDone, pasteHistory
  <2>3. (\E t \in Tables : Rerun(t) /\ selected' \in {selected, {}}) \/ NotTold(j)
    BY <1>5, <2>1, <2>2 DEF BulkDone, NotTold, MustTell
  <2> QED
    BY <1>5, <2>1, <2>2, <2>3, EndKeeps DEF BulkDone
<1> QED
  BY <1>3, <1>4, <1>5

-----------------------------------------------------------------------------

LEMMA StutterKeeps ==
  ASSUME IInv, UNCHANGED vars
  PROVE  IInv'
<1> USE DEF vars, gridVars, editHistory, pickHistory, pasteHistory
<1>1. TypeOK'
  BY DEF IInv, TypeOK
<1>2. CellsAreHonest'
  BY CellsStay DEF IInv
<1>3. EditsAreTyped' /\ OneBatchWorks'
  BY EditsStay, WorkStays, NoBatchMoves, SameShown DEF IInv
<1>4. SelectionIsFresh' /\ PasteIsFresh'
  BY SelectionRests, PasteStays, SameShown DEF IInv
<1> QED
  BY <1>1, <1>2, <1>3, <1>4 DEF IInv

LEMMA InitIInv ==
  ASSUME Init
  PROVE  IInv
<1>1. PageOK
  <2>1. \A t \in Tabs : db[t] \in Contents
    BY DEF Init, Tabs, Contents
  <2> QED
    BY <2>1, Numbers DEF Init, PageOK, Tabs
<1>2. CellsOK
  <2>1. data \in Contents
    BY DEF Init, Tabs, Contents
  <2> QED
    BY <2>1 DEF Init, CellsOK, NoEdits
<1>3. JobsOK
  BY Numbers, NoJobFields DEF Init, JobsOK
<1>4. DialogOK /\ HistoryOK
  BY DEF Init, DialogOK, HistoryOK
<1>5. RestOK
  BY Numbers DEF Init, RestOK, Contents
<1>6. CellsAreHonest
  <2>1. ASSUME NEW s \in Spots PROVE Honest(s)
    BY <2>1 DEF Init, Honest, Settled, NoEdits, Tabs
  <2> QED
    BY <2>1, CellsByCell
<1>7. EditsAreTyped
  BY NoJobFields, KindsDiffer DEF Init, EditsAreTyped, NoEdits
<1>8. OneBatchWorks
  BY NoJobFields, KindsDiffer DEF Init, OneBatchWorks, Working
<1>9. SelectionIsFresh
  BY NoJobFields, KindsDiffer DEF Init, SelectionIsFresh, GoneRows
<1>10. PasteIsFresh
  BY NoJobFields, KindsDiffer DEF Init, PasteIsFresh
<1> QED
  BY <1>1, <1>2, <1>3, <1>4, <1>5, <1>6, <1>7, <1>8, <1>9, <1>10, TypeParts DEF IInv

LEMMA NextKeeps ==
  ASSUME IInv, [Next]_vars
  PROVE  IInv'
<1>1. ASSUME NEW k \in Tabs, Switch(k) PROVE IInv'
  BY <1>1, SwitchKeeps
<1>2. ASSUME NEW k \in Tabs, NEW out \in {"ok", "error"}, Answer(k, out) PROVE IInv'
  BY <1>2, AnswerKeeps
<1>3. ASSUME NEW o \in Objects, Elsewhere(o) PROVE IInv'
  BY <1>3, ElsewhereKeeps
<1>4. ASSUME NEW s \in Spots, NEW v \in Cells, Type(s, v) PROVE IInv'
  BY <1>4, TypeKeeps
<1>5. CASE Run \/ Revert \/ Preview \/ Dismiss \/ Apply \/ SelectAll \/ Closes \/ Confirm
  BY <1>5, RunKeeps, RevertKeeps, PreviewKeeps, ApplyKeeps, SelectsKeeps, DialogsKeep, ConfirmKeeps
<1>6. ASSUME NEW ns \in SUBSET Rows, SelectRange(ns) \/ Search(ns) PROVE IInv'
  BY <1>6, SelectsKeeps, SearchKeeps
<1>7. ASSUME NEW d \in Dialogs, Opens(d) PROVE IInv'
  BY <1>7, DialogsKeep
<1>8. ASSUME NEW ls \in SUBSET Lines, Pastes(ls) PROVE IInv'
  BY <1>8, DialogsKeep
<1>9. ASSUME NEW j \in Jobs,
             \/ \E e \in job[j].todo : Updated(j, e)
             \/ \E o \in job[j].todo : Deleted(j, o)
             \/ \E l \in job[j].todo : BulkLine(j, l)
             \/ UpdatesDone(j) \/ DeletesDone(j) \/ BulkDone(j)
             \/ \E ok \in BOOLEAN : Inserted(j, ok)
      PROVE  IInv'
  BY <1>9, UpdatedKeeps, DeletedKeeps, BulkLineKeeps, UpdatesDoneKeeps, EndsKeep
<1>10. CASE UNCHANGED vars
  BY <1>10, StutterKeeps
<1> QED
  BY <1>1, <1>2, <1>3, <1>4, <1>5, <1>6, <1>7, <1>8, <1>9, <1>10 DEF Next, Dialogs

\* A write adds nothing to the histories but an UPDATE of what was typed or is a
\* stray; that no line is in twice is part of the invariant.
LEMMA WritesStayMeant ==
  ASSUME IInv, WritesAreMeant, [Next]_vars
  PROVE  WritesAreMeant'
<1>1. /\ typed \subseteq typed' /\ strays \subseteq strays'
      /\ updates' \subseteq updates \cup typed \cup strays /\ again' = again
  <2>1. ASSUME NEW j \in Jobs, NEW e \in job[j].todo, Updated(j, e)
        PROVE  /\ typed' = typed /\ strays \subseteq strays' /\ again' = again
               /\ updates' \subseteq updates \cup typed \cup strays
    BY <2>1, UpdatedKeeps DEF Updated, Shown, pickHistory
  <2>2. ASSUME NEW j \in Jobs, NEW o \in job[j].todo, Deleted(j, o)
        PROVE  UNCHANGED <<typed, strays, updates, again>>
    BY <2>2, DeletedKeeps DEF Deleted, editHistory
  <2>3. ASSUME NEW j \in Jobs, NEW l \in job[j].todo, BulkLine(j, l)
        PROVE  UNCHANGED <<typed, strays, updates, again>>
    BY <2>3 DEF BulkLine, editHistory
  <2>4. ASSUME NEW s \in Spots, NEW v \in Cells, Type(s, v)
        PROVE  typed \subseteq typed' /\ UNCHANGED <<strays, updates, again>>
    BY <2>4 DEF Type, pickHistory
  <2>5. ASSUME NEW k \in Tabs, Switch(k) \/ \E out \in {"ok", "error"} : Answer(k, out)
        PROVE  UNCHANGED <<typed, strays, updates, again>>
    BY <2>5 DEF Switch, Answer
  <2>6. ASSUME \/ \E o \in Objects : Elsewhere(o)
               \/ Run \/ Revert \/ Preview \/ Dismiss \/ Apply
               \/ \E ns \in SUBSET Rows : Search(ns)
               \/ \E d \in {"delete", "insert", "bulk"} : Opens(d)
               \/ \E ls \in SUBSET Lines : Pastes(ls)
               \/ Confirm
        PROVE  UNCHANGED <<typed, strays, updates, again>>
    BY <2>6 DEF Elsewhere, Run, Revert, Preview, Dismiss, Apply, Search, Opens, Pastes, Confirm,
                editHistory, pickHistory
  <2>7. ASSUME SelectAll \/ Closes \/ \E ns \in SUBSET Rows : SelectRange(ns)
        PROVE  UNCHANGED <<typed, strays, updates, again>>
    BY <2>7 DEF SelectAll, SelectRange, Picks, Closes, editHistory
  <2>8. ASSUME NEW j \in Jobs, UpdatesDone(j) \/ DeletesDone(j) \/ BulkDone(j)
                               \/ \E ok \in BOOLEAN : Inserted(j, ok)
        PROVE  UNCHANGED <<typed, strays, updates, again>>
    BY <2>8 DEF UpdatesDone, DeletesDone, BulkDone, Inserted, editHistory, pickHistory
  <2>9. CASE UNCHANGED vars
    BY <2>9 DEF vars, editHistory, pickHistory
  <2> QED
    BY <2>1, <2>2, <2>3, <2>4, <2>5, <2>6, <2>7, <2>8, <2>9 DEF Next
<1>2. doubled' \subseteq unheard'
  BY NextKeeps DEF IInv, PasteIsFresh
<1> QED
  BY <1>1, <1>2 DEF WritesAreMeant, UpdatesAreMeant, RetriesAreFresh

\* The grid's cells, its pending edits, its selection and its batches fit each
\* other and the result they are of, through swaps of the result, reruns and
\* batches that outlive it (ResultTable.tsx, and the effects on `result`).
THEOREM InvariantHolds == Spec => []IInv
<1>1. Init => IInv
  BY InitIInv
<1>2. IInv /\ [Next]_vars => IInv'
  BY NextKeeps
<1> QED
  BY <1>1, <1>2, PTL DEF Spec

\* Every UPDATE carries what was typed to the row it was typed in, or is a stray
\* that a late answer made pending; and no retry deletes a row that was answered
\* as deleted or inserts a line that was answered as in (applyPending,
\* applyBulkDelete and the bulk insert's apply).
THEOREM WritesStayAsMeant == Spec => []WritesAreMeant
<1>1. Init => WritesAreMeant
  BY DEF Init, WritesAreMeant, UpdatesAreMeant, RetriesAreFresh
<1>2. IInv /\ WritesAreMeant /\ [Next]_vars => WritesAreMeant'
  BY WritesStayMeant
<1> QED
  BY <1>1, <1>2, InvariantHolds, PTL DEF Spec

=============================================================================
