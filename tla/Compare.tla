------------------------------- MODULE Compare -------------------------------
(***************************************************************************)
(* The Compare workspace: a pair of connections picked in the top bar, and *)
(* under it either the Schema tab, which loads both schemas after a short  *)
(* delay and lists the changes, or the Tables tab, which reads one table   *)
(* from both sides. Either applies its statements as one batch, and every  *)
(* batch that answers is written to the migration log.                     *)
(*                                                                         *)
(* A panel is one mounted component: the answer of a load it cancelled is  *)
(* dropped, and the answer of a batch that outlives its panel only reaches *)
(* the log. An answer may take any time. A list of changes is a constant   *)
(* set of rows, some of them drops: what the generators put there is       *)
(* DiffBatch, and what the cache answers is SchemaCache. One table is      *)
(* common to every two connections. Left out: the filter chips, expanding  *)
(* and editing a statement, and copying to the clipboard.                  *)
(***************************************************************************)
EXTENDS Naturals, Sequences, FiniteSets

CONSTANTS
  Conns,       \* connection ids
  EngineOf,    \* the engine of each
  Changes,     \* the rows of a list
  Drops,       \* the destructive ones
  MaxLog,      \* the entries the log keeps
  MaxBatches,  \* bound on the batches sent
  MaxGestures, \* bound on what the user does
  None

ASSUME CompareAssumption ==
  /\ EngineOf \in [Conns -> STRING]
  /\ Drops \subseteq Changes
  /\ MaxLog \in Nat \ {0} /\ MaxBatches \in Nat /\ MaxGestures \in Nat
  /\ None \notin Conns

VARIABLES
  tab,       \* "schema", "tables", or "away"
  source,    \* the connection that receives the changes, or None
  target,    \* the desired state, or None
  timer,     \* the delay before the schemas are loaded is running
  load,      \* what the panel shows
  loads,     \* the loads under way
  held,      \* Tables tab: held[side]: whose schema the panel has, or None
  asks,      \* Tables tab: the schemas asked for
  dir,       \* Tables tab: the side that is written
  selected,  \* Schema tab: the rows picked
  marks,     \* the rows shown as applied
  applying,  \* the panel waits for a batch
  batches,   \* the batches sent
  log,       \* migrationLog.entries, the newest first
  forgot,    \* history: the batches the log no longer has
  ticked,    \* history: the drops the user picked on this very list
  stained,   \* history: a batch of an earlier list answered into this one
  gestures   \* bound: what the user did

panel == <<timer, load, loads, held, asks, dir, selected, marks, applying, ticked, stained>>
vars == <<tab, source, target, panel, batches, log, forgot, gestures>>

Tabs == {"schema", "tables"}
Sides == {"source", "target"}
Shows(k, s, t, m) == [kind |-> k, src |-> s, tgt |-> t, meta |-> m]
Idle == Shows("idle", None, None, None)
Loading == Shows("loading", None, None, None)
Failed == Shows("error", None, None, None)

Init ==
  /\ tab = "away" /\ source = None /\ target = None
  /\ timer = FALSE /\ load = Idle /\ loads = {}
  /\ held = [s \in Sides |-> None] /\ asks = {} /\ dir = "source"
  /\ selected = {} /\ marks = {} /\ applying = FALSE
  /\ batches = <<>> /\ log = <<>> /\ forgot = {}
  /\ ticked = {} /\ stained = FALSE /\ gestures = 0

Gesture == gestures < MaxGestures /\ gestures' = gestures + 1

-----------------------------------------------------------------------------
\* The effect's clean-up: the loads under way are cancelled.
\* Mutant: nothing is cancelled.
CancelledNever == loads
Cancelled == {[l EXCEPT !.live = FALSE] : l \in loads}

\* A new list: the batches under way belong to an earlier one.
Outlived(view) ==
  [i \in DOMAIN batches |->
     IF batches[i].status = "sent" /\ batches[i].view # "gone"
     THEN [batches[i] EXCEPT !.view = view] ELSE batches[i]]

Comparable(s, t) == s # None /\ t # None /\ s # t

\* The selection of a fresh list: everything that is not a drop.
\* Mutant: the selection survives a new list.
DefaultKeeps(listed) == IF listed THEN (Changes \ Drops) \cup selected ELSE selected
Default(listed) == IF listed THEN Changes \ Drops ELSE {}

Relist(listed) ==
  /\ selected' = Default(listed)
  /\ marks' = {} /\ ticked' = {} /\ stained' = FALSE
  /\ batches' = Outlived("other")

\* The Schema tab's effect on a new pair: what is shown stays until the timer.
SchemaEffect(s, t) ==
  /\ timer' = Comparable(s, t)
  /\ loads' = Cancelled
  /\ load' = IF Comparable(s, t) THEN load ELSE Idle
  /\ UNCHANGED <<held, asks, dir, applying>>

\* The Tables tab: ready when both schemas are held and the engines agree.
Ready(s, t, h) == s # None /\ t # None /\ h["source"] # None /\ h["target"] # None
                  /\ EngineOf[s] = EngineOf[t]
Compute(s, t, h) ==
  /\ load' = IF Ready(s, t, h) THEN Loading ELSE Idle
  /\ loads' = Cancelled \cup
       IF Ready(s, t, h) THEN {[src |-> s, tgt |-> t, meta |-> h["source"], live |-> TRUE]} ELSE {}
  /\ marks' = {} /\ stained' = FALSE
  /\ batches' = Outlived("other")
  /\ UNCHANGED <<timer, selected, ticked>>

Asked(s, t) == {[side |-> "source", conn |-> s] : c \in {s} \ {None}}
               \cup {[side |-> "target", conn |-> t] : c \in {t} \ {None}}
\* Only the side that changed is asked for; the schema held stays meanwhile.
TablesEffect(s, t) ==
  /\ asks' = asks \cup Asked(IF s = source THEN None ELSE s, IF t = target THEN None ELSE t)
  /\ Compute(s, t, held)
  /\ UNCHANGED <<held, dir, applying>>

Picked(s, t) ==
  /\ source' = s /\ target' = t
  /\ IF tab = "tables" THEN TablesEffect(s, t)
     ELSE /\ SchemaEffect(s, t)
          /\ IF s # source \/ ~Comparable(s, t) THEN Relist(Comparable(s, t) /\ load.kind = "ok")
             ELSE UNCHANGED <<selected, marks, ticked, stained, batches>>
  /\ UNCHANGED <<tab, log, forgot>>

PickSource(c) == tab # "away" /\ c # source /\ Gesture /\ Picked(c, target)

PickTarget(c) ==
  /\ tab # "away" /\ c \notin {source, target} /\ Gesture
  /\ (tab = "tables" /\ source # None) => EngineOf[c] = EngineOf[source]
  /\ Picked(source, c)

Swap ==
  /\ tab # "away" /\ source # None /\ target # None /\ source # target /\ Gesture
  /\ Picked(target, source)

\* A panel is mounted: a fresh state, and its first effects.
Mount(t, s, g) ==
  /\ tab' = t /\ source' = s /\ target' = g
  /\ timer' = (t = "schema" /\ Comparable(s, g))
  /\ load' = Idle /\ loads' = Cancelled
  /\ held' = [x \in Sides |-> None]
  /\ asks' = IF t = "tables" THEN Asked(s, g) ELSE {}
  /\ dir' = "source" /\ selected' = {} /\ marks' = {} /\ applying' = FALSE
  /\ ticked' = {} /\ stained' = FALSE
  /\ batches' = Outlived("gone")

Open(t, s, g) == tab = "away" /\ Gesture /\ Mount(t, s, g) /\ UNCHANGED <<log, forgot>>
ChangeTab(t) == tab # "away" /\ t # tab /\ Gesture /\ Mount(t, source, target)
                /\ UNCHANGED <<log, forgot>>
Leave == tab # "away" /\ Gesture /\ Mount("away", None, None) /\ UNCHANGED <<log, forgot>>

-----------------------------------------------------------------------------
\* Schema tab: the delay is over, both schemas and both versions are asked for.
TimerFires ==
  /\ timer
  /\ timer' = FALSE
  /\ load' = Loading
  /\ loads' = loads \cup {[src |-> source, tgt |-> target, meta |-> source, live |-> TRUE]}
  /\ Relist(FALSE)
  /\ UNCHANGED <<tab, source, target, held, asks, dir, applying, log, forgot, gestures>>

\* The answer of a load that was not cancelled is shown, the changes in a fresh list.
Answer(l, ok) ==
  /\ l \in loads
  /\ loads' = loads \ {l}
  /\ load' = IF ~l.live THEN load ELSE IF ok THEN Shows("ok", l.src, l.tgt, l.meta) ELSE Failed
  /\ IF l.live /\ tab = "schema" THEN Relist(ok)
     ELSE UNCHANGED <<selected, marks, ticked, stained, batches>>
  /\ UNCHANGED <<tab, source, target, timer, held, asks, dir, applying, log, forgot, gestures>>

\* Tables tab: a schema arrives; nobody asks whether it is still the one picked.
SchemaArrives(a, ok) ==
  /\ a \in asks
  /\ asks' = asks \ {a}
  /\ LET h == [held EXCEPT ![a.side] = IF ok THEN a.conn ELSE None]
     IN  /\ held' = h
         /\ IF Ready(source, target, h) # Ready(source, target, held)
            THEN Compute(source, target, h)
            ELSE UNCHANGED <<load, loads, marks, stained, batches, timer, selected, ticked>>
  /\ UNCHANGED <<tab, source, target, dir, applying, log, forgot, gestures>>

\* Another direction, table or row cap: the rows are read again.
ChangeOption(d) ==
  /\ tab = "tables" /\ Ready(source, target, held) /\ Gesture
  /\ dir' = d
  /\ Compute(source, target, held)
  /\ UNCHANGED <<tab, source, target, held, asks, applying, log, forgot>>

-----------------------------------------------------------------------------
Listed == tab = "schema" /\ Comparable(source, target) /\ load.kind = "ok"

Toggle(r) ==
  /\ Listed /\ r \notin marks /\ Gesture
  /\ selected' = IF r \in selected THEN selected \ {r} ELSE selected \cup {r}
  /\ ticked' = ticked \cup ({r} \cap Drops)
  /\ UNCHANGED <<tab, source, target, timer, load, loads, held, asks, dir, marks, applying,
                 batches, log, forgot, stained>>

\* The header's check box, over the rows of the kind that is filtered for.
SelectShown(rows, on) ==
  /\ Listed /\ Gesture
  /\ selected' = IF on THEN selected \cup rows ELSE selected \ rows
  /\ ticked' = ticked \cup (IF on THEN rows \cap Drops ELSE {})
  /\ UNCHANGED <<tab, source, target, timer, load, loads, held, asks, dir, marks, applying,
                 batches, log, forgot, stained>>

WriteSide == IF dir = "source" THEN source ELSE target

Send(conn, other, rows) ==
  /\ Len(batches) < MaxBatches
  /\ batches' = Append(batches,
       [tab |-> tab, conn |-> conn, other |-> other, of |-> load, rows |-> rows, had |-> marks,
        hasty |-> timer, done |-> {}, view |-> "same", status |-> "sent", committed |-> FALSE])
  /\ applying' = TRUE
  /\ UNCHANGED <<tab, source, target, timer, load, loads, held, asks, dir, selected, marks,
                 log, forgot, ticked, stained>>

ApplySelected ==
  /\ Listed /\ ~applying /\ selected # {} /\ Gesture
  /\ Send(source, target, selected)

ApplyAll ==
  /\ tab = "tables" /\ load.kind = "ok" /\ Ready(source, target, held)
  /\ ~applying /\ marks = {} /\ Gesture
  /\ Send(WriteSide, IF dir = "source" THEN target ELSE source, Changes)

\* record: the newest first, the oldest past the cap dropped.
\* Mutant: a full log takes no more entries.
RecordedUntilFull(entry) == IF Len(log) < MaxLog THEN <<entry>> \o log ELSE log
Recorded(entry) == SubSeq(<<entry>> \o log, 1, IF Len(log) < MaxLog THEN Len(log) + 1 ELSE MaxLog)
Ids(entries) == {entries[i].batch : i \in DOMAIN entries}

(***************************************************************************)
(* The batch answers: `done` are the rows whose outcome is ok, none when   *)
(* the call itself failed. The panel that sent it, while it is mounted,    *)
(* writes its marks whatever list it shows by now.                         *)
(***************************************************************************)
Finish(i, done, committed) ==
  LET b == batches[i]
      entry == [batch |-> i, conn |-> b.conn, other |-> b.other, committed |-> committed]
  IN  /\ b.status = "sent"
      /\ committed => done = b.rows
      /\ batches' = [batches EXCEPT ![i].status = "answered", ![i].done = done,
                                    ![i].committed = committed]
      /\ log' = Recorded(entry)
      /\ forgot' = forgot \cup (Ids(log) \ Ids(Recorded(entry)))
      /\ IF b.view = "gone" THEN UNCHANGED <<marks, applying, stained>>
         ELSE /\ applying' = FALSE
              /\ marks' = IF b.tab = "schema" THEN b.had \cup done
                          ELSE IF committed THEN Changes ELSE marks
              /\ stained' = (stained \/ b.view = "other")
      /\ UNCHANGED <<tab, source, target, timer, load, loads, held, asks, dir, selected,
                     ticked, gestures>>

\* The migrations page: the one entry of that id is filtered out.
Without(entries, k) ==
  SubSeq(entries, 1, k - 1) \o SubSeq(entries, k + 1, Len(entries))
Remove(k) ==
  /\ k \in DOMAIN log /\ tab = "away" /\ Gesture
  /\ log' = Without(log, k)
  /\ forgot' = forgot \cup {log[k].batch}
  /\ UNCHANGED <<tab, source, target, panel, batches>>

Clear ==
  /\ log # <<>> /\ tab = "away" /\ Gesture
  /\ log' = <<>> /\ forgot' = forgot \cup Ids(log)
  /\ UNCHANGED <<tab, source, target, panel, batches>>

\* The window is closed and opened again: a batch under way goes on unseen.
Unseen(b) == IF b.status = "sent" THEN [b EXCEPT !.status = "lost", !.view = "gone"]
             ELSE [b EXCEPT !.view = "gone"]
CloseWindow ==
  /\ Gesture
  /\ tab' = "away" /\ source' = None /\ target' = None
  /\ timer' = FALSE /\ load' = Idle /\ loads' = {} /\ held' = [x \in Sides |-> None]
  /\ asks' = {} /\ dir' = "source" /\ selected' = {} /\ marks' = {} /\ applying' = FALSE
  /\ ticked' = {} /\ stained' = FALSE
  /\ batches' = [i \in DOMAIN batches |-> Unseen(batches[i])]
  /\ UNCHANGED <<log, forgot>>

Next ==
  \/ \E c \in Conns : PickSource(c) \/ PickTarget(c)
  \/ Swap \/ Leave \/ CloseWindow \/ Clear \/ TimerFires
  \/ \E t \in Tabs : ChangeTab(t) \/ \E s, g \in Conns \cup {None} : Open(t, s, g)
  \/ \E l \in loads, ok \in BOOLEAN : Answer(l, ok)
  \/ \E a \in asks, ok \in BOOLEAN : SchemaArrives(a, ok)
  \/ \E d \in Sides : ChangeOption(d)
  \/ \E r \in Changes : Toggle(r)
  \/ \E rows \in SUBSET Changes \ {{}}, on \in BOOLEAN : SelectShown(rows, on)
  \/ ApplySelected \/ ApplyAll
  \/ \E i \in DOMAIN batches, done \in SUBSET Changes, c \in BOOLEAN :
       done \subseteq batches[i].rows /\ Finish(i, done, c)
  \/ \E k \in DOMAIN log : Remove(k)

Spec == Init /\ [][Next]_vars

-----------------------------------------------------------------------------
Pairs == [kind : {"idle", "loading", "ok", "error"}, src : Conns \cup {None},
          tgt : Conns \cup {None}, meta : Conns \cup {None}]
Loads == [src : Conns, tgt : Conns, meta : Conns, live : BOOLEAN]
Batches == [tab : Tabs, conn : Conns, other : Conns, of : Pairs, rows : SUBSET Changes,
            had : SUBSET Changes, hasty : BOOLEAN, done : SUBSET Changes,
            view : {"same", "other", "gone"}, status : {"sent", "answered", "lost"},
            committed : BOOLEAN]
Entries == [batch : Nat \ {0}, conn : Conns, other : Conns, committed : BOOLEAN]

TypeOK ==
  /\ tab \in Tabs \cup {"away"}
  /\ source \in Conns \cup {None} /\ target \in Conns \cup {None}
  /\ timer \in BOOLEAN /\ applying \in BOOLEAN /\ stained \in BOOLEAN
  /\ load \in Pairs
  /\ loads \subseteq Loads
  /\ held \in [Sides -> Conns \cup {None}]
  /\ asks \subseteq [side : Sides, conn : Conns]
  /\ dir \in Sides
  /\ selected \subseteq Changes /\ marks \subseteq Changes /\ ticked \subseteq Drops
  /\ batches \in Seq(Batches) /\ log \in Seq(Entries)
  /\ forgot \subseteq Nat \ {0}
  /\ gestures \in Nat

\* What is shown is the pair that is picked, but while the delay runs; a load
\* that may still answer is for that pair.
ShownIsPicked ==
  /\ load.kind = "ok" => /\ tab # "away"
                         /\ timer \/ (load.src = source /\ load.tgt = target)
  /\ timer => tab = "schema" /\ Comparable(source, target)
  /\ \A l \in loads : l.live => l.src = source /\ l.tgt = target /\ load.kind = "loading"

\* A batch is made of the differences of the connection it runs against; only
\* the delay lets one be sent that is not.
BatchFitsItsSide ==
  \A i \in DOMAIN batches :
    LET b == batches[i]
    IN  /\ b.of.kind = "ok"
        /\ b.hasty \/ (b.conn \in {b.of.src, b.of.tgt} /\ (b.tab = "schema" => b.conn = b.of.src))

\* A panel waits exactly for the one batch it sent.
Waiting == {i \in DOMAIN batches : batches[i].status = "sent" /\ batches[i].view # "gone"}
WaitsForItsBatch == applying <=> \E i \in DOMAIN batches : Waiting = {i}
OneAtATime == \A i, j \in Waiting : i = j

\* A row is shown as applied only when a batch of this very list applied it, as
\* long as no batch of an earlier list answered into this one.
MarksAreTrue ==
  stained \/ \A r \in marks : \E i \in DOMAIN batches :
    batches[i].status = "answered" /\ batches[i].of = load /\ r \in batches[i].done

(***************************************************************************)
(* A drop is selected only when the user selected it on the list that is   *)
(* on the screen, however the lists came and went (the reset effect).      *)
(***************************************************************************)
DropsArePicked == tab = "schema" => selected \cap Drops \subseteq ticked

(***************************************************************************)
(* The log and the servers tell one story: an entry is a batch that        *)
(* answered, with the connection it ran against and its outcome, once; and *)
(* a batch that answered is in the log until the user or the cap removes   *)
(* it, even when its panel is gone (useMigrationLog.record).               *)
(***************************************************************************)
LogTellsTheServer ==
  /\ Len(log) <= MaxLog /\ forgot \subseteq DOMAIN batches
  /\ \A k \in DOMAIN log :
       /\ log[k].batch \in DOMAIN batches \ forgot
       /\ LET b == batches[log[k].batch]
          IN  b.status = "answered" /\ b.conn = log[k].conn /\ b.committed = log[k].committed
       /\ \A j \in DOMAIN log : log[j].batch = log[k].batch => j = k
  /\ \A i \in DOMAIN batches :
       batches[i].status = "answered" <=> i \in forgot \cup Ids(log)

\* At most one load may still answer, and none while the delay runs or away from
\* the panels; schemas are asked for in the Tables tab only.
OneLiveLoad ==
  /\ asks # {} => tab = "tables"
  /\ timer \/ tab = "away" => \A l \in loads : ~l.live
  /\ \A l, m \in loads : l.live /\ m.live => l = m

\* The list of a batch that no other list has replaced is the one on the
\* screen, with the marks it had; a batch of the Tables tab is a whole list.
SameListStays ==
  /\ \A i \in Waiting : batches[i].view = "same" =>
       batches[i].of = load /\ batches[i].tab = tab /\ batches[i].had = marks
  /\ \A i \in DOMAIN batches : batches[i].tab = "tables" => batches[i].rows = Changes

(***************************************************************************)
(* What the panels show and send belongs together, in every order of       *)
(* picks, timers and answers.                                              *)
(***************************************************************************)
IInv == TypeOK /\ ShownIsPicked /\ BatchFitsItsSide /\ WaitsForItsBatch /\ OneAtATime
        /\ MarksAreTrue /\ OneLiveLoad /\ SameListStays

=============================================================================
