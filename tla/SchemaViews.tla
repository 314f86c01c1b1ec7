------------------------------ MODULE SchemaViews ------------------------------
(***************************************************************************)
(* The two views of a schema, over the cache that module SchemaCache       *)
(* models: the Schema page, which keeps a copy, and the table list of the  *)
(* sidebar, which reads the cache. Both open a drawer on a table, and the  *)
(* drawer a dialog whose Apply alters a column; the list can also truncate *)
(* or drop a table.                                                        *)
(*                                                                         *)
(* Every connection has one table that changes, of the same name           *)
(* everywhere, beside others that do not. A column has a type and its      *)
(* other attributes (null: nullability and default). A statement is what   *)
(* the server makes of it.                                                 *)
(* The palette navigates from anywhere, also while a dialog is open; any   *)
(* other gesture needs that no dialog is in front of it.                   *)
(* Left out: the diagram, the filter, what "Copy" copies, Open in SQL      *)
(* (module SqlPage), and deleted connections.                              *)
(***************************************************************************)
EXTENDS Naturals, Sequences, FiniteSets

CONSTANTS
  Conns, EngineOf,
  MaxGestures,
  None,
  Gone         \* the table that was dropped

Names == {"a", "b"}
Attrs == [type : {"int", "text"}, null : BOOLEAN]
Tables == [Names -> Attrs \cup {None}]
Schemas == Tables \cup {Gone}
Forms == [name : Names, type : {"int", "text"}, null : BOOLEAN]
Statements == [do : {"add", "drop", "type", "modify", "rename", "truncate", "dropTable"},
               col : Names, form : Forms]

ASSUME ViewsAssumption ==
  /\ EngineOf \in [Conns -> {"postgres", "mysql", "sqlite"}]
  /\ MaxGestures \in Nat
  /\ None \notin Conns \cup Attrs \cup Schemas
  /\ Gone \notin Tables
  /\ None \notin {"add", "edit", "drop", "truncate", "dropTable"}

VARIABLES
  at,       \* the route: the Schema page or another one with the sidebar
  server,   \* the table of each connection
  late,     \* statements whose answer was lost, which the server may still take
  entries,  \* useSchemaCache.entries
  flight,   \* useSchemaCache.inFlight, and what the driver has read for it
  waits,    \* callers of load that wait for a request in flight
  calls,    \* reconnects of the page that have not returned
  page,     \* the Schema page's own state
  nav,      \* the state of TableNav
  jobs,     \* Apply and Confirm closures that have not ended
  excused,  \* connections whose cache may be behind for a reason given below
  gestures

viewVars == <<page, nav>>
cacheVars == <<entries, flight, waits>>
vars == <<at, server, late, cacheVars, calls, viewVars, jobs, excused, gestures>>

NoForm == [name |-> "a", type |-> "int", null |-> TRUE]
NoDialog == [kind |-> None, col |-> "a", attr |-> None, from |-> None,
             st |-> "form", stray |-> FALSE]
NoPage == [st |-> "idle", of |-> None, schema |-> None, late |-> FALSE,
           sel |-> FALSE, dlg |-> NoDialog]
NoNav == [err |-> FALSE, sel |-> FALSE, dlg |-> NoDialog, ask |-> None,
          askOf |-> None, busy |-> FALSE]
NoFlight == [st |-> "none", saw |-> None]

Dialogs == [kind : {"add", "edit", "drop", None}, col : Names, attr : Attrs \cup {None},
            from : Conns \cup {None}, st : {"form", "applying", "error"}, stray : BOOLEAN]

Closures == [by : {"page", "nav", "ask"}, n : Nat, conn : Conns, from : Conns,
             todo : Seq(Statements), form : Forms, old : Dialogs, here : BOOLEAN,
             mounted : BOOLEAN, done : BOOLEAN, stray : BOOLEAN, crossed : BOOLEAN]

TypeOK ==
  /\ at \in [path : {"schema", "other"}, cid : Conns]
  /\ server \in [Conns -> Schemas]
  /\ late \subseteq [conn : Conns, stmt : Statements]
  /\ entries \in [Conns -> Schemas \cup {None}]
  /\ flight \in [Conns -> [st : {"none", "asked", "read"}, saw : Schemas \cup {None}]]
  /\ waits \subseteq [who : {"page", "nav", "ask", "gone"}, conn : Conns]
  /\ calls \subseteq [conn : Conns, here : BOOLEAN]
  /\ page \in [st : {"idle", "loading", "ok", "error"}, of : Conns \cup {None},
               schema : Schemas \cup {None}, late : BOOLEAN, sel : BOOLEAN, dlg : Dialogs]
  /\ nav \in [err : BOOLEAN, sel : BOOLEAN, dlg : Dialogs,
              ask : {"truncate", "dropTable", None}, askOf : Conns \cup {None},
              busy : BOOLEAN]
  /\ jobs \subseteq Closures
  /\ excused \subseteq Conns
  /\ gestures \in 0..MaxGestures

FirstTable == [n \in Names |-> IF n = "a" THEN [type |-> "int", null |-> TRUE] ELSE None]

Init ==
  /\ at \in [path : {"other"}, cid : Conns]
  /\ server = [c \in Conns |-> FirstTable] /\ late = {}
  /\ entries \in [Conns -> {None, FirstTable}]
  /\ flight = [c \in Conns |-> NoFlight] /\ waits = {} /\ calls = {}
  /\ page = NoPage /\ nav = NoNav /\ jobs = {}
  /\ excused = {} /\ gestures = 0

Gesture == gestures < MaxGestures /\ gestures' = gestures + 1

-----------------------------------------------------------------------------
(* load, as SchemaCache has it.                                            *)

InFlight(c) == flight[c].st # "none"

\* A call of load that finds a request joins it, and otherwise sends one.
Asked(c) == IF InFlight(c) THEN flight
            ELSE [flight EXCEPT ![c] = [st |-> "asked", saw |-> None]]

Dropped(c) == [entries EXCEPT ![c] = None]

\* A forced load shares a request that has read the catalogue of before.
JoinsOld(c) == flight[c].st = "read" /\ flight[c].saw # server[c]

\* The views after a change of cache: the list shows its drawer and dialogs
\* only while there is an entry, and the page only while its load has ended.
NavOn(n, e) == IF e[at.cid] = None THEN [n EXCEPT !.dlg = NoDialog] ELSE n
PageOn(p) == IF p.st = "ok" THEN p ELSE [p EXCEPT !.dlg = NoDialog]

\* A closure whose drawer or view is gone writes nothing there.
Left(js, by) ==
  {IF j.by \in by THEN [j EXCEPT !.here = FALSE, !.mounted = FALSE] ELSE j : j \in js}

Hidden(js, p, e) ==
  {[j EXCEPT !.here = @ /\ (j.by = "page" => p.st = "ok")
                        /\ (j.by = "nav" => e[at.cid] # None)] : j \in js}

Introspect(c) ==
  /\ flight[c].st = "asked"
  /\ flight' = [flight EXCEPT ![c] = [st |-> "read", saw |-> server[c]]]
  /\ UNCHANGED <<at, server, late, entries, waits, calls, viewVars, jobs, excused, gestures>>

Waiting(who, c) == [who |-> who, conn |-> c] \in waits

\* The request ends, and with it every call that shares it.
Settle(c, p, n) ==
  /\ page' = PageOn(p)
  /\ nav' = NavOn(IF Waiting("ask", c) THEN [n EXCEPT !.ask = None, !.askOf = None, !.busy = FALSE]
                  ELSE n, entries')
  /\ jobs' = Hidden(jobs, page', entries')
  /\ flight' = [flight EXCEPT ![c] = NoFlight]
  /\ waits' = {w \in waits : w.conn # c}
  /\ UNCHANGED <<at, server, late, calls, gestures>>

Resolve(c) ==
  /\ flight[c].st = "read"
  /\ entries' = [entries EXCEPT ![c] = flight[c].saw]
  /\ Settle(c, IF Waiting("page", c)
               THEN [page EXCEPT !.st = "ok", !.of = c, !.schema = flight[c].saw,
                                 !.late = c # at.cid]
               ELSE page, nav)
  /\ excused' = IF flight[c].saw = server[c] THEN excused \ {c} ELSE excused

Reject(c) ==
  /\ InFlight(c)
  /\ UNCHANGED entries
  /\ Settle(c, IF Waiting("page", c) THEN [page EXCEPT !.st = "error"] ELSE page,
               IF Waiting("nav", c) THEN [nav EXCEPT !.err = TRUE] ELSE nav)
  /\ excused' = excused \cup {c}

-----------------------------------------------------------------------------
(* Navigation.                                                             *)

\* Mutant: the table list is not keyed by its connection.
NavOfKeepsDialogs(cid, n) == IF cid = at.cid THEN n ELSE [n EXCEPT !.err = FALSE]

\* TableNav is mounted under the active connection of the sidebar: another
\* connection, or another page, has another one.
NavOf(cid, n) == NoNav

\* The page's effect runs when it is mounted and when its connection changes.
Reloads(p, cid) == TRUE

\* A dialog that stays through a change of connection is reset if the engine
\* changes.
Kept(d, cid) ==
  IF d.kind = None THEN d
  ELSE [d EXCEPT !.stray = @ \/ cid # at.cid,
                 !.st = IF EngineOf[cid] = EngineOf[at.cid] THEN @ ELSE "form"]

\* The page's load() under a mounted page: an answer from the cache comes before
\* the browser paints, or after the spinner was shown.
Loaded(p, cid, flash) ==
  IF InFlight(cid) \/ entries[cid] = None
  THEN [p EXCEPT !.st = "loading", !.dlg = NoDialog]
  ELSE [p EXCEPT !.st = "ok", !.of = cid, !.schema = entries[cid], !.late = FALSE,
                 !.dlg = IF flash THEN NoDialog ELSE Kept(@, cid)]

\* A link or the palette. The list asks for a schema if there is none; then the
\* page's own effect runs.
Go(path, cid, flash) ==
  LET stays == path = "schema" /\ at.path = "schema"
      asks == entries[cid] = None /\ ~InFlight(cid)
      loads == path = "schema" /\ (InFlight(cid) \/ entries[cid] = None) /\ Reloads(page, cid) IN
  /\ <<path, cid>> # <<at.path, at.cid>>
  /\ at' = [path |-> path, cid |-> cid]
  /\ nav' = NavOf(cid, nav)
  /\ page' = IF path # "schema" THEN NoPage
             ELSE IF Reloads(page, cid)
                  THEN Loaded(IF stays THEN page ELSE NoPage, cid, flash)
                  ELSE page
  /\ flight' = IF asks THEN Asked(cid) ELSE flight
  /\ LET old == {[w EXCEPT !.who = IF @ = "page" /\ stays THEN @ ELSE "gone"] : w \in waits} IN
       waits' = old \cup (IF asks THEN {[who |-> "nav", conn |-> cid]} ELSE {})
                    \cup (IF loads THEN {[who |-> "page", conn |-> cid]} ELSE {})
  /\ calls' = IF stays THEN calls ELSE {[k EXCEPT !.here = FALSE] : k \in calls}
  /\ jobs' = IF ~stays THEN Left(jobs, {"page", "nav", "ask"})
             ELSE {[j EXCEPT !.here = @ /\ page'.st = "ok" /\ ~flash] : j \in Left(jobs, {"nav", "ask"})}
  /\ Gesture
  /\ UNCHANGED <<server, late, entries, excused>>

-----------------------------------------------------------------------------
(* The page's buttons.                                                     *)

NavShown == entries[at.cid] # None
Shown(by) == IF by = "page" THEN page.st = "ok" /\ page.sel ELSE NavShown /\ nav.sel
Modal == Shown("page") \/ Shown("nav") \/ (NavShown /\ nav.ask # None)

\* load(true) of connection c: here, if the page that called it is still there.
LoadForced(c, here) ==
  /\ entries' = Dropped(c)
  /\ flight' = Asked(c)
  /\ waits' = waits \cup {[who |-> IF here THEN "page" ELSE "gone", conn |-> c]}
  /\ page' = IF here THEN PageOn([page EXCEPT !.st = "loading"]) ELSE page
  /\ excused' = IF JoinsOld(c) THEN excused \cup {c} ELSE excused

Refresh ==
  /\ at.path = "schema" /\ page.st # "loading" /\ ~Modal
  /\ LoadForced(at.cid, TRUE)
  /\ nav' = NavOn(nav, entries')
  /\ jobs' = Hidden(jobs, page', entries')
  /\ Gesture
  /\ UNCHANGED <<at, server, late, calls>>

Reconnect ==
  /\ at.path = "schema" /\ page.st # "loading" /\ ~Modal
  /\ page' = PageOn([page EXCEPT !.st = "loading"])
  /\ calls' = calls \cup {[conn |-> at.cid, here |-> TRUE]}
  /\ jobs' = Hidden(jobs, page', entries)
  /\ Gesture
  /\ UNCHANGED <<at, server, late, cacheVars, nav, excused>>

\* reconnectAndLoad after its await, which may have failed.
Reconnected(k) ==
  /\ k \in calls
  /\ calls' = calls \ {k}
  /\ LoadForced(k.conn, k.here)
  /\ nav' = NavOn(nav, entries')
  /\ jobs' = Hidden(jobs, page', entries')
  /\ UNCHANGED <<at, server, late, gestures>>

-----------------------------------------------------------------------------
(* The drawer.                                                             *)

View(by) == IF by = "page" THEN page ELSE nav
SetView(by, v) == IF by = "page" THEN page' = v /\ UNCHANGED nav
                                 ELSE nav' = v /\ UNCHANGED page
SchemaOf(by) == IF by = "page" THEN page.schema ELSE entries[at.cid]

still == <<at, server, late, cacheVars, calls, excused>>

\* A click on a node of the diagram; Describe or Alter in the list's menu.
OpenDrawer(by) ==
  /\ IF by = "page" THEN page.st = "ok" ELSE NavShown
  /\ SchemaOf(by) # Gone /\ ~Modal
  /\ SetView(by, [View(by) EXCEPT !.sel = TRUE])
  /\ Gesture
  /\ UNCHANGED <<still, jobs>>

CloseDrawer(by) ==
  /\ Shown(by) /\ View(by).dlg.kind = None
  /\ SetView(by, [View(by) EXCEPT !.sel = FALSE])
  /\ Gesture
  /\ UNCHANGED <<still, jobs>>

\* Add column, and a column's Edit and Drop buttons.
OpenDialog(by, kind, col) ==
  LET t == SchemaOf(by) IN
  /\ Shown(by) /\ t # Gone /\ View(by).dlg.kind = None
  /\ kind # "add" => t[col] # None
  /\ SetView(by, [View(by) EXCEPT !.dlg =
       [kind |-> kind, col |-> col, attr |-> IF kind = "edit" THEN t[col] ELSE None,
        from |-> IF by = "page" THEN page.of ELSE at.cid,
        st |-> "form", stray |-> by = "page" /\ page.late]])
  /\ Gesture
  /\ UNCHANGED <<still, jobs>>

CloseDialog(by) ==
  /\ Shown(by) /\ View(by).dlg.kind # None /\ View(by).dlg.st # "applying"
  /\ SetView(by, [View(by) EXCEPT !.dlg = NoDialog])
  /\ Gesture
  /\ UNCHANGED <<still, jobs>>

Alters(d, f) == f.type # d.attr.type \/ f.null # d.attr.null

\* A builder's statement, which says all that the form shows (form), and of a
\* change of type only the type unless it is MySQL's MODIFY.
Build(e, do, d, f) ==
  [do |-> IF do = "type" /\ e = "mysql" THEN "modify" ELSE do,
   col |-> IF do = "add" THEN f.name ELSE d.col, form |-> f]

\* buildRenameColumn has no version from the dialog, takes MySQL's for an old one,
\* and throws for want of the type: the render fails, and with it the window.
Throws(e, d, f) == e = "mysql" /\ d.kind = "edit" /\ f.name # d.col

\* Mutant: a dialog sends a rename or a type change.
SqlStatementsOnlyOne(e, d, f) ==
  LET s(do) == Build(e, do, d, f) IN
  CASE d.kind = "add" -> <<s("add")>>
    [] d.kind = "drop" -> <<s("drop")>>
    [] d.kind = "edit" /\ f.name # d.col -> IF Throws(e, d, f) THEN <<>> ELSE <<s("rename")>>
    [] OTHER -> IF Alters(d, f) /\ e # "sqlite" THEN <<s("type")>> ELSE <<>>

\* sqlStatements: what the dialog shows and sends. The type first, by the name
\* that the column still has; SQLite can only rename, and MySQL cannot.
SqlStatements(e, d, f) ==
  LET s(do) == Build(e, do, d, f) IN
  CASE d.kind = "add" -> <<s("add")>>
    [] d.kind = "drop" -> <<s("drop")>>
    [] d.kind = "edit" /\ (Throws(e, d, f) \/ (Alters(d, f) /\ e = "sqlite")) -> <<>>
    [] OTHER -> (IF Alters(d, f) THEN <<s("type")>> ELSE <<>>)
                \o (IF f.name # d.col THEN <<s("rename")>> ELSE <<>>)

NewJob(by, from, todo, f, d, stray) ==
  [by |-> by, n |-> gestures, conn |-> at.cid, from |-> from, todo |-> todo, form |-> f,
   old |-> d, here |-> TRUE, mounted |-> TRUE, done |-> FALSE, stray |-> stray,
   crossed |-> FALSE]

Apply(by, f) ==
  LET d == View(by).dlg
      todo == SqlStatements(EngineOf[at.cid], d, f) IN
  /\ Shown(by) /\ d.kind # None /\ d.st # "applying"
  /\ d.kind = "drop" => f = NoForm
  /\ todo # <<>>
  /\ SetView(by, [View(by) EXCEPT !.dlg.st = "applying"])
  /\ jobs' = jobs \cup {NewJob(by, d.from, todo, f, d, d.stray)}
  /\ Gesture
  /\ UNCHANGED still

-----------------------------------------------------------------------------
(* Truncate and Drop.                                                      *)

AskDestructive(kind) ==
  /\ NavShown /\ entries[at.cid] # Gone /\ ~Modal
  /\ nav' = [nav EXCEPT !.ask = kind, !.askOf = at.cid]
  /\ Gesture
  /\ UNCHANGED <<still, page, jobs>>

CancelDestructive ==
  /\ NavShown /\ nav.ask # None /\ ~nav.busy
  /\ nav' = [nav EXCEPT !.ask = None, !.askOf = None]
  /\ Gesture
  /\ UNCHANGED <<still, page, jobs>>

\* The name was typed.
ConfirmDestructive ==
  /\ NavShown /\ nav.ask # None /\ ~nav.busy
  /\ nav' = [nav EXCEPT !.busy = TRUE]
  /\ jobs' = jobs \cup {NewJob("ask", nav.askOf,
               <<[do |-> nav.ask, col |-> "a", form |-> NoForm]>>, NoForm, NoDialog, FALSE)}
  /\ Gesture
  /\ UNCHANGED <<still, page>>

-----------------------------------------------------------------------------
(* The statements, at the server.                                          *)

Accepts(t, s) ==
  /\ t # Gone
  /\ CASE s.do = "add" -> t[s.col] = None
       [] s.do \in {"drop", "type", "modify"} -> t[s.col] # None
       [] s.do = "rename" -> t[s.col] # None /\ t[s.form.name] = None
       [] OTHER -> TRUE

\* MODIFY restates the column, TYPE leaves what it does not name. (A MODIFY also
\* drops AUTO_INCREMENT and COMMENT, which the dialog does not know.)
Effect(t, s) ==
  CASE s.do \in {"add", "modify"} ->
         [t EXCEPT ![s.col] = [type |-> s.form.type, null |-> s.form.null]]
    [] s.do = "drop" -> [t EXCEPT ![s.col] = None]
    [] s.do = "type" -> [t EXCEPT ![s.col].type = s.form.type]
    [] s.do = "rename" -> [t EXCEPT ![s.form.name] = t[s.col], ![s.col] = None]
    [] s.do = "truncate" -> t
    [] OTHER -> Gone

Crossed(js, c) == {[j EXCEPT !.crossed = @ \/ j.conn = c] : j \in js}

Accept(j) ==
  /\ j \in jobs /\ j.todo # <<>>
  /\ Accepts(server[j.conn], Head(j.todo))
  /\ server' = [server EXCEPT ![j.conn] = Effect(@, Head(j.todo))]
  /\ jobs' = Crossed(jobs \ {j}, j.conn)
             \cup {[j EXCEPT !.todo = Tail(@), !.done = TRUE]}
  /\ UNCHANGED <<at, late, cacheVars, calls, viewVars, excused, gestures>>

\* The server refuses it, or the connection fails before it is sent or (lost)
\* before its answer is there: what is left is not sent, the dialog says so, and
\* nothing is loaded anew.
Refuse(j, lost) ==
  /\ j \in jobs /\ j.todo # <<>>
  /\ jobs' = jobs \ {j}
  /\ late' = IF lost THEN late \cup {[conn |-> j.conn, stmt |-> Head(j.todo)]} ELSE late
  /\ IF ~j.here THEN UNCHANGED viewVars
     ELSE IF j.by = "ask" THEN nav' = [nav EXCEPT !.busy = FALSE] /\ UNCHANGED page
     ELSE SetView(j.by, [View(j.by) EXCEPT !.dlg.st = IF View(j.by).dlg.kind = None
                                                      THEN "form" ELSE "error"])
  /\ excused' = IF j.done THEN excused \cup {j.conn} ELSE excused
  /\ UNCHANGED <<at, server, cacheVars, calls, gestures>>

\* A statement whose answer was lost takes effect after all: at once, later, or
\* never.
Lands(l) ==
  /\ l \in late /\ Accepts(server[l.conn], l.stmt)
  /\ late' = late \ {l}
  /\ server' = [server EXCEPT ![l.conn] = Effect(@, l.stmt)]
  /\ jobs' = Crossed(jobs, l.conn)
  /\ excused' = excused \cup {l.conn}
  /\ UNCHANGED <<at, cacheVars, calls, viewVars, gestures>>

\* Mutant: nothing is loaded anew when the dialog closes.
EndsSilently(j) ==
  /\ j \in jobs /\ j.todo = <<>>
  /\ page' = IF j.by = "page" /\ j.here THEN [page EXCEPT !.dlg = NoDialog] ELSE page
  /\ nav' = CASE j.by = "nav" /\ j.here -> [nav EXCEPT !.dlg = NoDialog]
              [] j.by = "ask" /\ j.here -> [nav EXCEPT !.ask = None, !.askOf = None, !.busy = FALSE]
              [] OTHER -> nav
  /\ jobs' = jobs \ {j}
  /\ UNCHANGED <<still, gestures>>

\* The statements are through, and apply has reconnected: the dialog closes and
\* its view loads the schema of the connection that was altered. The list's
\* confirmation waits for that, and closes then.
Ends(j) ==
  /\ j \in jobs /\ j.todo = <<>>
  /\ IF j.by = "page"
     THEN LET p == IF j.here THEN [page EXCEPT !.dlg = NoDialog] ELSE page IN
          /\ entries' = Dropped(j.conn)
          /\ page' = IF j.mounted THEN PageOn([p EXCEPT !.st = "loading"]) ELSE p
          /\ nav' = NavOn(nav, entries')
     ELSE /\ nav' = IF j.by = "nav" /\ j.here THEN [nav EXCEPT !.dlg = NoDialog] ELSE nav
          /\ UNCHANGED <<entries, page>>
  /\ flight' = Asked(j.conn)
  /\ waits' = waits \cup
       {[who |-> IF j.by = "page" /\ j.mounted THEN "page"
                 ELSE IF j.by = "ask" /\ j.here THEN "ask" ELSE "gone", conn |-> j.conn]}
  /\ jobs' = Hidden(jobs \ {j}, page', entries')
  /\ excused' = IF JoinsOld(j.conn) THEN excused \cup {j.conn} ELSE excused
  /\ UNCHANGED <<at, server, late, calls, gestures>>

\* Another client adds or drops a column.
Elsewhere(c) ==
  /\ server[c] # Gone
  /\ server' = [server EXCEPT ![c]["b"] =
                  IF @ = None THEN [type |-> "int", null |-> TRUE] ELSE None]
  /\ jobs' = Crossed(jobs, c)
  /\ excused' = excused \cup {c}
  /\ Gesture
  /\ UNCHANGED <<at, late, cacheVars, calls, viewVars>>

\* An import has ended: the cache is told.
Invalidate(c) ==
  /\ entries[c] # None
  /\ entries' = Dropped(c)
  /\ nav' = NavOn(nav, entries')
  /\ jobs' = Hidden(jobs, page, entries')
  /\ Gesture
  /\ UNCHANGED <<at, server, late, flight, waits, calls, page, excused>>

\* The window is loaded again, as it must be after a render that threw: all that
\* the program knew is gone, and its statements under way have lost their answers.
Reload ==
  /\ late' = late \cup {[conn |-> j.conn, stmt |-> Head(j.todo)] : j \in {k \in jobs : k.todo # <<>>}}
  /\ entries' = [c \in Conns |-> None]
  /\ flight' = [c \in Conns |-> IF c = at.cid THEN [st |-> "asked", saw |-> None] ELSE NoFlight]
  /\ waits' = [who : IF at.path = "schema" THEN {"page", "nav"} ELSE {"nav"}, conn : {at.cid}]
  /\ page' = IF at.path = "schema" THEN [NoPage EXCEPT !.st = "loading"] ELSE NoPage
  /\ nav' = NoNav /\ calls' = {} /\ jobs' = {} /\ excused' = {}
  /\ Gesture
  /\ UNCHANGED <<at, server>>

Next ==
  \/ \E path \in {"schema", "other"}, cid \in Conns, flash \in BOOLEAN : Go(path, cid, flash)
  \/ Refresh \/ Reconnect \/ Reload
  \/ \E k \in calls : Reconnected(k)
  \/ \E by \in {"page", "nav"} :
       \/ OpenDrawer(by) \/ CloseDrawer(by) \/ CloseDialog(by)
       \/ \E kind \in {"add", "edit", "drop"}, col \in Names : OpenDialog(by, kind, col)
       \/ \E f \in Forms : Apply(by, f)
  \/ \E kind \in {"truncate", "dropTable"} : AskDestructive(kind)
  \/ CancelDestructive \/ ConfirmDestructive
  \/ \E j \in jobs : Accept(j) \/ Ends(j) \/ \E lost \in BOOLEAN : Refuse(j, lost)
  \/ \E l \in late : Lands(l)
  \/ \E c \in Conns : Introspect(c) \/ Resolve(c) \/ Reject(c) \/ Elsewhere(c) \/ Invalidate(c)

Spec == Init /\ [][Next]_vars

-----------------------------------------------------------------------------
(* What must hold.                                                         *)

\* A column is altered, and a table truncated or dropped, on the connection
\* whose schema the dialog was made from. The list never strays; the page does
\* only if a late answer of an earlier connection replaced its schema, or if
\* its dialog stayed open while the palette changed the connection.
ActsAtHome ==
  /\ \A j \in jobs : j.from = j.conn \/ (j.by = "page" /\ j.stray)
  /\ nav.ask # None => nav.askOf = at.cid
  /\ nav.dlg.kind # None => nav.dlg.from = at.cid /\ ~nav.dlg.stray
  /\ page.dlg.kind # None => page.dlg.from = at.cid \/ page.dlg.stray

\* What the page shows is of its own connection, or of a late answer.
PageIsOfConnection ==
  /\ page.st = "ok" => page.schema # None /\ (page.of = at.cid \/ page.late)
  /\ at.path # "schema" => page = NoPage

\* Nobody waits for a request that is not there, and a page or a dialog that
\* says that it is busy has something under way that will tell it the end.
NobodyWaitsForNothing ==
  /\ \A w \in waits : InFlight(w.conn)
  /\ page.st = "loading" => \/ \E c \in Conns : Waiting("page", c)
                            \/ \E k \in calls : k.here
  /\ \A by \in {"page", "nav"} :
       View(by).dlg.st = "applying" => \E j \in jobs : j.by = by /\ j.here
  /\ nav.busy => \/ \E j \in jobs : j.by = "ask" /\ j.here
                 \/ Waiting("ask", at.cid)

\* When nothing is under way, the cache, and with it the list, holds the schema
\* that this program's own DDL has left; unless another client changed it, an
\* edit failed half way, the reload failed, the reload was given the answer of a
\* request that had read the catalogue before, or a statement took effect whose
\* answer was lost, which the program takes for a failure.
CacheFollowsDdl ==
  \A c \in Conns :
    InFlight(c) \/ c \in excused \/ (\E j \in jobs : j.conn = c)
      \/ entries[c] \in {None, server[c]}

\* An Apply that went through has done what the form showed, if nobody else
\* altered the table since: the new name (not on MySQL, where it cannot be sent),
\* the new type, and on MySQL the other attributes. PostgreSQL leaves those as
\* they were, and the dialog reports success all the same.
EditsAreWhole ==
  \A j \in jobs :
    LET t == server[j.conn]
        f == j.form IN
    j.by # "ask" /\ j.todo = <<>> /\ ~j.crossed =>
      CASE j.old.kind = "drop" -> t[j.old.col] = None
        [] j.old.kind = "add" -> t[f.name] = [type |-> f.type, null |-> f.null]
        [] OTHER ->
             /\ t[f.name] # None
             /\ f.name # j.old.col => t[j.old.col] = None
             /\ f.type # j.old.attr.type => t[f.name].type = f.type
             /\ EngineOf[j.conn] = "mysql" /\ Alters(j.old, f) =>
                  t[f.name] = [type |-> f.type, null |-> f.null]

\* What makes them inductive. What the driver has read is a schema, and what a
\* view shows is somebody's; a view that shows nothing has no dialog.
WhatIsShownIsReal ==
  /\ \A c \in Conns : flight[c].st = "read" => flight[c].saw # None
  /\ IF page.st = "ok" THEN page.of # None ELSE page.dlg = NoDialog
  /\ ~NavShown => nav.dlg = NoDialog
  /\ \A by \in {"page", "nav"} : View(by).dlg.kind # None => View(by).dlg.from # None

\* Nothing that is under way speaks to a page that has been left; of the list,
\* only what the active connection's own has begun does.
TheLeftIsSilent ==
  /\ at.path # "schema" => /\ \A w \in waits : w.who # "page"
                           /\ \A k \in calls : ~k.here
                           /\ \A j \in jobs : j.by = "page" => ~j.mounted
  /\ \A j \in jobs : j.here => j.mounted /\ (j.by # "page" => j.conn = at.cid)

\* What a connection's cache may be behind for: a closure that has sent DDL will
\* load it anew, unless it fails.
Followed(c) == c \in excused \/ \E j \in jobs : j.conn = c /\ j.done
CacheIsFollowed ==
  \A c \in Conns :
    /\ flight[c].st = "read" => flight[c].saw = server[c] \/ Followed(c)
    /\ InFlight(c) \/ Followed(c) \/ entries[c] \in {None, server[c]}

\* A closure has sent a first part of its statements. A type that is changed
\* before the rename is the old column's.
TypeIsChanged(j) ==
  LET t == server[j.conn] IN
  /\ t # Gone /\ t[j.old.col] # None
  /\ t[j.old.col].type = j.form.type
  /\ EngineOf[j.conn] = "mysql" => t[j.old.col] = [type |-> j.form.type, null |-> j.form.null]
EditsAreSent ==
  \A j \in jobs :
    LET all == SqlStatements(EngineOf[j.conn], j.old, j.form) IN
    j.by # "ask" =>
      /\ j.old.kind # None
      /\ \/ j.todo = all /\ all # <<>>
         \/ j.todo = <<>>
         \/ Len(all) = 2 /\ j.todo = <<all[2]>> /\ (~j.crossed => TypeIsChanged(j))

IInv ==
  /\ TypeOK /\ ActsAtHome /\ PageIsOfConnection /\ NobodyWaitsForNothing
  /\ WhatIsShownIsReal /\ TheLeftIsSilent /\ CacheIsFollowed /\ EditsAreSent

=============================================================================
