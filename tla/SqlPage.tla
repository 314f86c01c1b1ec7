------------------------------- MODULE SqlPage -------------------------------
(***************************************************************************)
(* The SQL workspace: the tab store, the page's runs, and the channel by   *)
(* which every other view has SQL opened in it.                            *)
(*                                                                         *)
(* A load travels twice under one nonce: in sessionStorage, which the page *)
(* drains when it mounts or changes its connection, and as an event 50 ms  *)
(* later, which only a mounted page hears. The page remembers the last     *)
(* nonce it acted on, in a ref that dies with it. Runs outlive the page:   *)
(* the answer of a run started by an earlier page still stamps its tab.    *)
(*                                                                         *)
(* Tabs are only appended, so a tab's number is its place in the bar. A    *)
(* text is a member of Texts, blank, or the SELECT of a table at a limit.  *)
(* Left out: titles, which of the two bottom panes is in front, the query  *)
(* history and the schema that autocomplete reads.                         *)
(***************************************************************************)
EXTENDS Naturals, Sequences

CONSTANTS
  Connections, Tables,
  Texts,     \* what a user types, selects, or re-runs from a list
  Starter,   \* the text of a first tab
  Blank,
  Limits,    \* values of the row-limit selector
  MaxTabs, MaxRuns, MaxLoads, MaxPages,
  MaxGestures, \* bound on what the user does
  Away,      \* any other route
  None

ASSUME SqlPageAssumption ==
  /\ {MaxTabs, MaxRuns, MaxLoads, MaxPages, MaxGestures} \subseteq Nat
  /\ Starter \in Texts
  /\ Away \notin Connections
  /\ None \notin Nat \cup Connections \cup Tables \cup {Away}

Tabs == 1..MaxTabs
Runs == 1..MaxRuns
LoadIds == 1..MaxLoads
Kinds == {"run", "explain"}

\* buildSelectStarSql.
SelectStar(t, n) == <<t, n>>
Sqls == Texts \cup {Blank} \cup {SelectStar(t, n) : t \in Tables, n \in Limits}

VARIABLES
  store,    \* useSqlTabs, with the tabs of a connection as a set of numbers
  rowLimit, \* useGridPrefs
  route,    \* the connection whose workspace is mounted, or Away
  target,   \* the route last pushed and not rendered yet, or None
  page,     \* which mount of the page this is
  panel,    \* runByTab and planByTab: what each tab shows, and of which run
  run,      \* every call of api.runQuery
  lastRun,
  stopped,  \* the runs that Stop was pressed for
  due,      \* onRun calls waiting behind setTimeout(0)
  recon,    \* reconnects in progress: the connection and the page's mount
  load,     \* every call of loadSqlInWorkspace
  lastLoad,
  fired,    \* the loads up to this one have had their event
  pending,  \* the load in sessionStorage, or None
  handled,  \* handledLoadNonceRef
  here,     \* history: the loads this mount has opened
  again,    \* history: the loads one mount opened twice
  strays,   \* history: the loads opened in another connection's workspace
  opened,   \* history: the loads opened at all
  crowded,  \* history: the loads made while another's event was outstanding
  gestures

pageVars == <<route, target, page>>
runVars == <<panel, run, lastRun>>
loadVars == <<load, lastLoad, fired, pending>>
openVars == <<handled, here, again, strays, opened>>
vars == <<store, rowLimit, pageVars, runVars, stopped, due, recon, loadVars,
          openVars, crowded, gestures>>

Panes == [is : {"idle", "running", "ok", "error"}, of : Runs \cup {None}]
Idle == [is |-> "idle", of |-> None]
NoRun == [conn |-> None, tab |-> None, sql |-> Blank, kind |-> "run", page |-> 0,
          st |-> "new"]

\* What loadSqlInWorkspace is given: a table to browse, at the row
\* limit, or a text to load or to re-run.
Payloads ==
  [conn : Connections, sql : Texts, run : BOOLEAN, ref : {None}]
    \cup {[conn |-> c, sql |-> SelectStar(t, n), run |-> TRUE, ref |-> t] :
            c \in Connections, t \in Tables, n \in Limits}

TypeOK ==
  /\ store \in [open   : [Connections -> SUBSET Tabs],
                active : [Connections -> Tabs \cup {None}],
                sql    : [Tabs -> Sqls],
                ran    : [Tabs -> Sqls \cup {None}],
                ref    : [Tabs -> Tables \cup {None}],
                last   : 0..MaxTabs]
  /\ rowLimit \in Limits
  /\ route \in Connections \cup {Away}
  /\ target \in Connections \cup {Away, None}
  /\ page \in 0..MaxPages
  /\ panel \in [Kinds -> [Tabs -> Panes]]
  /\ run \in [Runs -> [conn : Connections \cup {None}, tab : Tabs \cup {None},
                       sql : Sqls, kind : Kinds, page : Nat,
                       st : {"new", "flight", "ok", "error"}]]
  /\ lastRun \in 0..MaxRuns
  /\ stopped \subseteq Runs
  /\ due \in Seq([conn : Connections, sql : Sqls, page : Nat])
  /\ recon \subseteq [conn : Connections, page : Nat]
  /\ load \in [LoadIds -> Payloads \cup {None}]
  /\ lastLoad \in 0..MaxLoads
  /\ fired \in 0..lastLoad
  /\ pending \in LoadIds \cup {None}
  /\ handled \in LoadIds \cup {None}
  /\ gestures \in 0..MaxGestures
  /\ {here, again, strays, opened, crowded} \subseteq SUBSET LoadIds

Init ==
  /\ store = [open   |-> [c \in Connections |-> {}],
              active |-> [c \in Connections |-> None],
              sql    |-> [i \in Tabs |-> Blank],
              ran    |-> [i \in Tabs |-> None],
              ref    |-> [i \in Tabs |-> None],
              last   |-> 0]
  /\ rowLimit \in Limits
  /\ route = Away /\ target = None /\ page = 0
  /\ panel = [k \in Kinds |-> [i \in Tabs |-> Idle]]
  /\ run = [r \in Runs |-> NoRun] /\ lastRun = 0
  /\ stopped = {} /\ due = <<>> /\ recon = {}
  /\ load = [l \in LoadIds |-> None] /\ lastLoad = 0 /\ fired = 0
  /\ pending = None /\ handled = None
  /\ here = {} /\ again = {} /\ strays = {} /\ opened = {} /\ crowded = {}
  /\ gestures = 0

-----------------------------------------------------------------------------
(* The tab store.                                                          *)

\* newTab, loadIntoNewTab and the second half of openOrFocusTableTab.
Added(s, c, q, t) ==
  LET i == s.last + 1 IN
  [s EXCEPT !.open[c] = @ \cup {i}, !.active[c] = i, !.sql[i] = q, !.ref[i] = t,
            !.last = i]

Ensured(s, c) == IF s.open[c] = {} THEN Added(s, c, Starter, None) ELSE s

Focused(s, c, i) == [s EXCEPT !.active[c] = i]

BoundTo(s, c, t) == {i \in s.open[c] : s.ref[i] = t}

\* Mutant: a click on a table always opens a tab.
OpenOrFocusAlwaysOpens(s, c, q, t) == Added(s, c, q, t)

OpenOrFocus(s, c, q, t) ==
  IF t # None /\ BoundTo(s, c, t) # {}
  THEN Focused(s, c, CHOOSE i \in BoundTo(s, c, t) : TRUE)
  ELSE Added(s, c, q, t)

\* The tab a closed one hands the focus to: the next in the bar, else the last.
Neighbour(rest, i, n) ==
  \/ rest = {} /\ n = None
  \/ /\ n \in rest /\ n > i
     /\ \A m \in rest : m > i => n <= m
  \/ /\ n \in rest
     /\ \A m \in rest : m < i /\ m <= n

Closed(s, c, i, n) ==
  [s EXCEPT !.open[c] = @ \ {i},
            !.active[c] = IF @ = i \/ s.open[c] = {i} THEN n ELSE @]

Edited(s, i, q) == [s EXCEPT !.sql[i] = q]

\* Mutant: the stamp is the buffer of the moment, not the text that ran.
MarkRanStampsBuffer(s, c, i, q) ==
  IF i \in s.open[c] THEN [s EXCEPT !.ran[i] = s.sql[i]] ELSE s

MarkRan(s, c, i, q) == IF i \in s.open[c] THEN [s EXCEPT !.ran[i] = q] ELSE s

Active(c) == store.active[c]

Gesture == gestures < MaxGestures /\ gestures' = gestures + 1

\* The bound on runs also bounds the calls that wait for their turn.
RunsLeft == Len(due) + lastRun < MaxRuns

-----------------------------------------------------------------------------
(* Runs.                                                                   *)

\* setState of an unmounted page is lost.
Live(p) == route # Away /\ p = page

Put(p, k, i, pane) ==
  panel' = IF Live(p) THEN [panel EXCEPT ![k][i] = pane] ELSE panel

\* onRun and onExplain: the tab is the one in focus in the store by now.
Start(c, q, p, k) ==
  LET i == Active(c)
      r == lastRun + 1 IN
  IF i = None THEN UNCHANGED runVars
  ELSE /\ lastRun < MaxRuns
       /\ lastRun' = r
       /\ run' = [run EXCEPT ![r] = [conn |-> c, tab |-> i, sql |-> q, kind |-> k,
                                     page |-> p, st |-> "flight"]]
       /\ Put(p, k, i, [is |-> "running", of |-> r])

\* Cmd+Enter: the buffer or the selection, whether or not a run is in flight.
RunEditor(q) ==
  /\ route # Away
  /\ Active(route) # None
  /\ q \in Texts \cup {store.sql[Active(route)]}
  /\ Start(route, q, page, "run")
  /\ Gesture
  /\ UNCHANGED <<store, rowLimit, pageVars, stopped, due, recon, loadVars, openVars,
                 crowded>>

Explain ==
  /\ route # Away
  /\ LET i == Active(route) IN
       /\ i # None
       /\ store.sql[i] # Blank
       /\ panel["explain"][i].is # "running"
       /\ Start(route, store.sql[i], page, "explain")
  /\ Gesture
  /\ UNCHANGED <<store, rowLimit, pageVars, stopped, due, recon, loadVars, openVars,
                 crowded>>

RunDue ==
  /\ due # <<>>
  /\ Start(Head(due).conn, Head(due).sql, Head(due).page, "run")
  /\ due' = Tail(due)
  /\ UNCHANGED <<store, rowLimit, pageVars, stopped, recon, loadVars, openVars, crowded, gestures>>

\* The rest of onRun and onExplain, whatever the tab has done meanwhile.
Answer(r, out) ==
  /\ run[r].st = "flight"
  /\ run' = [run EXCEPT ![r].st = out]
  /\ Put(run[r].page, run[r].kind, run[r].tab, [is |-> out, of |-> r])
  /\ store' = IF out = "ok" /\ run[r].kind = "run"
              THEN MarkRan(store, run[r].conn, run[r].tab, run[r].sql)
              ELSE store
  /\ UNCHANGED <<rowLimit, pageVars, lastRun, stopped, due, recon, loadVars, openVars,
                 crowded, gestures>>

Stop ==
  /\ route # Away
  /\ Active(route) # None
  /\ LET pane == panel["run"][Active(route)] IN
       /\ pane.is = "running"
       /\ stopped' = stopped \cup {pane.of}
  /\ Gesture
  /\ UNCHANGED <<store, rowLimit, pageVars, runVars, due, recon, loadVars, openVars,
                 crowded>>

Reconnect ==
  /\ route # Away
  /\ \A x \in recon : x.page # page
  /\ Active(route) # None => panel["run"][Active(route)].is # "running"
  /\ recon' = recon \cup {[conn |-> route, page |-> page]}
  /\ Gesture
  /\ UNCHANGED <<store, rowLimit, pageVars, runVars, stopped, due, loadVars, openVars,
                 crowded>>

\* Re-runs the tab in focus when the reconnect returns, failed or not.
Reconnected(x) ==
  /\ x \in recon
  /\ recon' = recon \ {x}
  /\ LET i == Active(x.conn) IN
       IF i # None /\ store.sql[i] # Blank
       THEN Start(x.conn, store.sql[i], x.page, "run")
       ELSE UNCHANGED runVars
  /\ UNCHANGED <<store, rowLimit, pageVars, stopped, due, loadVars, openVars, crowded, gestures>>

-----------------------------------------------------------------------------
(* The tab bar, the buffer and the row limit.                              *)

NewTab ==
  /\ route # Away
  /\ store.last < MaxTabs
  /\ store' = Added(store, route, Blank, None)
  /\ Gesture
  /\ UNCHANGED <<rowLimit, pageVars, runVars, stopped, due, recon, loadVars, openVars,
                 crowded>>

\* The tab's cross or a middle click drop its panes; Cmd+W leaves them.
CloseTab(i, n, key) ==
  /\ route # Away
  /\ i \in store.open[route]
  /\ key => i = Active(route)
  /\ Neighbour(store.open[route] \ {i}, i, n)
  /\ store' = Closed(store, route, i, n)
  /\ panel' = IF key THEN panel ELSE [k \in Kinds |-> [panel[k] EXCEPT ![i] = Idle]]
  /\ Gesture
  /\ UNCHANGED <<rowLimit, pageVars, run, lastRun, stopped, due, recon, loadVars,
                 openVars, crowded>>

SelectTab(i) ==
  /\ route # Away
  /\ i \in store.open[route]
  /\ i # Active(route)
  /\ store' = Focused(store, route, i)
  /\ Gesture
  /\ UNCHANGED <<rowLimit, pageVars, runVars, stopped, due, recon, loadVars, openVars,
                 crowded>>

Edit(q) ==
  /\ route # Away
  /\ Active(route) # None
  /\ q # store.sql[Active(route)]
  /\ store' = Edited(store, Active(route), q)
  /\ Gesture
  /\ UNCHANGED <<rowLimit, pageVars, runVars, stopped, due, recon, loadVars, openVars,
                 crowded>>

\* The selector and the effect that watches it: the buffer of a table's tab
\* is replaced, edits and all, and run.
SetLimit(n) ==
  LET i == Active(route) IN
  /\ route # Away
  /\ n # rowLimit
  /\ rowLimit' = n
  /\ IF i # None /\ store.ref[i] # None /\ store.sql[i] # SelectStar(store.ref[i], n)
     THEN /\ RunsLeft
          /\ store' = Edited(store, i, SelectStar(store.ref[i], n))
          /\ due' = Append(due, [conn |-> route, page |-> page,
                                 sql |-> SelectStar(store.ref[i], n)])
     ELSE UNCHANGED <<store, due>>
  /\ Gesture
  /\ UNCHANGED <<pageVars, runVars, stopped, recon, loadVars, openVars, crowded>>

-----------------------------------------------------------------------------
(* The load channel.                                                       *)

\* loadSqlInWorkspace. The workspace's own sidebar and grid load for its own
\* connection; every other view navigates to it.
Request(w) ==
  LET l == lastLoad + 1 IN
  /\ lastLoad < MaxLoads
  /\ route # Away => w.conn = route
  /\ w.ref # None => w.sql = SelectStar(w.ref, rowLimit)
  /\ lastLoad' = l
  /\ load' = [load EXCEPT ![l] = w]
  /\ pending' = l
  /\ target' = w.conn
  /\ crowded' = IF fired < lastLoad THEN crowded \cup (fired + 1)..l ELSE crowded
  /\ Gesture
  /\ UNCHANGED <<store, rowLimit, route, page, runVars, stopped, due, recon, fired,
                 openVars>>

\* Mutant: without the nonce.
FreshAlways(l, h) == TRUE

\* openOnce.
Fresh(l, h) == l # h

\* openOnce and open, for the workspace of connection c with handled nonce h,
\* mounted as p after it had opened the loads of `seen`.
Open(l, c, s, h, p, seen) ==
  IF ~Fresh(l, h) THEN store' = s /\ handled' = h /\ here' = seen
                       /\ UNCHANGED <<due, again, strays, opened>>
  ELSE
    LET w == load[l]
        focus == w.ref # None /\ BoundTo(s, c, w.ref) # {} IN
    /\ focus \/ (s.last < MaxTabs /\ (w.run => RunsLeft))
    /\ store' = OpenOrFocus(s, c, w.sql, w.ref)
    /\ due' = IF w.run /\ ~focus
              THEN Append(due, [conn |-> c, sql |-> w.sql, page |-> p]) ELSE due
    /\ handled' = l
    /\ here' = seen \cup {l}
    /\ again' = again \cup (seen \cap {l})
    /\ opened' = opened \cup {l}
    /\ strays' = IF w.conn = c THEN strays ELSE strays \cup {l}

\* The event of the oldest load that has not had one.
Fire ==
  /\ fired < lastLoad
  /\ fired' = fired + 1
  /\ IF route = Away THEN UNCHANGED <<store, due, openVars>>
     ELSE Open(fired + 1, route, store, handled, page, here)
  /\ UNCHANGED <<rowLimit, pageVars, runVars, stopped, recon, load, lastLoad, pending,
                 crowded, gestures>>

Go(t) ==
  /\ t # route
  /\ target' = t
  /\ Gesture
  /\ UNCHANGED <<store, rowLimit, route, page, runVars, stopped, due, recon, loadVars,
                 openVars, crowded>>

Leave ==
  /\ target = Away
  /\ route' = Away
  /\ target' = None
  /\ UNCHANGED <<store, rowLimit, page, runVars, stopped, due, recon, loadVars, openVars,
                 crowded, gestures>>

\* The mount effect's drain of sessionStorage.
Drain(c, s, h, p, seen) ==
  /\ pending' = None
  /\ IF pending = None
     THEN store' = s /\ handled' = h /\ here' = seen
          /\ UNCHANGED <<due, again, strays, opened>>
     ELSE Open(pending, c, s, h, p, seen)

\* The page mounts, or the mounted one changes its connection and keeps its
\* state: at least one tab, then the drain.
Arrive ==
  /\ target \in Connections
  /\ target' = None
  /\ route' = target
  /\ IF route = target THEN UNCHANGED <<store, page, panel, due, openVars, pending>>
     ELSE /\ store.open[target] # {} \/ store.last < MaxTabs
          /\ IF route = Away
             THEN /\ page < MaxPages
                  /\ page' = page + 1
                  /\ panel' = [k \in Kinds |-> [i \in Tabs |-> Idle]]
                  /\ Drain(target, Ensured(store, target), None, page + 1, {})
             ELSE /\ UNCHANGED <<page, panel>>
                  /\ Drain(target, Ensured(store, target), handled, page, here)
  /\ UNCHANGED <<rowLimit, run, lastRun, stopped, recon, load, lastLoad, fired, crowded, gestures>>

Next ==
  \/ \E q \in Sqls : RunEditor(q)
  \/ \E q \in Texts \cup {Blank} : Edit(q)
  \/ Explain \/ RunDue \/ Stop \/ Reconnect \/ NewTab \/ Fire \/ Leave \/ Arrive
  \/ \E r \in Runs, out \in {"ok", "error"} : Answer(r, out)
  \/ \E x \in recon : Reconnected(x)
  \/ \E i \in Tabs, n \in Tabs \cup {None}, key \in BOOLEAN : CloseTab(i, n, key)
  \/ \E i \in Tabs : SelectTab(i)
  \/ \E n \in Limits : SetLimit(n)
  \/ \E w \in Payloads : Request(w)
  \/ \E t \in Connections \cup {Away} : Go(t)

Spec == Init /\ [][Next]_vars

-----------------------------------------------------------------------------
(* What must hold.                                                         *)

\* The focus is on an open tab, unless none is open.
FocusIsOpen ==
  \A c \in Connections :
    IF store.open[c] = {} THEN Active(c) = None ELSE Active(c) \in store.open[c]

\* Browsing a table never opens a second tab for it, whatever mix of events,
\* drains and stale payloads asked for it.
OneTabPerTable ==
  \A c \in Connections : \A i, j \in store.open[c] :
    store.ref[i] # None /\ store.ref[i] = store.ref[j] => i = j

\* A tab that says "running" names a run that is in flight and that no later
\* run of the tab on this page has overtaken: the one that Stop should reach.
StopReachesNewest ==
  route # Away =>
    \A i \in Tabs, k \in Kinds :
      LET r == panel[k][i].of IN
      panel[k][i].is = "running" =>
        /\ r \in Runs /\ run[r].st = "flight" /\ run[r].tab = i
        /\ \A q \in Runs : q > r /\ run[q].kind = k /\ run[q].page = page
                           => run[q].tab # i

\* The stamp that the dirty dot compares the buffer with is the text of the
\* result on show, unless a run that an earlier page left behind finished
\* after it.
DotMatchesResult ==
  route # Away =>
    \A c \in Connections : \A i \in store.open[c] :
      LET r == panel["run"][i].of IN
      panel["run"][i].is = "ok" =>
        \/ store.ran[i] = run[r].sql
        \/ \E q \in Runs : run[q].tab = i /\ run[q].page # page /\ run[q].st = "ok"

RunsAndTabsAgree == StopReachesNewest /\ DotMatchesResult

\* A load is opened, unless a later one has taken its place in sessionStorage,
\* and a mount opens it once, unless its event and another's were both
\* outstanding.
LoadsDelivered ==
  /\ lastLoad > 0 => lastLoad \in opened \cup {pending}
  /\ again \subseteq crowded

\* A load is only opened in the workspace of the connection it was made for: what
\* the comment of openTable promises and the code does not keep, since the event
\* path never clears the payload in sessionStorage.
LoadsStayHome == strays = {}

-----------------------------------------------------------------------------
(* The inductive invariant.                                                *)

\* Numbers are given once: a tab is of one connection, and a run of a tab
\* that is open is of the connection that has it open.
TabsHaveOneHome ==
  /\ \A c \in Connections : store.open[c] \subseteq 1..store.last
  /\ \A c, d \in Connections : c # d => store.open[c] \cap store.open[d] = {}
  /\ \A r \in Runs :
       /\ (run[r].st = "new") <=> r > lastRun
       /\ r > lastRun => run[r] = NoRun
       /\ r <= lastRun => run[r].tab \in 1..store.last
       /\ \A c \in Connections :
            r <= lastRun /\ run[r].tab \in store.open[c] => run[r].conn = c

\* What a pane shows is a run of that tab, of this mount, in that state.
PanesAreExact ==
  route # Away =>
    \A k \in Kinds, i \in Tabs :
      LET r == panel[k][i].of IN
      panel[k][i].is # "idle" =>
        /\ r \in 1..lastRun
        /\ run[r].tab = i /\ run[r].kind = k /\ run[r].page = page
        /\ panel[k][i].is = "running" <=> run[r].st = "flight"
        /\ panel[k][i].is = "ok" <=> run[r].st = "ok"

\* No continuation belongs to a mount to come.
PagesAreKnown ==
  /\ \A r \in Runs : run[r].page <= page
  /\ \A x \in recon : x.page <= page
  /\ \A j \in 1..Len(due) : due[j].page <= page

\* Which loads can still come a second time: only those that were made, or had
\* others made, while an event was outstanding.
LoadsInOrder ==
  /\ pending # None => pending = lastLoad
  /\ handled # None => handled \in here
  /\ here \subseteq opened
  /\ opened \subseteq 1..lastLoad
  /\ \A l \in 1..lastLoad : load[l] \in Payloads
  /\ lastLoad > fired + 1 => (fired + 1)..lastLoad \subseteq crowded
  /\ \A l \in here : l > fired /\ l # handled => l \in crowded
  /\ route # Away /\ lastLoad \in here /\ lastLoad <= fired => handled = lastLoad

IInv ==
  /\ TypeOK
  /\ FocusIsOpen
  /\ OneTabPerTable
  /\ TabsHaveOneHome
  /\ PanesAreExact
  /\ PagesAreKnown
  /\ LoadsInOrder

=============================================================================
