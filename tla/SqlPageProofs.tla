---------------------------- MODULE SqlPageProofs ----------------------------
(***************************************************************************)
(* What the SQL workspace keeps, for any connections, tables and texts and *)
(* any bounds: the tab store's own invariant; that panes and stamps tell   *)
(* of the runs of their own tab; and that a load is opened once.           *)
(*                                                                         *)
(* The three are proved apart. All that the second needs of the tab store  *)
(* is that a step hands out only numbers above the last one (Grows), and   *)
(* the third needs nothing of it.                                          *)
(***************************************************************************)
EXTENDS SqlPage, SequenceTheorems, TLAPS

Stores == [open   : [Connections -> SUBSET Tabs],
           active : [Connections -> Tabs \cup {None}],
           sql    : [Tabs -> Sqls],
           ran    : [Tabs -> Sqls \cup {None}],
           ref    : [Tabs -> Tables \cup {None}],
           last   : 0..MaxTabs]

-----------------------------------------------------------------------------
(* The tab store.                                                          *)

HasFocus(s) == \A c \in Connections :
  IF s.open[c] = {} THEN s.active[c] = None ELSE s.active[c] \in s.open[c]

OnePerTable(s) == \A c \in Connections : \A i, j \in s.open[c] :
  s.ref[i] # None /\ s.ref[i] = s.ref[j] => i = j

Numbered(s) ==
  /\ \A c \in Connections : s.open[c] \subseteq 1..s.last
  /\ \A c, d \in Connections : c # d => s.open[c] \cap s.open[d] = {}

StoreOK(s) == s \in Stores /\ HasFocus(s) /\ OnePerTable(s) /\ Numbered(s)

\* A step of the store opens no tab but new ones.
Grows(s, u) ==
  /\ u.last >= s.last
  /\ \A c \in Connections : \A i \in u.open[c] : i \in s.open[c] \/ i > s.last

\* newTab, loadIntoNewTab: the tab is the first of its table, if it has one.
LEMMA AddedOK ==
  ASSUME NEW s, StoreOK(s), NEW c \in Connections, NEW q \in Sqls,
         NEW t \in Tables \cup {None}, s.last < MaxTabs,
         t # None => BoundTo(s, c, t) = {}
  PROVE  /\ StoreOK(Added(s, c, q, t)) /\ Grows(s, Added(s, c, q, t))
         /\ Added(s, c, q, t).ran = s.ran
<1> DEFINE i == s.last + 1
           u == Added(s, c, q, t)
<1>1. /\ s.open \in [Connections -> SUBSET Tabs] /\ s.ref \in [Tabs -> Tables \cup {None}]
      /\ s.active \in [Connections -> Tabs \cup {None}] /\ s.sql \in [Tabs -> Sqls]
      /\ s.last \in 0..MaxTabs /\ s \in Stores /\ MaxTabs \in Nat
  BY SqlPageAssumption DEF StoreOK, Stores
<1>2. i \in Tabs /\ i > s.last /\ i \in Nat /\ s.last \in Nat
  BY <1>1 DEF Tabs
<1>3. /\ u.open = [s.open EXCEPT ![c] = @ \cup {i}] /\ u.active = [s.active EXCEPT ![c] = i]
      /\ u.sql = [s.sql EXCEPT ![i] = q] /\ u.ref = [s.ref EXCEPT ![i] = t]
      /\ u.last = i /\ u.ran = s.ran
  BY <1>1 DEF Added, Stores
<1> HIDE DEF u
<1>4. u \in Stores
  <2>1. u.open \in [Connections -> SUBSET Tabs] /\ u.active \in [Connections -> Tabs \cup {None}]
    BY <1>1, <1>2, <1>3
  <2>2. u.sql \in [Tabs -> Sqls] /\ u.ref \in [Tabs -> Tables \cup {None}]
    BY <1>1, <1>2, <1>3
  <2>3. u.last \in 0..MaxTabs
    BY <1>1, <1>3
  <2>4. u.ran \in [Tabs -> Sqls \cup {None}]
    BY <1>1, <1>3 DEF Stores
  <2>5. u = [s EXCEPT !.open = u.open, !.active = u.active, !.sql = u.sql,
                      !.ref = u.ref, !.last = u.last]
    BY <1>1, <1>3 DEF u, Added, Stores
  <2> QED
    BY <1>1, <2>1, <2>2, <2>3, <2>5 DEF Stores
<1> HIDE DEF i
<1>5. Numbered(u)
  <2>1. \A d \in Connections : s.open[d] \subseteq 1..s.last
    BY DEF StoreOK, Numbered
  <2>2. \A d \in Connections : i \notin s.open[d]
    <3>1. i \notin 1..s.last
      BY <1>2
    <3> QED
      BY <2>1, <3>1
  <2>3. \A d \in Connections : u.open[d] \subseteq 1..u.last
    <3>1. 1..s.last \subseteq 1..i /\ i \in 1..i
      BY <1>2
    <3>2. \A d \in Connections : u.open[d] \subseteq s.open[d] \cup {i}
      BY <1>1, <1>3
    <3> QED
      BY <1>3, <2>1, <3>1, <3>2
  <2>4. \A d, e \in Connections : d # e => u.open[d] \cap u.open[e] = {}
    BY <1>1, <1>3, <2>2 DEF StoreOK, Numbered
  <2> QED
    BY <2>3, <2>4 DEF Numbered
<1>6. OnePerTable(u)
  <2>1. \A d \in Connections : \A j \in s.open[d] : j # i /\ j \in Tabs
    BY <1>1, <1>2 DEF StoreOK, Numbered
  <2>2. \A j \in s.open[c] : t # None => s.ref[j] # t
    BY DEF BoundTo
  <2>3. \A d \in Connections : \A j \in s.open[d] : u.ref[j] = s.ref[j]
    BY <1>1, <1>3, <2>1
  <2>4. u.ref[i] = t
    BY <1>1, <1>2, <1>3
  <2> QED
    BY <1>1, <1>3, <2>1, <2>2, <2>3, <2>4 DEF OnePerTable, StoreOK
<1>7. HasFocus(u)
  BY <1>1, <1>3 DEF HasFocus, StoreOK
<1>8. Grows(s, u)
  BY <1>1, <1>2, <1>3 DEF Grows
<1> QED
  BY <1>3, <1>4, <1>5, <1>6, <1>7, <1>8 DEF StoreOK, u

LEMMA GrowsReflexive ==
  ASSUME NEW s \in Stores
  PROVE  Grows(s, s)
BY SqlPageAssumption DEF Grows, Stores

LEMMA GrowsTransitive ==
  ASSUME NEW s \in Stores, NEW u \in Stores, NEW w \in Stores, Grows(s, u), Grows(u, w)
  PROVE  Grows(s, w)
<1>1. s.last \in Nat /\ u.last \in Nat /\ w.last \in Nat
  BY SqlPageAssumption DEF Stores
<1>2. ASSUME NEW c \in Connections, NEW i \in w.open[c]
      PROVE  i \in s.open[c] \/ i > s.last
  <2>1. i \in Nat
    BY <1>2 DEF Stores, Tabs
  <2> QED
    BY <1>1, <1>2, <2>1 DEF Grows
<1> QED
  BY <1>1, <1>2 DEF Grows

\* Sqls holds the texts a user types, and SELECTs of tables.
LEMMA SqlsHold ==
  /\ Starter \in Sqls /\ Blank \in Sqls /\ Texts \subseteq Sqls
  /\ \A t \in Tables, n \in Limits : SelectStar(t, n) \in Sqls
BY SqlPageAssumption DEF Sqls

LEMMA PayloadTypes ==
  ASSUME NEW w \in Payloads
  PROVE  /\ w.conn \in Connections /\ w.sql \in Sqls /\ w.run \in BOOLEAN
         /\ w.ref \in Tables \cup {None}
<1>1. CASE w \in [conn : Connections, sql : Texts, run : BOOLEAN, ref : {None}]
  BY <1>1, SqlsHold
<1>2. ASSUME NEW c \in Connections, NEW t \in Tables, NEW n \in Limits,
             w = [conn |-> c, sql |-> SelectStar(t, n), run |-> TRUE, ref |-> t]
      PROVE  /\ w.conn \in Connections /\ w.sql \in Sqls /\ w.run \in BOOLEAN
             /\ w.ref \in Tables \cup {None}
  BY <1>2, SqlsHold
<1> QED
  BY <1>1, <1>2 DEF Payloads

\* The focus moves to an open tab.
LEMMA FocusedOK ==
  ASSUME NEW s, StoreOK(s), NEW c \in Connections, NEW i \in s.open[c]
  PROVE  /\ StoreOK(Focused(s, c, i)) /\ Grows(s, Focused(s, c, i))
         /\ Focused(s, c, i).ran = s.ran
<1> DEFINE u == Focused(s, c, i)
<1>1. s \in Stores /\ i \in Tabs /\ s.active \in [Connections -> Tabs \cup {None}]
  BY DEF StoreOK, Stores
<1>2. /\ u.active = [s.active EXCEPT ![c] = i] /\ u.open = s.open /\ u.sql = s.sql
      /\ u.ran = s.ran /\ u.ref = s.ref /\ u.last = s.last
  BY <1>1 DEF Focused, Stores
<1>3. u \in Stores
  BY <1>1 DEF Focused, Stores
<1> HIDE DEF u
<1>4. HasFocus(u)
  BY <1>1, <1>2 DEF HasFocus, StoreOK
<1>5. OnePerTable(u) /\ Numbered(u)
  BY <1>2 DEF OnePerTable, Numbered, StoreOK
<1>6. Grows(s, u)
  BY <1>1, <1>2, GrowsReflexive DEF Grows
<1> QED
  BY <1>2, <1>3, <1>4, <1>5, <1>6 DEF StoreOK, u

LEMMA EnsuredOK ==
  ASSUME NEW s, StoreOK(s), NEW c \in Connections, s.open[c] # {} \/ s.last < MaxTabs
  PROVE  /\ StoreOK(Ensured(s, c)) /\ Grows(s, Ensured(s, c))
         /\ Ensured(s, c).ran = s.ran
BY AddedOK, SqlsHold, GrowsReflexive DEF Ensured, StoreOK

\* openOrFocusTableTab.
LEMMA OpenOrFocusOK ==
  ASSUME NEW s, StoreOK(s), NEW c \in Connections, NEW q \in Sqls,
         NEW t \in Tables \cup {None},
         (t # None /\ BoundTo(s, c, t) # {}) \/ s.last < MaxTabs
  PROVE  /\ StoreOK(OpenOrFocus(s, c, q, t)) /\ Grows(s, OpenOrFocus(s, c, q, t))
         /\ OpenOrFocus(s, c, q, t).ran = s.ran
<1>1. CASE t # None /\ BoundTo(s, c, t) # {}
  <2>1. PICK i : i \in BoundTo(s, c, t) /\ i = (CHOOSE j \in BoundTo(s, c, t) : TRUE)
    BY <1>1
  <2>2. i \in s.open[c]
    BY <2>1 DEF BoundTo
  <2>3. OpenOrFocus(s, c, q, t) = Focused(s, c, i)
    BY <1>1, <2>1 DEF OpenOrFocus
  <2> QED
    BY <2>2, <2>3, FocusedOK
<1>2. CASE ~(t # None /\ BoundTo(s, c, t) # {})
  BY <1>2, AddedOK DEF OpenOrFocus
<1> QED
  BY <1>1, <1>2

\* A tab closes, and the focus goes to its neighbour.
LEMMA ClosedOK ==
  ASSUME NEW s, StoreOK(s), NEW c \in Connections, NEW i \in s.open[c],
         NEW n \in Tabs \cup {None}, Neighbour(s.open[c] \ {i}, i, n)
  PROVE  /\ StoreOK(Closed(s, c, i, n)) /\ Grows(s, Closed(s, c, i, n))
         /\ Closed(s, c, i, n).ran = s.ran
<1> DEFINE u == Closed(s, c, i, n)
           rest == s.open[c] \ {i}
<1>1. /\ s \in Stores /\ s.active \in [Connections -> Tabs \cup {None}]
      /\ s.open \in [Connections -> SUBSET Tabs]
  BY DEF StoreOK, Stores
<1>2. /\ u.active = [s.active EXCEPT ![c] = IF s.active[c] = i \/ s.open[c] = {i}
                                            THEN n ELSE s.active[c]]
      /\ u.open = [s.open EXCEPT ![c] = rest] /\ u.sql = s.sql
      /\ u.ran = s.ran /\ u.ref = s.ref /\ u.last = s.last
  BY <1>1 DEF Closed, Stores
<1> HIDE DEF u
<1>3. u \in Stores
  <2>1. u.open \in [Connections -> SUBSET Tabs] /\ u.active \in [Connections -> Tabs \cup {None}]
    BY <1>1, <1>2
  <2>2. u = [s EXCEPT !.open = u.open, !.active = u.active]
    BY <1>1, <1>2 DEF u, Closed, Stores
  <2> QED
    BY <1>1, <2>1, <2>2 DEF Stores
<1>4. IF rest = {} THEN n = None ELSE n \in rest
  BY DEF Neighbour
<1>5. HasFocus(u)
  <2>1. IF rest = {} THEN u.active[c] = None ELSE u.active[c] \in rest
    BY <1>1, <1>2, <1>4 DEF HasFocus, StoreOK
  <2> QED
    BY <1>1, <1>2, <2>1 DEF HasFocus, StoreOK
<1>6. \A d \in Connections : u.open[d] \subseteq s.open[d]
  BY <1>1, <1>2
<1>7. OnePerTable(u) /\ Numbered(u)
  BY <1>2, <1>6 DEF OnePerTable, Numbered, StoreOK
<1>8. Grows(s, u)
  BY <1>1, <1>2, <1>6, GrowsReflexive DEF Grows
<1> QED
  BY <1>2, <1>3, <1>5, <1>7, <1>8 DEF StoreOK, u

\* What tabs are open, and which has the focus, says nothing of their texts.
LEMMA RewrittenOK ==
  ASSUME NEW s, StoreOK(s), NEW u \in Stores,
         u.open = s.open, u.active = s.active, u.ref = s.ref, u.last = s.last
  PROVE  StoreOK(u) /\ Grows(s, u)
BY GrowsReflexive DEF StoreOK, HasFocus, OnePerTable, Numbered, Grows

LEMMA EditedOK ==
  ASSUME NEW s, StoreOK(s), NEW i \in Tabs, NEW q \in Sqls
  PROVE  /\ StoreOK(Edited(s, i, q)) /\ Grows(s, Edited(s, i, q))
         /\ Edited(s, i, q).ran = s.ran
<1>1. s \in Stores
  BY DEF StoreOK
<1>2. Edited(s, i, q) \in Stores
  BY <1>1 DEF Edited, Stores
<1> QED
  BY <1>1, <1>2, RewrittenOK DEF Edited, Stores

LEMMA MarkRanOK ==
  ASSUME NEW s, StoreOK(s), NEW c, NEW i \in Tabs, NEW q \in Sqls
  PROVE  StoreOK(MarkRan(s, c, i, q)) /\ Grows(s, MarkRan(s, c, i, q))
<1>1. s \in Stores
  BY DEF StoreOK
<1>2. MarkRan(s, c, i, q) \in Stores
  BY <1>1 DEF MarkRan, Stores
<1> QED
  BY <1>1, <1>2, RewrittenOK DEF MarkRan, Stores

-----------------------------------------------------------------------------
(* Every step, for the store.                                              *)

\* What is made is a payload, and what is pending was made.
LoadsMade ==
  /\ \A l \in 1..lastLoad : load[l] \in Payloads
  /\ fired \in 0..lastLoad /\ lastLoad \in 0..MaxLoads
  /\ pending # None => pending \in 1..lastLoad

\* Every run that was started is of a tab.
RunsHaveTabs ==
  \A r \in Runs : run[r].sql \in Sqls /\ (run[r].st # "new" => run[r].tab \in Tabs)

LEMMA OpenStore ==
  ASSUME NEW s, StoreOK(s), NEW l, load[l] \in Payloads, NEW c \in Connections,
         NEW h, NEW p, NEW seen, Open(l, c, s, h, p, seen)
  PROVE  StoreOK(store') /\ Grows(s, store') /\ store'.ran = s.ran
<1>1. CASE ~Fresh(l, h)
  BY <1>1, GrowsReflexive DEF Open, StoreOK
<1>2. CASE Fresh(l, h)
  <2> DEFINE w == load[l]
  <2>1. w.sql \in Sqls /\ w.ref \in Tables \cup {None}
    BY PayloadTypes
  <2>2. /\ (w.ref # None /\ BoundTo(s, c, w.ref) # {}) \/ s.last < MaxTabs
        /\ store' = OpenOrFocus(s, c, w.sql, w.ref)
    BY <1>2 DEF Open
  <2> HIDE DEF w
  <2> QED
    BY <2>1, <2>2, OpenOrFocusOK
<1> QED
  BY <1>1, <1>2

LEMMA DrainStore ==
  ASSUME NEW s, StoreOK(s), LoadsMade, NEW c \in Connections,
         NEW h, NEW p, NEW seen, Drain(c, s, h, p, seen)
  PROVE  StoreOK(store') /\ Grows(s, store') /\ store'.ran = s.ran
BY OpenStore, GrowsReflexive DEF Drain, LoadsMade, StoreOK

\* Only the answer of a run stamps a tab.
Stamps == \E r \in Runs, out \in {"ok", "error"} : Answer(r, out)

LEMMA NextStore ==
  ASSUME StoreOK(store), LoadsMade, RunsHaveTabs, rowLimit \in Limits,
         route \in Connections \cup {Away}, target \in Connections \cup {Away, None}, [Next]_vars
  PROVE  /\ StoreOK(store') /\ Grows(store, store')
         /\ store'.ran = store.ran \/ Stamps
<1>0. /\ store \in Stores /\ store.active \in [Connections -> Tabs \cup {None}]
      /\ store.ref \in [Tabs -> Tables \cup {None}] /\ store.sql \in [Tabs -> Sqls]
      /\ Grows(store, store)
  BY GrowsReflexive DEF StoreOK, Stores
<1>1. ASSUME NEW q \in Texts \cup {Blank}, Edit(q)
      PROVE  StoreOK(store') /\ Grows(store, store') /\ store'.ran = store.ran
  <2>1. q \in Sqls /\ Active(route) \in Tabs /\ store' = Edited(store, Active(route), q)
    BY <1>0, <1>1, SqlsHold DEF Edit, Active
  <2> QED
    BY <2>1, EditedOK
<1>2. CASE NewTab
  BY <1>2, AddedOK, SqlsHold DEF NewTab
<1>3. CASE Fire
  BY <1>0, <1>3, OpenStore DEF Fire, LoadsMade
<1>4. CASE Arrive
  <2>1. CASE route = target
    BY <1>0, <1>4, <2>1 DEF Arrive
  <2>2. CASE route # target
    <3> DEFINE s == Ensured(store, target)
    <3>1. target \in Connections /\ (store.open[target] # {} \/ store.last < MaxTabs)
      BY <1>4, <2>2 DEF Arrive
    <3>2. StoreOK(s) /\ Grows(store, s) /\ s.ran = store.ran
      BY <3>1, EnsuredOK
    <3>3. \E h, p, seen : Drain(target, s, h, p, seen)
      BY <1>4, <2>2 DEF Arrive
    <3> HIDE DEF s
    <3>4. StoreOK(store') /\ Grows(s, store') /\ store'.ran = s.ran
      BY <3>1, <3>2, <3>3, DrainStore
    <3> QED
      BY <3>2, <3>4, GrowsTransitive DEF StoreOK
  <2> QED
    BY <2>1, <2>2
<1>5. ASSUME NEW r \in Runs, NEW out \in {"ok", "error"}, Answer(r, out)
      PROVE  StoreOK(store') /\ Grows(store, store')
  <2>1. CASE out = "ok" /\ run[r].kind = "run"
    <3>1. run[r].sql \in Sqls /\ run[r].tab \in Tabs
      BY <1>5 DEF Answer, RunsHaveTabs
    <3>2. store' = MarkRan(store, run[r].conn, run[r].tab, run[r].sql)
      BY <1>5, <2>1 DEF Answer
    <3> QED
      BY <3>1, <3>2, MarkRanOK
  <2>2. CASE ~(out = "ok" /\ run[r].kind = "run")
    BY <1>0, <1>5, <2>2 DEF Answer
  <2> QED
    BY <2>1, <2>2
<1>6. ASSUME NEW i \in Tabs, NEW n \in Tabs \cup {None}, NEW key \in BOOLEAN,
             CloseTab(i, n, key)
      PROVE  StoreOK(store') /\ Grows(store, store') /\ store'.ran = store.ran
  <2>1. /\ route # Away /\ i \in store.open[route] /\ store' = Closed(store, route, i, n)
        /\ Neighbour(store.open[route] \ {i}, i, n)
    BY <1>6 DEF CloseTab
  <2>2. route \in Connections
    BY <2>1
  <2> QED
    BY <2>1, <2>2, ClosedOK
<1>7. ASSUME NEW i \in Tabs, SelectTab(i)
      PROVE  StoreOK(store') /\ Grows(store, store') /\ store'.ran = store.ran
  <2>1. route # Away /\ i \in store.open[route] /\ store' = Focused(store, route, i)
    BY <1>7 DEF SelectTab
  <2>2. route \in Connections
    BY <2>1
  <2> QED
    BY <2>1, <2>2, FocusedOK
<1>8. ASSUME NEW n \in Limits, SetLimit(n)
      PROVE  StoreOK(store') /\ Grows(store, store') /\ store'.ran = store.ran
  <2> DEFINE i == Active(route)
  <2>1. \/ store' = store
        \/ /\ i # None /\ store.ref[i] # None
           /\ store' = Edited(store, i, SelectStar(store.ref[i], n))
    BY <1>8 DEF SetLimit
  <2>2. route \in Connections /\ i \in Tabs \cup {None}
    BY <1>0, <1>8 DEF SetLimit, Active
  <2> HIDE DEF i
  <2>3. i # None /\ store.ref[i] # None => SelectStar(store.ref[i], n) \in Sqls
    BY <1>0, <2>2, SqlsHold
  <2> QED
    BY <1>0, <2>1, <2>2, <2>3, EditedOK
<1>9. ASSUME store' = store
      PROVE  StoreOK(store') /\ Grows(store, store') /\ store'.ran = store.ran
  BY <1>0, <1>9
<1>10. ASSUME NEW q \in Sqls, RunEditor(q)
       PROVE  store' = store
  BY <1>10 DEF RunEditor
<1>11. Explain \/ RunDue \/ Stop \/ Reconnect \/ Leave => store' = store
  BY DEF Explain, RunDue, Stop, Reconnect, Leave
<1>12. ASSUME NEW x \in recon, Reconnected(x)
       PROVE  store' = store
  BY <1>12 DEF Reconnected
<1>13. ASSUME NEW w \in Payloads, Request(w)
       PROVE  store' = store
  BY <1>13 DEF Request
<1>14. ASSUME NEW t \in Connections \cup {Away}, Go(t)
       PROVE  store' = store
  BY <1>14 DEF Go
<1>15. CASE UNCHANGED vars
  BY <1>9, <1>15 DEF vars
<1> QED
  BY <1>1, <1>2, <1>3, <1>4, <1>5, <1>6, <1>7, <1>8, <1>9, <1>10, <1>11, <1>12, <1>13,
     <1>14, <1>15 DEF Next, Stamps

-----------------------------------------------------------------------------
(* Runs and panes.                                                         *)

RunRecs == [conn : Connections \cup {None}, tab : Tabs \cup {None}, sql : Sqls,
            kind : Kinds, page : Nat, st : {"new", "flight", "ok", "error"}]

RunTypes ==
  /\ panel \in [Kinds -> [Tabs -> Panes]] /\ run \in [Runs -> RunRecs]
  /\ lastRun \in 0..MaxRuns /\ page \in Nat

\* A run that was started is of a tab; if that is open, of its connection.
RunsFit(s) == \A r \in Runs :
  /\ (run[r].st = "new") <=> r > lastRun
  /\ r > lastRun => run[r] = NoRun
  /\ r <= lastRun => run[r].tab \in 1..s.last
  /\ \A c \in Connections :
       r <= lastRun /\ run[r].tab \in s.open[c] => run[r].conn = c

RunsOK ==
  /\ RunTypes /\ RunsFit(store) /\ PanesAreExact
  /\ \A r \in Runs : run[r].page <= page
  /\ StopReachesNewest /\ DotMatchesResult

\* Tabs that were opened since are of no run.
LEMMA GrownFits ==
  ASSUME StoreOK(store), StoreOK(store'), Grows(store, store'), RunsFit(store), RunTypes
  PROVE  /\ \A r \in Runs : r <= lastRun => run[r].tab \in 1..store'.last
         /\ \A r \in Runs : r <= lastRun =>
              \A c \in Connections : run[r].tab \in store'.open[c] =>
                run[r].tab \in store.open[c] /\ run[r].conn = c
<1>1. store.last \in Nat /\ store'.last \in Nat /\ store'.last >= store.last
  BY SqlPageAssumption DEF StoreOK, Stores, Grows
<1>2. \A i \in 1..store.last : i \in 1..store'.last /\ ~(i > store.last)
  BY <1>1
<1> QED
  BY <1>2 DEF RunsFit, Grows

\* A step that leaves the runs alone and shows nothing new in the panes.
LEMMA RunsUndisturbed ==
  ASSUME RunsOK, StoreOK(store), StoreOK(store'), Grows(store, store'),
         store'.ran = store.ran, UNCHANGED <<run, lastRun, page>>,
         panel' \in [Kinds -> [Tabs -> Panes]],
         \A k \in Kinds, i \in Tabs : panel'[k][i] \in {panel[k][i], Idle},
         route' # Away => route # Away
  PROVE  RunsOK'
<1>1. RunTypes' /\ RunsFit(store)'
  BY GrownFits DEF RunsOK, RunTypes, RunsFit
<1>2. PanesAreExact'
  BY DEF RunsOK, PanesAreExact, Idle
<1>3. StopReachesNewest'
  BY DEF RunsOK, StopReachesNewest, Idle
<1>4. DotMatchesResult'
  <2> SUFFICES ASSUME route' # Away, NEW c \in Connections, NEW i \in store'.open[c],
                      panel'["run"][i].is = "ok"
               PROVE  LET r == panel'["run"][i].of IN
                      \/ store'.ran[i] = run'[r].sql
                      \/ \E q \in Runs : run'[q].tab = i /\ run'[q].page # page' /\ run'[q].st = "ok"
    BY DEF DotMatchesResult
  <2> DEFINE r == panel["run"][i].of
  <2>1. i \in Tabs /\ "run" \in Kinds
    BY DEF StoreOK, Stores, Kinds
  <2>2. panel'["run"][i] = panel["run"][i]
    BY <2>1 DEF Idle
  <2>3. r \in 1..lastRun /\ run[r].tab = i
    BY <2>1, <2>2 DEF RunsOK, PanesAreExact
  <2>4. r \in Runs /\ r <= lastRun
    BY <2>3, SqlPageAssumption DEF RunsOK, RunTypes, Runs
  <2>5. i \in store.open[c]
    BY <2>3, <2>4, GrownFits DEF RunsOK
  <2> QED
    BY <2>2, <2>5 DEF RunsOK, DotMatchesResult
<1> QED
  BY <1>1, <1>2, <1>3, <1>4 DEF RunsOK

\* A run starts, in the tab that has the focus, for this mount or an old one.
LEMMA StartedOK ==
  ASSUME RunsOK, StoreOK(store), NEW c \in Connections, NEW q \in Sqls,
         NEW p \in Nat, p <= page, NEW k \in Kinds, Start(c, q, p, k),
         UNCHANGED <<store, route, page>>
  PROVE  RunsOK'
<1> DEFINE i == Active(c)
           r == lastRun + 1
<1>1. CASE i = None
  <2>1. UNCHANGED <<panel, run, lastRun>>
    BY <1>1 DEF Start, runVars
  <2> QED
    BY <2>1 DEF RunsOK, RunTypes, RunsFit, PanesAreExact, StopReachesNewest, DotMatchesResult
<1>2. CASE i # None
  <2> DEFINE new == [conn |-> c, tab |-> i, sql |-> q, kind |-> k, page |-> p, st |-> "flight"]
             pane == [is |-> "running", of |-> r]
  <2>0. RunTypes /\ MaxRuns \in Nat
    BY SqlPageAssumption DEF RunsOK
  <2>1. /\ lastRun < MaxRuns /\ lastRun' = r /\ run' = [run EXCEPT ![r] = new]
        /\ panel' = IF Live(p) THEN [panel EXCEPT ![k][i] = pane] ELSE panel
    BY <1>2 DEF Start, Put
  <2>2. i \in store.open[c] /\ i \in Tabs
    BY <1>2 DEF StoreOK, HasFocus, Active, Stores
  <2>3. i \in 1..store.last /\ \A d \in Connections : i \in store.open[d] => d = c
    BY <2>2 DEF StoreOK, Numbered
  <2>4. r \in Runs /\ lastRun \in Nat /\ r \notin 1..lastRun /\ lastRun < r /\ r \in Nat
        /\ 1..r = 1..lastRun \cup {r}
    BY <2>0, <2>1 DEF RunTypes, Runs
  <2>5. new \in RunRecs /\ new.st = "flight" /\ new.tab = i /\ new.conn = c /\ new.page = p
        /\ new.kind = k
    BY <2>2 DEF RunRecs
  <2>6. pane \in Panes /\ pane.is = "running" /\ pane.of = r
    BY <2>4 DEF Panes
  <2> HIDE DEF new, pane, i, r
  <2>7. run'[r] = new /\ \A s \in Runs : s # r => run'[s] = run[s]
    BY <2>0, <2>1, <2>4 DEF RunTypes
  <2>8. RunTypes'
    <3>1. panel' \in [Kinds -> [Tabs -> Panes]]
      BY <2>0, <2>1, <2>6 DEF RunTypes
    <3>2. run' \in [Runs -> RunRecs] /\ lastRun' \in 0..MaxRuns
      BY <2>0, <2>1, <2>4, <2>5 DEF RunTypes, Runs
    <3> QED
      BY <2>0, <3>1, <3>2 DEF RunTypes
  <2>9. RunsFit(store)'
    <3>1. \A s \in Runs : s # r => (s > lastRun <=> s > r) /\ (s <= lastRun <=> s <= r)
      BY <2>4 DEF Runs, r
    <3> QED
      BY <2>1, <2>3, <2>4, <2>5, <2>7, <3>1 DEF RunsOK, RunsFit
  <2>10. \A s \in Runs : run'[s].page <= page'
    BY <2>4, <2>5, <2>7 DEF RunsOK
  <2>11. \A j \in Kinds, m \in Tabs :
           \/ panel'[j][m] = panel[j][m] /\ (~Live(p) \/ <<j, m>> # <<k, i>>)
           \/ Live(p) /\ j = k /\ m = i /\ panel'[j][m] = pane
    BY <2>0, <2>1, <2>2 DEF RunTypes
  <2>12. route # Away => \A j \in Kinds, m \in Tabs : panel[j][m].is # "idle" =>
           /\ panel[j][m].of \in 1..lastRun /\ panel[j][m].of # r
           /\ panel[j][m].of \in Runs
    BY <2>0, <2>4 DEF RunsOK, PanesAreExact, RunTypes, Runs
  <2>13. PanesAreExact'
    BY <2>1, <2>4, <2>5, <2>6, <2>7, <2>11, <2>12 DEF RunsOK, PanesAreExact, Live
  <2>14. StopReachesNewest'
    <3> SUFFICES ASSUME route' # Away, NEW m \in Tabs, NEW j \in Kinds,
                        panel'[j][m].is = "running"
                 PROVE  LET o == panel'[j][m].of IN
                        /\ o \in Runs /\ run'[o].st = "flight" /\ run'[o].tab = m
                        /\ \A s \in Runs : s > o /\ run'[s].kind = j /\ run'[s].page = page'
                                           => run'[s].tab # m
      BY DEF StopReachesNewest
    <3>1. CASE Live(p) /\ j = k /\ m = i
      <4>1. \A s \in Runs : s > r => s > lastRun /\ s # r
        BY <2>4 DEF Runs
      <4>2. \A s \in Runs : s > r => run'[s] = NoRun
        BY <2>7, <4>1 DEF RunsOK, RunsFit
      <4>3. NoRun.tab # m
        BY SqlPageAssumption DEF NoRun, Tabs
      <4>4. panel'[j][m] = pane
        BY <3>1, <2>11
      <4> QED
        BY <2>4, <2>5, <2>6, <2>7, <3>1, <4>2, <4>3, <4>4
    <3>2. CASE ~(Live(p) /\ j = k /\ m = i)
      <4>1. panel'[j][m] = panel[j][m] /\ (~Live(p) \/ j # k \/ m # i)
        BY <3>2, <2>11
      <4>2. p = page => ~(new.kind = j /\ new.tab = m)
        BY <4>1, <2>5 DEF Live
      <4>3. panel[j][m].of # r
        BY <4>1, <2>12
      <4> QED
        BY <2>5, <2>7, <4>1, <4>2, <4>3 DEF RunsOK, StopReachesNewest
    <3> QED
      BY <3>1, <3>2
  <2>15. DotMatchesResult'
    <3> SUFFICES ASSUME route' # Away, NEW d \in Connections, NEW m \in store.open[d],
                        panel'["run"][m].is = "ok"
                 PROVE  LET o == panel'["run"][m].of IN
                        \/ store.ran[m] = run'[o].sql
                        \/ \E s \in Runs : run'[s].tab = m /\ run'[s].page # page' /\ run'[s].st = "ok"
      BY DEF DotMatchesResult
    <3>1. m \in Tabs /\ "run" \in Kinds
      BY DEF StoreOK, Stores, Kinds
    <3>2. panel'["run"][m] = panel["run"][m]
      BY <2>6, <2>11, <3>1
    <3>3. run'[panel["run"][m].of] = run[panel["run"][m].of]
      BY <2>7, <2>12, <3>1, <3>2
    <3>4. \A s \in Runs : run[s].st = "ok" => run'[s] = run[s]
      BY <2>4, <2>7 DEF RunsOK, RunsFit
    <3> QED
      BY <3>2, <3>3, <3>4 DEF RunsOK, DotMatchesResult
  <2> QED
    BY <2>8, <2>9, <2>10, <2>13, <2>14, <2>15 DEF RunsOK
<1> QED
  BY <1>1, <1>2

\* A run ends; what it tells goes to its own tab's pane and, if it is open, to
\* its own tab's stamp.
LEMMA AnsweredOK ==
  ASSUME RunsOK, StoreOK(store), StoreOK(store'), Grows(store, store'),
         NEW r \in Runs, NEW out \in {"ok", "error"}, Answer(r, out)
  PROVE  RunsOK'
<1> DEFINE k == run[r].kind
           i == run[r].tab
           q == run[r].sql
           c == run[r].conn
           pane == [is |-> out, of |-> r]
<1>0. RunTypes /\ MaxRuns \in Nat
  BY SqlPageAssumption DEF RunsOK
<1>1. /\ run[r].st = "flight" /\ run' = [run EXCEPT ![r].st = out]
      /\ panel' = IF Live(run[r].page) THEN [panel EXCEPT ![k][i] = pane] ELSE panel
      /\ UNCHANGED <<route, page, lastRun>>
  BY DEF Answer, Put, pageVars
<1>2. r <= lastRun /\ i \in 1..store.last /\ r \in 1..lastRun
      /\ (\A d \in Connections : i \in store.open[d] => c = d)
  BY <1>0, <1>1 DEF RunsOK, RunsFit, RunTypes, Runs
<1>3. i \in Tabs /\ k \in Kinds /\ q \in Sqls
  <2>1. k \in Kinds /\ q \in Sqls
    BY <1>0 DEF RunTypes, RunRecs
  <2>2. i \in Tabs
    BY <1>2, SqlPageAssumption DEF StoreOK, Stores, Tabs
  <2> QED
    BY <2>1, <2>2
<1>4. pane \in Panes /\ pane.is = out /\ pane.of = r
  BY DEF Panes
<1>5. /\ run'[r].st = out /\ run'[r].kind = k /\ run'[r].tab = i /\ run'[r].sql = q
      /\ run'[r].conn = c /\ run'[r].page = run[r].page
      /\ \A s \in Runs : s # r => run'[s] = run[s]
  BY <1>0, <1>1 DEF RunTypes, RunRecs
<1>6. \A s \in Runs : /\ run'[s].kind = run[s].kind /\ run'[s].tab = run[s].tab
                      /\ run'[s].sql = run[s].sql /\ run'[s].conn = run[s].conn
                      /\ run'[s].page = run[s].page
  BY <1>5
<1>7. \/ store' = store /\ (out = "error" \/ k = "explain")
      \/ out = "ok" /\ k = "run" /\ store' = MarkRan(store, c, i, q)
  BY <1>3 DEF Answer, Kinds
<1>8. store'.open = store.open /\ store'.last = store.last
  BY <1>7 DEF MarkRan, StoreOK, Stores
<1>9. /\ \A j \in Tabs : j # i => store'.ran[j] = store.ran[j]
      /\ (out = "error" \/ k = "explain") => store' = store
      /\ out = "ok" /\ k = "run" /\ i \in store.open[c] => store'.ran[i] = q
  BY <1>3, <1>7 DEF MarkRan, StoreOK, Stores
<1>10. RunTypes'
  <2>1. run' \in [Runs -> RunRecs]
    BY <1>0, <1>1 DEF RunTypes, RunRecs
  <2>2. panel' \in [Kinds -> [Tabs -> Panes]]
    BY <1>0, <1>1, <1>4 DEF RunTypes
  <2> QED
    BY <1>0, <1>1, <2>1, <2>2 DEF RunTypes
<1> HIDE DEF pane, i, k, q, c
<1>11. \A j \in Kinds, m \in Tabs :
         \/ panel'[j][m] = panel[j][m] /\ (~Live(run[r].page) \/ <<j, m>> # <<k, i>>)
         \/ Live(run[r].page) /\ j = k /\ m = i /\ panel'[j][m] = pane
  BY <1>0, <1>1, <1>3 DEF RunTypes
<1>12. RunsFit(store)'
  <2>1. \A s \in Runs : run'[s].st = "new" <=> run[s].st = "new"
    BY <1>1, <1>5
  <2>2. \A s \in Runs : s > lastRun => run'[s] = run[s]
    BY <1>0, <1>2, <1>5 DEF RunTypes, Runs
  <2> QED
    BY <1>1, <1>6, <1>8, <2>1, <2>2 DEF RunsOK, RunsFit
<1>13. route # Away => \A j \in Kinds, m \in Tabs :
         panel'[j][m] = panel[j][m] /\ panel[j][m].is # "idle" =>
           panel[j][m].of # r /\ panel[j][m].of \in Runs
  <2> SUFFICES ASSUME route # Away, NEW j \in Kinds, NEW m \in Tabs,
                      panel'[j][m] = panel[j][m], panel[j][m].is # "idle"
               PROVE  panel[j][m].of # r /\ panel[j][m].of \in Runs
    OBVIOUS
  <2>1. panel[j][m].of \in 1..lastRun /\ 1..lastRun \subseteq Runs
    BY <1>0 DEF RunsOK, PanesAreExact, RunTypes, Runs
  <2>2. ASSUME panel[j][m].of = r
        PROVE  FALSE
    <3>1. k = j /\ i = m /\ run[r].page = page
      BY <2>2 DEF RunsOK, PanesAreExact, k, i
    <3>2. panel'[j][m] = pane
      BY <1>11, <3>1 DEF Live
    <3>3. panel[j][m].is = "running"
      BY <1>1, <2>2 DEF RunsOK, PanesAreExact
    <3> QED
      BY <1>4, <3>2, <3>3
  <2> QED
    BY <2>1, <2>2
<1>14. PanesAreExact'
  <2> SUFFICES ASSUME route # Away, NEW j \in Kinds, NEW m \in Tabs,
                      panel'[j][m].is # "idle"
               PROVE  LET s == panel'[j][m].of IN
                      /\ s \in 1..lastRun
                      /\ run'[s].tab = m /\ run'[s].kind = j /\ run'[s].page = page
                      /\ panel'[j][m].is = "running" <=> run'[s].st = "flight"
                      /\ panel'[j][m].is = "ok" <=> run'[s].st = "ok"
    BY <1>1 DEF PanesAreExact
  <2>1. CASE panel'[j][m] = panel[j][m]
    BY <1>5, <1>13, <2>1 DEF RunsOK, PanesAreExact
  <2>2. CASE panel'[j][m] # panel[j][m]
    <3>1. Live(run[r].page) /\ j = k /\ m = i /\ panel'[j][m] = pane
      BY <1>11, <2>2
    <3> QED
      BY <1>2, <1>4, <1>5, <3>1 DEF Live
  <2> QED
    BY <2>1, <2>2
<1>15. StopReachesNewest'
  <2> SUFFICES ASSUME route # Away, NEW m \in Tabs, NEW j \in Kinds,
                      panel'[j][m].is = "running"
               PROVE  LET o == panel'[j][m].of IN
                      /\ o \in Runs /\ run'[o].st = "flight" /\ run'[o].tab = m
                      /\ \A s \in Runs : s > o /\ run'[s].kind = j /\ run'[s].page = page
                                         => run'[s].tab # m
    BY <1>1 DEF StopReachesNewest
  <2>1. panel'[j][m] = panel[j][m]
    BY <1>4, <1>11
  <2>2. panel[j][m].of # r
    BY <1>13, <2>1
  <2> QED
    BY <1>5, <1>6, <2>1, <2>2 DEF RunsOK, StopReachesNewest
<1>16. DotMatchesResult'
  <2> SUFFICES ASSUME route # Away, NEW d \in Connections, NEW m \in store.open[d],
                      panel'["run"][m].is = "ok"
               PROVE  LET o == panel'["run"][m].of IN
                      \/ store'.ran[m] = run'[o].sql
                      \/ \E s \in Runs : run'[s].tab = m /\ run'[s].page # page /\ run'[s].st = "ok"
    BY <1>1, <1>8 DEF DotMatchesResult
  <2>1. m \in Tabs /\ "run" \in Kinds
    BY DEF StoreOK, Stores, Kinds
  <2>2. CASE m = i /\ out = "ok" /\ k = "run" /\ run[r].page # page
    BY <1>5, <2>2
  <2>3. CASE m = i /\ out = "ok" /\ k = "run" /\ run[r].page = page
    <3>1. panel'["run"][m] = pane /\ c = d
      BY <1>2, <1>11, <2>1, <2>3 DEF Live
    <3> QED
      BY <1>4, <1>5, <1>9, <2>3, <3>1
  <2>4. CASE ~(m = i /\ out = "ok" /\ k = "run")
    <3>1. panel'["run"][m] = panel["run"][m]
      BY <1>4, <1>11, <2>1, <2>4
    <3>2. store'.ran[m] = store.ran[m]
      BY <1>3, <1>9, <2>1, <2>4 DEF Kinds
    <3>3. run'[panel["run"][m].of] = run[panel["run"][m].of]
      BY <1>5, <1>13, <2>1, <3>1
    <3>4. \A s \in Runs : run[s].st = "ok" => run'[s] = run[s]
      BY <1>1, <1>5
    <3> QED
      BY <3>1, <3>2, <3>3, <3>4 DEF RunsOK, DotMatchesResult
  <2> QED
    BY <2>2, <2>3, <2>4
<1> QED
  BY <1>1, <1>6, <1>10, <1>12, <1>14, <1>15, <1>16 DEF RunsOK

-----------------------------------------------------------------------------
(* The runs that wait for their turn, and the reconnects under way.        *)

DueOf(p) == {d \in [conn : Connections, sql : Sqls, page : Nat] : d.page <= p}
ReconOf(p) == {x \in [conn : Connections, page : Nat] : x.page <= p}

WaitingOK == due \in Seq(DueOf(page)) /\ recon \subseteq ReconOf(page) /\ page \in 0..MaxPages

LEMMA LaterDues ==
  ASSUME NEW p \in Nat, NEW o \in Nat, p <= o
  PROVE  Seq(DueOf(p)) \subseteq Seq(DueOf(o)) /\ ReconOf(p) \subseteq ReconOf(o)
<1>1. DueOf(p) \subseteq DueOf(o) /\ ReconOf(p) \subseteq ReconOf(o)
  BY DEF DueOf, ReconOf
<1>2. \A d \in Seq(DueOf(p)) : d \in Seq(DueOf(o))
  <2> SUFFICES ASSUME NEW d \in Seq(DueOf(p)) PROVE d \in Seq(DueOf(o))
    OBVIOUS
  <2>1. Len(d) \in Nat /\ d \in [1..Len(d) -> DueOf(p)]
    BY SeqDef, LenProperties
  <2>2. d \in [1..Len(d) -> DueOf(o)]
    BY <1>1, <2>1
  <2> QED
    BY <2>1, <2>2, SeqDef
<1> QED
  BY <1>1, <1>2

LEMMA OpenDues ==
  ASSUME NEW p \in Nat, due \in Seq(DueOf(p)), NEW s, NEW l, load[l] \in Payloads,
         NEW c \in Connections, NEW h, NEW seen, Open(l, c, s, h, p, seen)
  PROVE  due' \in Seq(DueOf(p))
<1> DEFINE d == [conn |-> c, sql |-> load[l].sql, page |-> p]
<1>1. d \in DueOf(p)
  BY PayloadTypes DEF DueOf
<1>2. due' = due \/ due' = Append(due, d)
  BY DEF Open
<1> HIDE DEF d
<1> QED
  BY <1>1, <1>2, AppendProperties

LEMMA NextWaiting ==
  ASSUME WaitingOK, LoadsMade, StoreOK(store), rowLimit \in Limits,
         route \in Connections \cup {Away}, target \in Connections \cup {Away, None}, [Next]_vars
  PROVE  WaitingOK'
<1>0. page \in Nat /\ MaxPages \in Nat
  BY SqlPageAssumption DEF WaitingOK
<1>1. CASE RunDue
  <2>1. due # <<>> /\ due' = Tail(due) /\ UNCHANGED <<recon, page>>
    BY <1>1 DEF RunDue, pageVars
  <2>2. Tail(due) \in Seq(DueOf(page))
    BY <2>1, HeadTailProperties DEF WaitingOK
  <2> QED
    BY <2>1, <2>2 DEF WaitingOK
<1>2. CASE Reconnect
  <2>1. /\ recon' = recon \cup {[conn |-> route, page |-> page]}
        /\ UNCHANGED <<due, page>> /\ route \in Connections
    BY <1>2 DEF Reconnect, pageVars
  <2>2. [conn |-> route, page |-> page] \in ReconOf(page)
    BY <1>0, <2>1 DEF ReconOf
  <2> QED
    BY <2>1, <2>2 DEF WaitingOK
<1>3. ASSUME NEW x \in recon, Reconnected(x)
      PROVE  WaitingOK'
  BY <1>3 DEF Reconnected, WaitingOK, pageVars
<1>4. ASSUME NEW n \in Limits, SetLimit(n)
      PROVE  WaitingOK'
  <2> DEFINE i == Active(route)
             d == [conn |-> route, page |-> page, sql |-> SelectStar(store.ref[i], n)]
  <2>1. /\ route \in Connections /\ UNCHANGED <<recon, page>>
        /\ \/ due' = due
           \/ i # None /\ store.ref[i] # None /\ due' = Append(due, d)
    BY <1>4 DEF SetLimit, pageVars
  <2>2. i \in Tabs \cup {None} /\ store.ref \in [Tabs -> Tables \cup {None}]
    BY <2>1 DEF Active, StoreOK, Stores
  <2> HIDE DEF i
  <2>3. i # None /\ store.ref[i] # None => d \in DueOf(page)
    BY <1>0, <2>1, <2>2, SqlsHold DEF DueOf
  <2> HIDE DEF d
  <2> QED
    BY <2>1, <2>3, AppendProperties DEF WaitingOK
<1>5. CASE Fire
  <2>1. CASE route = Away
    BY <1>5, <2>1 DEF Fire, WaitingOK, pageVars
  <2>2. CASE route # Away
    <3>1. load[fired + 1] \in Payloads
      BY <1>5 DEF Fire, LoadsMade
    <3>2. Open(fired + 1, route, store, handled, page, here) /\ UNCHANGED <<recon, page>>
      BY <1>5, <2>2 DEF Fire, pageVars
    <3> QED
      BY <1>0, <2>2, <3>1, <3>2, OpenDues DEF WaitingOK
  <2> QED
    BY <2>1, <2>2
<1>6. CASE Arrive
  <2>1. CASE route = target
    BY <1>6, <2>1 DEF Arrive, WaitingOK
  <2>2. CASE route # target
    <3>1. /\ page' \in Nat /\ page <= page' /\ page' \in 0..MaxPages /\ UNCHANGED recon
          /\ target \in Connections
          /\ \E s, h, seen : Drain(target, s, h, page', seen)
      BY <1>0, <1>6, <2>2 DEF Arrive, WaitingOK
    <3>2. due \in Seq(DueOf(page')) /\ recon \subseteq ReconOf(page')
      BY <1>0, <3>1, LaterDues DEF WaitingOK
    <3>3. due' = due \/ (pending # None
                         /\ \E s, h, seen : Open(pending, target, s, h, page', seen))
      BY <3>1 DEF Drain
    <3>4. pending # None => load[pending] \in Payloads
      BY DEF LoadsMade
    <3>5. due' \in Seq(DueOf(page'))
      BY <3>1, <3>2, <3>3, <3>4, OpenDues
    <3> QED
      BY <3>1, <3>2, <3>5 DEF WaitingOK
  <2> QED
    BY <2>1, <2>2
<1>7. ASSUME UNCHANGED <<due, recon, page>>
      PROVE  WaitingOK'
  BY <1>7 DEF WaitingOK
<1>8. ASSUME NEW q \in Sqls, RunEditor(q)
      PROVE  UNCHANGED <<due, recon, page>>
  BY <1>8 DEF RunEditor, pageVars
<1>9. Explain \/ Stop \/ NewTab \/ Leave => UNCHANGED <<due, recon, page>>
  BY DEF Explain, Stop, NewTab, Leave, pageVars
<1>10. ASSUME NEW q \in Texts \cup {Blank}, Edit(q)
       PROVE  UNCHANGED <<due, recon, page>>
  BY <1>10 DEF Edit, pageVars
<1>11. ASSUME NEW r \in Runs, NEW out \in {"ok", "error"}, Answer(r, out)
       PROVE  UNCHANGED <<due, recon, page>>
  BY <1>11 DEF Answer, pageVars
<1>12. ASSUME NEW i \in Tabs, NEW n \in Tabs \cup {None}, NEW key \in BOOLEAN,
              CloseTab(i, n, key)
       PROVE  UNCHANGED <<due, recon, page>>
  BY <1>12 DEF CloseTab, pageVars
<1>13. ASSUME NEW i \in Tabs, SelectTab(i)
       PROVE  UNCHANGED <<due, recon, page>>
  BY <1>13 DEF SelectTab, pageVars
<1>14. ASSUME NEW w \in Payloads, Request(w)
       PROVE  UNCHANGED <<due, recon, page>>
  BY <1>14 DEF Request
<1>15. ASSUME NEW t \in Connections \cup {Away}, Go(t)
       PROVE  UNCHANGED <<due, recon, page>>
  BY <1>15 DEF Go
<1>16. UNCHANGED vars => UNCHANGED <<due, recon, page>>
  BY DEF vars, pageVars
<1> QED
  BY <1>1, <1>2, <1>3, <1>4, <1>5, <1>6, <1>7, <1>8, <1>9, <1>10, <1>11, <1>12, <1>13,
     <1>14, <1>15, <1>16 DEF Next

-----------------------------------------------------------------------------
(* Every step, for the runs.                                               *)

LEMMA NextRuns ==
  ASSUME RunsOK, WaitingOK, StoreOK(store), StoreOK(store'), Grows(store, store'),
         store'.ran = store.ran \/ Stamps,
         route \in Connections \cup {Away}, target \in Connections \cup {Away, None}, [Next]_vars
  PROVE  RunsOK'
<1>0. page \in Nat /\ panel \in [Kinds -> [Tabs -> Panes]] /\ "run" \in Kinds /\ "explain" \in Kinds
  BY DEF RunsOK, RunTypes, Kinds
<1>1. ASSUME NEW q \in Sqls, RunEditor(q)
      PROVE  RunsOK'
  <2>1. /\ route \in Connections /\ Start(route, q, page, "run")
        /\ UNCHANGED <<store, route, page>>
    BY <1>1 DEF RunEditor, pageVars
  <2> QED
    BY <1>0, <2>1, StartedOK
<1>2. CASE Explain
  <2> DEFINE q == store.sql[Active(route)]
  <2>1. /\ route \in Connections /\ Start(route, q, page, "explain") /\ Active(route) # None
        /\ UNCHANGED <<store, route, page>>
    BY <1>2 DEF Explain, pageVars
  <2>2. q \in Sqls
    BY <2>1 DEF StoreOK, Stores, Active
  <2> HIDE DEF q
  <2> QED
    BY <1>0, <2>1, <2>2, StartedOK
<1>3. CASE RunDue
  <2> DEFINE d == Head(due)
  <2>1. /\ due # <<>> /\ Start(d.conn, d.sql, d.page, "run")
        /\ UNCHANGED <<store, route, page>>
    BY <1>3 DEF RunDue, pageVars
  <2>2. d \in DueOf(page)
    BY <2>1, HeadTailProperties DEF WaitingOK
  <2> HIDE DEF d
  <2>3. d.conn \in Connections /\ d.sql \in Sqls /\ d.page \in Nat /\ d.page <= page
    BY <2>2 DEF DueOf
  <2> QED
    BY <1>0, <2>1, <2>3, StartedOK
<1>4. ASSUME NEW x \in recon, Reconnected(x)
      PROVE  RunsOK'
  <2> DEFINE q == store.sql[Active(x.conn)]
  <2>1. x.conn \in Connections /\ x.page \in Nat /\ x.page <= page
    BY DEF WaitingOK, ReconOf
  <2>2. UNCHANGED <<store, route, page>>
    BY <1>4 DEF Reconnected, pageVars
  <2>3. CASE UNCHANGED runVars
    BY <2>2, <2>3
       DEF runVars, RunsOK, RunTypes, RunsFit, PanesAreExact, StopReachesNewest, DotMatchesResult
  <2>4. CASE Active(x.conn) # None /\ Start(x.conn, q, x.page, "run")
    <3>1. q \in Sqls
      BY <2>1, <2>4 DEF StoreOK, Stores, Active
    <3> HIDE DEF q
    <3> QED
      BY <1>0, <2>1, <2>2, <2>4, <3>1, StartedOK
  <2> QED
    BY <1>4, <2>3, <2>4 DEF Reconnected
<1>5. ASSUME NEW r \in Runs, NEW out \in {"ok", "error"}, Answer(r, out)
      PROVE  RunsOK'
  BY <1>5, AnsweredOK
<1>6. CASE Arrive /\ route # target
  <2>1. CASE route = Away
    <3>1. /\ page' = page + 1 /\ UNCHANGED <<run, lastRun>>
          /\ panel' = [k \in Kinds |-> [i \in Tabs |-> Idle]]
      BY <1>6, <2>1 DEF Arrive
    <3>2. panel' \in [Kinds -> [Tabs -> Panes]]
      BY <3>1 DEF Panes, Idle
    <3>3. RunTypes' /\ RunsFit(store)'
      BY <1>0, <3>1, <3>2, GrownFits DEF RunsOK, RunTypes, RunsFit
    <3>4. \A r \in Runs : run'[r].page <= page'
      BY <1>0, <3>1 DEF RunsOK, RunTypes, RunRecs
    <3>5. \A k \in Kinds, i \in Tabs : panel'[k][i].is = "idle"
      BY <3>1 DEF Idle
    <3>6. \A c \in Connections : store'.open[c] \subseteq Tabs
      BY DEF StoreOK, Stores
    <3>7. PanesAreExact' /\ StopReachesNewest'
      BY <3>5 DEF PanesAreExact, StopReachesNewest
    <3>8. DotMatchesResult'
      BY <1>0, <3>5, <3>6 DEF DotMatchesResult
    <3> QED
      BY <3>3, <3>4, <3>7, <3>8 DEF RunsOK
  <2>2. CASE route # Away
    <3>1. UNCHANGED <<run, lastRun, page, panel>>
      BY <1>6, <2>2 DEF Arrive
    <3>2. ~Stamps => RunsOK'
      BY <1>0, <2>2, <3>1, RunsUndisturbed
    <3> QED
      BY <1>5, <3>2 DEF Stamps
  <2> QED
    BY <2>1, <2>2
<1>7. ASSUME NEW i \in Tabs, NEW n \in Tabs \cup {None}, NEW key \in BOOLEAN,
             CloseTab(i, n, key)
      PROVE  RunsOK'
  <2>1. /\ UNCHANGED <<run, lastRun, route, page>>
        /\ panel' = IF key THEN panel ELSE [k \in Kinds |-> [panel[k] EXCEPT ![i] = Idle]]
    BY <1>7 DEF CloseTab, pageVars
  <2>2. Idle \in Panes
    BY DEF Idle, Panes
  <2>3. panel' \in [Kinds -> [Tabs -> Panes]]
    BY <1>0, <2>1, <2>2
  <2>4. \A k \in Kinds, j \in Tabs : panel'[k][j] \in {panel[k][j], Idle}
    BY <1>0, <2>1
  <2>5. ~Stamps => RunsOK'
    BY <2>1, <2>3, <2>4, RunsUndisturbed
  <2> QED
    BY <1>5, <2>5 DEF Stamps
<1>8. ASSUME UNCHANGED <<run, lastRun, page, panel>>, route' # Away => route # Away
      PROVE  RunsOK'
  <2>1. ~Stamps => RunsOK'
    BY <1>0, <1>8, RunsUndisturbed
  <2> QED
    BY <1>5, <2>1 DEF Stamps
<1> DEFINE Quiet == UNCHANGED <<run, lastRun, page, panel>> /\ (route' # Away => route # Away)
<1>9. Stop \/ Reconnect \/ NewTab \/ Fire \/ Leave => Quiet
  BY DEF Stop, Reconnect, NewTab, Fire, Leave, pageVars, runVars
<1>10. CASE Arrive /\ route = target
  <2>1. Quiet
    BY <1>10, SqlPageAssumption DEF Arrive
  <2> QED
    BY <1>8, <2>1
<1>11. ASSUME NEW q \in Texts \cup {Blank}, Edit(q)
       PROVE  Quiet
  BY <1>11 DEF Edit, pageVars, runVars
<1>12. ASSUME NEW i \in Tabs, SelectTab(i)
       PROVE  Quiet
  BY <1>12 DEF SelectTab, pageVars, runVars
<1>13. ASSUME NEW n \in Limits, SetLimit(n)
       PROVE  Quiet
  BY <1>13 DEF SetLimit, pageVars, runVars
<1>14. ASSUME NEW w \in Payloads, Request(w)
       PROVE  Quiet
  BY <1>14 DEF Request, runVars
<1>15. ASSUME NEW t \in Connections \cup {Away}, Go(t)
       PROVE  Quiet
  BY <1>15 DEF Go, runVars
<1>16. UNCHANGED vars => Quiet
  BY DEF vars, pageVars, runVars
<1> HIDE DEF Quiet
<1>17. Quiet => RunsOK'
  BY <1>8 DEF Quiet
<1> QED
  BY <1>1, <1>2, <1>3, <1>4, <1>5, <1>6, <1>7, <1>9, <1>10, <1>11, <1>12, <1>13, <1>14,
     <1>15, <1>16, <1>17 DEF Next

-----------------------------------------------------------------------------
(* Loads.                                                                  *)

LoadTypes ==
  /\ load \in [LoadIds -> Payloads \cup {None}] /\ lastLoad \in 0..MaxLoads /\ fired \in 0..lastLoad
  /\ pending \in LoadIds \cup {None} /\ handled \in LoadIds \cup {None}
  /\ {here, again, strays, opened, crowded} \subseteq SUBSET LoadIds

LoadsOK == LoadTypes /\ LoadsInOrder /\ LoadsDelivered

LEMMA LoadsAreMade ==
  ASSUME LoadsOK
  PROVE  LoadsMade /\ lastLoad \in Nat /\ fired \in Nat /\ fired <= lastLoad /\ None \notin Nat
<1>1. lastLoad \in Nat /\ fired \in Nat /\ fired <= lastLoad /\ None \notin Nat
  BY SqlPageAssumption DEF LoadsOK, LoadTypes
<1>2. pending # None => pending \in 1..lastLoad
  BY <1>1 DEF LoadsOK, LoadTypes, LoadsInOrder, LoadIds
<1> QED
  BY <1>1, <1>2 DEF LoadsMade, LoadsOK, LoadTypes, LoadsInOrder

\* What an opening leaves: nothing if the nonce is the last one, and otherwise
\* the load among those this mount has opened.
Opens(l, h, seen) ==
  \/ /\ l = h /\ handled' = h /\ here' = seen /\ UNCHANGED <<again, strays, opened>>
  \/ /\ l # h /\ handled' = l /\ here' = seen \cup {l}
     /\ again' = again \cup (seen \cap {l}) /\ opened' = opened \cup {l}
     /\ strays' \in {strays, strays \cup {l}}

LEMMA OpenTells ==
  ASSUME NEW l, NEW c, NEW s, NEW h, NEW p, NEW seen, Open(l, c, s, h, p, seen)
  PROVE  Opens(l, h, seen)
<1>1. CASE ~Fresh(l, h)
  BY <1>1 DEF Open, Opens, Fresh
<1>2. CASE Fresh(l, h)
  <2>1. /\ handled' = l /\ here' = seen \cup {l}
        /\ again' = again \cup (seen \cap {l}) /\ opened' = opened \cup {l}
        /\ strays' = IF load[l].conn = c THEN strays ELSE strays \cup {l}
    BY <1>2 DEF Open
  <2> QED
    BY <1>2, <2>1 DEF Opens, Fresh
<1> QED
  BY <1>1, <1>2

LEMMA OpensTypes ==
  ASSUME LoadTypes, NEW l \in LoadIds, NEW h \in LoadIds \cup {None},
         NEW seen \in SUBSET LoadIds, Opens(l, h, seen)
  PROVE  /\ handled' \in LoadIds \cup {None}
         /\ {here', again', strays', opened'} \subseteq SUBSET LoadIds
BY DEF LoadTypes, Opens

\* A load that the page hears of, or finds, while it stays mounted is opened for
\* the first time by this mount, unless it is one of a crowd.
LEMMA OpensOnce ==
  ASSUME LoadsOK, route # Away, NEW l \in 1..lastLoad, Opens(l, handled, here),
         l = fired + 1 \/ l = lastLoad
  PROVE  /\ again' \subseteq crowded
         /\ handled' # None => handled' \in here'
         /\ here' \subseteq opened' /\ opened \subseteq opened' /\ l \in opened'
         /\ opened' \subseteq 1..lastLoad
         /\ handled' = l
         /\ \A m \in here' : /\ m > fired /\ m # l => m \in crowded \/ m = handled
                             /\ m = l \/ m \in here
         /\ handled # None /\ handled > fired /\ handled # l => handled \in crowded \/ handled = fired + 1
<1>0. LoadsInOrder /\ LoadsDelivered /\ lastLoad \in Nat /\ fired \in Nat /\ fired <= lastLoad
  BY LoadsAreMade DEF LoadsOK
<1>1. handled' = l
  BY DEF Opens
<1>2. l \in here /\ l # handled => l \in crowded
  <2>1. CASE l > fired
    BY <1>0, <2>1 DEF LoadsInOrder
  <2>2. CASE ~(l > fired)
    <3>1. l = lastLoad /\ l <= fired
      BY <1>0, <2>2
    <3> QED
      BY <1>0, <3>1 DEF LoadsInOrder
  <2> QED
    BY <2>1, <2>2
<1>3. again' \subseteq crowded
  BY <1>0, <1>2 DEF Opens, LoadsDelivered
<1>4. /\ handled' # None => handled' \in here'
      /\ here' \subseteq opened' /\ opened \subseteq opened' /\ l \in opened'
      /\ opened' \subseteq 1..lastLoad
  <2>1. /\ handled # None => handled \in here
        /\ here \subseteq opened /\ opened \subseteq 1..lastLoad
    BY <1>0 DEF LoadsInOrder
  <2>2. CASE l = handled
    <3>1. here' = here /\ opened' = opened /\ handled # None
      BY <2>2, LoadsAreMade DEF Opens
    <3> QED
      BY <1>1, <2>1, <2>2, <3>1
  <2>3. CASE l # handled
    <3>1. here' = here \cup {l} /\ opened' = opened \cup {l}
      BY <2>3 DEF Opens
    <3> QED
      BY <1>1, <2>1, <3>1
  <2> QED
    BY <2>2, <2>3
<1>5. \A m \in here' : /\ m > fired /\ m # l => m \in crowded \/ m = handled
                       /\ m = l \/ m \in here
  BY <1>0 DEF Opens, LoadsInOrder
<1>6. handled # None /\ handled > fired /\ handled # l => handled \in crowded \/ handled = fired + 1
  <2> SUFFICES ASSUME handled # None, handled > fired, handled # l, handled # fired + 1
               PROVE  handled \in crowded
    OBVIOUS
  <2>1. handled \in 1..lastLoad
    BY <1>0 DEF LoadsInOrder
  <2>2. handled \in (fired + 1)..lastLoad /\ lastLoad > fired + 1
    BY <1>0, <2>1
  <2> QED
    BY <1>0, <2>2 DEF LoadsInOrder
<1> QED
  BY <1>1, <1>3, <1>4, <1>5, <1>6

LEMMA FireLoads ==
  ASSUME LoadsOK, Fire
  PROVE  LoadsOK'
<1>0. /\ lastLoad \in Nat /\ fired \in Nat /\ fired <= lastLoad /\ None \notin Nat
      /\ LoadTypes /\ LoadsInOrder /\ LoadsDelivered
  BY LoadsAreMade DEF LoadsOK
<1>1. /\ fired < lastLoad /\ fired' = fired + 1
      /\ UNCHANGED <<load, lastLoad, pending, crowded, route>>
  BY DEF Fire, pageVars
<1>2. fired' \in 0..lastLoad /\ fired + 1 \in 1..lastLoad /\ fired' \in Nat
  BY <1>0, <1>1
<1>3. lastLoad > fired' + 1 => (fired' + 1)..lastLoad \subseteq crowded
  <2>1. lastLoad > fired' + 1 => lastLoad > fired + 1 /\ (fired' + 1)..lastLoad \subseteq (fired + 1)..lastLoad
    BY <1>0, <1>1
  <2> QED
    BY <1>0, <2>1 DEF LoadsInOrder
<1>4. CASE route = Away
  <2>1. UNCHANGED openVars
    BY <1>4 DEF Fire
  <2>2. LoadTypes'
    BY <1>0, <1>1, <1>2, <2>1 DEF LoadTypes, openVars
  <2>3. \A m \in here : m > fired' => m > fired
    BY <1>0, <1>1 DEF LoadTypes, LoadIds
  <2>4. LoadsInOrder'
    BY <1>0, <1>1, <1>3, <1>4, <2>1, <2>3 DEF LoadsInOrder, openVars
  <2>5. LoadsDelivered'
    BY <1>0, <1>1, <2>1 DEF LoadsDelivered, openVars
  <2> QED
    BY <2>2, <2>4, <2>5 DEF LoadsOK
<1>5. CASE route # Away
  <2> DEFINE l == fired + 1
  <2>1. Opens(l, handled, here)
    BY <1>5, OpenTells DEF Fire
  <2>2. l \in LoadIds /\ l \in 1..lastLoad /\ fired' = l /\ l \in Nat
    BY <1>0, <1>1, <1>2, SqlPageAssumption DEF LoadTypes, LoadIds
  <2>3. {here', again', strays', opened'} \subseteq SUBSET LoadIds /\ handled' \in LoadIds \cup {None}
    BY <1>0, <2>1, <2>2, OpensTypes DEF LoadTypes
  <2>4. LoadTypes'
    BY <1>0, <1>1, <1>2, <2>3 DEF LoadTypes
  <2> HIDE DEF l
  <2>5. /\ again' \subseteq crowded
        /\ handled' # None => handled' \in here'
        /\ here' \subseteq opened' /\ opened \subseteq opened' /\ l \in opened'
        /\ opened' \subseteq 1..lastLoad
        /\ handled' = l
        /\ \A m \in here' : /\ m > fired /\ m # l => m \in crowded \/ m = handled
                            /\ m = l \/ m \in here
        /\ handled # None /\ handled > fired /\ handled # l => handled \in crowded \/ handled = fired + 1
    BY <1>5, <2>1, <2>2, OpensOnce DEF l
  <2>6. \A m \in here' : m > fired' /\ m # handled' => m \in crowded
    <3> SUFFICES ASSUME NEW m \in here', m > l, m # l PROVE m \in crowded
      BY <2>2, <2>5
    <3>1. m \in Nat /\ m > fired /\ m # fired + 1
      BY <1>0, <2>2, <2>3 DEF LoadIds, l
    <3> QED
      BY <1>0, <2>5, <3>1
  <2>7. lastLoad \in here' /\ lastLoad <= fired' => handled' = lastLoad
    BY <1>0, <1>1, <2>5 DEF l
  <2>8. LoadsInOrder'
    BY <1>0, <1>1, <1>3, <2>5, <2>6, <2>7 DEF LoadsInOrder
  <2>9. LoadsDelivered'
    BY <1>0, <1>1, <2>5 DEF LoadsDelivered
  <2> QED
    BY <2>4, <2>8, <2>9 DEF LoadsOK
<1> QED
  BY <1>4, <1>5

\* A mount, or a change of connection, drains the payload.
LEMMA ArriveLoads ==
  ASSUME LoadsOK, Arrive, route # target, route' = target, target # Away
  PROVE  LoadsOK'
<1>0. /\ lastLoad \in Nat /\ fired \in Nat /\ fired <= lastLoad /\ None \notin Nat
      /\ LoadTypes /\ LoadsInOrder /\ LoadsDelivered /\ LoadsMade
  BY LoadsAreMade DEF LoadsOK
<1>1. UNCHANGED <<load, lastLoad, fired, crowded>> /\ pending' = None
  BY DEF Arrive, Drain
<1> DEFINE h == IF route = Away THEN None ELSE handled
           seen == IF route = Away THEN {} ELSE here
<1>2. IF pending = None
      THEN handled' = h /\ here' = seen /\ UNCHANGED <<again, strays, opened>>
      ELSE Opens(pending, h, seen)
  BY OpenTells DEF Arrive, Drain
<1>3. h \in LoadIds \cup {None} /\ seen \in SUBSET LoadIds
  BY <1>0 DEF LoadTypes
<1>4. LoadTypes'
  <2>1. {here', again', strays', opened'} \subseteq SUBSET LoadIds /\ handled' \in LoadIds \cup {None}
    <3>1. CASE pending = None
      BY <1>0, <1>2, <1>3, <3>1 DEF LoadTypes
    <3>2. CASE pending # None
      BY <1>0, <1>2, <1>3, <3>2, OpensTypes DEF LoadTypes
    <3> QED
      BY <3>1, <3>2
  <2> QED
    BY <1>0, <1>1, <2>1 DEF LoadTypes
<1>5. CASE pending = None
  <2>1. handled' = h /\ here' = seen /\ UNCHANGED <<again, strays, opened>>
    BY <1>2, <1>5
  <2>2. LoadsInOrder'
    BY <1>0, <1>1, <2>1 DEF LoadsInOrder
  <2>3. LoadsDelivered'
    BY <1>0, <1>1, <1>5, <2>1 DEF LoadsDelivered
  <2> QED
    BY <1>4, <2>2, <2>3 DEF LoadsOK
<1>6. CASE pending # None /\ route = Away
  <2>1. /\ handled' = pending /\ here' = {pending} /\ again' = again
        /\ opened' = opened \cup {pending}
    BY <1>2, <1>6 DEF Opens
  <2>2. pending = lastLoad /\ lastLoad \in 1..lastLoad
    BY <1>0, <1>6 DEF LoadsInOrder, LoadsMade
  <2>3. LoadsInOrder'
    BY <1>0, <1>1, <2>1, <2>2 DEF LoadsInOrder
  <2>4. LoadsDelivered'
    BY <1>0, <1>1, <2>1, <2>2 DEF LoadsDelivered
  <2> QED
    BY <1>4, <2>3, <2>4 DEF LoadsOK
<1>7. CASE pending # None /\ route # Away
  <2>1. Opens(lastLoad, handled, here) /\ lastLoad \in 1..lastLoad
    BY <1>0, <1>2, <1>7 DEF LoadsInOrder, LoadsMade
  <2>2. /\ again' \subseteq crowded
        /\ handled' # None => handled' \in here'
        /\ here' \subseteq opened' /\ opened \subseteq opened' /\ lastLoad \in opened'
        /\ opened' \subseteq 1..lastLoad
        /\ handled' = lastLoad
        /\ \A m \in here' : /\ m > fired /\ m # lastLoad => m \in crowded \/ m = handled
                            /\ m = lastLoad \/ m \in here
        /\ handled # None /\ handled > fired /\ handled # lastLoad
             => handled \in crowded \/ handled = fired + 1
    BY <1>7, <2>1, OpensOnce
  <2>3. \A m \in here' : m > fired /\ m # lastLoad => m \in crowded
    <3> SUFFICES ASSUME NEW m \in here', m > fired, m # lastLoad, m = handled PROVE m \in crowded
      BY <2>2
    <3>1. m \in (fired + 1)..lastLoad /\ lastLoad > fired + 1
      BY <1>0, <2>2
    <3> QED
      BY <1>0, <3>1 DEF LoadsInOrder
  <2>4. LoadsInOrder'
    BY <1>0, <1>1, <2>2, <2>3 DEF LoadsInOrder
  <2>5. LoadsDelivered'
    BY <1>1, <2>2 DEF LoadsDelivered
  <2> QED
    BY <1>4, <2>4, <2>5 DEF LoadsOK
<1> QED
  BY <1>5, <1>6, <1>7

\* A view asks for a load.
LEMMA RequestLoads ==
  ASSUME LoadsOK, NEW w \in Payloads, Request(w)
  PROVE  LoadsOK'
<1> DEFINE l == lastLoad + 1
<1>0. /\ lastLoad \in Nat /\ fired \in Nat /\ fired <= lastLoad /\ None \notin Nat
      /\ LoadTypes /\ LoadsInOrder /\ LoadsDelivered /\ MaxLoads \in Nat
  BY LoadsAreMade, SqlPageAssumption DEF LoadsOK
<1>1. /\ lastLoad < MaxLoads /\ lastLoad' = l /\ load' = [load EXCEPT ![l] = w] /\ pending' = l
      /\ crowded' = IF fired < lastLoad THEN crowded \cup (fired + 1)..l ELSE crowded
      /\ UNCHANGED <<route, fired, handled, here, again, strays, opened>>
  BY DEF Request, openVars
<1>2. l \in LoadIds /\ l \in 0..MaxLoads /\ fired \in 0..l /\ (fired + 1)..l \subseteq LoadIds /\ l \in Nat
  BY <1>0, <1>1 DEF LoadIds
<1>3. LoadTypes'
  BY <1>0, <1>1, <1>2 DEF LoadTypes
<1>4. \A m \in here : m <= lastLoad /\ m # l
  BY <1>0 DEF LoadsInOrder
<1>5. 1..l = 1..lastLoad \cup {l} /\ l \notin 1..lastLoad
  BY <1>0
<1>6. \A m \in 1..l : load'[m] \in Payloads
  BY <1>0, <1>1, <1>2, <1>5 DEF LoadsInOrder, LoadTypes
<1>7. l > fired + 1 <=> fired < lastLoad
  BY <1>0
<1>8. LoadsInOrder'
  <2>1. crowded \subseteq crowded'
    BY <1>1
  <2>2. lastLoad' \notin here'
    BY <1>1, <1>4
  <2> HIDE DEF l
  <2>3. pending' # None => pending' = lastLoad'
    BY <1>1
  <2>4. opened' \subseteq 1..lastLoad'
    BY <1>0, <1>1, <1>5 DEF LoadsInOrder
  <2>5. lastLoad' > fired' + 1 => (fired' + 1)..lastLoad' \subseteq crowded'
    BY <1>1, <1>7
  <2> QED
    BY <1>0, <1>1, <1>6, <2>1, <2>2, <2>3, <2>4, <2>5 DEF LoadsInOrder
<1>9. LoadsDelivered'
  BY <1>0, <1>1 DEF LoadsDelivered
<1> QED
  BY <1>3, <1>8, <1>9 DEF LoadsOK

LEMMA NextLoads ==
  ASSUME LoadsOK, [Next]_vars
  PROVE  LoadsOK'
<1> DEFINE Quiet == UNCHANGED <<loadVars, openVars, crowded>> /\ (route' # Away => route' = route)
<1>1. ASSUME Quiet
      PROVE  LoadsOK'
  BY <1>1 DEF loadVars, openVars, LoadsOK, LoadTypes, LoadsInOrder, LoadsDelivered
<1> HIDE DEF Quiet
<1>2. CASE Fire
  BY <1>2, FireLoads
<1>3. CASE Arrive
  <2>1. CASE route = target
    BY <1>1, <1>3, <2>1 DEF Arrive, Quiet, loadVars
  <2>2. CASE route # target
    <3>1. route' = target /\ target # Away
      BY <1>3, SqlPageAssumption DEF Arrive
    <3> QED
      BY <1>3, <2>2, <3>1, ArriveLoads
  <2> QED
    BY <2>1, <2>2
<1>4. ASSUME NEW w \in Payloads, Request(w)
      PROVE  LoadsOK'
  BY <1>4, RequestLoads
<1>5. ASSUME NEW q \in Sqls, RunEditor(q)
      PROVE  Quiet
  BY <1>5 DEF RunEditor, Quiet, pageVars
<1>6. Explain \/ RunDue \/ Stop \/ Reconnect \/ NewTab \/ Leave => Quiet
  BY DEF Explain, RunDue, Stop, Reconnect, NewTab, Leave, Quiet, pageVars
<1>7. ASSUME NEW q \in Texts \cup {Blank}, Edit(q)
      PROVE  Quiet
  BY <1>7 DEF Edit, Quiet, pageVars
<1>8. ASSUME NEW r \in Runs, NEW out \in {"ok", "error"}, Answer(r, out)
      PROVE  Quiet
  BY <1>8 DEF Answer, Quiet, pageVars
<1>9. ASSUME NEW i \in Tabs, NEW n \in Tabs \cup {None}, NEW key \in BOOLEAN,
             CloseTab(i, n, key)
      PROVE  Quiet
  BY <1>9 DEF CloseTab, Quiet, pageVars
<1>10. ASSUME NEW i \in Tabs, SelectTab(i)
       PROVE  Quiet
  BY <1>10 DEF SelectTab, Quiet, pageVars
<1>11. ASSUME NEW n \in Limits, SetLimit(n)
       PROVE  Quiet
  BY <1>11 DEF SetLimit, Quiet, pageVars
<1>12. ASSUME NEW x \in recon, Reconnected(x)
       PROVE  Quiet
  BY <1>12 DEF Reconnected, Quiet, pageVars
<1>13. ASSUME NEW t \in Connections \cup {Away}, Go(t)
       PROVE  Quiet
  BY <1>13 DEF Go, Quiet
<1>14. UNCHANGED vars => Quiet
  BY DEF vars, Quiet, pageVars
<1> QED
  BY <1>1, <1>2, <1>3, <1>4, <1>5, <1>6, <1>7, <1>8, <1>9, <1>10, <1>11, <1>12, <1>13, <1>14
     DEF Next

-----------------------------------------------------------------------------
(* The whole invariant.                                                    *)

\* The rest of what a step keeps: types that no proof above needed.
PlaceTypes ==
  /\ rowLimit \in Limits /\ route \in Connections \cup {Away}
  /\ target \in Connections \cup {Away, None} /\ stopped \subseteq Runs
  /\ gestures \in 0..MaxGestures

LEMMA NextPlace ==
  ASSUME PlaceTypes, RunsOK, StoreOK(store), [Next]_vars
  PROVE  PlaceTypes'
<1>0. gestures \in Nat /\ MaxGestures \in Nat /\ (Gesture => gestures' \in 0..MaxGestures)
  BY SqlPageAssumption DEF PlaceTypes, Gesture
<1> USE DEF PlaceTypes
<1>1. CASE Stop
  <2>1. /\ route \in Connections /\ route # Away /\ Active(route) # None
        /\ panel["run"][Active(route)].is = "running"
        /\ stopped' = stopped \cup {panel["run"][Active(route)].of}
        /\ UNCHANGED <<rowLimit, route, target>> /\ Gesture
    BY <1>1 DEF Stop, pageVars
  <2>2. Active(route) \in Tabs /\ "run" \in Kinds
    BY <2>1 DEF StoreOK, Stores, Active, Kinds
  <2>3. panel["run"][Active(route)].of \in Runs
    BY <2>1, <2>2 DEF RunsOK, StopReachesNewest
  <2> QED
    BY <1>0, <2>1, <2>3
<1>2. ASSUME NEW q \in Sqls, RunEditor(q)
      PROVE  PlaceTypes'
  BY <1>0, <1>2 DEF RunEditor, pageVars
<1>3. ASSUME NEW q \in Texts \cup {Blank}, Edit(q)
      PROVE  PlaceTypes'
  BY <1>0, <1>3 DEF Edit, pageVars
<1>4. Explain \/ Reconnect \/ NewTab => PlaceTypes'
  BY <1>0 DEF Explain, Reconnect, NewTab, pageVars
<1>5. RunDue \/ Fire \/ Leave \/ Arrive => PlaceTypes'
  BY DEF RunDue, Fire, Leave, Arrive, pageVars
<1>6. ASSUME NEW r \in Runs, NEW out \in {"ok", "error"}, Answer(r, out)
      PROVE  PlaceTypes'
  BY <1>6 DEF Answer, pageVars
<1>7. ASSUME NEW x \in recon, Reconnected(x)
      PROVE  PlaceTypes'
  BY <1>7 DEF Reconnected, pageVars
<1>8. ASSUME NEW i \in Tabs, NEW n \in Tabs \cup {None}, NEW key \in BOOLEAN,
             CloseTab(i, n, key)
      PROVE  PlaceTypes'
  BY <1>0, <1>8 DEF CloseTab, pageVars
<1>9. ASSUME NEW i \in Tabs, SelectTab(i)
      PROVE  PlaceTypes'
  BY <1>0, <1>9 DEF SelectTab, pageVars
<1>10. ASSUME NEW n \in Limits, SetLimit(n)
       PROVE  PlaceTypes'
  BY <1>0, <1>10 DEF SetLimit, pageVars
<1>11. ASSUME NEW w \in Payloads, Request(w)
       PROVE  PlaceTypes'
  BY <1>0, <1>11, PayloadTypes DEF Request
<1>12. ASSUME NEW t \in Connections \cup {Away}, Go(t)
       PROVE  PlaceTypes'
  BY <1>0, <1>12 DEF Go
<1>13. UNCHANGED vars => PlaceTypes'
  BY DEF vars, pageVars
<1> QED
  BY <1>1, <1>2, <1>3, <1>4, <1>5, <1>6, <1>7, <1>8, <1>9, <1>10, <1>11, <1>12, <1>13 DEF Next

WorkspaceOK == StoreOK(store) /\ RunsOK /\ WaitingOK /\ LoadsOK /\ PlaceTypes

\* Nothing is open, running or asked for at the start.
LEMMA InitWorkspace == Init => WorkspaceOK
<1> SUFFICES ASSUME Init PROVE WorkspaceOK
  OBVIOUS
<1> USE SqlPageAssumption DEF Init
<1>1. StoreOK(store)
  <2>1. store \in Stores
    BY SqlsHold DEF Stores
  <2> QED
    BY <2>1 DEF StoreOK, HasFocus, OnePerTable, Numbered
<1>2. RunsOK
  <2>1. NoRun \in RunRecs /\ NoRun.st = "new" /\ NoRun.page = 0
    BY SqlsHold DEF NoRun, RunRecs, Kinds
  <2>2. Idle \in Panes
    BY DEF Idle, Panes
  <2>3. RunTypes
    BY <2>1, <2>2 DEF RunTypes
  <2>4. RunsFit(store) /\ \A r \in Runs : run[r].page <= page
    BY <2>1 DEF RunsFit, Runs
  <2> QED
    BY <2>3, <2>4 DEF RunsOK, PanesAreExact, StopReachesNewest, DotMatchesResult
<1>3. WaitingOK
  BY EmptySeq DEF WaitingOK
<1>4. LoadsOK
  BY DEF LoadsOK, LoadTypes, LoadsInOrder, LoadsDelivered
<1>5. PlaceTypes
  BY DEF PlaceTypes
<1> QED
  BY <1>1, <1>2, <1>3, <1>4, <1>5 DEF WorkspaceOK

LEMMA NextWorkspace == WorkspaceOK /\ [Next]_vars => WorkspaceOK'
<1> SUFFICES ASSUME WorkspaceOK, [Next]_vars PROVE WorkspaceOK'
  OBVIOUS
<1>1. /\ StoreOK(store) /\ RunsOK /\ WaitingOK /\ LoadsOK /\ PlaceTypes /\ LoadsMade
  BY LoadsAreMade DEF WorkspaceOK
<1>2. /\ rowLimit \in Limits /\ route \in Connections \cup {Away}
      /\ target \in Connections \cup {Away, None}
  BY <1>1 DEF PlaceTypes
<1>3. RunsHaveTabs
  <2> SUFFICES ASSUME NEW r \in Runs
               PROVE  run[r].sql \in Sqls /\ (run[r].st # "new" => run[r].tab \in Tabs)
    BY DEF RunsHaveTabs
  <2>1. run[r] \in RunRecs /\ r \in Nat /\ lastRun \in Nat
    BY <1>1, SqlPageAssumption DEF RunsOK, RunTypes, Runs
  <2>2. run[r].st # "new" => run[r].tab \in 1..store.last
    BY <1>1, <2>1 DEF RunsOK, RunsFit
  <2>3. 1..store.last \subseteq Tabs
    BY <1>1, SqlPageAssumption DEF StoreOK, Stores, Tabs
  <2> QED
    BY <2>1, <2>2, <2>3 DEF RunRecs
<1>4. StoreOK(store') /\ Grows(store, store') /\ (store'.ran = store.ran \/ Stamps)
  BY <1>1, <1>2, <1>3, NextStore
<1>5. RunsOK'
  BY <1>1, <1>2, <1>4, NextRuns
<1>6. WaitingOK'
  BY <1>1, <1>2, NextWaiting
<1>7. LoadsOK' /\ PlaceTypes'
  BY <1>1, NextLoads, NextPlace
<1> QED
  BY <1>4, <1>5, <1>6, <1>7 DEF WorkspaceOK

\* The parts are those of the module's invariant.
LEMMA WorkspaceTells == WorkspaceOK => IInv /\ RunsAndTabsAgree /\ LoadsDelivered
<1> SUFFICES ASSUME WorkspaceOK PROVE IInv /\ RunsAndTabsAgree /\ LoadsDelivered
  OBVIOUS
<1> USE DEF WorkspaceOK
<1>1. FocusIsOpen /\ OneTabPerTable
  BY DEF StoreOK, HasFocus, OnePerTable, FocusIsOpen, OneTabPerTable, Active
<1>2. TabsHaveOneHome
  BY DEF StoreOK, Numbered, RunsOK, RunsFit, TabsHaveOneHome
<1>3. /\ due \in Seq([conn : Connections, sql : Sqls, page : Nat])
      /\ \A j \in 1..Len(due) : due[j].page <= page
      /\ recon \subseteq [conn : Connections, page : Nat] /\ \A x \in recon : x.page <= page
  <2>1. due \in Seq(DueOf(page)) /\ recon \subseteq ReconOf(page)
    BY DEF WaitingOK
  <2>2. \A j \in 1..Len(due) : due[j] \in DueOf(page)
    BY <2>1, ElementOfSeq
  <2> DEFINE D == [conn : Connections, sql : Sqls, page : Nat]
  <2>3. DueOf(page) \subseteq D
    BY DEF DueOf
  <2> HIDE DEF D
  <2>4. Len(due) \in Nat /\ due \in [1..Len(due) -> DueOf(page)]
    BY <2>1, SeqDef, LenProperties
  <2>5. due \in [1..Len(due) -> D]
    BY <2>3, <2>4
  <2>6. due \in Seq(D)
    BY <2>4, <2>5, SeqDef
  <2> QED
    BY <2>1, <2>2, <2>6 DEF D, DueOf, ReconOf
<1>4. PagesAreKnown
  BY <1>3 DEF RunsOK, PagesAreKnown
<1>5. TypeOK
  <2>1. store \in Stores /\ RunTypes /\ WaitingOK /\ LoadTypes /\ PlaceTypes
    BY DEF StoreOK, RunsOK, LoadsOK
  <2> QED
    BY <1>3, <2>1 DEF TypeOK, Stores, RunTypes, RunRecs, WaitingOK, LoadTypes, PlaceTypes
<1> QED
  BY <1>1, <1>2, <1>4, <1>5 DEF IInv, RunsOK, LoadsOK, RunsAndTabsAgree

LEMMA WorkspaceStays == Spec => []WorkspaceOK
BY InitWorkspace, NextWorkspace, PTL DEF Spec

\* The invariant of the SQL workspace: the focus is on an open tab, a table has
\* one tab, panes show runs of their own tab and mount, and loads come in order.
THEOREM InvariantHolds == Spec => []IInv
BY WorkspaceStays, WorkspaceTells, PTL

\* Stop reaches the newest run of the tab it is pressed in, and the dirty dot
\* compares with the text of the result on show.
THEOREM PanesFollowRuns == Spec => []RunsAndTabsAgree
BY WorkspaceStays, WorkspaceTells, PTL

\* A load asked for by another view is opened, and once, but for a crowd.
THEOREM LoadsArrive == Spec => []LoadsDelivered
BY WorkspaceStays, WorkspaceTells, PTL

=============================================================================
