----------------------------- MODULE CompareProofs -----------------------------
(***************************************************************************)
(* What Compare promises, for any connections, changes and bounds: of      *)
(* destructive rows, of the list on the screen and the batches made of it, *)
(* and of the migration log. The log is a capped sequence; what removal    *)
(* and the cap do to it are lemmas of their own.                           *)
(***************************************************************************)
EXTENDS Compare, SequenceTheorems, TLAPS

\* The workspace opens away from both tabs.
LEMMA InitDrops == Init => DropsArePicked
BY DEF Init, DropsArePicked

\* A fresh list never selects a drop, and a selection never outlives its list.
LEMMA RelistDrops == \A listed : Relist(listed) => selected' \cap Drops = {}
BY DEF Relist, Default

\* No pick, timer, answer or apply puts a drop into the selection.
LEMMA NextDrops == DropsArePicked /\ [Next]_vars => DropsArePicked'
<1> SUFFICES ASSUME DropsArePicked, [Next]_vars
             PROVE  DropsArePicked'
  OBVIOUS
<1> USE DEF DropsArePicked, panel
<1>1. ASSUME NEW s, NEW t, Picked(s, t)
      PROVE  DropsArePicked'
  BY <1>1, RelistDrops DEF Picked, TablesEffect, SchemaEffect, Compute
<1>2. ASSUME NEW t, NEW s, NEW g, Mount(t, s, g)
      PROVE  DropsArePicked'
  BY <1>2 DEF Mount
<1>3. ASSUME NEW c \in Conns, PickSource(c) \/ PickTarget(c)
      PROVE  DropsArePicked'
  BY <1>1, <1>3 DEF PickSource, PickTarget
<1>4. CASE Swap
  BY <1>1, <1>4 DEF Swap
<1>5. CASE Leave
  BY <1>2, <1>5 DEF Leave
<1>6. CASE CloseWindow
  BY <1>6 DEF CloseWindow
<1>7. CASE Clear
  BY <1>7 DEF Clear
<1>8. CASE TimerFires
  BY <1>8, RelistDrops DEF TimerFires
<1>9. ASSUME NEW t \in Tabs, ChangeTab(t) \/ \E s, g \in Conns \cup {None} : Open(t, s, g)
      PROVE  DropsArePicked'
  BY <1>2, <1>9 DEF ChangeTab, Open
<1>10. ASSUME NEW l \in loads, NEW ok \in BOOLEAN, Answer(l, ok)
       PROVE  DropsArePicked'
  BY <1>10, RelistDrops DEF Answer
<1>11. ASSUME NEW a \in asks, NEW ok \in BOOLEAN, SchemaArrives(a, ok)
       PROVE  DropsArePicked'
  BY <1>11 DEF SchemaArrives, Compute
<1>12. ASSUME NEW d \in Sides, ChangeOption(d)
       PROVE  DropsArePicked'
  BY <1>12 DEF ChangeOption, Compute
<1>13. ASSUME NEW r \in Changes, Toggle(r)
       PROVE  DropsArePicked'
  BY <1>13 DEF Toggle
<1>14. ASSUME NEW rows \in SUBSET Changes \ {{}}, NEW on \in BOOLEAN, SelectShown(rows, on)
       PROVE  DropsArePicked'
  BY <1>14 DEF SelectShown
<1>15. CASE ApplySelected \/ ApplyAll
  BY <1>15 DEF ApplySelected, ApplyAll, Send
<1>16. ASSUME NEW i \in DOMAIN batches, NEW done \in SUBSET Changes, NEW c \in BOOLEAN,
              Finish(i, done, c)
       PROVE  DropsArePicked'
  BY <1>16 DEF Finish
<1>17. ASSUME NEW k \in DOMAIN log, Remove(k)
       PROVE  DropsArePicked'
  BY <1>17 DEF Remove
<1>18. CASE UNCHANGED vars
  BY <1>18 DEF vars
<1> QED
  BY <1>3, <1>4, <1>5, <1>6, <1>7, <1>8, <1>9, <1>10, <1>11, <1>12, <1>13, <1>14,
     <1>15, <1>16, <1>17, <1>18
     DEF Next

\* However the pair, the timer and the answers came and went, a drop that is
\* applied was selected by the user on the list that is on the screen.
THEOREM DropsStayPicked == Spec => []DropsArePicked
BY InitDrops, NextDrops, PTL DEF Spec
-----------------------------------------------------------------------------
\* A cancelled load stays a load and shows nothing any more.
LEMMA CancelledAreDead ==
  ASSUME loads \subseteq Loads
  PROVE  Cancelled \subseteq Loads /\ \A l \in Cancelled : ~l.live
<1>1. ASSUME NEW l \in loads
      PROVE  [l EXCEPT !.live = FALSE] \in Loads /\ ~[l EXCEPT !.live = FALSE].live
  BY DEF Loads
<1> QED
  BY <1>1 DEF Cancelled

\* The batches c say of the servers what the batches b do.
SameWork(b, c) ==
  /\ c.tab = b.tab /\ c.conn = b.conn /\ c.of = b.of /\ c.rows = b.rows
  /\ c.hasty = b.hasty /\ c.done = b.done /\ c.committed = b.committed
  /\ c.status = "answered" <=> b.status = "answered"
Alike(b, c) == DOMAIN c = DOMAIN b /\ \A i \in DOMAIN b : SameWork(b[i], c[i])

\* A new list, or an unmount, changes of the batches only whose list they are.
LEMMA OutlivedAlike ==
  ASSUME batches \in Seq(Batches), NEW v \in {"other", "gone"}, batches' = Outlived(v)
  PROVE  /\ batches' \in Seq(Batches) /\ Alike(batches, batches')
         /\ Waiting' = IF v = "gone" THEN {} ELSE Waiting
         /\ \A i \in Waiting' : batches'[i].view = v
<1>1. ASSUME NEW b \in Batches
      PROVE  /\ [b EXCEPT !.view = v] \in Batches
             /\ [b EXCEPT !.view = v].view = v
             /\ [b EXCEPT !.view = v].status = b.status
             /\ SameWork(b, [b EXCEPT !.view = v])
  BY DEF Batches, SameWork
<1>2. \A i \in DOMAIN batches : batches[i] \in Batches
  OBVIOUS
<1>3. DOMAIN batches' = DOMAIN batches
  BY DEF Outlived
<1>4. ASSUME NEW i \in DOMAIN batches
      PROVE  /\ batches'[i] \in Batches
             /\ batches'[i].status = batches[i].status
             /\ batches'[i].view = IF batches[i].status = "sent" /\ batches[i].view # "gone"
                                   THEN v ELSE batches[i].view
             /\ SameWork(batches[i], batches'[i])
  <2>1. batches'[i] = IF batches[i].status = "sent" /\ batches[i].view # "gone"
                      THEN [batches[i] EXCEPT !.view = v] ELSE batches[i]
    BY DEF Outlived
  <2> QED
    BY <1>1, <1>2, <2>1 DEF SameWork
<1>5. batches' \in Seq(Batches)
  <2>1. Len(batches) \in Nat /\ DOMAIN batches = 1..Len(batches)
    OBVIOUS
  <2>2. batches' \in [1..Len(batches) -> Batches]
    BY <1>4, <2>1 DEF Outlived
  <2> QED
    BY <2>1, <2>2, SeqDef
<1> QED
  BY <1>3, <1>4, <1>5 DEF Waiting, Alike

\* A fresh list: what it selects, and whose batches are under way.
LEMMA RelistTypes ==
  ASSUME TypeOK, NEW listed \in BOOLEAN, Relist(listed)
  PROVE  /\ selected' \subseteq Changes /\ marks' = {} /\ ticked' = {} /\ stained' = FALSE
         /\ batches' \in Seq(Batches) /\ DOMAIN batches' = DOMAIN batches
BY OutlivedAlike DEF Relist, Default, TypeOK, Alike

\* The Tables tab reads rows again: the panel stays a panel.
LEMMA ComputeTypes ==
  ASSUME TypeOK, NEW s \in Conns \cup {None}, NEW t \in Conns \cup {None},
         NEW h \in [Sides -> Conns \cup {None}], Compute(s, t, h)
  PROVE  /\ load' \in Pairs /\ loads' \subseteq Loads
         /\ marks' = {} /\ stained' = FALSE
         /\ batches' \in Seq(Batches) /\ DOMAIN batches' = DOMAIN batches
         /\ UNCHANGED <<timer, selected, ticked>>
<1>1. load' \in Pairs
  BY DEF Compute, Loading, Idle, Shows, Pairs
<1>2. Ready(s, t, h) =>
        [src |-> s, tgt |-> t, meta |-> h["source"], live |-> TRUE] \in Loads
  BY DEF Ready, Loads, Sides
<1>3. loads' \subseteq Loads
  BY <1>2, CancelledAreDead DEF Compute, TypeOK
<1> QED
  BY <1>1, <1>3, OutlivedAlike DEF Compute, TypeOK, Alike

\* What is asked for is a side and a connection.
LEMMA AskedTypes ==
  \A s, t \in Conns \cup {None} : Asked(s, t) \subseteq [side : Sides, conn : Conns]
BY DEF Asked, Sides

\* Another pair of connections.
LEMMA PickedTypes ==
  ASSUME TypeOK, NEW s \in Conns \cup {None}, NEW t \in Conns \cup {None}, Picked(s, t),
         gestures' \in Nat
  PROVE  TypeOK'
<1>1. CASE tab = "tables"
  <2>1. TablesEffect(s, t)
    BY <1>1 DEF Picked
  <2>2. asks' \subseteq [side : Sides, conn : Conns]
    <3>1. Asked(IF s = source THEN None ELSE s, IF t = target THEN None ELSE t)
            \subseteq [side : Sides, conn : Conns]
      BY AskedTypes
    <3> QED
      BY <2>1, <3>1 DEF TablesEffect, TypeOK
  <2> QED
    BY <2>1, <2>2, ComputeTypes DEF Picked, TablesEffect, TypeOK
<1>2. CASE tab # "tables"
  <2>1. loads' \subseteq Loads /\ timer' \in BOOLEAN /\ load' \in Pairs
    BY <1>2, CancelledAreDead
       DEF Picked, SchemaEffect, TypeOK, Comparable, Idle, Shows, Pairs
  <2>2. /\ selected' \subseteq Changes /\ marks' \subseteq Changes
        /\ ticked' \subseteq Drops /\ stained' \in BOOLEAN
        /\ batches' \in Seq(Batches) /\ DOMAIN batches' = DOMAIN batches
    BY <1>2, RelistTypes DEF Picked, TypeOK, Comparable
  <2> QED
    BY <1>2, <2>1, <2>2 DEF Picked, SchemaEffect, TypeOK
<1> QED
  BY <1>1, <1>2

\* A panel is mounted.
LEMMA MountTypes ==
  ASSUME TypeOK, NEW t \in Tabs \cup {"away"}, NEW s \in Conns \cup {None},
         NEW g \in Conns \cup {None}, Mount(t, s, g), UNCHANGED <<log, forgot>>,
         gestures' \in Nat
  PROVE  TypeOK'
<1>1. /\ loads' \subseteq Loads /\ load' \in Pairs
      /\ batches' \in Seq(Batches) /\ DOMAIN batches' = DOMAIN batches
  BY CancelledAreDead, OutlivedAlike DEF Mount, TypeOK, Idle, Shows, Pairs, Alike
<1>2. asks' \subseteq [side : Sides, conn : Conns]
  BY AskedTypes DEF Mount
<1>3. held' \in [Sides -> Conns \cup {None}] /\ dir' \in Sides /\ timer' \in BOOLEAN
  BY DEF Mount, Sides, Comparable
<1> QED
  BY <1>1, <1>2, <1>3 DEF Mount, TypeOK

\* A new entry is the first; the others move up, and the last of a full log goes.
LEMMA RecordedIsLog ==
  ASSUME log \in Seq(Entries), NEW e \in Entries
  PROVE  LET r == Recorded(e)
         IN  /\ r \in Seq(Entries)
             /\ Len(r) = IF Len(log) < MaxLog THEN Len(log) + 1 ELSE MaxLog
             /\ r[1] = e
             /\ \A k \in 2..Len(r) : k - 1 \in DOMAIN log /\ r[k] = log[k - 1]
<1> DEFINE n == IF Len(log) < MaxLog THEN Len(log) + 1 ELSE MaxLog
           whole == <<e>> \o log
<1>1. Len(log) \in Nat /\ DOMAIN log = 1..Len(log) /\ MaxLog \in Nat \ {0}
  BY CompareAssumption
<1>2. <<e>> \in Seq(Entries) /\ Len(<<e>>) = 1 /\ <<e>>[1] = e
  OBVIOUS
<1>3. /\ whole \in Seq(Entries) /\ Len(whole) = Len(log) + 1
      /\ whole[1] = e /\ \A i \in 2..(Len(log) + 1) : whole[i] = log[i - 1]
  <2>1. /\ whole \in Seq(Entries) /\ Len(whole) = Len(<<e>>) + Len(log)
        /\ \A i \in 1 .. Len(<<e>>) + Len(log) :
             whole[i] = IF i <= Len(<<e>>) THEN <<e>>[i] ELSE log[i - Len(<<e>>)]
    BY <1>2, ConcatProperties
  <2> QED
    BY <1>1, <1>2, <2>1
<1>4. n \in 1..(Len(log) + 1)
  BY <1>1
<1> HIDE DEF n, whole
<1>5. /\ SubSeq(whole, 1, n) \in Seq(Entries) /\ Len(SubSeq(whole, 1, n)) = n
      /\ \A i \in 1..n : SubSeq(whole, 1, n)[i] = whole[i]
  <2>1. \A i \in 1..n : whole[i] \in Entries
    BY <1>1, <1>3, <1>4, ElementOfSeq
  <2>2. /\ SubSeq(whole, 1, n) \in Seq(Entries)
        /\ Len(SubSeq(whole, 1, n)) = IF 1 <= n THEN n - 1 + 1 ELSE 0
        /\ \A i \in 1..(n - 1 + 1) : SubSeq(whole, 1, n)[i] = whole[1 + i - 1]
    BY <1>1, <1>4, <2>1, SubSeqProperties
  <2> QED
    BY <1>1, <1>4, <2>2
<1>6. Recorded(e) = SubSeq(whole, 1, n)
  BY DEF Recorded, n, whole
<1> QED
  BY <1>1, <1>3, <1>4, <1>5, <1>6 DEF n

\* Without its k-th entry a log has the others, in their order.
LEMMA WithoutIsLog ==
  ASSUME log \in Seq(Entries), NEW k \in DOMAIN log
  PROVE  LET r == Without(log, k)
         IN  /\ r \in Seq(Entries) /\ Len(r) = Len(log) - 1
             /\ \A i \in DOMAIN r : r[i] = IF i < k THEN log[i] ELSE log[i + 1]
<1> DEFINE a == SubSeq(log, 1, k - 1)
           b == SubSeq(log, k + 1, Len(log))
<1>1. Len(log) \in Nat /\ DOMAIN log = 1..Len(log) /\ k \in 1..Len(log)
  OBVIOUS
<1>2. \A i \in 1..Len(log) : log[i] \in Entries
  BY <1>1, ElementOfSeq
<1>3. a \in Seq(Entries) /\ Len(a) = k - 1 /\ \A i \in 1..(k - 1) : a[i] = log[i]
  <2>1. /\ a \in Seq(Entries) /\ Len(a) = IF 1 <= k - 1 THEN (k - 1) - 1 + 1 ELSE 0
        /\ \A i \in 1..((k - 1) - 1 + 1) : a[i] = log[1 + i - 1]
    BY <1>1, <1>2, SubSeqProperties
  <2> QED
    BY <1>1, <2>1
<1>4. b \in Seq(Entries) /\ Len(b) = Len(log) - k
      /\ \A i \in 1..(Len(log) - k) : b[i] = log[k + i]
  <2>1. /\ b \in Seq(Entries)
        /\ Len(b) = IF k + 1 <= Len(log) THEN Len(log) - (k + 1) + 1 ELSE 0
        /\ \A i \in 1..(Len(log) - (k + 1) + 1) : b[i] = log[(k + 1) + i - 1]
    BY <1>1, <1>2, SubSeqProperties
  <2> QED
    BY <1>1, <2>1
<1> HIDE DEF a, b
<1>5. /\ a \o b \in Seq(Entries) /\ Len(a \o b) = Len(a) + Len(b)
      /\ \A i \in 1 .. Len(a) + Len(b) : (a \o b)[i] =
           IF i <= Len(a) THEN a[i] ELSE b[i - Len(a)]
  BY <1>3, <1>4, ConcatProperties
<1>6. Without(log, k) = a \o b
  BY DEF Without, a, b
<1>7. Len(a \o b) = Len(log) - 1 /\ DOMAIN (a \o b) = 1..(Len(log) - 1)
  <2>1. (k - 1) + (Len(log) - k) = Len(log) - 1
    BY <1>1
  <2>2. Len(a \o b) = Len(log) - 1
    BY <1>3, <1>4, <1>5, <2>1
  <2> QED
    BY <1>5, <2>2, LenProperties
<1>8. ASSUME NEW i \in 1..(Len(log) - 1)
      PROVE  (a \o b)[i] = IF i < k THEN log[i] ELSE log[i + 1]
  <2>1. CASE i < k
    BY <1>1, <1>3, <1>4, <1>5, <2>1
  <2>2. CASE ~(i < k)
    <3>1. (a \o b)[i] = b[i - (k - 1)] /\ i - (k - 1) \in 1..(Len(log) - k)
      BY <1>1, <1>3, <1>4, <1>5, <2>2
    <3>2. b[i - (k - 1)] = log[k + (i - (k - 1))]
      BY <1>4, <3>1
    <3>3. k + (i - (k - 1)) = i + 1
      BY <1>1
    <3> QED
      BY <2>2, <3>1, <3>2, <3>3
  <2> QED
    BY <2>1, <2>2
<1> QED
  BY <1>5, <1>6, <1>7, <1>8

\* A batch that is sent is appended to the others.
LEMMA SendTypes ==
  ASSUME TypeOK, NEW conn \in Conns, NEW other \in Conns, NEW rows \in SUBSET Changes,
         tab \in Tabs, Send(conn, other, rows)
  PROVE  /\ batches' \in Seq(Batches)
         /\ Len(batches') = Len(batches) + 1
         /\ \A i \in DOMAIN batches : i \in DOMAIN batches' /\ batches'[i] = batches[i]
         /\ DOMAIN batches' = DOMAIN batches \cup {Len(batches) + 1}
         /\ batches'[Len(batches) + 1] =
              [tab |-> tab, conn |-> conn, other |-> other, of |-> load, rows |-> rows,
               had |-> marks, hasty |-> timer, done |-> {}, view |-> "same",
               status |-> "sent", committed |-> FALSE]
<1> DEFINE b == [tab |-> tab, conn |-> conn, other |-> other, of |-> load, rows |-> rows,
                 had |-> marks, hasty |-> timer, done |-> {}, view |-> "same",
                 status |-> "sent", committed |-> FALSE]
<1>1. b \in Batches
  BY DEF TypeOK, Batches
<1>2. batches' = Append(batches, b)
  BY DEF Send
<1> HIDE DEF b
<1>3. batches \in Seq(Batches) /\ Len(batches) \in Nat
  BY DEF TypeOK
<1>4. /\ batches' \in Seq(Batches) /\ Len(batches') = Len(batches) + 1
      /\ \A i \in 1..Len(batches) : batches'[i] = batches[i]
      /\ batches'[Len(batches) + 1] = b
  BY <1>1, <1>2, <1>3, AppendProperties
<1>5. DOMAIN batches = 1..Len(batches) /\ DOMAIN batches' = 1..(Len(batches) + 1)
  BY <1>3, <1>4, LenProperties
<1> QED
  BY <1>3, <1>4, <1>5 DEF b

\* The batches b and c were sent from the same list to the same connection.
SameList(b, c) ==
  /\ c.tab = b.tab /\ c.conn = b.conn /\ c.of = b.of /\ c.rows = b.rows
  /\ c.had = b.had /\ c.hasty = b.hasty /\ c.view = b.view

\* A batch that answers: only its own outcome changes.
LEMMA FinishTypes ==
  ASSUME TypeOK, NEW i \in DOMAIN batches, NEW done \in SUBSET Changes, NEW c \in BOOLEAN,
         Finish(i, done, c)
  PROVE  /\ batches' \in Seq(Batches) /\ DOMAIN batches' = DOMAIN batches
         /\ \A j \in DOMAIN batches \ {i} : batches'[j] = batches[j]
         /\ batches'[i] \in Batches
         /\ batches'[i].status = "answered" /\ batches'[i].done = done
         /\ batches'[i].committed = c
         /\ SameList(batches[i], batches'[i])
         /\ [batch |-> i, conn |-> batches[i].conn, other |-> batches[i].other,
             committed |-> c] \in Entries
<1>1. batches \in Seq(Batches) /\ batches[i] \in Batches /\ i \in Nat \ {0}
  BY DEF TypeOK
<1> DEFINE b == [batches[i] EXCEPT !.status = "answered", !.done = done, !.committed = c]
<1>2. /\ b \in Batches /\ b.status = "answered" /\ b.done = done /\ b.committed = c
      /\ SameList(batches[i], b)
  BY <1>1 DEF Batches, SameList
<1>3. batches' = [batches EXCEPT ![i] = b]
  BY DEF Finish
<1> HIDE DEF b
<1>4. /\ batches' \in Seq(Batches) /\ DOMAIN batches' = DOMAIN batches
      /\ batches'[i] = b /\ \A j \in DOMAIN batches \ {i} : batches'[j] = batches[j]
  BY <1>1, <1>2, <1>3
<1>5. [batch |-> i, conn |-> batches[i].conn, other |-> batches[i].other, committed |-> c]
        \in Entries
  BY <1>1 DEF Batches, Entries
<1> QED
  BY <1>2, <1>4, <1>5 DEF b

\* A window that is closed loses the batches under way.
LEMMA CloseTypes ==
  ASSUME TypeOK, CloseWindow
  PROVE  /\ batches' \in Seq(Batches) /\ Alike(batches, batches') /\ Waiting' = {}
<1>1. ASSUME NEW b \in Batches
      PROVE  Unseen(b) \in Batches /\ Unseen(b).view = "gone" /\ SameWork(b, Unseen(b))
  BY DEF Unseen, Batches, SameWork
<1>2. \A i \in DOMAIN batches : batches[i] \in Batches
  BY DEF TypeOK
<1>3. DOMAIN batches' = DOMAIN batches /\ \A i \in DOMAIN batches : batches'[i] = Unseen(batches[i])
  BY DEF CloseWindow
<1>4. ASSUME NEW i \in DOMAIN batches
      PROVE  /\ batches'[i] \in Batches /\ batches'[i].view = "gone"
             /\ SameWork(batches[i], batches'[i])
  BY <1>1, <1>2, <1>3
<1>5. batches' \in Seq(Batches)
  <2>1. Len(batches) \in Nat /\ DOMAIN batches = 1..Len(batches)
    BY DEF TypeOK
  <2>2. batches' \in [1..Len(batches) -> Batches]
    BY <1>4, <2>1 DEF CloseWindow
  <2> QED
    BY <2>1, <2>2, SeqDef
<1> QED
  BY <1>3, <1>4, <1>5 DEF Waiting, Alike
-----------------------------------------------------------------------------
\* An entry names a batch.
LEMMA EntriesNameBatches ==
  ASSUME log \in Seq(Entries)
  PROVE  Ids(log) \subseteq Nat \ {0} /\ \A k \in DOMAIN log : log[k].batch \in Nat \ {0}
<1>1. ASSUME NEW k \in DOMAIN log
      PROVE  log[k].batch \in Nat \ {0}
  <2>1. log[k] \in Entries
    OBVIOUS
  <2> QED
    BY <2>1 DEF Entries
<1> QED
  BY <1>1 DEF Ids

\* The states a panel can show are states.
LEMMA ShownArePairs == Idle \in Pairs /\ Loading \in Pairs /\ Failed \in Pairs
BY DEF Idle, Loading, Failed, Shows, Pairs

\* The connections, batches and entries that a panel handles are what they seem.
LEMMA NextTypes == TypeOK /\ ShownIsPicked /\ [Next]_vars => TypeOK'
<1> SUFFICES ASSUME TypeOK, ShownIsPicked, [Next]_vars
             PROVE  TypeOK'
  OBVIOUS
<1> USE CompareAssumption
<1>1. ASSUME NEW c \in Conns, PickSource(c) \/ PickTarget(c)
      PROVE  TypeOK'
  <2>1. gestures' \in Nat
    BY <1>1 DEF PickSource, PickTarget, Gesture, TypeOK
  <2> QED
    BY <1>1, <2>1, PickedTypes DEF PickSource, PickTarget, TypeOK
<1>2. CASE Swap
  <2>1. gestures' \in Nat
    BY <1>2 DEF Swap, Gesture, TypeOK
  <2> QED
    BY <1>2, <2>1, PickedTypes DEF Swap, TypeOK
<1>3. CASE Leave
  <2>1. gestures' \in Nat
    BY <1>3 DEF Leave, Gesture, TypeOK
  <2> QED
    BY <1>3, <2>1, MountTypes DEF Leave
<1>4. CASE CloseWindow
  <2>1. gestures' \in Nat
    <3>1. Gesture
      BY <1>4 DEF CloseWindow
    <3> QED
      BY <3>1 DEF Gesture, TypeOK
  <2>2. load' \in Pairs /\ held' \in [Sides -> Conns \cup {None}]
    BY <1>4, ShownArePairs DEF CloseWindow
  <2> QED
    BY <1>4, <2>1, <2>2, CloseTypes DEF CloseWindow, TypeOK, Sides
<1>5. CASE Clear
  <2>1. gestures' \in Nat
    BY <1>5 DEF Clear, Gesture, TypeOK
  <2>2. log' \in Seq(Entries) /\ forgot' \subseteq Nat \ {0}
    <3>1. log' = <<>> /\ forgot' = forgot \cup Ids(log)
      BY <1>5 DEF Clear
    <3>2. log \in Seq(Entries) /\ forgot \subseteq Nat \ {0}
      BY DEF TypeOK
    <3>3. Ids(log) \subseteq Nat \ {0}
      BY <3>2, EntriesNameBatches
    <3> QED
      BY <3>1, <3>2, <3>3, EmptySeq
  <2> QED
    BY <1>5, <2>1, <2>2 DEF Clear, TypeOK, panel
<1>6. CASE TimerFires
  <2>1. timer /\ load' = Loading /\ Relist(FALSE)
    BY <1>6 DEF TimerFires
  <2>2. [src |-> source, tgt |-> target, meta |-> source, live |-> TRUE] \in Loads
    BY <2>1 DEF TypeOK, Loads, ShownIsPicked, Comparable
  <2> QED
    BY <1>6, <2>1, <2>2, RelistTypes, ShownArePairs DEF TimerFires, TypeOK
<1>7. ASSUME NEW t \in Tabs, ChangeTab(t) \/ \E s, g \in Conns \cup {None} : Open(t, s, g)
      PROVE  TypeOK'
  <2>1. gestures' \in Nat
    BY <1>7 DEF ChangeTab, Open, Gesture, TypeOK
  <2>2. source \in Conns \cup {None} /\ target \in Conns \cup {None}
    BY DEF TypeOK
  <2> QED
    BY <1>7, <2>1, <2>2, MountTypes DEF ChangeTab, Open
<1>8. ASSUME NEW l \in loads, NEW ok \in BOOLEAN, Answer(l, ok)
      PROVE  TypeOK'
  <2>1. load' \in Pairs
    BY <1>8 DEF Answer, TypeOK, Loads, Pairs, Shows, Failed
  <2>2. /\ selected' \subseteq Changes /\ marks' \subseteq Changes
        /\ ticked' \subseteq Drops /\ stained' \in BOOLEAN
        /\ batches' \in Seq(Batches)
    BY <1>8, RelistTypes DEF Answer, TypeOK
  <2> QED
    BY <1>8, <2>1, <2>2 DEF Answer, TypeOK
<1>9. ASSUME NEW a \in asks, NEW ok \in BOOLEAN, SchemaArrives(a, ok)
      PROVE  TypeOK'
  <2> DEFINE h == [held EXCEPT ![a.side] = IF ok THEN a.conn ELSE None]
  <2>1. h \in [Sides -> Conns \cup {None}]
    BY DEF TypeOK
  <2>2. /\ load' \in Pairs /\ loads' \subseteq Loads /\ marks' \subseteq Changes
        /\ stained' \in BOOLEAN /\ batches' \in Seq(Batches)
        /\ UNCHANGED <<timer, selected, ticked>>
    BY <1>9, <2>1, ComputeTypes DEF SchemaArrives, TypeOK
  <2> QED
    BY <1>9, <2>1, <2>2 DEF SchemaArrives, TypeOK
<1>10. ASSUME NEW d \in Sides, ChangeOption(d)
       PROVE  TypeOK'
  <2>1. gestures' \in Nat
    BY <1>10 DEF ChangeOption, Gesture, TypeOK
  <2>2. Compute(source, target, held)
    BY <1>10 DEF ChangeOption
  <2> QED
    BY <1>10, <2>1, <2>2, ComputeTypes DEF ChangeOption, TypeOK
<1>11. ASSUME NEW r \in Changes, Toggle(r)
       PROVE  TypeOK'
  BY <1>11 DEF Toggle, TypeOK, Gesture
<1>12. ASSUME NEW rows \in SUBSET Changes \ {{}}, NEW on \in BOOLEAN, SelectShown(rows, on)
       PROVE  TypeOK'
  BY <1>12 DEF SelectShown, TypeOK, Gesture
<1>13. CASE ApplySelected
  <2>1. /\ source \in Conns /\ target \in Conns /\ tab \in Tabs
        /\ Send(source, target, selected) /\ selected \in SUBSET Changes
    BY <1>13 DEF ApplySelected, Listed, Comparable, TypeOK, Tabs
  <2>2. gestures' \in Nat
    BY <1>13 DEF ApplySelected, Gesture, TypeOK
  <2> QED
    BY <1>13, <2>1, <2>2, SendTypes DEF Send, TypeOK
<1>14. CASE ApplyAll
  <2>1. /\ WriteSide \in Conns /\ (IF dir = "source" THEN target ELSE source) \in Conns
        /\ tab \in Tabs /\ Send(WriteSide, IF dir = "source" THEN target ELSE source, Changes)
    BY <1>14 DEF ApplyAll, Ready, WriteSide, TypeOK, Tabs
  <2>2. gestures' \in Nat
    BY <1>14 DEF ApplyAll, Gesture, TypeOK
  <2> QED
    BY <1>14, <2>1, <2>2, SendTypes DEF Send, TypeOK
<1>15. ASSUME NEW i \in DOMAIN batches, NEW done \in SUBSET Changes, NEW c \in BOOLEAN,
              Finish(i, done, c)
       PROVE  TypeOK'
  <2> DEFINE e == [batch |-> i, conn |-> batches[i].conn, other |-> batches[i].other,
                   committed |-> c]
  <2>1. batches' \in Seq(Batches) /\ e \in Entries /\ batches[i] \in Batches
    <3>1. batches \in Seq(Batches) /\ DOMAIN batches = 1..Len(batches)
      BY DEF TypeOK
    <3>2. batches[i] \in Batches
      BY <3>1, ElementOfSeq
    <3> HIDE DEF e
    <3>3. batches' \in Seq(Batches) /\ [batch |-> i, conn |-> batches[i].conn,
             other |-> batches[i].other, committed |-> c] \in Entries
      BY <1>15, FinishTypes
    <3> QED
      BY <3>2, <3>3 DEF e
  <2>2. log' \in Seq(Entries)
    BY <1>15, <2>1, RecordedIsLog DEF Finish, TypeOK
  <2>3. Ids(log) \subseteq Nat \ {0}
    BY EntriesNameBatches DEF TypeOK
  <2>4. marks' \subseteq Changes /\ applying' \in BOOLEAN /\ stained' \in BOOLEAN
    BY <1>15, <2>1 DEF Finish, TypeOK, Batches
  <2> QED
    BY <1>15, <2>1, <2>2, <2>3, <2>4 DEF Finish, TypeOK
<1>16. ASSUME NEW k \in DOMAIN log, Remove(k)
       PROVE  TypeOK'
  <2>1. log' \in Seq(Entries) /\ log[k].batch \in Nat \ {0} /\ gestures' \in Nat
    BY <1>16, WithoutIsLog, EntriesNameBatches DEF Remove, TypeOK, Gesture
  <2> QED
    BY <1>16, <2>1 DEF Remove, TypeOK, panel
<1>17. CASE UNCHANGED vars
  BY <1>17 DEF vars, panel, TypeOK
<1> QED
  BY <1>1, <1>2, <1>3, <1>4, <1>5, <1>6, <1>7, <1>8, <1>9, <1>10, <1>11, <1>12, <1>13,
     <1>14, <1>15, <1>16, <1>17
     DEF Next
-----------------------------------------------------------------------------
\* What the invariant says of batches and marks.
BatchesInv == BatchFitsItsSide /\ WaitsForItsBatch /\ OneAtATime /\ MarksAreTrue /\ SameListStays

\* What it says of loads.
LoadsInv == ShownIsPicked /\ OneLiveLoad

\* A panel that does not wait has no batch under way.
LEMMA NobodyWaits == WaitsForItsBatch /\ OneAtATime => (applying <=> Waiting # {})
<1>1. ASSUME OneAtATime, NEW i \in Waiting
      PROVE  Waiting = {i} /\ i \in DOMAIN batches
  BY <1>1 DEF OneAtATime, Waiting
<1> QED
  BY <1>1 DEF WaitsForItsBatch

\* A fresh list without marks starts in order, whatever is under way.
LEMMA FreshListIsInOrder ==
  ASSUME TypeOK, BatchesInv, NEW v \in {"other", "gone"}, batches' = Outlived(v),
         v = "other" => applying' = applying, v = "gone" => ~applying', marks' = {}
  PROVE  BatchesInv'
<1>1. /\ Alike(batches, batches') /\ Waiting' = IF v = "gone" THEN {} ELSE Waiting
      /\ \A i \in Waiting' : batches'[i].view = v
  BY OutlivedAlike DEF TypeOK
<1>2. BatchFitsItsSide'
  BY <1>1 DEF BatchesInv, BatchFitsItsSide, Alike, SameWork
<1>3. WaitsForItsBatch' /\ OneAtATime'
  <2>1. CASE v = "gone"
    BY <1>1, <2>1 DEF WaitsForItsBatch, OneAtATime
  <2>2. CASE v = "other"
    <3>1. Waiting' = Waiting /\ DOMAIN batches' = DOMAIN batches /\ applying' = applying
      BY <1>1, <2>2 DEF Alike
    <3> QED
      BY <3>1 DEF BatchesInv, WaitsForItsBatch, OneAtATime
  <2> QED
    BY <2>1, <2>2
<1>4. SameListStays'
  BY <1>1 DEF BatchesInv, SameListStays, Alike, SameWork
<1>5. MarksAreTrue'
  BY DEF MarksAreTrue
<1> QED
  BY <1>2, <1>3, <1>4, <1>5 DEF BatchesInv

\* A step that leaves batches and marks alone, on a list or before there is one.
LEMMA BatchesStay ==
  ASSUME BatchesInv, UNCHANGED <<batches, marks, applying, stained, tab>>,
         load' = load \/ load.kind # "ok"
  PROVE  BatchesInv'
<1>1. Waiting' = Waiting
  BY DEF Waiting
<1>2. BatchFitsItsSide' /\ WaitsForItsBatch' /\ OneAtATime'
  BY <1>1 DEF BatchesInv, BatchFitsItsSide, WaitsForItsBatch, OneAtATime
<1>3. \A i \in DOMAIN batches : load' = load \/ batches[i].of # load
  BY DEF BatchesInv, BatchFitsItsSide
<1>4. SameListStays'
  BY <1>1, <1>3 DEF BatchesInv, SameListStays, Waiting
<1>5. MarksAreTrue'
  BY <1>3 DEF BatchesInv, MarksAreTrue
<1> QED
  BY <1>2, <1>4, <1>5 DEF BatchesInv

\* A batch that is sent from the list on the screen fits its side.
LEMMA SentIsInOrder ==
  ASSUME TypeOK, ShownIsPicked, BatchesInv, NEW conn \in Conns, NEW other \in Conns,
         NEW rows \in SUBSET Changes, Send(conn, other, rows), ~applying, tab \in Tabs,
         load.kind = "ok", tab = "schema" => conn = source,
         conn \in {source, target}, tab = "tables" => rows = Changes
  PROVE  BatchesInv'
<1> DEFINE n == Len(batches) + 1
<1>1. /\ \A i \in DOMAIN batches : i \in DOMAIN batches' /\ batches'[i] = batches[i]
      /\ DOMAIN batches' = DOMAIN batches \cup {n}
      /\ batches'[n] = [tab |-> tab, conn |-> conn, other |-> other, of |-> load,
                        rows |-> rows, had |-> marks, hasty |-> timer, done |-> {},
                        view |-> "same", status |-> "sent", committed |-> FALSE]
      /\ n \notin DOMAIN batches
  <2>1. n \notin DOMAIN batches
    BY DEF TypeOK
  <2> QED
    BY <2>1, SendTypes
<1> HIDE DEF n
<1>2. Waiting = {}
  BY NobodyWaits DEF BatchesInv
<1>3. Waiting' = {n}
  BY <1>1, <1>2 DEF Waiting
<1>4. /\ applying' /\ UNCHANGED <<load, tab, marks, stained, timer>>
  BY DEF Send
<1>5. timer \/ (load.src = source /\ load.tgt = target)
  BY DEF ShownIsPicked
<1>6. BatchFitsItsSide'
  BY <1>1, <1>5 DEF BatchesInv, BatchFitsItsSide
<1>7. WaitsForItsBatch' /\ OneAtATime'
  BY <1>1, <1>3, <1>4 DEF WaitsForItsBatch, OneAtATime
<1>8. SameListStays'
  BY <1>1, <1>3, <1>4 DEF BatchesInv, SameListStays
<1>9. MarksAreTrue'
  BY <1>1, <1>4 DEF BatchesInv, MarksAreTrue
<1> QED
  BY <1>6, <1>7, <1>8, <1>9 DEF BatchesInv

\* The answer of a batch marks what it did, on the list it was made of.
LEMMA FinishedIsInOrder ==
  ASSUME TypeOK, BatchesInv, NEW i \in DOMAIN batches, NEW done \in SUBSET Changes,
         NEW c \in BOOLEAN, Finish(i, done, c)
  PROVE  BatchesInv'
<1>1. /\ DOMAIN batches' = DOMAIN batches
      /\ \A j \in DOMAIN batches \ {i} : batches'[j] = batches[j]
      /\ batches'[i].status = "answered" /\ batches'[i].done = done
      /\ SameList(batches[i], batches'[i])
  BY FinishTypes
<1>2. batches[i].status = "sent" /\ UNCHANGED <<load, tab>>
  BY DEF Finish
<1>3. c => done = batches[i].rows
  BY DEF Finish
<1>4. Waiting' = Waiting \ {i}
  BY <1>1 DEF Waiting
<1>5. BatchFitsItsSide'
  BY <1>1 DEF BatchesInv, BatchFitsItsSide, SameList
<1>6. OneAtATime'
  BY <1>4 DEF BatchesInv, OneAtATime
<1>7. ASSUME NEW r, \E j \in DOMAIN batches : batches[j].status = "answered"
                      /\ batches[j].of = load /\ r \in batches[j].done
      PROVE  \E j \in DOMAIN batches' : batches'[j].status = "answered"
                      /\ batches'[j].of = load' /\ r \in batches'[j].done
  BY <1>1, <1>2, <1>7 DEF Finish
<1>8. CASE batches[i].view = "gone"
  <2>1. Waiting' = Waiting /\ UNCHANGED <<marks, applying, stained, load, tab>>
    BY <1>4, <1>8 DEF Waiting, Finish
  <2>2. WaitsForItsBatch'
    BY <1>1, <2>1 DEF BatchesInv, WaitsForItsBatch
  <2>3. SameListStays'
    <3>1. i \notin Waiting /\ \A j \in Waiting : j \in DOMAIN batches /\ batches'[j] = batches[j]
      BY <1>1, <1>8 DEF Waiting
    <3>2. \A j \in DOMAIN batches : /\ batches'[j].tab = batches[j].tab
                                    /\ batches'[j].rows = batches[j].rows
      BY <1>1 DEF SameList
    <3> QED
      BY <1>1, <2>1, <3>1, <3>2 DEF BatchesInv, SameListStays
  <2>4. MarksAreTrue'
    BY <1>7, <2>1 DEF BatchesInv, MarksAreTrue
  <2> QED
    BY <1>5, <1>6, <2>2, <2>3, <2>4 DEF BatchesInv
<1>9. CASE batches[i].view # "gone"
  <2>1. Waiting = {i}
    <3>1. i \in Waiting
      <4>1. i \in DOMAIN batches /\ batches[i].status = "sent" /\ batches[i].view # "gone"
        BY <1>2, <1>9
      <4> QED
        BY <4>1 DEF Waiting
    <3> QED
      BY <3>1 DEF BatchesInv, OneAtATime
  <2>2. Waiting' = {} /\ ~applying'
    BY <1>4, <1>9, <2>1 DEF Finish
  <2>3. WaitsForItsBatch' /\ SameListStays'
    BY <1>1, <2>2 DEF BatchesInv, WaitsForItsBatch, SameListStays, SameList
  <2>4. CASE stained'
    BY <1>5, <1>6, <2>3, <2>4 DEF BatchesInv, MarksAreTrue
  <2>5. CASE ~stained'
    <3>1. batches[i].view = "same" /\ ~stained
      <4>1. batches[i] \in Batches
        BY DEF TypeOK
      <4> QED
        BY <1>9, <2>5, <4>1 DEF Finish, Batches
    <3>2. batches[i].of = load /\ batches[i].tab = tab /\ batches[i].had = marks
          /\ (tab = "tables" => batches[i].rows = Changes)
      BY <2>1, <3>1 DEF BatchesInv, SameListStays
    <3>3. \A r \in done : \E j \in DOMAIN batches' : batches'[j].status = "answered"
                      /\ batches'[j].of = load' /\ r \in batches'[j].done
      BY <1>1, <3>2 DEF SameList, Finish
    <3>4. \A r \in marks : \E j \in DOMAIN batches' : batches'[j].status = "answered"
                      /\ batches'[j].of = load' /\ r \in batches'[j].done
      BY <1>7, <3>1 DEF BatchesInv, MarksAreTrue
    <3>5. marks' \subseteq marks \cup done
      <4>1. marks' = IF batches[i].tab = "schema" THEN batches[i].had \cup done
                     ELSE IF c THEN Changes ELSE marks
        BY <1>9 DEF Finish
      <4>2. batches[i].tab \in Tabs
        <5>1. batches[i] \in Batches
          BY DEF TypeOK
        <5> QED
          BY <5>1 DEF Batches
      <4> QED
        BY <1>3, <3>2, <4>1, <4>2 DEF Tabs
    <3> QED
      BY <1>5, <1>6, <2>3, <3>3, <3>4, <3>5 DEF BatchesInv, MarksAreTrue
  <2> QED
    BY <2>4, <2>5
<1> QED
  BY <1>8, <1>9
-----------------------------------------------------------------------------
\* Of the loads, only those of the newest pair may still be shown.
LEMMA NextLoads == TypeOK /\ LoadsInv /\ [Next]_vars => LoadsInv'
<1> SUFFICES ASSUME TypeOK, LoadsInv, [Next]_vars
             PROVE  LoadsInv'
  OBVIOUS
<1> USE DEF LoadsInv
<1>0. Cancelled \subseteq Loads /\ \A l \in Cancelled : ~l.live
  BY CancelledAreDead DEF TypeOK
<1>1. ASSUME NEW s, NEW t, NEW h, Compute(s, t, h), s = source', t = target',
             tab' = "tables", tab = "tables"
      PROVE  LoadsInv'
  <2>1. load'.kind # "ok" /\ ~timer'
    BY <1>1 DEF Compute, Loading, Idle, Shows, ShownIsPicked
  <2>2. \A l \in loads' : l.live =>
          /\ l = [src |-> s, tgt |-> t, meta |-> h["source"], live |-> TRUE]
          /\ load'.kind = "loading"
    BY <1>0, <1>1 DEF Compute, Loading, Shows
  <2>3. \A l \in loads' : l.live =>
          l.src = source' /\ l.tgt = target' /\ load'.kind = "loading"
    BY <1>1, <2>2
  <2>4. \A l, m \in loads' : l.live /\ m.live => l = m
    BY <2>2
  <2> QED
    BY <1>1, <2>1, <2>3, <2>4 DEF ShownIsPicked, OneLiveLoad
<1>2. ASSUME NEW s, NEW t, Picked(s, t), tab # "away", s # source \/ t # target
      PROVE  LoadsInv'
  <2>1. CASE tab = "tables"
    BY <1>1, <1>2, <2>1 DEF Picked, TablesEffect
  <2>2. CASE tab # "tables"
    <3>1. /\ tab' = tab /\ timer' = Comparable(s, t) /\ source' = s /\ target' = t
          /\ loads' = Cancelled /\ load' = IF Comparable(s, t) THEN load ELSE Idle
          /\ asks' = asks
      BY <1>2, <2>2 DEF Picked, SchemaEffect
    <3>2. tab = "schema"
      BY <1>2, <2>2 DEF TypeOK, Tabs
    <3>3. load'.kind = "ok" => timer'
      BY <3>1 DEF Idle, Shows
    <3>4. Comparable(source', target') = Comparable(s, t)
      BY <3>1 DEF Comparable
    <3> QED
      BY <1>0, <1>2, <3>1, <3>2, <3>3, <3>4 DEF ShownIsPicked, OneLiveLoad
  <2> QED
    BY <2>1, <2>2
<1>3. ASSUME NEW t, NEW s, NEW g, Mount(t, s, g)
      PROVE  LoadsInv'
  BY <1>0, <1>3 DEF Mount, ShownIsPicked, OneLiveLoad, Idle, Shows, Comparable
<1>4. ASSUME UNCHANGED <<tab, source, target, timer, load, loads>>, asks' \subseteq asks
      PROVE  LoadsInv'
  BY <1>4 DEF ShownIsPicked, OneLiveLoad, Comparable
<1>5. ASSUME NEW c \in Conns, PickSource(c) \/ PickTarget(c)
      PROVE  LoadsInv'
  BY <1>2, <1>5 DEF PickSource, PickTarget
<1>6. CASE Swap
  BY <1>2, <1>6 DEF Swap
<1>7. CASE Leave
  BY <1>3, <1>7 DEF Leave
<1>8. CASE CloseWindow
  BY <1>8 DEF CloseWindow, ShownIsPicked, OneLiveLoad, Idle, Shows, Comparable
<1>9. CASE Clear
  BY <1>4, <1>9 DEF Clear, panel
<1>10. CASE TimerFires
  <2>1. /\ timer /\ ~timer' /\ load' = Loading /\ UNCHANGED <<tab, source, target>>
        /\ loads' = loads \cup
             {[src |-> source, tgt |-> target, meta |-> source, live |-> TRUE]}
    BY <1>10 DEF TimerFires
  <2>2. load'.kind = "loading"
    BY <2>1 DEF Loading, Shows
  <2>3. \A l \in loads' : l.live =>
          l = [src |-> source, tgt |-> target, meta |-> source, live |-> TRUE]
    BY <2>1 DEF OneLiveLoad
  <2>4. \A l \in loads' : l.live => l.src = source' /\ l.tgt = target'
    BY <2>1, <2>3
  <2>5. tab' = "schema" /\ asks' = asks
    BY <1>10, <2>1 DEF ShownIsPicked, TimerFires
  <2>6. \A l, m \in loads' : l.live /\ m.live => l = m
    BY <2>3
  <2> QED
    BY <2>1, <2>2, <2>4, <2>5, <2>6 DEF ShownIsPicked, OneLiveLoad
<1>11. ASSUME NEW t \in Tabs, ChangeTab(t) \/ \E s, g \in Conns \cup {None} : Open(t, s, g)
       PROVE  LoadsInv'
  BY <1>3, <1>11 DEF ChangeTab, Open
<1>12. ASSUME NEW l \in loads, NEW ok \in BOOLEAN, Answer(l, ok)
       PROVE  LoadsInv'
  <2>1. loads' = loads \ {l} /\ UNCHANGED <<tab, source, target, timer, asks>>
    BY <1>12 DEF Answer
  <2>2. CASE ~l.live
    BY <1>12, <2>1, <2>2 DEF Answer, ShownIsPicked, OneLiveLoad, Comparable
  <2>3. CASE l.live
    <3>1. \A m \in loads' : ~m.live
      BY <2>1, <2>3 DEF OneLiveLoad
    <3>2. /\ l.src = source /\ l.tgt = target /\ load.kind = "loading"
          /\ load' = IF ok THEN Shows("ok", l.src, l.tgt, l.meta) ELSE Failed
      BY <1>12, <2>3 DEF Answer, ShownIsPicked
    <3>3. load'.kind = "ok" => load'.src = source /\ load'.tgt = target
      BY <3>2 DEF Shows, Failed
    <3>4. tab # "away"
      BY <2>3 DEF OneLiveLoad
    <3> QED
      BY <2>1, <3>1, <3>3, <3>4 DEF ShownIsPicked, OneLiveLoad, Comparable
  <2> QED
    BY <2>2, <2>3
<1>13. ASSUME NEW a \in asks, NEW ok \in BOOLEAN, SchemaArrives(a, ok)
       PROVE  LoadsInv'
  <2> DEFINE h == [held EXCEPT ![a.side] = IF ok THEN a.conn ELSE None]
  <2>1. tab = "tables" /\ UNCHANGED <<tab, source, target>> /\ asks' \subseteq asks
    BY <1>13 DEF SchemaArrives, OneLiveLoad
  <2>2. Compute(source, target, h) \/ UNCHANGED <<load, loads, timer>>
    BY <1>13 DEF SchemaArrives
  <2> HIDE DEF h
  <2> QED
    BY <1>1, <1>4, <2>1, <2>2
<1>14. ASSUME NEW d \in Sides, ChangeOption(d)
       PROVE  LoadsInv'
  BY <1>1, <1>14 DEF ChangeOption
<1>15. ASSUME NEW r \in Changes, Toggle(r)
       PROVE  LoadsInv'
  BY <1>4, <1>15 DEF Toggle
<1>16. ASSUME NEW rows \in SUBSET Changes \ {{}}, NEW on \in BOOLEAN, SelectShown(rows, on)
       PROVE  LoadsInv'
  BY <1>4, <1>16 DEF SelectShown
<1>17. CASE ApplySelected \/ ApplyAll
  BY <1>4, <1>17 DEF ApplySelected, ApplyAll, Send
<1>18. ASSUME NEW i \in DOMAIN batches, NEW done \in SUBSET Changes, NEW c \in BOOLEAN,
              Finish(i, done, c)
       PROVE  LoadsInv'
  BY <1>4, <1>18 DEF Finish
<1>19. ASSUME NEW k \in DOMAIN log, Remove(k)
       PROVE  LoadsInv'
  BY <1>4, <1>19 DEF Remove, panel
<1>20. CASE UNCHANGED vars
  BY <1>4, <1>20 DEF vars, panel
<1> QED
  BY <1>5, <1>6, <1>7, <1>8, <1>9, <1>10, <1>11, <1>12, <1>13, <1>14, <1>15, <1>16,
     <1>17, <1>18, <1>19, <1>20
     DEF Next
-----------------------------------------------------------------------------
\* Every batch stays with its list, and every mark with its batch.
LEMMA NextBatches == TypeOK /\ LoadsInv /\ BatchesInv /\ [Next]_vars => BatchesInv'
<1> SUFFICES ASSUME TypeOK, LoadsInv, BatchesInv, [Next]_vars
             PROVE  BatchesInv'
  OBVIOUS
<1>1. ASSUME NEW v \in {"other", "gone"}, batches' = Outlived(v), marks' = {},
             v = "other" => applying' = applying, v = "gone" => ~applying'
      PROVE  BatchesInv'
  BY <1>1, FreshListIsInOrder
<1>2. ASSUME NEW listed, Relist(listed), applying' = applying
      PROVE  BatchesInv'
  BY <1>1, <1>2 DEF Relist
<1>3. ASSUME NEW s, NEW t, NEW h, Compute(s, t, h), applying' = applying
      PROVE  BatchesInv'
  BY <1>1, <1>3 DEF Compute
<1>4. ASSUME NEW s, NEW t, Picked(s, t)
      PROVE  BatchesInv'
  <2>1. CASE tab = "tables"
    BY <1>3, <1>4, <2>1 DEF Picked, TablesEffect
  <2>2. CASE tab # "tables" /\ (s # source \/ ~Comparable(s, t))
    BY <1>2, <1>4, <2>2 DEF Picked, SchemaEffect
  <2>3. CASE tab # "tables" /\ s = source /\ Comparable(s, t)
    BY <1>4, <2>3, BatchesStay DEF Picked, SchemaEffect
  <2> QED
    BY <2>1, <2>2, <2>3
<1>5. ASSUME NEW t, NEW s, NEW g, Mount(t, s, g)
      PROVE  BatchesInv'
  BY <1>1, <1>5 DEF Mount
<1>6. ASSUME UNCHANGED <<tab, load, batches, marks, applying, stained>>
      PROVE  BatchesInv'
  BY <1>6, BatchesStay
<1>7. ASSUME NEW c \in Conns, PickSource(c) \/ PickTarget(c)
      PROVE  BatchesInv'
  BY <1>4, <1>7 DEF PickSource, PickTarget
<1>8. CASE Swap
  BY <1>4, <1>8 DEF Swap
<1>9. CASE Leave
  BY <1>5, <1>9 DEF Leave
<1>10. CASE CloseWindow
  <2>1. Alike(batches, batches') /\ Waiting' = {}
    BY <1>10, CloseTypes
  <2>2. ~applying' /\ marks' = {}
    BY <1>10 DEF CloseWindow
  <2>3. BatchFitsItsSide'
    BY <2>1 DEF BatchesInv, BatchFitsItsSide, Alike, SameWork
  <2>4. WaitsForItsBatch' /\ OneAtATime' /\ MarksAreTrue'
    BY <2>1, <2>2 DEF WaitsForItsBatch, OneAtATime, MarksAreTrue
  <2>5. SameListStays'
    BY <2>1 DEF BatchesInv, SameListStays, Alike, SameWork
  <2> QED
    BY <2>3, <2>4, <2>5 DEF BatchesInv
<1>11. CASE Clear
  BY <1>6, <1>11 DEF Clear, panel
<1>12. CASE TimerFires
  BY <1>2, <1>12 DEF TimerFires
<1>13. ASSUME NEW t \in Tabs, ChangeTab(t) \/ \E s, g \in Conns \cup {None} : Open(t, s, g)
       PROVE  BatchesInv'
  BY <1>5, <1>13 DEF ChangeTab, Open
<1>14. ASSUME NEW l \in loads, NEW ok \in BOOLEAN, Answer(l, ok)
       PROVE  BatchesInv'
  <2>1. CASE l.live /\ tab = "schema"
    BY <1>2, <1>14, <2>1 DEF Answer
  <2>2. CASE l.live /\ tab # "schema"
    <3>1. load.kind # "ok"
      BY <2>2 DEF LoadsInv, ShownIsPicked
    <3> QED
      BY <1>14, <2>2, <3>1, BatchesStay DEF Answer
  <2>3. CASE ~l.live
    BY <1>6, <1>14, <2>3 DEF Answer
  <2> QED
    BY <2>1, <2>2, <2>3
<1>15. ASSUME NEW a \in asks, NEW ok \in BOOLEAN, SchemaArrives(a, ok)
       PROVE  BatchesInv'
  <2> DEFINE h == [held EXCEPT ![a.side] = IF ok THEN a.conn ELSE None]
  <2>1. /\ UNCHANGED <<tab, applying>>
        /\ Compute(source, target, h) \/ UNCHANGED <<load, batches, marks, stained>>
    BY <1>15 DEF SchemaArrives
  <2> HIDE DEF h
  <2> QED
    BY <1>3, <1>6, <2>1
<1>16. ASSUME NEW d \in Sides, ChangeOption(d)
       PROVE  BatchesInv'
  BY <1>3, <1>16 DEF ChangeOption
<1>17. ASSUME NEW r \in Changes, Toggle(r)
       PROVE  BatchesInv'
  BY <1>6, <1>17 DEF Toggle
<1>18. ASSUME NEW rows \in SUBSET Changes \ {{}}, NEW on \in BOOLEAN, SelectShown(rows, on)
       PROVE  BatchesInv'
  BY <1>6, <1>18 DEF SelectShown
<1>19. CASE ApplySelected
  <2>1. /\ source \in Conns /\ target \in Conns /\ tab = "schema" /\ load.kind = "ok"
        /\ ~applying /\ selected \in SUBSET Changes /\ Send(source, target, selected)
    BY <1>19 DEF ApplySelected, Listed, Comparable, TypeOK
  <2> QED
    BY <2>1, SentIsInOrder DEF LoadsInv, Tabs
<1>20. CASE ApplyAll
  <2> DEFINE other == IF dir = "source" THEN target ELSE source
  <2>1. /\ WriteSide \in Conns /\ other \in Conns /\ tab = "tables" /\ load.kind = "ok"
        /\ ~applying /\ Send(WriteSide, other, Changes) /\ WriteSide \in {source, target}
    BY <1>20 DEF ApplyAll, Ready, WriteSide, TypeOK
  <2> HIDE DEF other
  <2> QED
    BY <2>1, SentIsInOrder DEF LoadsInv, Tabs
<1>21. ASSUME NEW i \in DOMAIN batches, NEW done \in SUBSET Changes, NEW c \in BOOLEAN,
              Finish(i, done, c)
       PROVE  BatchesInv'
  BY <1>21, FinishedIsInOrder
<1>22. ASSUME NEW k \in DOMAIN log, Remove(k)
       PROVE  BatchesInv'
  BY <1>6, <1>22 DEF Remove, panel
<1>23. CASE UNCHANGED vars
  BY <1>6, <1>23 DEF vars, panel
<1> QED
  BY <1>7, <1>8, <1>9, <1>10, <1>11, <1>12, <1>13, <1>14, <1>15, <1>16, <1>17, <1>18,
     <1>19, <1>20, <1>21, <1>22, <1>23
     DEF Next
-----------------------------------------------------------------------------
\* A workspace that was never opened, and an empty log.
LEMMA InitIsInOrder == Init => IInv /\ LogTellsTheServer
<1> SUFFICES ASSUME Init
             PROVE  IInv /\ LogTellsTheServer
  OBVIOUS
<1> USE CompareAssumption
<1>1. TypeOK
  BY ShownArePairs, EmptySeq DEF Init, TypeOK, Sides
<1>2. ShownIsPicked /\ OneLiveLoad
  BY DEF Init, ShownIsPicked, OneLiveLoad, Idle, Shows
<1>3. DOMAIN batches = {} /\ DOMAIN log = {} /\ Len(log) = 0
  BY DEF Init
<1>4. Waiting = {}
  BY <1>3 DEF Waiting
<1>5. BatchFitsItsSide /\ WaitsForItsBatch /\ OneAtATime /\ MarksAreTrue /\ SameListStays
  BY <1>3, <1>4 DEF Init, BatchFitsItsSide, WaitsForItsBatch, OneAtATime, MarksAreTrue,
     SameListStays
<1>6. LogTellsTheServer
  BY <1>3 DEF Init, LogTellsTheServer
<1> QED
  BY <1>1, <1>2, <1>5, <1>6 DEF IInv

\* The inductive invariant of the panels, their loads and their batches.
THEOREM InvariantHolds == Spec => []IInv
<1>1. IInv /\ [Next]_vars => IInv'
  BY NextTypes, NextLoads, NextBatches DEF IInv, LoadsInv, BatchesInv
<1> QED
  BY <1>1, InitIsInOrder, PTL DEF Spec
-----------------------------------------------------------------------------
\* Batches that say the same of the servers are told by the same log.
LEMMA LogStays ==
  ASSUME LogTellsTheServer, UNCHANGED <<log, forgot>>, Alike(batches, batches')
  PROVE  LogTellsTheServer'
BY DEF LogTellsTheServer, Alike, SameWork, Ids

\* The batch that answers gets the first entry; what falls out of a full log is forgotten.
LEMMA FinishIsLogged ==
  ASSUME TypeOK, LogTellsTheServer, NEW i \in DOMAIN batches, NEW done \in SUBSET Changes,
         NEW c \in BOOLEAN, Finish(i, done, c)
  PROVE  LogTellsTheServer'
<1> DEFINE e == [batch |-> i, conn |-> batches[i].conn, other |-> batches[i].other,
                 committed |-> c]
<1>1. /\ DOMAIN batches' = DOMAIN batches
      /\ \A j \in DOMAIN batches \ {i} : batches'[j] = batches[j]
      /\ batches'[i].status = "answered" /\ batches'[i].committed = c
      /\ batches'[i].conn = batches[i].conn
  BY FinishTypes DEF SameList
<1>2. batches[i].status # "answered" /\ e \in Entries
  BY FinishTypes DEF Finish
<1>3. /\ log' = Recorded(e)
      /\ forgot' = forgot \cup (Ids(log) \ Ids(log'))
  BY DEF Finish
<1>4. e.batch = i /\ e.conn = batches[i].conn /\ e.committed = c
  OBVIOUS
<1> HIDE DEF e
<1>5. /\ log' \in Seq(Entries)
      /\ Len(log') = IF Len(log) < MaxLog THEN Len(log) + 1 ELSE MaxLog
      /\ log'[1] = e
      /\ \A k \in 2..Len(log') : k - 1 \in DOMAIN log /\ log'[k] = log[k - 1]
  BY <1>2, <1>3, RecordedIsLog DEF TypeOK
<1>6. /\ Len(log) \in Nat /\ MaxLog \in Nat \ {0} /\ Len(log) <= MaxLog
      /\ DOMAIN log = 1..Len(log) /\ DOMAIN log' = 1..Len(log')
  BY <1>5, CompareAssumption, LenProperties DEF TypeOK, LogTellsTheServer
<1>7. i \notin forgot /\ i \notin Ids(log)
  BY <1>2 DEF LogTellsTheServer
<1>8. 1 \in DOMAIN log' /\ \A k \in DOMAIN log' : k = 1 \/ k \in 2..Len(log')
  BY <1>5, <1>6
<1>9. Ids(log') \subseteq Ids(log) \cup {i} /\ i \in Ids(log')
  BY <1>4, <1>5, <1>8 DEF Ids
<1>10. Len(log') <= MaxLog
  BY <1>5, <1>6
<1>11. i \notin forgot' /\ forgot' \subseteq DOMAIN batches'
  <2>1. Ids(log) \subseteq DOMAIN batches /\ forgot \subseteq DOMAIN batches
    BY DEF LogTellsTheServer, Ids
  <2> QED
    BY <1>1, <1>3, <1>7, <2>1
<1>12. ASSUME NEW k \in DOMAIN log'
       PROVE  /\ log'[k].batch \in DOMAIN batches' \ forgot'
              /\ LET b == batches'[log'[k].batch]
                 IN  /\ b.status = "answered" /\ b.conn = log'[k].conn
                     /\ b.committed = log'[k].committed
              /\ \A j \in DOMAIN log' : log'[j].batch = log'[k].batch => j = k
  <2>1. \A j \in 2..Len(log') : log'[j].batch \in Ids(log) /\ log'[j].batch # i
    BY <1>5, <1>7 DEF Ids
  <2>2. CASE k = 1
    BY <1>1, <1>4, <1>5, <1>8, <1>11, <2>1, <2>2
  <2>3. CASE k \in 2..Len(log')
    <3>1. k - 1 \in DOMAIN log /\ log'[k] = log[k - 1]
      BY <1>5, <2>3
    <3>2. log'[k].batch \in DOMAIN batches \ forgot /\ log'[k].batch # i
      BY <2>1, <2>3, <3>1 DEF LogTellsTheServer
    <3>3. log'[k].batch \in Ids(log')
      BY DEF Ids
    <3>4. log'[k].batch \in DOMAIN batches' \ forgot'
      BY <1>1, <1>3, <3>2, <3>3
    <3>5. /\ batches'[log'[k].batch].status = "answered"
          /\ batches'[log'[k].batch].conn = log'[k].conn
          /\ batches'[log'[k].batch].committed = log'[k].committed
      BY <1>1, <3>1, <3>2 DEF LogTellsTheServer
    <3>6. ASSUME NEW j \in DOMAIN log', log'[j].batch = log'[k].batch
          PROVE  j = k
      <4>1. j \in 2..Len(log')
        BY <1>4, <1>5, <1>8, <3>2, <3>6
      <4>2. j - 1 \in DOMAIN log /\ log[j - 1].batch = log[k - 1].batch
        BY <1>5, <3>1, <3>6, <4>1
      <4>3. j - 1 = k - 1
        BY <3>1, <4>2 DEF LogTellsTheServer
      <4> QED
        BY <2>3, <4>1, <4>3
    <3> QED
      BY <3>4, <3>5, <3>6
  <2> QED
    BY <1>8, <2>2, <2>3
<1>13. ASSUME NEW j \in DOMAIN batches'
       PROVE  batches'[j].status = "answered" <=> j \in forgot' \cup Ids(log')
  <2>1. CASE j = i
    BY <1>1, <1>9, <2>1
  <2>2. CASE j # i
    <3>1. batches[j].status = "answered" <=> j \in forgot \cup Ids(log)
      BY <1>1, <2>2 DEF LogTellsTheServer
    <3> QED
      BY <1>1, <1>3, <1>9, <2>2, <3>1
  <2> QED
    BY <2>1, <2>2
<1> QED
  BY <1>10, <1>11, <1>12, <1>13 DEF LogTellsTheServer

\* An entry that is removed is forgotten, and no other.
LEMMA RemoveIsLogged ==
  ASSUME TypeOK, LogTellsTheServer, NEW k \in DOMAIN log, Remove(k)
  PROVE  LogTellsTheServer'
<1>1. /\ log' = Without(log, k) /\ forgot' = forgot \cup {log[k].batch} /\ batches' = batches
  BY DEF Remove
<1>2. /\ log' \in Seq(Entries) /\ Len(log') = Len(log) - 1
      /\ \A i \in DOMAIN log' : log'[i] = IF i < k THEN log[i] ELSE log[i + 1]
  BY <1>1, WithoutIsLog DEF TypeOK
<1>3. /\ DOMAIN log = 1..Len(log) /\ Len(log) \in Nat /\ DOMAIN log' = 1..(Len(log) - 1)
      /\ Len(log) <= MaxLog /\ MaxLog \in Nat
  BY <1>2, LenProperties, CompareAssumption DEF TypeOK, LogTellsTheServer
<1> DEFINE from(i) == IF i < k THEN i ELSE i + 1
<1>4. ASSUME NEW i \in DOMAIN log'
      PROVE  from(i) \in DOMAIN log \ {k} /\ log'[i] = log[from(i)]
  BY <1>2, <1>3
<1>5. \A i, j \in DOMAIN log' : from(i) = from(j) => i = j
  BY <1>3
<1>6. ASSUME NEW j \in DOMAIN log \ {k}
      PROVE  \E i \in DOMAIN log' : from(i) = j
  <2>1. CASE j < k
    BY <1>3, <2>1
  <2>2. CASE ~(j < k)
    <3>1. j - 1 \in DOMAIN log' /\ from(j - 1) = j
      BY <1>3, <2>2
    <3> QED
      BY <3>1
  <2> QED
    BY <2>1, <2>2
<1> HIDE DEF from
<1>7. Ids(log') = Ids(log) \ {log[k].batch}
  <2>1. \A j \in DOMAIN log \ {k} : log[j].batch # log[k].batch
    BY DEF LogTellsTheServer
  <2> QED
    BY <1>4, <1>6, <2>1 DEF Ids
<1>8. Len(log') <= MaxLog
  BY <1>2, <1>3
<1>9. forgot' \subseteq DOMAIN batches'
  BY <1>1 DEF LogTellsTheServer
<1>10. ASSUME NEW i \in DOMAIN log'
       PROVE  /\ log'[i].batch \in DOMAIN batches' \ forgot'
              /\ LET b == batches'[log'[i].batch]
                 IN  /\ b.status = "answered" /\ b.conn = log'[i].conn
                     /\ b.committed = log'[i].committed
              /\ \A j \in DOMAIN log' : log'[j].batch = log'[i].batch => j = i
  <2>1. log[from(i)].batch \in DOMAIN batches \ forgot /\ log[from(i)].batch # log[k].batch
    BY <1>4 DEF LogTellsTheServer
  <2>2. \A j \in DOMAIN log' : log'[j].batch = log'[i].batch => from(j) = from(i)
    BY <1>4 DEF LogTellsTheServer
  <2> QED
    BY <1>1, <1>4, <1>5, <2>1, <2>2 DEF LogTellsTheServer
<1>11. \A i \in DOMAIN batches' : batches'[i].status = "answered" <=> i \in forgot' \cup Ids(log')
  <2>1. log[k].batch \in DOMAIN batches /\ batches[log[k].batch].status = "answered"
    BY DEF LogTellsTheServer
  <2> QED
    BY <1>1, <1>7, <2>1 DEF LogTellsTheServer
<1> QED
  BY <1>8, <1>9, <1>10, <1>11 DEF LogTellsTheServer

\* Whatever panels come and go, the log follows the servers.
LEMMA NextLog == TypeOK /\ LogTellsTheServer /\ [Next]_vars => LogTellsTheServer'
<1> SUFFICES ASSUME TypeOK, LogTellsTheServer, [Next]_vars
             PROVE  LogTellsTheServer'
  OBVIOUS
<1>1. ASSUME NEW v \in {"other", "gone"}, batches' = Outlived(v), UNCHANGED <<log, forgot>>
      PROVE  LogTellsTheServer'
  BY <1>1, OutlivedAlike, LogStays DEF TypeOK
<1>2. ASSUME UNCHANGED <<batches, log, forgot>>
      PROVE  LogTellsTheServer'
  BY <1>2, LogStays DEF Alike, SameWork
<1>3. ASSUME NEW s, NEW t, Picked(s, t)
      PROVE  LogTellsTheServer'
  BY <1>1, <1>2, <1>3 DEF Picked, TablesEffect, Compute, Relist
<1>4. ASSUME NEW conn, NEW other, NEW rows, Send(conn, other, rows)
      PROVE  LogTellsTheServer'
  <2> DEFINE n == Len(batches) + 1
             b == [tab |-> tab, conn |-> conn, other |-> other, of |-> load, rows |-> rows,
                   had |-> marks, hasty |-> timer, done |-> {}, view |-> "same",
                   status |-> "sent", committed |-> FALSE]
  <2>1. batches' = Append(batches, b) /\ UNCHANGED <<log, forgot>> /\ b.status # "answered"
    BY <1>4 DEF Send
  <2> HIDE DEF b
  <2>2. /\ DOMAIN batches = 1..Len(batches) /\ Len(batches) \in Nat
        /\ DOMAIN batches' = 1..n /\ batches'[n] = b
        /\ \A i \in DOMAIN batches : batches'[i] = batches[i]
    BY <2>1 DEF TypeOK
  <2>3. /\ DOMAIN batches' = DOMAIN batches \cup {n} /\ n \notin DOMAIN batches
    BY <2>2
  <2>4. n \notin forgot \cup Ids(log)
    BY <2>3 DEF LogTellsTheServer, Ids
  <2>5. Ids(log') = Ids(log)
    BY <2>1
  <2> HIDE DEF n
  <2> QED
    BY <2>1, <2>2, <2>3, <2>4, <2>5 DEF LogTellsTheServer
<1>5. ASSUME NEW c \in Conns, PickSource(c) \/ PickTarget(c)
      PROVE  LogTellsTheServer'
  BY <1>3, <1>5 DEF PickSource, PickTarget
<1>6. CASE Swap
  BY <1>3, <1>6 DEF Swap
<1>7. CASE Leave
  BY <1>1, <1>7 DEF Leave, Mount
<1>8. CASE CloseWindow
  <2>1. UNCHANGED <<log, forgot>>
    BY <1>8 DEF CloseWindow
  <2> QED
    BY <1>8, <2>1, CloseTypes, LogStays
<1>9. CASE Clear
  <2>1. /\ log' = <<>> /\ forgot' = forgot \cup Ids(log) /\ UNCHANGED batches
    BY <1>9 DEF Clear, panel
  <2>2. DOMAIN log' = {} /\ Len(log') = 0 /\ Ids(log') = {}
    BY <2>1 DEF Ids
  <2>3. Ids(log) \subseteq DOMAIN batches
    BY DEF LogTellsTheServer, Ids
  <2> QED
    BY <2>1, <2>2, <2>3, CompareAssumption DEF LogTellsTheServer
<1>10. CASE TimerFires
  BY <1>1, <1>10 DEF TimerFires, Relist
<1>11. ASSUME NEW t \in Tabs, ChangeTab(t) \/ \E s, g \in Conns \cup {None} : Open(t, s, g)
       PROVE  LogTellsTheServer'
  BY <1>1, <1>11 DEF ChangeTab, Open, Mount
<1>12. ASSUME NEW l \in loads, NEW ok \in BOOLEAN, Answer(l, ok)
       PROVE  LogTellsTheServer'
  BY <1>1, <1>2, <1>12 DEF Answer, Relist
<1>13. ASSUME NEW a \in asks, NEW ok \in BOOLEAN, SchemaArrives(a, ok)
       PROVE  LogTellsTheServer'
  BY <1>1, <1>2, <1>13 DEF SchemaArrives, Compute
<1>14. ASSUME NEW d \in Sides, ChangeOption(d)
       PROVE  LogTellsTheServer'
  BY <1>1, <1>14 DEF ChangeOption, Compute
<1>15. ASSUME NEW r \in Changes, Toggle(r)
       PROVE  LogTellsTheServer'
  BY <1>2, <1>15 DEF Toggle
<1>16. ASSUME NEW rows \in SUBSET Changes \ {{}}, NEW on \in BOOLEAN, SelectShown(rows, on)
       PROVE  LogTellsTheServer'
  BY <1>2, <1>16 DEF SelectShown
<1>17. CASE ApplySelected \/ ApplyAll
  BY <1>4, <1>17 DEF ApplySelected, ApplyAll
<1>18. ASSUME NEW i \in DOMAIN batches, NEW done \in SUBSET Changes, NEW c \in BOOLEAN,
              Finish(i, done, c)
       PROVE  LogTellsTheServer'
  BY <1>18, FinishIsLogged
<1>19. ASSUME NEW k \in DOMAIN log, Remove(k)
       PROVE  LogTellsTheServer'
  BY <1>19, RemoveIsLogged
<1>20. CASE UNCHANGED vars
  BY <1>2, <1>20 DEF vars
<1> QED
  BY <1>5, <1>6, <1>7, <1>8, <1>9, <1>10, <1>11, <1>12, <1>13, <1>14, <1>15, <1>16,
     <1>17, <1>18, <1>19, <1>20
     DEF Next

\* For any number of batches and any cap, the log says of each server what was
\* done to it, once, and forgets only what the user or the cap removed.
THEOREM LogFollowsServers == Spec => []LogTellsTheServer
<1>1. TypeOK /\ LogTellsTheServer /\ [Next]_vars => LogTellsTheServer'
  BY NextLog
<1>2. IInv => TypeOK
  BY DEF IInv
<1> QED
  BY <1>1, <1>2, InitIsInOrder, InvariantHolds, PTL DEF Spec
=============================================================================
