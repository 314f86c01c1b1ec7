---------------------------- MODULE SchemaViewsProofs ----------------------------
(***************************************************************************)
(* What the Schema page, the table list and the dialogs of both keep, for  *)
(* any connections and engines.                                            *)
(*                                                                         *)
(* The invariant is taken apart by what a step has to change to disturb it *)
(* (Fits): the views, the closures, the cache, and who waits for whom. A   *)
(* step that goes through the cache leaves every closure the work it has,  *)
(* and may silence it (SameWork).                                          *)
(***************************************************************************)
EXTENDS SchemaViews, SequenceTheorems, TLAPS

PageRecs == [st : {"idle", "loading", "ok", "error"}, of : Conns \cup {None},
             schema : Schemas \cup {None}, late : BOOLEAN, sel : BOOLEAN, dlg : Dialogs]
NavRecs == [err : BOOLEAN, sel : BOOLEAN, dlg : Dialogs,
            ask : {"truncate", "dropTable", None}, askOf : Conns \cup {None}, busy : BOOLEAN]
Flights == [st : {"none", "asked", "read"}, saw : Schemas \cup {None}]
Waits == [who : {"page", "nav", "ask", "gone"}, conn : Conns]
Calls == [conn : Conns, here : BOOLEAN]

PlaceOK == at \in [path : {"schema", "other"}, cid : Conns] /\ server \in [Conns -> Schemas]
CacheOK ==
  /\ entries \in [Conns -> Schemas \cup {None}] /\ flight \in [Conns -> Flights]
  /\ waits \subseteq Waits /\ calls \subseteq Calls
ViewsOK == page \in PageRecs /\ nav \in NavRecs
JobsOK == jobs \subseteq Closures
Sents == [conn : Conns, stmt : Statements]
RestOK == excused \subseteq Conns /\ gestures \in 0..MaxGestures /\ late \subseteq Sents

PageFits ==
  /\ page.dlg.kind # None => /\ page.dlg.from = at.cid \/ page.dlg.stray
                             /\ page.dlg.from # None
  /\ page.st = "ok" => page.schema # None /\ page.of # None /\ (page.of = at.cid \/ page.late)
  /\ page.st # "ok" => page.dlg = NoDialog
  /\ at.path # "schema" => page = NoPage
NavFits ==
  /\ ~NavShown => nav.dlg = NoDialog
  /\ nav.ask # None => nav.askOf = at.cid
  /\ nav.dlg.kind # None => nav.dlg.from = at.cid /\ ~nav.dlg.stray
JobsAtHome == \A j \in jobs : j.from = j.conn \/ (j.by = "page" /\ j.stray)
FlightsAreReal == \A c \in Conns : flight[c].st = "read" => flight[c].saw # None
WaitsHaveFlights == \A w \in waits : InFlight(w.conn)
PageIsTold ==
  page.st = "loading" => (\E c \in Conns : Waiting("page", c)) \/ \E k \in calls : k.here
DialogsAreTold ==
  /\ page.dlg.st = "applying" => \E j \in jobs : j.by = "page" /\ j.here
  /\ nav.dlg.st = "applying" => \E j \in jobs : j.by = "nav" /\ j.here
AskIsTold ==
  nav.busy => (\E j \in jobs : j.by = "ask" /\ j.here) \/ Waiting("ask", at.cid)

Typed == PlaceOK /\ CacheOK /\ ViewsOK /\ JobsOK /\ RestOK
Fits ==
  /\ PageFits /\ NavFits /\ JobsAtHome /\ FlightsAreReal /\ WaitsHaveFlights
  /\ PageIsTold /\ DialogsAreTold /\ AskIsTold /\ TheLeftIsSilent /\ CacheIsFollowed
  /\ EditsAreSent

LEMMA TypeParts == (TypeOK <=> Typed) /\ (TypeOK' <=> Typed')
BY DEF TypeOK, Typed, PlaceOK, CacheOK, ViewsOK, JobsOK, RestOK, PageRecs, NavRecs, Flights,
       Waits, Calls, Sents

LEMMA NoneIsNothing ==
  /\ None \notin Conns /\ None \notin Attrs /\ None \notin Schemas /\ None # Gone
  /\ None \notin {"add", "edit", "drop", "truncate", "dropTable"}
  /\ MaxGestures \in Nat
BY ViewsAssumption DEF Schemas

LEMMA Parts == /\ IInv <=> Typed /\ Fits
               /\ IInv' <=> Typed' /\ Fits'
<1>1. IInv <=> Typed /\ Fits
  <2>1. Typed => at.cid # None
    BY NoneIsNothing DEF Typed, PlaceOK
  <2>2. NobodyWaitsForNothing <=> WaitsHaveFlights /\ PageIsTold /\ DialogsAreTold /\ AskIsTold
    BY DEF NobodyWaitsForNothing, WaitsHaveFlights, PageIsTold, DialogsAreTold, AskIsTold, View
  <2>3. Typed => (ActsAtHome /\ PageIsOfConnection /\ WhatIsShownIsReal
                    <=> PageFits /\ NavFits /\ JobsAtHome /\ FlightsAreReal)
    BY <2>1 DEF ActsAtHome, PageIsOfConnection, WhatIsShownIsReal, PageFits, NavFits, JobsAtHome,
                FlightsAreReal, View
  <2> QED
    BY <2>2, <2>3, TypeParts DEF IInv, Fits
<1>2. IInv' <=> Typed' /\ Fits'
  <2>1. Typed' => at'.cid # None
    BY NoneIsNothing DEF Typed, PlaceOK
  <2>2. NobodyWaitsForNothing' <=> WaitsHaveFlights' /\ PageIsTold' /\ DialogsAreTold' /\ AskIsTold'
    BY DEF NobodyWaitsForNothing, WaitsHaveFlights, PageIsTold, DialogsAreTold, AskIsTold, View
  <2>3. Typed' => (ActsAtHome' /\ PageIsOfConnection' /\ WhatIsShownIsReal'
                    <=> PageFits' /\ NavFits' /\ JobsAtHome' /\ FlightsAreReal')
    BY <2>1 DEF ActsAtHome, PageIsOfConnection, WhatIsShownIsReal, PageFits, NavFits, JobsAtHome,
                FlightsAreReal, View
  <2> QED
    BY <2>2, <2>3, TypeParts DEF IInv, Fits
<1> QED
  BY <1>1, <1>2

-----------------------------------------------------------------------------
(* The records.                                                            *)

LEMMA Nothings ==
  /\ NoDialog \in Dialogs /\ NoDialog.kind = None /\ NoDialog.st = "form"
  /\ NoPage \in PageRecs /\ NoPage.st = "idle" /\ NoPage.dlg = NoDialog
  /\ NoNav \in NavRecs /\ NoNav.dlg = NoDialog /\ NoNav.ask = None /\ NoNav.busy = FALSE
  /\ NoForm \in Forms /\ NoFlight \in Flights /\ NoFlight.st = "none"
BY DEF NoDialog, Dialogs, NoPage, PageRecs, NoNav, NavRecs, NoForm, Forms, Names, NoFlight,
       Flights

LEMMA PageOnKeeps ==
  ASSUME NEW p \in PageRecs
  PROVE  LET q == PageOn(p) IN
         /\ q \in PageRecs /\ q.st = p.st /\ q.of = p.of /\ q.schema = p.schema
         /\ q.late = p.late /\ q.sel = p.sel
         /\ IF p.st = "ok" THEN q = p ELSE q.dlg = NoDialog
         /\ p = NoPage => q = NoPage
<1>1. CASE p.st = "ok"
  BY <1>1, Nothings DEF PageOn
<1>2. CASE p.st # "ok"
  <2>1. PageOn(p) = [p EXCEPT !.dlg = NoDialog]
    BY <1>2 DEF PageOn
  <2>2. [p EXCEPT !.dlg = NoDialog] \in PageRecs
    BY Nothings DEF PageRecs
  <2>3. p.dlg = NoDialog => [p EXCEPT !.dlg = NoDialog] = p
    BY DEF PageRecs
  <2> QED
    BY <1>2, <2>1, <2>2, <2>3, Nothings DEF PageRecs
<1> QED
  BY <1>1, <1>2

LEMMA NavOnKeeps ==
  ASSUME NEW n \in NavRecs, NEW e
  PROVE  LET m == NavOn(n, e) IN
         /\ m \in NavRecs /\ m.err = n.err /\ m.sel = n.sel /\ m.ask = n.ask
         /\ m.askOf = n.askOf /\ m.busy = n.busy
         /\ IF e[at.cid] = None THEN m.dlg = NoDialog ELSE m = n
<1>1. CASE e[at.cid] # None
  BY <1>1 DEF NavOn
<1>2. CASE e[at.cid] = None
  <2>1. NavOn(n, e) = [n EXCEPT !.dlg = NoDialog]
    BY <1>2 DEF NavOn
  <2>2. [n EXCEPT !.dlg = NoDialog] \in NavRecs
    BY Nothings DEF NavRecs
  <2> QED
    BY <1>2, <2>1, <2>2 DEF NavRecs
<1> QED
  BY <1>1, <1>2

\* The same work, by a closure that may have been silenced since.
SameWork(j, k) ==
  /\ k.by = j.by /\ k.conn = j.conn /\ k.from = j.from /\ k.todo = j.todo /\ k.form = j.form
  /\ k.old = j.old /\ k.done = j.done /\ k.stray = j.stray /\ k.crossed = j.crossed
  /\ (k.here => j.here) /\ (k.mounted => j.mounted)
  /\ (j.here => j.mounted) => (k.here => k.mounted)

LEMMA Silenced ==
  ASSUME NEW j \in Closures, NEW h \in BOOLEAN, h => j.here
  PROVE  LET k == [j EXCEPT !.here = h] IN
         k \in Closures /\ SameWork(j, k) /\ k.here = h /\ k.mounted = j.mounted
BY DEF Closures, SameWork

LEMMA Forgotten ==
  ASSUME NEW j \in Closures
  PROVE  LET k == [j EXCEPT !.here = FALSE, !.mounted = FALSE] IN
         k \in Closures /\ SameWork(j, k) /\ k.here = FALSE /\ k.mounted = FALSE
BY DEF Closures, SameWork

LEMMA SameWorkFollows ==
  ASSUME NEW j, NEW k, NEW l, SameWork(j, k), SameWork(k, l)
  PROVE  SameWork(j, l)
BY DEF SameWork

\* Those closures of js, each of which may have been silenced.
Quieter(js, ks) ==
  /\ ks \subseteq Closures
  /\ \A k \in ks : \E j \in js : SameWork(j, k)
  /\ \A j \in js : \E k \in ks : SameWork(j, k)

LEMMA HiddenQuiets ==
  ASSUME NEW js \in SUBSET Closures, NEW p, NEW e
  PROVE  /\ Quieter(js, Hidden(js, p, e))
         /\ \A j \in js :
              j.here /\ (j.by = "page" => p.st = "ok") /\ (j.by = "nav" => e[at.cid] # None) =>
                \E k \in Hidden(js, p, e) : k.by = j.by /\ k.here
<1> DEFINE heard(j) == j.here /\ (j.by = "page" => p.st = "ok") /\ (j.by = "nav" => e[at.cid] # None)
           now(j) == [j EXCEPT !.here = heard(j)]
<1>1. Hidden(js, p, e) = {now(j) : j \in js}
  BY DEF Hidden
<1>2. ASSUME NEW j \in js
      PROVE  now(j) \in Closures /\ SameWork(j, now(j)) /\ now(j).here = heard(j)
  <2>1. j \in Closures /\ heard(j) \in BOOLEAN /\ (heard(j) => j.here)
    BY DEF Closures
  <2> HIDE DEF heard
  <2> QED
    BY <2>1, Silenced
<1> HIDE DEF now
<1>3. Quieter(js, Hidden(js, p, e))
  BY <1>1, <1>2 DEF Quieter
<1>4. ASSUME NEW j \in js, heard(j) PROVE \E k \in Hidden(js, p, e) : k.by = j.by /\ k.here
  <2>1. now(j) \in Hidden(js, p, e) /\ now(j).by = j.by /\ now(j).here
    BY <1>1, <1>2, <1>4 DEF SameWork
  <2> QED
    BY <2>1
<1> QED
  BY <1>3, <1>4

LEMMA LeftQuiets ==
  ASSUME NEW js \in SUBSET Closures, NEW by
  PROVE  /\ Quieter(js, Left(js, by))
         /\ \A j \in js : j.by \notin by => j \in Left(js, by)
         /\ \A k \in Left(js, by) : IF k.by \in by THEN ~k.here /\ ~k.mounted ELSE k \in js
<1> DEFINE now(j) == IF j.by \in by THEN [j EXCEPT !.here = FALSE, !.mounted = FALSE] ELSE j
<1>1. Left(js, by) = {now(j) : j \in js}
  BY DEF Left
<1>2. ASSUME NEW j \in js
      PROVE  /\ now(j) \in Closures /\ SameWork(j, now(j))
             /\ IF now(j).by \in by THEN ~now(j).here /\ ~now(j).mounted ELSE now(j) = j
             /\ j.by \notin by => now(j) = j
  <2>1. j \in Closures
    OBVIOUS
  <2>2. CASE j.by \in by
    BY <2>1, <2>2, Forgotten DEF SameWork
  <2>3. CASE j.by \notin by
    BY <2>1, <2>3 DEF SameWork
  <2> QED
    BY <2>2, <2>3
<1> HIDE DEF now
<1>3. Quieter(js, Left(js, by))
  BY <1>1, <1>2 DEF Quieter
<1> QED
  BY <1>1, <1>2, <1>3

-----------------------------------------------------------------------------
(* What keeps each part of the invariant.                                  *)

LEMMA QuieterSelf ==
  ASSUME NEW js \in SUBSET Closures
  PROVE  Quieter(js, js)
BY DEF Quieter, SameWork

\* What EditsAreSent says of one closure.
Sent(j) ==
  LET all == SqlStatements(EngineOf[j.conn], j.old, j.form) IN
  /\ j.old.kind # None
  /\ \/ j.todo = all /\ all # <<>>
     \/ j.todo = <<>>
     \/ Len(all) = 2 /\ j.todo = <<all[2]>> /\ (~j.crossed => TypeIsChanged(j))

LEMMA SentParts == /\ EditsAreSent <=> \A j \in jobs : j.by # "ask" => Sent(j)
                   /\ EditsAreSent' <=> \A j \in jobs' : j.by # "ask" => Sent(j)'
BY DEF EditsAreSent, Sent

LEMMA SentStays ==
  ASSUME NEW j, NEW k, Sent(j), SameWork(j, k), server'[j.conn] = server[j.conn]
  PROVE  Sent(k)'
<1>1. TypeIsChanged(j) => TypeIsChanged(k)'
  BY DEF TypeIsChanged, SameWork
<1>2. SqlStatements(EngineOf[k.conn], k.old, k.form) = SqlStatements(EngineOf[j.conn], j.old, j.form)
  BY DEF SameWork
<1> QED
  BY <1>1, <1>2 DEF Sent, SameWork

LEMMA WorkStays ==
  ASSUME JobsAtHome, EditsAreSent, server' = server, NEW js \in SUBSET jobs, Quieter(js, jobs')
  PROVE  JobsOK' /\ JobsAtHome' /\ EditsAreSent'
<1>1. JobsOK'
  BY DEF Quieter, JobsOK
<1>2. ASSUME NEW k \in jobs'
      PROVE  /\ k.from = k.conn \/ (k.by = "page" /\ k.stray)
             /\ k.by # "ask" => Sent(k)'
  <2>1. PICK j \in js : SameWork(j, k)
    BY DEF Quieter
  <2>2. (j.from = j.conn \/ (j.by = "page" /\ j.stray)) /\ (j.by # "ask" => Sent(j))
    BY SentParts DEF JobsAtHome
  <2>3. k.by # "ask" => Sent(k)'
    BY <2>1, <2>2, SentStays DEF SameWork
  <2> QED
    BY <2>1, <2>2, <2>3 DEF SameWork
<1> QED
  BY <1>1, <1>2, SentParts DEF JobsAtHome

\* A connection whose cache is behind stays so for a reason, or is asked anew.
LEMMA CacheStays ==
  ASSUME CacheIsFollowed, FlightsAreReal, server' = server,
         \A c \in Conns : flight'[c] = flight[c] \/ flight'[c].st = "asked",
         \A c \in Conns : entries'[c] \in {entries[c], None},
         \A c \in Conns : \/ Followed(c) => Followed(c)'
                          \/ InFlight(c)' /\ (flight'[c].st = "read" => flight'[c].saw = server'[c])
  PROVE  CacheIsFollowed' /\ FlightsAreReal'
<1>1. FlightsAreReal'
  BY DEF FlightsAreReal
<1>2. ASSUME NEW c \in Conns
      PROVE  /\ flight'[c].st = "read" => flight'[c].saw = server'[c] \/ Followed(c)'
             /\ InFlight(c)' \/ Followed(c)' \/ entries'[c] \in {None, server'[c]}
  <2>1. /\ flight[c].st = "read" => flight[c].saw = server[c] \/ Followed(c)
        /\ InFlight(c) \/ Followed(c) \/ entries[c] \in {None, server[c]}
    BY DEF CacheIsFollowed
  <2>2. InFlight(c) => InFlight(c)'
    BY DEF InFlight
  <2>3. flight'[c].st = "read" => flight'[c] = flight[c]
    OBVIOUS
  <2> QED
    BY <2>1, <2>2, <2>3
<1> QED
  BY <1>1, <1>2 DEF CacheIsFollowed

LEMMA FollowedStays ==
  ASSUME NEW js \in SUBSET jobs, Quieter(js, jobs'), NEW c, c \in excused => c \in excused',
         \A j \in jobs \ js : j.conn = c /\ j.done => c \in excused'
  PROVE  Followed(c) => Followed(c)'
<1>1. ASSUME NEW j \in js, j.conn = c, j.done PROVE \E k \in jobs' : k.conn = c /\ k.done
  BY <1>1 DEF Quieter, SameWork
<1> QED
  BY <1>1 DEF Followed

\* A dialog that waits for its closure keeps it while its view is shown.
LEMMA DialogsStayTold ==
  ASSUME DialogsAreTold, JobsOK, NEW js \in SUBSET jobs, NEW e, jobs' = Hidden(js, page', e),
         page'.dlg.st = "applying" => page.dlg.st = "applying" /\ page'.st = "ok",
         nav'.dlg.st = "applying" => nav.dlg.st = "applying" /\ e[at.cid] # None,
         \A j \in jobs \ js : j.here => /\ j.by = "page" => page'.dlg.st # "applying"
                                        /\ j.by = "nav" => nav'.dlg.st # "applying"
  PROVE  DialogsAreTold'
<1>1. js \in SUBSET Closures
  BY DEF JobsOK
<1>2. ASSUME page'.dlg.st = "applying" PROVE \E k \in jobs' : k.by = "page" /\ k.here
  <2>1. PICK j \in jobs : j.by = "page" /\ j.here
    BY <1>2 DEF DialogsAreTold
  <2>2. j \in js
    BY <1>2, <2>1
  <2> QED
    BY <1>1, <1>2, <2>1, <2>2, HiddenQuiets
<1>3. ASSUME nav'.dlg.st = "applying" PROVE \E k \in jobs' : k.by = "nav" /\ k.here
  <2>1. PICK j \in jobs : j.by = "nav" /\ j.here
    BY <1>3 DEF DialogsAreTold
  <2>2. j \in js
    BY <1>3, <2>1
  <2> QED
    BY <1>1, <1>3, <2>1, <2>2, HiddenQuiets
<1> QED
  BY <1>2, <1>3 DEF DialogsAreTold

LEMMA AskStaysTold ==
  ASSUME AskIsTold, JobsOK, NEW js \in SUBSET jobs, NEW e, jobs' = Hidden(js, page', e),
         at' = at, nav'.busy => nav.busy,
         nav'.busy => \/ [who |-> "ask", conn |-> at.cid] \in waits'
                      \/ /\ ~Waiting("ask", at.cid)
                         /\ \A j \in jobs \ js : ~(j.by = "ask" /\ j.here)
  PROVE  AskIsTold'
<1>1. js \in SUBSET Closures
  BY DEF JobsOK
<1>2. ASSUME nav'.busy, ~Waiting("ask", at.cid), \A j \in jobs \ js : ~(j.by = "ask" /\ j.here)
      PROVE  \E k \in jobs' : k.by = "ask" /\ k.here
  <2>1. PICK j \in js : j.by = "ask" /\ j.here
    BY <1>2 DEF AskIsTold
  <2> QED
    BY <1>1, <2>1, HiddenQuiets
<1> QED
  BY <1>2 DEF AskIsTold, Waiting

LEMMA SilenceStays ==
  ASSUME TheLeftIsSilent, at' = at, NEW js \in SUBSET jobs, Quieter(js, jobs'),
         at.path # "schema" => /\ \A w \in waits' \ waits : w.who # "page"
                               /\ \A k \in calls' \ calls : ~k.here
  PROVE  TheLeftIsSilent'
<1>1. ASSUME NEW k \in jobs'
      PROVE  /\ k.here => k.mounted /\ (k.by # "page" => k.conn = at.cid)
             /\ at.path # "schema" /\ k.by = "page" => ~k.mounted
  <2>1. PICK j \in js : SameWork(j, k)
    BY DEF Quieter
  <2>2. /\ j.here => j.mounted /\ (j.by # "page" => j.conn = at.cid)
        /\ at.path # "schema" /\ j.by = "page" => ~j.mounted
    BY DEF TheLeftIsSilent
  <2> QED
    BY <2>1, <2>2 DEF SameWork
<1> QED
  BY <1>1 DEF TheLeftIsSilent

-----------------------------------------------------------------------------
(* Gestures in a drawer.                                                   *)

LEMMA GesturesOK ==
  ASSUME gestures \in 0..MaxGestures, Gesture
  PROVE  gestures' \in 0..MaxGestures
BY NoneIsNothing DEF Gesture

\* A gesture that changes no more than what a view shows.
LEMMA ViewKeeps ==
  ASSUME IInv, Gesture, UNCHANGED <<still, jobs>>, ViewsOK', PageFits', NavFits',
         page'.st = "loading" => page.st = "loading",
         page'.dlg.st = "applying" => page.dlg.st = "applying",
         nav'.dlg.st = "applying" => nav.dlg.st = "applying",
         nav'.busy => nav.busy
  PROVE  IInv'
<1>1. Typed /\ Fits
  BY Parts
<1>2. /\ UNCHANGED <<at, server, late, entries, flight, waits, calls, excused, jobs>>
      /\ \A c : InFlight(c)' = InFlight(c) /\ Followed(c)' = Followed(c)
      /\ \A who, c : Waiting(who, c)' = Waiting(who, c)
  BY DEF still, cacheVars, InFlight, Followed, Waiting
<1>3. Typed'
  BY <1>1, <1>2, GesturesOK DEF Typed, PlaceOK, CacheOK, JobsOK, RestOK
<1>4. JobsAtHome' /\ EditsAreSent'
  BY <1>1, <1>2, WorkStays, QuieterSelf DEF Fits, Typed, JobsOK
<1>5. FlightsAreReal' /\ WaitsHaveFlights' /\ CacheIsFollowed'
  BY <1>1, <1>2 DEF Fits, FlightsAreReal, WaitsHaveFlights, CacheIsFollowed
<1>6. PageIsTold' /\ DialogsAreTold' /\ AskIsTold'
  BY <1>1, <1>2 DEF Fits, PageIsTold, DialogsAreTold, AskIsTold
<1>7. TheLeftIsSilent'
  BY <1>1, <1>2 DEF Fits, TheLeftIsSilent
<1> QED
  BY <1>3, <1>4, <1>5, <1>6, <1>7, Parts DEF Fits

\* Another dialog in a view, or another drawer.
LEMMA PageSet ==
  ASSUME NEW p \in PageRecs, NEW q,
         \/ \E d \in Dialogs : q = [p EXCEPT !.dlg = d]
         \/ \E b \in BOOLEAN : q = [p EXCEPT !.sel = b]
  PROVE  /\ q \in PageRecs /\ q.st = p.st /\ q.of = p.of /\ q.schema = p.schema
         /\ q.late = p.late
         /\ \A d : q = [p EXCEPT !.dlg = d] => q.dlg = d
         /\ \A b : q = [p EXCEPT !.sel = b] => q.dlg = p.dlg
BY DEF PageRecs

LEMMA NavSet ==
  ASSUME NEW n \in NavRecs, NEW m,
         \/ \E d \in Dialogs : m = [n EXCEPT !.dlg = d]
         \/ \E b \in BOOLEAN : m = [n EXCEPT !.sel = b]
  PROVE  /\ m \in NavRecs /\ m.ask = n.ask /\ m.askOf = n.askOf /\ m.busy = n.busy
         /\ \A d : m = [n EXCEPT !.dlg = d] => m.dlg = d
         /\ \A b : m = [n EXCEPT !.sel = b] => m.dlg = n.dlg
BY DEF NavRecs

\* A view that is shown gets a dialog of its own, or none.
LEMMA DrawerKeeps ==
  ASSUME IInv, Gesture, UNCHANGED <<still, jobs>>, NEW by \in {"page", "nav"}, NEW d \in Dialogs,
         NEW b \in BOOLEAN,
         IF by = "page" THEN page.st = "ok" ELSE NavShown,
         \/ SetView(by, [View(by) EXCEPT !.dlg = d]) /\ d.st # "applying"
         \/ SetView(by, [View(by) EXCEPT !.sel = b]),
         d.kind # None => IF by = "page" THEN d.from # None /\ (d.from = at.cid \/ d.stray)
                          ELSE d.from = at.cid /\ ~d.stray
  PROVE  IInv'
<1>1. Typed /\ Fits
  BY Parts
<1>2. page \in PageRecs /\ nav \in NavRecs /\ PageFits /\ NavFits
  BY <1>1 DEF Typed, ViewsOK, Fits
<1>3. at' = at /\ entries' = entries
  BY DEF still, cacheVars
<1>4. CASE by = "page"
  <2>1. /\ page' \in PageRecs /\ nav' = nav
        /\ page'.st = page.st /\ page'.of = page.of /\ page'.schema = page.schema
        /\ page'.late = page.late
        /\ page'.dlg = page.dlg \/ (page'.dlg = d /\ d.st # "applying")
    <3>1. /\ nav' = nav
          /\ \/ page' = [page EXCEPT !.dlg = d] /\ d.st # "applying"
             \/ page' = [page EXCEPT !.sel = b]
      BY <1>4 DEF SetView, View
    <3>2. CASE page' = [page EXCEPT !.dlg = d] /\ d.st # "applying"
      BY <1>2, <3>1, <3>2, PageSet
    <3>3. CASE page' = [page EXCEPT !.sel = b]
      BY <1>2, <3>1, <3>3, PageSet
    <3> QED
      BY <3>1, <3>2, <3>3
  <2>2. at.path = "schema"
    BY <1>2, <1>4, Nothings DEF PageFits
  <2>3. PageFits' /\ NavFits'
    BY <1>2, <1>3, <1>4, <2>1, <2>2 DEF PageFits, NavFits, NavShown
  <2> QED
    BY <1>2, <2>1, <2>3, ViewKeeps DEF ViewsOK
<1>5. CASE by = "nav"
  <2>1. /\ nav' \in NavRecs /\ page' = page
        /\ nav'.ask = nav.ask /\ nav'.askOf = nav.askOf /\ nav'.busy = nav.busy
        /\ nav'.dlg = nav.dlg \/ (nav'.dlg = d /\ d.st # "applying")
    <3>1. /\ page' = page
          /\ \/ nav' = [nav EXCEPT !.dlg = d] /\ d.st # "applying"
             \/ nav' = [nav EXCEPT !.sel = b]
      BY <1>5 DEF SetView, View
    <3>2. CASE nav' = [nav EXCEPT !.dlg = d] /\ d.st # "applying"
      BY <1>2, <3>1, <3>2, NavSet
    <3>3. CASE nav' = [nav EXCEPT !.sel = b]
      BY <1>2, <3>1, <3>3, NavSet
    <3> QED
      BY <3>1, <3>2, <3>3
  <2>2. PageFits' /\ NavFits'
    BY <1>2, <1>3, <1>5, <2>1 DEF PageFits, NavFits, NavShown
  <2> QED
    BY <1>2, <2>1, <2>2, ViewKeeps DEF ViewsOK
<1> QED
  BY <1>4, <1>5

LEMMA OpenCloseKeeps ==
  ASSUME IInv, NEW by \in {"page", "nav"}, OpenDrawer(by) \/ CloseDrawer(by) \/ CloseDialog(by)
  PROVE  IInv'
<1>1. /\ IF by = "page" THEN page.st = "ok" ELSE NavShown
      /\ Gesture /\ UNCHANGED <<still, jobs>>
      /\ \/ \E b \in BOOLEAN : SetView(by, [View(by) EXCEPT !.sel = b])
         \/ SetView(by, [View(by) EXCEPT !.dlg = NoDialog])
  BY DEF OpenDrawer, CloseDrawer, CloseDialog, Shown
<1> QED
  BY <1>1, DrawerKeeps, Nothings

LEMMA OpenDialogKeeps ==
  ASSUME IInv, NEW by \in {"page", "nav"}, NEW kind \in {"add", "edit", "drop"}, NEW col \in Names,
         OpenDialog(by, kind, col)
  PROVE  IInv'
<1> DEFINE t == SchemaOf(by)
           d == [kind |-> kind, col |-> col, attr |-> IF kind = "edit" THEN t[col] ELSE None,
                 from |-> IF by = "page" THEN page.of ELSE at.cid,
                 st |-> "form", stray |-> by = "page" /\ page.late]
<1>1. Typed /\ Fits
  BY Parts
<1>2. /\ page \in PageRecs /\ PageFits /\ at.cid \in Conns
      /\ entries \in [Conns -> Schemas \cup {None}]
  BY <1>1 DEF Typed, ViewsOK, Fits, PlaceOK, CacheOK
<1>3. /\ Shown(by) /\ t # Gone /\ Gesture /\ UNCHANGED <<still, jobs>>
      /\ SetView(by, [View(by) EXCEPT !.dlg = d])
  BY DEF OpenDialog
<1>4. IF by = "page" THEN page.st = "ok" ELSE NavShown
  BY <1>3 DEF Shown
<1>5. t \in Tables
  <2>1. t \in Schemas
    <3>1. CASE by = "page"
      BY <1>2, <1>4, <3>1 DEF SchemaOf, PageFits, PageRecs
    <3>2. CASE by = "nav"
      BY <1>2, <1>4, <3>2 DEF SchemaOf, NavShown
    <3> QED
      BY <3>1, <3>2
  <2> QED
    BY <1>3, <2>1 DEF Schemas
<1>6. d \in Dialogs
  <2>1. t[col] \in Attrs \cup {None}
    BY <1>5 DEF Tables
  <2>2. page.of \in Conns \cup {None} /\ page.late \in BOOLEAN
    BY <1>2 DEF PageRecs
  <2> QED
    BY <1>2, <2>1, <2>2 DEF Dialogs
<1>7. IF by = "page" THEN d.from # None /\ (d.from = at.cid \/ d.stray)
      ELSE d.from = at.cid /\ ~d.stray
  BY <1>2, <1>4 DEF PageFits
<1>8. d.st = "form"
  OBVIOUS
<1> HIDE DEF d
<1> QED
  BY <1>3, <1>4, <1>6, <1>7, <1>8, DrawerKeeps

LEMMA AskKeeps ==
  ASSUME IInv, (\E kind \in {"truncate", "dropTable"} : AskDestructive(kind)) \/ CancelDestructive
  PROVE  IInv'
<1>1. Typed /\ Fits
  BY Parts
<1>2. /\ page \in PageRecs /\ nav \in NavRecs /\ PageFits /\ NavFits /\ at.cid \in Conns
  BY <1>1 DEF Typed, ViewsOK, Fits, PlaceOK
<1>3. /\ Gesture /\ UNCHANGED <<still, jobs>> /\ page' = page
      /\ \E kind \in {"truncate", "dropTable", None}, of \in Conns \cup {None} :
           /\ nav' = [nav EXCEPT !.ask = kind, !.askOf = of] /\ (kind # None => of = at.cid)
  <2>1. CASE CancelDestructive
    BY <2>1, <1>2 DEF CancelDestructive
  <2>2. ASSUME NEW kind \in {"truncate", "dropTable"}, AskDestructive(kind)
        PROVE  nav' = [nav EXCEPT !.ask = kind, !.askOf = at.cid]
    BY <2>2 DEF AskDestructive
  <2> QED
    BY <2>1, <2>2, <1>2 DEF CancelDestructive, AskDestructive
<1>4. /\ nav' \in NavRecs /\ nav'.dlg = nav.dlg /\ nav'.busy = nav.busy
      /\ nav'.ask # None => nav'.askOf = at.cid
  BY <1>2, <1>3 DEF NavRecs
<1>5. at' = at /\ entries' = entries
  BY <1>3 DEF still, cacheVars
<1>6. PageFits' /\ NavFits'
  BY <1>2, <1>3, <1>4, <1>5 DEF PageFits, NavFits, NavShown
<1> QED
  BY <1>2, <1>3, <1>4, <1>6, ViewKeeps DEF ViewsOK

-----------------------------------------------------------------------------
(* A closure begins.                                                       *)

\* The statements of a dialog: one, none, or a type that comes before a rename.
LEMMA SqlShape ==
  ASSUME NEW e, NEW d \in Dialogs, NEW f, d.kind # None
  PROVE  LET all == SqlStatements(e, d, f) IN
         \/ d.kind = "add" /\ all = <<Build(e, "add", d, f)>>
         \/ d.kind = "drop" /\ all = <<Build(e, "drop", d, f)>>
         \/ d.kind = "edit" /\ all = <<>>
         \/ /\ d.kind = "edit" /\ f.name = d.col /\ all = <<Build(e, "type", d, f)>>
         \/ /\ d.kind = "edit" /\ ~Alters(d, f) /\ f.name # d.col
            /\ all = <<Build(e, "rename", d, f)>>
         \/ /\ d.kind = "edit" /\ f.name # d.col
            /\ all = <<Build(e, "type", d, f), Build(e, "rename", d, f)>>
<1> DEFINE all == SqlStatements(e, d, f)
           type == Build(e, "type", d, f)
           rename == Build(e, "rename", d, f)
<1>1. d.kind \in {"add", "edit", "drop"}
  BY DEF Dialogs
<1>2. CASE d.kind = "add"
  BY <1>2 DEF SqlStatements, Build
<1>3. CASE d.kind = "drop"
  BY <1>3 DEF SqlStatements, Build
<1>4. CASE d.kind = "edit" /\ (Throws(e, d, f) \/ (Alters(d, f) /\ e = "sqlite"))
  BY <1>4 DEF SqlStatements
<1>5. CASE d.kind = "edit" /\ ~(Throws(e, d, f) \/ (Alters(d, f) /\ e = "sqlite"))
  <2>1. all = (IF Alters(d, f) THEN <<type>> ELSE <<>>) \o (IF f.name # d.col THEN <<rename>> ELSE <<>>)
    BY <1>5 DEF SqlStatements, Build
  <2>2. ASSUME NEW x, NEW y
        PROVE  /\ <<x>> \o <<y>> = <<x, y>> /\ <<x>> \o <<>> = <<x>>
               /\ <<>> \o <<y>> = <<y>> /\ <<>> \o <<>> = <<>>
    <3> DEFINE S == {x, y}
    <3>1. <<x>> \in Seq(S) /\ <<y>> \in Seq(S) /\ <<>> \in Seq(S) /\ y \in S
      OBVIOUS
    <3>2. Append(<<x>>, y) = <<x, y>>
      <4> DEFINE s == Append(<<x>>, y)
                 t == <<x, y>>
      <4>1. Len(<<x>>) = 1 /\ <<x>>[1] = x
        OBVIOUS
      <4>2. s \in Seq(S) /\ Len(s) = 2 /\ s[1] = x /\ s[2] = y
        BY <3>1, <4>1, AppendProperties
      <4>3. t \in Seq(S) /\ Len(t) = 2 /\ t[1] = x /\ t[2] = y
        OBVIOUS
      <4>4. \A i \in 1..2 : s[i] = t[i]
        BY <4>2, <4>3
      <4> HIDE DEF s, t
      <4>5. s = t
        BY <4>2, <4>3, <4>4, SeqEqual
      <4> QED
        BY <4>5 DEF s, t
    <3> HIDE DEF S
    <3> QED
      BY <3>1, <3>2, AppendIsConcat, ConcatEmptySeq
  <2> HIDE DEF all, type, rename
  <2>3. \/ Alters(d, f) /\ f.name # d.col /\ all = <<type, rename>>
        \/ Alters(d, f) /\ f.name = d.col /\ all = <<type>>
        \/ ~Alters(d, f) /\ f.name # d.col /\ all = <<rename>>
        \/ ~Alters(d, f) /\ f.name = d.col /\ all = <<>>
    BY <2>1, <2>2
  <2> QED
    BY <1>5, <2>3 DEF all, type, rename
<1> QED
  BY <1>1, <1>2, <1>3, <1>4, <1>5

LEMMA SqlTyped ==
  ASSUME NEW e, NEW d \in Dialogs, NEW f \in Forms, d.kind # None
  PROVE  SqlStatements(e, d, f) \in Seq(Statements)
<1>1. ASSUME NEW do \in {"add", "drop", "type", "rename"}
      PROVE  Build(e, do, d, f) \in Statements
  BY DEF Build, Statements, Dialogs, Forms
<1>2. ASSUME NEW x \in Statements, NEW y \in Statements
      PROVE  <<>> \in Seq(Statements) /\ <<x>> \in Seq(Statements) /\ <<x, y>> \in Seq(Statements)
  OBVIOUS
<1> QED
  BY <1>1, <1>2, SqlShape

\* One closure more, of what is in front.
LEMMA BeginsKeeps ==
  ASSUME IInv, Gesture, UNCHANGED still, NEW new \in Closures, jobs' = jobs \cup {new},
         new.conn = at.cid, new.here = TRUE, new.mounted = TRUE, new.done = FALSE,
         new.by = "page" => at.path = "schema",
         new.from = new.conn \/ (new.by = "page" /\ new.stray),
         new.by # "ask" => Sent(new),
         ViewsOK', PageFits', NavFits', page'.st = page.st,
         page'.dlg.st = "applying" => page.dlg.st = "applying" \/ new.by = "page",
         nav'.dlg.st = "applying" => nav.dlg.st = "applying" \/ new.by = "nav",
         nav'.busy => nav.busy \/ new.by = "ask"
  PROVE  IInv'
<1>1. Typed /\ Fits
  BY Parts
<1>2. /\ UNCHANGED <<at, server, late, entries, flight, waits, calls, excused>>
      /\ \A c : InFlight(c)' = InFlight(c)
      /\ \A who, c : Waiting(who, c)' = Waiting(who, c)
      /\ \A c : Followed(c) => Followed(c)'
  BY DEF still, cacheVars, InFlight, Followed, Waiting
<1>3. Typed'
  BY <1>1, <1>2, GesturesOK DEF Typed, PlaceOK, CacheOK, JobsOK, RestOK
<1>4. JobsAtHome' /\ TheLeftIsSilent'
  BY <1>1, <1>2 DEF Fits, JobsAtHome, TheLeftIsSilent
<1>5. EditsAreSent'
  <2>1. ASSUME NEW j \in jobs', j.by # "ask" PROVE Sent(j)'
    <3>1. Sent(j)
      BY <1>1, <2>1, SentParts DEF Fits
    <3> QED
      BY <1>2, <3>1 DEF Sent, TypeIsChanged
  <2> QED
    BY <2>1, SentParts
<1>6. FlightsAreReal' /\ WaitsHaveFlights' /\ CacheIsFollowed'
  BY <1>1, <1>2 DEF Fits, FlightsAreReal, WaitsHaveFlights, CacheIsFollowed
<1>7. PageIsTold' /\ DialogsAreTold' /\ AskIsTold'
  BY <1>1, <1>2 DEF Fits, PageIsTold, DialogsAreTold, AskIsTold
<1> QED
  BY <1>3, <1>4, <1>5, <1>6, <1>7, Parts DEF Fits

LEMMA ApplyKeeps ==
  ASSUME IInv, NEW by \in {"page", "nav"}, NEW f \in Forms, Apply(by, f)
  PROVE  IInv'
<1> DEFINE d == View(by).dlg
           todo == SqlStatements(EngineOf[at.cid], d, f)
           new == NewJob(by, d.from, todo, f, d, d.stray)
           applying == [d EXCEPT !.st = "applying"]
<1>1. Typed /\ Fits
  BY Parts
<1>2. /\ page \in PageRecs /\ nav \in NavRecs /\ PageFits /\ NavFits /\ at.cid \in Conns
      /\ gestures \in Nat
  BY <1>1, NoneIsNothing DEF Typed, ViewsOK, Fits, PlaceOK, RestOK
<1>3. /\ Shown(by) /\ d.kind # None /\ todo # <<>> /\ Gesture /\ UNCHANGED still
      /\ SetView(by, [View(by) EXCEPT !.dlg.st = "applying"])
      /\ jobs' = jobs \cup {new}
  BY DEF Apply
<1>4. d \in Dialogs
  BY <1>2 DEF View, PageRecs, NavRecs
<1>5. /\ d.from \in Conns /\ d.stray \in BOOLEAN
      /\ d.from = at.cid \/ (by = "page" /\ d.stray)
  <2>1. d.from \in Conns \cup {None} /\ d.stray \in BOOLEAN
    BY <1>4 DEF Dialogs
  <2>2. d.from # None /\ (d.from = at.cid \/ (by = "page" /\ d.stray))
    BY <1>2, <1>3, NoneIsNothing DEF View, PageFits, NavFits
  <2> QED
    BY <2>1, <2>2
<1>6. todo \in Seq(Statements)
  BY <1>3, <1>4, SqlTyped
<1>7. /\ applying \in Dialogs /\ applying.kind = d.kind /\ applying.from = d.from
      /\ applying.stray = d.stray
  BY <1>4 DEF Dialogs
<1> HIDE DEF todo, d
<1>8. /\ new \in Closures /\ new.by = by /\ new.conn = at.cid /\ new.from = d.from
      /\ new.todo = todo /\ new.form = f /\ new.old = d /\ new.here = TRUE
      /\ new.mounted = TRUE /\ new.done = FALSE /\ new.stray = d.stray
  BY <1>2, <1>4, <1>5, <1>6 DEF NewJob, Closures
<1>9. Sent(new)
  BY <1>3, <1>8 DEF Sent, todo
<1>10. at' = at /\ entries' = entries
  BY <1>3 DEF still, cacheVars
<1> HIDE DEF new, applying
<1>11. CASE by = "page"
  <2>1. page' = [page EXCEPT !.dlg = applying] /\ nav' = nav /\ page.st = "ok"
    BY <1>3, <1>11 DEF SetView, View, Shown, d, applying
  <2>2. /\ page' \in PageRecs /\ page'.st = page.st /\ page'.of = page.of
        /\ page'.schema = page.schema /\ page'.late = page.late /\ page'.dlg = applying
    BY <1>2, <1>7, <2>1, PageSet
  <2>3. at.path = "schema"
    BY <1>2, <2>1, Nothings DEF PageFits
  <2>4. PageFits' /\ NavFits'
    BY <1>2, <1>5, <1>7, <1>10, <2>1, <2>2, <2>3, NoneIsNothing DEF PageFits, NavFits, NavShown
  <2> QED
    BY <1>2, <1>3, <1>5, <1>8, <1>9, <1>11, <2>1, <2>2, <2>3, <2>4, BeginsKeeps DEF ViewsOK
<1>12. CASE by = "nav"
  <2>1. nav' = [nav EXCEPT !.dlg = applying] /\ page' = page /\ NavShown
    BY <1>3, <1>12 DEF SetView, View, Shown, d, applying
  <2>2. /\ nav' \in NavRecs /\ nav'.ask = nav.ask /\ nav'.askOf = nav.askOf
        /\ nav'.busy = nav.busy /\ nav'.dlg = applying
    BY <1>2, <1>7, <2>1, NavSet
  <2>3. d.from = at.cid /\ ~d.stray
    BY <1>2, <1>3, <1>12 DEF NavFits, d, View
  <2>4. PageFits' /\ NavFits'
    BY <1>2, <1>7, <1>10, <2>1, <2>2, <2>3 DEF PageFits, NavFits, NavShown
  <2> QED
    BY <1>2, <1>3, <1>5, <1>8, <1>9, <1>12, <2>1, <2>2, <2>4, BeginsKeeps DEF ViewsOK
<1> QED
  BY <1>11, <1>12

LEMMA ConfirmKeeps ==
  ASSUME IInv, ConfirmDestructive
  PROVE  IInv'
<1> DEFINE todo == <<[do |-> nav.ask, col |-> "a", form |-> NoForm]>>
           new == NewJob("ask", nav.askOf, todo, NoForm, NoDialog, FALSE)
<1>1. Typed /\ Fits
  BY Parts
<1>2. /\ page \in PageRecs /\ nav \in NavRecs /\ PageFits /\ NavFits /\ at.cid \in Conns
      /\ gestures \in Nat
  BY <1>1, NoneIsNothing DEF Typed, ViewsOK, Fits, PlaceOK, RestOK
<1>3. /\ nav.ask # None /\ nav' = [nav EXCEPT !.busy = TRUE] /\ jobs' = jobs \cup {new}
      /\ Gesture /\ UNCHANGED <<still, page>>
  BY DEF ConfirmDestructive
<1>4. nav.askOf = at.cid
  BY <1>2, <1>3 DEF NavFits
<1>5. todo \in Seq(Statements)
  <2>1. [do |-> nav.ask, col |-> "a", form |-> NoForm] \in Statements
    BY <1>2, <1>3, Nothings DEF NavRecs, Statements, Names
  <2> QED
    BY <2>1
<1> HIDE DEF todo
<1>6. /\ new \in Closures /\ new.by = "ask" /\ new.conn = at.cid /\ new.from = at.cid
      /\ new.here = TRUE /\ new.mounted = TRUE /\ new.done = FALSE
  BY <1>2, <1>4, <1>5, Nothings DEF NewJob, Closures
<1>7. /\ nav' \in NavRecs /\ nav'.dlg = nav.dlg /\ nav'.ask = nav.ask /\ nav'.askOf = nav.askOf
  BY <1>2, <1>3 DEF NavRecs
<1>8. at' = at /\ entries' = entries
  BY <1>3 DEF still, cacheVars
<1>9. PageFits' /\ NavFits'
  BY <1>2, <1>3, <1>7, <1>8 DEF PageFits, NavFits, NavShown
<1> HIDE DEF new
<1> QED
  BY <1>2, <1>3, <1>6, <1>7, <1>9, BeginsKeeps DEF ViewsOK

-----------------------------------------------------------------------------
(* The statements, at the server.                                          *)

LEMMA EffectTyped ==
  ASSUME NEW t \in Schemas, NEW s \in Statements, Accepts(t, s)
  PROVE  Effect(t, s) \in Schemas
<1>1. t \in Tables /\ t # Gone
  BY DEF Accepts, Schemas
<1>2. s.col \in Names /\ s.form.name \in Names /\ s.form \in Forms
      /\ s.do \in {"add", "drop", "type", "modify", "rename", "truncate", "dropTable"}
  BY DEF Statements, Forms
<1>3. [type |-> s.form.type, null |-> s.form.null] \in Attrs
  BY <1>2 DEF Forms, Attrs
<1>4. t \in [Names -> Attrs \cup {None}]
  BY <1>1 DEF Tables
<1>5. CASE s.do \in {"add", "modify"}
  <2>1. [t EXCEPT ![s.col] = [type |-> s.form.type, null |-> s.form.null]] \in Tables
    BY <1>3, <1>4 DEF Tables
  <2> QED
    BY <1>5, <2>1 DEF Effect, Schemas
<1>6. CASE s.do = "drop"
  <2>1. [t EXCEPT ![s.col] = None] \in Tables
    BY <1>4 DEF Tables
  <2> QED
    BY <1>6, <2>1 DEF Effect, Schemas
<1>7. CASE s.do = "type"
  <2>2. t[s.col] # None
    BY <1>7 DEF Accepts
  <2>3. [t[s.col] EXCEPT !.type = s.form.type] \in Attrs
    BY <1>2, <1>4, <2>2 DEF Attrs, Forms
  <2>4. [t EXCEPT ![s.col].type = s.form.type] \in Tables
    BY <1>4, <2>3 DEF Tables
  <2> QED
    BY <1>7, <2>4 DEF Effect, Schemas
<1>8. CASE s.do = "rename"
  <2>1. [t EXCEPT ![s.form.name] = t[s.col], ![s.col] = None] \in Tables
    BY <1>2, <1>4 DEF Tables
  <2> QED
    BY <1>8, <2>1 DEF Effect, Schemas
<1>9. CASE s.do \in {"truncate", "dropTable"}
  BY <1>1, <1>9 DEF Effect, Schemas
<1> QED
  BY <1>2, <1>5, <1>6, <1>7, <1>8, <1>9

\* A closure that differs in what it has sent, or in whether others have.
Alike(j, k) ==
  /\ k.by = j.by /\ k.conn = j.conn /\ k.from = j.from /\ k.form = j.form /\ k.old = j.old
  /\ k.stray = j.stray /\ k.here = j.here /\ k.mounted = j.mounted

LEMMA CrossedKeeps ==
  ASSUME NEW js \in SUBSET Closures, NEW c
  PROVE  /\ Crossed(js, c) \subseteq Closures
         /\ \A k \in Crossed(js, c) : \E j \in js :
              /\ Alike(j, k) /\ k.todo = j.todo /\ k.done = j.done
              /\ k.crossed <=> j.crossed \/ j.conn = c
         /\ \A j \in js : \E k \in Crossed(js, c) : Alike(j, k) /\ k.done = j.done
<1> DEFINE mark(j) == j.crossed \/ j.conn = c
           now(j) == [j EXCEPT !.crossed = mark(j)]
<1>1. Crossed(js, c) = {now(j) : j \in js}
  BY DEF Crossed
<1>2. ASSUME NEW j \in js
      PROVE  /\ now(j) \in Closures /\ Alike(j, now(j)) /\ now(j).todo = j.todo
             /\ now(j).done = j.done /\ (now(j).crossed <=> mark(j))
  <2>1. j \in Closures /\ mark(j) \in BOOLEAN
    BY DEF Closures
  <2> HIDE DEF mark
  <2> QED
    BY <2>1 DEF Closures, Alike
<1> HIDE DEF now
<1>3. Crossed(js, c) \subseteq Closures
  BY <1>1, <1>2
<1>4. ASSUME NEW j \in js
      PROVE  now(j) \in Crossed(js, c) /\ Alike(j, now(j)) /\ now(j).done = j.done
  BY <1>1, <1>2
<1> QED
  BY <1>1, <1>2, <1>3, <1>4

\* A change of the server is one that the closures do not see.
LEMMA ServerKeeps ==
  ASSUME IInv, UNCHANGED <<at, cacheVars, calls, viewVars>>,
         \A k \in jobs' : \E j \in jobs : Alike(j, k),
         \A j \in jobs : \E k \in jobs' : Alike(j, k),
         PlaceOK', JobsOK', RestOK', EditsAreSent', CacheIsFollowed'
  PROVE  IInv'
<1>1. Typed /\ Fits
  BY Parts
<1>2. /\ UNCHANGED <<at, entries, flight, waits, calls, page, nav>>
      /\ \A c : InFlight(c)' = InFlight(c)
      /\ \A who, c : Waiting(who, c)' = Waiting(who, c)
  BY DEF cacheVars, viewVars, InFlight, Waiting
<1>3. Typed'
  BY <1>1, <1>2 DEF Typed, CacheOK, ViewsOK
<1>4. JobsAtHome'
  <2>1. ASSUME NEW k \in jobs' PROVE k.from = k.conn \/ (k.by = "page" /\ k.stray)
    <3>1. PICK j \in jobs : Alike(j, k)
      BY <2>1
    <3> QED
      BY <1>1, <3>1 DEF Fits, JobsAtHome, Alike
  <2> QED
    BY <2>1 DEF JobsAtHome
<1>5. TheLeftIsSilent'
  <2>1. ASSUME NEW k \in jobs'
        PROVE  /\ k.here => k.mounted /\ (k.by # "page" => k.conn = at.cid)
               /\ at.path # "schema" /\ k.by = "page" => ~k.mounted
    <3>1. PICK j \in jobs : Alike(j, k)
      BY <2>1
    <3> QED
      BY <1>1, <3>1 DEF Fits, TheLeftIsSilent, Alike
  <2> QED
    BY <1>1, <1>2, <2>1 DEF Fits, TheLeftIsSilent
<1>6. PageFits' /\ NavFits' /\ FlightsAreReal' /\ WaitsHaveFlights' /\ PageIsTold'
  BY <1>1, <1>2 DEF Fits, PageFits, NavFits, NavShown, FlightsAreReal, WaitsHaveFlights, PageIsTold
<1>7. DialogsAreTold' /\ AskIsTold'
  <2>1. ASSUME NEW by, \E j \in jobs : j.by = by /\ j.here
        PROVE  \E k \in jobs' : k.by = by /\ k.here
    BY <2>1 DEF Alike
  <2> QED
    BY <1>1, <1>2, <2>1 DEF Fits, DialogsAreTold, AskIsTold
<1> QED
  BY <1>3, <1>4, <1>5, <1>6, <1>7, Parts DEF Fits

\* The table of a connection changes otherwise than by a closure that waits for
\* the answer; the connection is excused.
LEMMA ElseKeeps ==
  ASSUME IInv, NEW c \in Conns, NEW t \in Schemas, server' = [server EXCEPT ![c] = t],
         jobs' = Crossed(jobs, c), excused' = excused \cup {c},
         UNCHANGED <<at, cacheVars, calls, viewVars>>, RestOK'
  PROVE  IInv'
<1>1. Typed /\ Fits
  BY Parts
<1>3. jobs \in SUBSET Closures /\ server \in [Conns -> Schemas]
  BY <1>1 DEF Typed, JobsOK, PlaceOK
<1>4. PlaceOK'
  BY <1>1, <1>3 DEF Typed, PlaceOK
<1>5. JobsOK'
  BY <1>3, CrossedKeeps DEF JobsOK
<1>7. \A d \in Conns : d # c => server'[d] = server[d]
  BY <1>3
<1>8. EditsAreSent'
  <2>1. ASSUME NEW k \in jobs', k.by # "ask" PROVE Sent(k)'
    <3>1. PICK j \in jobs : /\ Alike(j, k) /\ k.todo = j.todo /\ k.done = j.done
                            /\ k.crossed <=> j.crossed \/ j.conn = c
      BY <1>3, <2>1, CrossedKeeps
    <3>2. Sent(j) /\ j.conn \in Conns
      BY <1>1, <1>3, <2>1, <3>1, SentParts DEF Fits, Alike, Closures
    <3>3. ~k.crossed => (TypeIsChanged(j) => TypeIsChanged(k)')
      BY <1>7, <3>1, <3>2 DEF TypeIsChanged, Alike
    <3> QED
      BY <3>1, <3>2, <3>3 DEF Sent, Alike
  <2> QED
    BY <2>1, SentParts
<1>9. CacheIsFollowed'
  <2>1. UNCHANGED <<flight, entries>> /\ \A d : InFlight(d)' = InFlight(d)
    BY DEF cacheVars, InFlight
  <2>2. ASSUME NEW d PROVE Followed(d) => Followed(d)'
    <3>1. \A j \in jobs : \E k \in jobs' : Alike(j, k) /\ k.done = j.done
      BY <1>3, CrossedKeeps
    <3> QED
      BY <3>1 DEF Followed, Alike
  <2>3. Followed(c)'
    BY DEF Followed
  <2> QED
    BY <1>1, <1>7, <2>1, <2>2, <2>3 DEF Fits, CacheIsFollowed
<1>10. /\ \A k \in jobs' : \E j \in jobs : Alike(j, k)
       /\ \A j \in jobs : \E k \in jobs' : Alike(j, k)
  BY <1>3, CrossedKeeps
<1> QED
  BY <1>4, <1>5, <1>8, <1>9, <1>10, ServerKeeps

LEMMA ElsewhereKeeps ==
  ASSUME IInv, NEW c \in Conns, Elsewhere(c)
  PROVE  IInv'
<1> DEFINE b == IF server[c]["b"] = None THEN [type |-> "int", null |-> TRUE] ELSE None
           t == [server[c] EXCEPT !["b"] = b]
<1>1. Typed
  BY Parts
<1>2. /\ server[c] # Gone /\ jobs' = Crossed(jobs, c) /\ excused' = excused \cup {c}
      /\ server' = [server EXCEPT ![c] = t]
      /\ Gesture /\ UNCHANGED <<at, late, cacheVars, calls, viewVars>>
  BY DEF Elsewhere
<1>3. t \in Schemas
  <2>1. server[c] \in [Names -> Attrs \cup {None}] /\ b \in Attrs \cup {None} /\ "b" \in Names
    BY <1>1, <1>2 DEF Typed, PlaceOK, Schemas, Tables, Attrs, Names
  <2> QED
    BY <2>1 DEF Schemas, Tables
<1>4. RestOK'
  BY <1>1, <1>2, GesturesOK DEF Typed, RestOK
<1> HIDE DEF t
<1> QED
  BY <1>2, <1>3, <1>4, ElseKeeps

LEMMA LandsKeeps ==
  ASSUME IInv, NEW l \in late, Lands(l)
  PROVE  IInv'
<1> DEFINE c == l.conn
           t == Effect(server[l.conn], l.stmt)
<1>1. Typed
  BY Parts
<1>2. l.conn \in Conns /\ l.stmt \in Statements /\ server[l.conn] \in Schemas
  BY <1>1 DEF Typed, RestOK, PlaceOK, Sents
<1>3. /\ Accepts(server[c], l.stmt) /\ late' = late \ {l}
      /\ server' = [server EXCEPT ![c] = t] /\ jobs' = Crossed(jobs, c)
      /\ excused' = excused \cup {c} /\ UNCHANGED <<at, cacheVars, calls, viewVars, gestures>>
  BY DEF Lands
<1>4. t \in Schemas
  BY <1>2, <1>3, EffectTyped
<1>5. RestOK'
  BY <1>1, <1>2, <1>3 DEF Typed, RestOK
<1> HIDE DEF t, c
<1>6. c \in Conns
  BY <1>2 DEF c
<1> QED
  BY <1>3, <1>4, <1>5, <1>6, ElseKeeps

\* What an ALTER of a column's type leaves.
LEMMA TypeEffect ==
  ASSUME NEW j \in Closures, server[j.conn] \in Schemas, Accepts(server[j.conn], Build(EngineOf[j.conn], "type", j.old, j.form))
  PROVE  LET t == Effect(server[j.conn], Build(EngineOf[j.conn], "type", j.old, j.form)) IN
         /\ t \in Tables /\ t[j.old.col] # None /\ t[j.old.col].type = j.form.type
         /\ EngineOf[j.conn] = "mysql" =>
              t[j.old.col] = [type |-> j.form.type, null |-> j.form.null]
<1> DEFINE t == server[j.conn]
           s == Build(EngineOf[j.conn], "type", j.old, j.form)
           attrs == [type |-> j.form.type, null |-> j.form.null]
           typed == [t[j.old.col] EXCEPT !.type = j.form.type]
<1>1. /\ s.do = IF EngineOf[j.conn] = "mysql" THEN "modify" ELSE "type"
      /\ s.col = j.old.col /\ s.form = j.form
  BY DEF Build
<1>2. t \in [Names -> Attrs \cup {None}] /\ t[j.old.col] # None /\ j.old.col \in Names
      /\ j.form \in Forms
  BY <1>1 DEF Accepts, Schemas, Tables, Closures, Dialogs
<1>3. attrs \in Attrs /\ attrs.type = j.form.type
  BY <1>2 DEF Attrs, Forms
<1>4. typed \in Attrs /\ typed.type = j.form.type
  BY <1>2 DEF Attrs, Forms
<1> HIDE DEF t, s
<1>5. Effect(t, s) = IF EngineOf[j.conn] = "mysql"
        THEN [t EXCEPT ![j.old.col] = attrs] ELSE [t EXCEPT ![j.old.col] = typed]
  <2>1. CASE EngineOf[j.conn] = "mysql"
    <3>1. Effect(t, s) = [t EXCEPT ![s.col] = [type |-> s.form.type, null |-> s.form.null]]
      BY <1>1, <2>1 DEF Effect
    <3> QED
      BY <1>1, <2>1, <3>1
  <2>2. CASE EngineOf[j.conn] # "mysql"
    <3>1. Effect(t, s) = [t EXCEPT ![s.col].type = s.form.type]
      BY <1>1, <2>2 DEF Effect
    <3> QED
      BY <1>1, <2>2, <3>1
  <2> QED
    BY <2>1, <2>2
<1> HIDE DEF attrs, typed
<1>6. Effect(t, s) \in Tables
      /\ Effect(t, s)[j.old.col] =
           IF EngineOf[j.conn] = "mysql" THEN attrs ELSE typed
  BY <1>2, <1>3, <1>4, <1>5 DEF Tables
<1> QED
  BY <1>3, <1>4, <1>6, NoneIsNothing DEF attrs, t, s

LEMMA TailOf ==
  ASSUME NEW x, NEW y
  PROVE  /\ <<x>> # <<>> /\ Head(<<x>>) = x /\ Tail(<<x>>) = <<>>
         /\ <<x, y>> # <<>> /\ Head(<<x, y>>) = x /\ Tail(<<x, y>>) = <<y>>
         /\ Len(<<x>>) = 1 /\ Len(<<x, y>>) = 2 /\ <<x, y>>[2] = y
<1>1. Tail(<<x>>) = <<>>
  <2> DEFINE S == {x}
             s == Tail(<<x>>)
  <2>1. <<x>> \in Seq(S) /\ <<x>> # <<>> /\ Len(<<x>>) = 1
    OBVIOUS
  <2>2. s \in Seq(S) /\ Len(s) = 0
    BY <2>1, HeadTailProperties
  <2> HIDE DEF s
  <2>3. s = <<>>
    BY <2>2, EmptySeq
  <2> QED
    BY <2>3 DEF s
<1>2. Tail(<<x, y>>) = <<y>>
  <2> DEFINE S == {x, y}
             s == Tail(<<x, y>>)
             t == <<y>>
  <2>1. <<x, y>> \in Seq(S) /\ <<x, y>> # <<>> /\ Len(<<x, y>>) = 2 /\ <<x, y>>[2] = y
    OBVIOUS
  <2>2. s \in Seq(S) /\ Len(s) = 1 /\ s[1] = y
    BY <2>1, HeadTailProperties
  <2>3. t \in Seq(S) /\ Len(t) = 1 /\ t[1] = y
    OBVIOUS
  <2> HIDE DEF s, t
  <2>4. s = t
    BY <2>2, <2>3, SeqEqual
  <2> QED
    BY <2>4 DEF s, t
<1> QED
  BY <1>1, <1>2

\* What is left of a closure's statements once the server has taken the next one.
LEMMA SentNext ==
  ASSUME NEW j \in Closures, Sent(j), j.by # "ask", j.todo # <<>>,
         server[j.conn] \in Schemas, Accepts(server[j.conn], Head(j.todo)),
         server'[j.conn] = Effect(server[j.conn], Head(j.todo)),
         NEW k, Alike(j, k), k.todo = Tail(j.todo)
  PROVE  Sent(k)'
<1> DEFINE all == SqlStatements(EngineOf[j.conn], j.old, j.form)
           type == Build(EngineOf[j.conn], "type", j.old, j.form)
           rename == Build(EngineOf[j.conn], "rename", j.old, j.form)
<1>1. /\ j.old.kind # None /\ j.old \in Dialogs /\ j.form \in Forms
      /\ \/ j.todo = all /\ all # <<>>
         \/ Len(all) = 2 /\ j.todo = <<all[2]>>
  BY DEF Sent, Closures
<1>2. \/ \E x : all = <<x>>
      \/ all = <<>>
      \/ all = <<type, rename>>
  BY <1>1, SqlShape
<1>3. SqlStatements(EngineOf[k.conn], k.old, k.form) = all /\ k.old.kind # None
  BY <1>1 DEF Alike
<1> HIDE DEF all, type, rename
<1>4. Len(<<>>) = 0
  OBVIOUS
<1>5. CASE Len(all) = 2 /\ j.todo = <<all[2]>>
  <2>1. k.todo = <<>>
    BY <1>5, TailOf
  <2> QED
    BY <1>3, <2>1 DEF Sent
<1>6. CASE j.todo = all /\ \E x : all = <<x>>
  <2>1. k.todo = <<>>
    BY <1>6, TailOf
  <2> QED
    BY <1>3, <2>1 DEF Sent
<1>7. CASE j.todo = all /\ all = <<type, rename>>
  <2>1. Len(all) = 2 /\ k.todo = <<all[2]>> /\ Head(j.todo) = type
    BY <1>7, TailOf
  <2>2. TypeIsChanged(k)'
    <3>1. LET t == server'[j.conn] IN
          /\ t \in Tables /\ t[j.old.col] # None /\ t[j.old.col].type = j.form.type
          /\ EngineOf[j.conn] = "mysql" =>
               t[j.old.col] = [type |-> j.form.type, null |-> j.form.null]
      BY <2>1, TypeEffect DEF type
    <3>2. server'[j.conn] # Gone
      BY <3>1, ViewsAssumption
    <3> QED
      BY <3>1, <3>2 DEF TypeIsChanged, Alike
  <2> QED
    BY <1>3, <2>1, <2>2 DEF Sent
<1> QED
  BY <1>1, <1>2, <1>4, <1>5, <1>6, <1>7

LEMMA AcceptKeeps ==
  ASSUME IInv, NEW j \in jobs, Accept(j)
  PROVE  IInv'
<1> DEFINE c == j.conn
           left == jobs \ {j}
           new == [j EXCEPT !.todo = Tail(j.todo), !.done = TRUE]
           t == Effect(server[j.conn], Head(j.todo))
<1>1. Typed /\ Fits
  BY Parts
<1>2. jobs \in SUBSET Closures /\ server \in [Conns -> Schemas]
  BY <1>1 DEF Typed, JobsOK, PlaceOK
<1>3. /\ j.todo # <<>> /\ Accepts(server[j.conn], Head(j.todo))
      /\ server' = [server EXCEPT ![j.conn] = t] /\ jobs' = Crossed(left, c) \cup {new}
      /\ UNCHANGED <<at, late, cacheVars, calls, viewVars, excused, gestures>>
  BY DEF Accept
<1>4. j \in Closures /\ c \in Conns /\ j.todo \in Seq(Statements) /\ server[c] \in Schemas
  BY <1>2 DEF Closures
<1>5. Head(j.todo) \in Statements /\ Tail(j.todo) \in Seq(Statements)
  BY <1>3, <1>4, HeadTailProperties
<1>6. t \in Schemas
  BY <1>3, <1>4, <1>5, EffectTyped
<1>7. /\ new \in Closures /\ Alike(j, new) /\ new.todo = Tail(j.todo) /\ new.done = TRUE
      /\ new.conn = c
  BY <1>4, <1>5 DEF Closures, Alike
<1> HIDE DEF new, t
<1>8. PlaceOK' /\ server'[c] = t /\ \A d \in Conns : d # c => server'[d] = server[d]
  BY <1>1, <1>2, <1>3, <1>4, <1>6 DEF Typed, PlaceOK
<1>9. left \in SUBSET Closures
  BY <1>2
<1>10. /\ Crossed(left, c) \subseteq Closures
       /\ \A k \in Crossed(left, c) : \E i \in left :
            /\ Alike(i, k) /\ k.todo = i.todo /\ k.done = i.done
            /\ k.crossed <=> i.crossed \/ i.conn = c
       /\ \A i \in left : \E k \in Crossed(left, c) : Alike(i, k) /\ k.done = i.done
  BY <1>9, CrossedKeeps
<1>11. JobsOK' /\ RestOK'
  BY <1>1, <1>3, <1>7, <1>10 DEF JobsOK, RestOK, Typed
<1>12. /\ \A k \in jobs' : \E i \in jobs : Alike(i, k)
       /\ \A i \in jobs : \E k \in jobs' : Alike(i, k)
  BY <1>3, <1>7, <1>10
<1>13. EditsAreSent'
  <2>1. ASSUME NEW k \in Crossed(left, c), k.by # "ask" PROVE Sent(k)'
    <3>1. PICK i \in left : /\ Alike(i, k) /\ k.todo = i.todo /\ k.done = i.done
                            /\ k.crossed <=> i.crossed \/ i.conn = c
      BY <1>10
    <3>2. Sent(i) /\ i.conn \in Conns
      BY <1>1, <1>2, <2>1, <3>1, SentParts DEF Fits, Alike, Closures
    <3>3. ~k.crossed => (TypeIsChanged(i) => TypeIsChanged(k)')
      BY <1>8, <3>1, <3>2 DEF TypeIsChanged, Alike
    <3> QED
      BY <3>1, <3>2, <3>3 DEF Sent, Alike
  <2>2. ASSUME new.by # "ask" PROVE Sent(new)'
    <3>1. Sent(j) /\ j.by # "ask"
      BY <1>1, <1>7, <2>2, SentParts DEF Fits, Alike
    <3> QED
      BY <1>3, <1>4, <1>7, <1>8, <3>1, SentNext DEF t
  <2>3. ASSUME NEW k \in jobs', k.by # "ask" PROVE Sent(k)'
    BY <1>3, <2>1, <2>2, <2>3
  <2> QED
    BY <2>3, SentParts
<1>14. CacheIsFollowed'
  <2>1. UNCHANGED <<flight, entries>> /\ \A d : InFlight(d)' = InFlight(d)
    BY <1>3 DEF cacheVars, InFlight
  <2>2. Followed(c)'
    BY <1>3, <1>7 DEF Followed
  <2>3. ASSUME NEW d, d # c PROVE Followed(d) => Followed(d)'
    <3>1. ASSUME NEW i \in jobs, i.conn = d, i.done PROVE \E k \in jobs' : k.conn = d /\ k.done
      <4>1. i \in left
        BY <2>3, <3>1
      <4> QED
        BY <1>3, <1>10, <3>1, <4>1 DEF Alike
    <3> QED
      BY <1>3, <3>1 DEF Followed
  <2> QED
    BY <1>1, <1>8, <2>1, <2>2, <2>3 DEF Fits, CacheIsFollowed
<1> QED
  BY <1>3, <1>8, <1>11, <1>12, <1>13, <1>14, ServerKeeps

LEMMA RefuseKeeps ==
  ASSUME IInv, NEW j \in jobs, NEW lost \in BOOLEAN, Refuse(j, lost)
  PROVE  IInv'
<1> DEFINE left == jobs \ {j}
<1>1. Typed /\ Fits
  BY Parts
<1>2. /\ page \in PageRecs /\ nav \in NavRecs /\ PageFits /\ NavFits /\ j \in Closures
      /\ jobs \in SUBSET Closures
  BY <1>1 DEF Typed, ViewsOK, JobsOK, Fits
<1>3. /\ jobs' = left /\ UNCHANGED <<at, server, cacheVars, calls, gestures>>
      /\ late' = IF lost THEN late \cup {[conn |-> j.conn, stmt |-> Head(j.todo)]} ELSE late
      /\ j.todo # <<>>
      /\ excused' = IF j.done THEN excused \cup {j.conn} ELSE excused
  BY DEF Refuse
<1>4. /\ UNCHANGED <<at, server, entries, flight, waits, calls>>
      /\ \A c : InFlight(c)' = InFlight(c)
      /\ \A who, c : Waiting(who, c)' = Waiting(who, c)
  BY <1>3 DEF cacheVars, InFlight, Waiting
<1>5. Quieter(left, jobs') /\ left \in SUBSET jobs
  BY <1>2, <1>3, QuieterSelf
<1>6. JobsOK' /\ JobsAtHome' /\ EditsAreSent'
  BY <1>1, <1>4, <1>5, WorkStays DEF Fits
<1>7. TheLeftIsSilent'
  BY <1>1, <1>4, <1>5, SilenceStays DEF Fits
<1>8. CacheIsFollowed' /\ FlightsAreReal' /\ WaitsHaveFlights' /\ RestOK' /\ PlaceOK' /\ CacheOK'
  <2>1. ASSUME NEW c PROVE Followed(c) => Followed(c)'
    BY <1>3 DEF Followed
  <2>2. j.conn \in Conns /\ Head(j.todo) \in Statements
    <3>1. j.todo \in Seq(Statements) /\ j.conn \in Conns
      BY <1>2 DEF Closures
    <3> QED
      BY <1>3, <3>1, HeadTailProperties
  <2>3. RestOK' /\ PlaceOK' /\ CacheOK'
    BY <1>1, <1>3, <1>4, <2>2 DEF Typed, RestOK, PlaceOK, CacheOK, Sents
  <2> QED
    BY <1>1, <1>4, <2>1, <2>3 DEF Fits, CacheIsFollowed, FlightsAreReal, WaitsHaveFlights
<1>9. CASE ~j.here
  <2>1. page' = page /\ nav' = nav
    BY <1>9 DEF Refuse, viewVars
  <2>2. PageFits' /\ NavFits' /\ PageIsTold' /\ ViewsOK'
    BY <1>1, <1>2, <1>4, <2>1 DEF Fits, PageFits, NavFits, NavShown, PageIsTold, ViewsOK
  <2>3. DialogsAreTold' /\ AskIsTold'
    BY <1>1, <1>3, <1>4, <1>9, <2>1 DEF Fits, DialogsAreTold, AskIsTold
  <2> QED
    BY <1>1, <1>3, <1>4, <1>6, <1>7, <1>8, <2>2, <2>3, Parts
       DEF Typed, Fits
<1>10. CASE j.here /\ j.by = "ask"
  <2>1. page' = page /\ nav' = [nav EXCEPT !.busy = FALSE]
    BY <1>10 DEF Refuse
  <2>2. /\ nav' \in NavRecs /\ nav'.dlg = nav.dlg /\ nav'.ask = nav.ask
        /\ nav'.askOf = nav.askOf /\ nav'.busy = FALSE
    BY <1>2, <2>1 DEF NavRecs
  <2>3. PageFits' /\ NavFits' /\ PageIsTold' /\ ViewsOK'
    BY <1>1, <1>2, <1>4, <2>1, <2>2 DEF Fits, PageFits, NavFits, NavShown, PageIsTold, ViewsOK
  <2>4. DialogsAreTold' /\ AskIsTold'
    BY <1>1, <1>3, <1>4, <1>10, <2>1, <2>2 DEF Fits, DialogsAreTold, AskIsTold
  <2> QED
    BY <1>1, <1>2, <1>3, <1>4, <1>6, <1>7, <1>8, <2>3, <2>4, Parts
       DEF Typed, Fits
<1> DEFINE said(d) == [d EXCEPT !.st = IF d.kind = None THEN "form" ELSE "error"]
<1>11. ASSUME NEW d \in Dialogs
       PROVE  /\ said(d) \in Dialogs /\ said(d).kind = d.kind /\ said(d).from = d.from
              /\ said(d).stray = d.stray /\ said(d).st # "applying"
              /\ d = NoDialog => said(d) = NoDialog
  <2>1. ASSUME NEW x \in {"form", "error"}
        PROVE  LET e == [d EXCEPT !.st = x] IN
               /\ e \in Dialogs /\ e.kind = d.kind /\ e.from = d.from /\ e.stray = d.stray
               /\ e.st = x
    BY DEF Dialogs
  <2>2. [NoDialog EXCEPT !.st = "form"] = NoDialog
    BY Nothings DEF Dialogs
  <2>3. CASE d.kind = None
    BY <2>1, <2>2, <2>3
  <2>4. CASE d.kind # None
    BY <2>1, <2>4, Nothings
  <2> QED
    BY <2>3, <2>4
<1>12. CASE j.here /\ j.by = "page"
  <2>1. page' = [page EXCEPT !.dlg = said(page.dlg)] /\ nav' = nav
    BY <1>12 DEF Refuse, SetView, View
  <2>2. page.dlg \in Dialogs
    BY <1>2 DEF PageRecs
  <2>3. /\ said(page.dlg) \in Dialogs /\ said(page.dlg).kind = page.dlg.kind
        /\ said(page.dlg).from = page.dlg.from /\ said(page.dlg).stray = page.dlg.stray
        /\ said(page.dlg).st # "applying"
        /\ page.dlg = NoDialog => said(page.dlg) = NoDialog
    BY <1>11, <2>2
  <2> HIDE DEF said
  <2>4. /\ page' \in PageRecs /\ page'.st = page.st /\ page'.of = page.of
        /\ page'.schema = page.schema /\ page'.late = page.late
        /\ page'.dlg = said(page.dlg)
    BY <1>2, <2>1, <2>3, PageSet
  <2>5. at.path = "schema"
    BY <1>1, <1>12 DEF Fits, TheLeftIsSilent
  <2>6. PageFits' /\ NavFits' /\ PageIsTold' /\ ViewsOK'
    BY <1>1, <1>2, <1>4, <2>1, <2>3, <2>4, <2>5
       DEF Fits, PageFits, NavFits, NavShown, PageIsTold, ViewsOK
  <2>7. DialogsAreTold' /\ AskIsTold'
    BY <1>1, <1>3, <1>4, <1>12, <2>1, <2>3, <2>4 DEF Fits, DialogsAreTold, AskIsTold
  <2> QED
    BY <1>1, <1>2, <1>3, <1>4, <1>6, <1>7, <1>8, <2>6, <2>7, Parts
       DEF Typed, Fits
<1>13. CASE j.here /\ j.by = "nav"
  <2>1. nav' = [nav EXCEPT !.dlg = said(nav.dlg)] /\ page' = page
    BY <1>13 DEF Refuse, SetView, View
  <2>2. nav.dlg \in Dialogs
    BY <1>2 DEF NavRecs
  <2>3. /\ said(nav.dlg) \in Dialogs /\ said(nav.dlg).kind = nav.dlg.kind
        /\ said(nav.dlg).from = nav.dlg.from /\ said(nav.dlg).stray = nav.dlg.stray
        /\ said(nav.dlg).st # "applying"
        /\ nav.dlg = NoDialog => said(nav.dlg) = NoDialog
    BY <1>11, <2>2
  <2> HIDE DEF said
  <2>4. /\ nav' \in NavRecs /\ nav'.ask = nav.ask /\ nav'.askOf = nav.askOf
        /\ nav'.busy = nav.busy /\ nav'.dlg = said(nav.dlg)
    BY <1>2, <2>1, <2>3, NavSet
  <2>6. PageFits' /\ NavFits' /\ PageIsTold' /\ ViewsOK'
    BY <1>1, <1>2, <1>4, <2>1, <2>3, <2>4
       DEF Fits, PageFits, NavFits, NavShown, PageIsTold, ViewsOK
  <2>7. DialogsAreTold' /\ AskIsTold'
    BY <1>1, <1>3, <1>4, <1>13, <2>1, <2>3, <2>4 DEF Fits, DialogsAreTold, AskIsTold
  <2> QED
    BY <1>1, <1>2, <1>3, <1>4, <1>6, <1>7, <1>8, <2>6, <2>7, Parts
       DEF Typed, Fits
<1> QED
  BY <1>2, <1>9, <1>10, <1>12, <1>13 DEF Closures

-----------------------------------------------------------------------------
(* Loads.                                                                  *)

LEMMA IntrospectKeeps ==
  ASSUME IInv, NEW c \in Conns, Introspect(c)
  PROVE  IInv'
<1>1. Typed /\ Fits
  BY Parts
<1>2. /\ flight[c].st = "asked" /\ flight' = [flight EXCEPT ![c] = [st |-> "read", saw |-> server[c]]]
      /\ UNCHANGED <<at, server, late, entries, waits, calls, page, nav, jobs, excused, gestures>>
  BY DEF Introspect, viewVars
<1>3. flight \in [Conns -> Flights] /\ server \in [Conns -> Schemas]
  BY <1>1 DEF Typed, CacheOK, PlaceOK
<1>4. [st |-> "read", saw |-> server[c]] \in Flights
  BY <1>3 DEF Flights
<1>5. /\ flight' \in [Conns -> Flights] /\ flight'[c].st = "read" /\ flight'[c].saw = server[c]
      /\ \A d \in Conns : d # c => flight'[d] = flight[d]
  BY <1>2, <1>3, <1>4
<1>6. /\ \A d \in Conns : InFlight(d)' <=> InFlight(d)
      /\ \A d : Followed(d)' = Followed(d)
      /\ \A who, d : Waiting(who, d)' = Waiting(who, d)
  BY <1>2, <1>5 DEF InFlight, Followed, Waiting
<1>7. Typed'
  BY <1>1, <1>2, <1>5 DEF Typed, PlaceOK, CacheOK, ViewsOK, JobsOK, RestOK
<1>8. JobsAtHome' /\ EditsAreSent'
  BY <1>1, <1>2, WorkStays, QuieterSelf DEF Fits, Typed, JobsOK
<1>9. PageFits' /\ NavFits' /\ TheLeftIsSilent' /\ DialogsAreTold'
  BY <1>1, <1>2 DEF Fits, PageFits, NavFits, NavShown, TheLeftIsSilent, DialogsAreTold
<1>10. PageIsTold' /\ AskIsTold'
  BY <1>1, <1>2, <1>6 DEF Fits, PageIsTold, AskIsTold
<1>11. WaitsHaveFlights'
  BY <1>1, <1>2, <1>6 DEF Fits, WaitsHaveFlights, Typed, CacheOK, Waits
<1>12. FlightsAreReal'
  BY <1>1, <1>3, <1>5, NoneIsNothing DEF Fits, FlightsAreReal
<1>13. CacheIsFollowed'
  BY <1>1, <1>2, <1>5, <1>6 DEF Fits, CacheIsFollowed
<1> QED
  BY <1>7, <1>8, <1>9, <1>10, <1>11, <1>12, <1>13, Parts DEF Fits

\* A step through the cache, after which a view may have lost its dialog, and a
\* closure its place.
LEMMA CacheKeeps ==
  ASSUME IInv, at' = at, server' = server,
         NEW js \in SUBSET jobs, jobs' = Hidden(js, page', entries'),
         CacheOK', ViewsOK', RestOK', PageFits', NavFits', PageIsTold',
         FlightsAreReal', WaitsHaveFlights', CacheIsFollowed',
         page'.dlg.st = "applying" => page.dlg.st = "applying" /\ page'.st = "ok",
         nav'.dlg.st = "applying" => nav.dlg.st = "applying" /\ entries'[at.cid] # None,
         nav'.busy => nav.busy /\ (Waiting("ask", at.cid) => Waiting("ask", at.cid)'),
         \A j \in jobs \ js : j.here =>
           /\ j.by = "page" => page'.dlg.st # "applying"
           /\ j.by = "nav" => nav'.dlg.st # "applying"
           /\ j.by = "ask" => ~nav'.busy \/ Waiting("ask", at.cid)',
         at.path # "schema" => /\ \A w \in waits' \ waits : w.who # "page"
                               /\ \A k \in calls' \ calls : ~k.here
  PROVE  IInv'
<1>1. Typed /\ Fits
  BY Parts
<1>2. jobs \in SUBSET Closures /\ js \in SUBSET Closures
  BY <1>1 DEF Typed, JobsOK
<1>3. Quieter(js, jobs')
  BY <1>2, HiddenQuiets
<1>4. JobsOK' /\ JobsAtHome' /\ EditsAreSent'
  BY <1>1, <1>3, WorkStays DEF Fits
<1>5. TheLeftIsSilent'
  BY <1>1, <1>3, SilenceStays DEF Fits
<1>6. DialogsAreTold'
  BY <1>1, DialogsStayTold DEF Fits, Typed
<1>7. AskIsTold'
  <2>1. Waiting("ask", at.cid)' <=> [who |-> "ask", conn |-> at.cid] \in waits'
    BY DEF Waiting
  <2>2. CASE ~nav'.busy
    BY <2>2 DEF AskIsTold
  <2>3. CASE Waiting("ask", at.cid)'
    BY <2>1, <2>3 DEF AskIsTold, Waiting
  <2>4. CASE nav'.busy /\ ~Waiting("ask", at.cid)'
    <3>1. nav.busy /\ ~Waiting("ask", at.cid) /\ \A j \in jobs \ js : ~(j.by = "ask" /\ j.here)
      BY <2>4
    <3> QED
      BY <1>1, <2>4, <3>1, AskStaysTold DEF Fits, Typed
  <2> QED
    BY <2>2, <2>3, <2>4
<1>8. Typed'
  BY <1>1, <1>4 DEF Typed, PlaceOK
<1> QED
  BY <1>4, <1>5, <1>6, <1>7, <1>8, Parts DEF Fits

\* The cache after a load(true).
LEMMA ForcedOK ==
  ASSUME IInv, NEW c \in Conns, NEW who \in {"page", "ask", "gone"},
         entries' = Dropped(c) \/ entries' = entries, flight' = Asked(c),
         waits' = waits \cup {[who |-> who, conn |-> c]}, calls' \subseteq calls
  PROVE  /\ CacheOK' /\ WaitsHaveFlights' /\ InFlight(c)'
         /\ \A d \in Conns : flight'[d] = flight[d] \/ flight'[d].st = "asked"
         /\ \A d \in Conns : entries'[d] \in {entries[d], None}
         /\ flight'[c].st = "read" => flight'[c] = flight[c]
         /\ entries' = Dropped(c) => entries'[c] = None
<1>1. Typed /\ Fits
  BY Parts
<1>2. /\ flight \in [Conns -> Flights] /\ entries \in [Conns -> Schemas \cup {None}]
      /\ waits \subseteq Waits /\ calls \subseteq Calls
  BY <1>1 DEF Typed, CacheOK
<1> DEFINE fl == [st |-> "asked", saw |-> None]
<1>3. fl \in Flights /\ fl.st = "asked"
  BY DEF Flights
<1> HIDE DEF fl
<1>4. flight' = IF InFlight(c) THEN flight ELSE [flight EXCEPT ![c] = fl]
  BY DEF Asked, fl
<1>5. /\ flight' \in [Conns -> Flights] /\ InFlight(c)'
      /\ \A d \in Conns : flight'[d] = flight[d] \/ flight'[d].st = "asked"
      /\ \A d \in Conns : InFlight(d) => InFlight(d)'
  BY <1>2, <1>3, <1>4 DEF InFlight
<1>6. /\ entries' \in [Conns -> Schemas \cup {None}]
      /\ \A d \in Conns : entries'[d] \in {entries[d], None}
      /\ entries' = Dropped(c) => entries'[c] = None
  BY <1>2 DEF Dropped
<1>7. waits' \subseteq Waits /\ \A w \in waits' : w \in waits \/ w.conn = c
  BY <1>2 DEF Waits
<1>8. CacheOK'
  BY <1>2, <1>5, <1>6, <1>7 DEF CacheOK
<1>9. WaitsHaveFlights'
  <2>1. ASSUME NEW w \in waits' PROVE InFlight(w.conn)'
    <3>1. CASE w.conn = c
      BY <1>5, <3>1
    <3>2. CASE w.conn # c
      BY <1>1, <1>2, <1>5, <1>7, <3>2 DEF Fits, WaitsHaveFlights, Waits
    <3> QED
      BY <3>1, <3>2
  <2> QED
    BY <2>1 DEF WaitsHaveFlights
<1> QED
  BY <1>3, <1>5, <1>6, <1>8, <1>9

LEMMA ForceKeeps ==
  ASSUME IInv, NEW c \in Conns, NEW here \in BOOLEAN, here => at.path = "schema",
         entries' = Dropped(c), flight' = Asked(c),
         waits' = waits \cup {[who |-> IF here THEN "page" ELSE "gone", conn |-> c]},
         page' = IF here THEN PageOn([page EXCEPT !.st = "loading"]) ELSE page,
         excused' = IF JoinsOld(c) THEN excused \cup {c} ELSE excused,
         at' = at, server' = server, late' = late, nav' = NavOn(nav, entries'),
         jobs' = Hidden(jobs, page', entries'), gestures' \in 0..MaxGestures,
         calls' \subseteq calls, \A k \in calls \ calls' : k.here => here
  PROVE  IInv'
<1>1. Typed /\ Fits
  BY Parts
<1>2. /\ page \in PageRecs /\ nav \in NavRecs /\ PageFits /\ NavFits /\ jobs \in SUBSET Closures
      /\ at.cid \in Conns
  BY <1>1 DEF Typed, ViewsOK, JobsOK, Fits, PlaceOK
<1> DEFINE who == IF here THEN "page" ELSE "gone"
<1>3. waits' = waits \cup {[who |-> who, conn |-> c]} /\ who \in {"page", "ask", "gone"}
  OBVIOUS
<1>4. /\ CacheOK' /\ WaitsHaveFlights'
      /\ \A d \in Conns : flight'[d] = flight[d] \/ flight'[d].st = "asked"
      /\ \A d \in Conns : entries'[d] \in {entries[d], None}
  BY <1>3, ForcedOK
<1>5. RestOK'
  BY <1>1, <1>3 DEF Typed, RestOK
<1>6. ASSUME NEW d \in Conns PROVE Followed(d) => Followed(d)'
  <2>1. Quieter(jobs, jobs')
    BY <1>2, HiddenQuiets
  <2>2. d \in excused => d \in excused'
    BY <1>3
  <2> QED
    BY <2>1, <2>2, FollowedStays
<1>7. CacheIsFollowed' /\ FlightsAreReal'
  BY <1>1, <1>4, <1>6, CacheStays DEF Fits
<1>8. /\ page' \in PageRecs
      /\ IF here THEN page'.st = "loading" /\ page'.dlg = NoDialog ELSE page' = page
  <2>1. CASE here
    <3>1. [page EXCEPT !.st = "loading"] \in PageRecs /\ [page EXCEPT !.st = "loading"].st = "loading"
      BY <1>2 DEF PageRecs
    <3> QED
      BY <1>3, <2>1, <3>1, PageOnKeeps
  <2> QED
    BY <1>2, <1>3, <2>1
<1>9. /\ nav' \in NavRecs /\ nav'.ask = nav.ask /\ nav'.askOf = nav.askOf /\ nav'.busy = nav.busy
      /\ IF entries'[at.cid] = None THEN nav'.dlg = NoDialog ELSE nav' = nav
  BY <1>2, NavOnKeeps
<1>10. PageFits' /\ NavFits'
  BY <1>2, <1>8, <1>9, Nothings DEF PageFits, NavFits, NavShown
<1>11. PageIsTold'
  <2>1. CASE here
    BY <1>3, <2>1 DEF PageIsTold, Waiting
  <2>2. CASE ~here
    <3>1. \A d : Waiting("page", d) => Waiting("page", d)'
      BY <1>3 DEF Waiting
    <3>2. \A k \in calls : k.here => k \in calls'
      BY <2>2
    <3> QED
      BY <1>1, <1>8, <2>2, <3>1, <3>2 DEF Fits, PageIsTold
  <2> QED
    BY <2>1, <2>2
<1>12. /\ page'.dlg.st = "applying" => page.dlg.st = "applying" /\ page'.st = "ok"
       /\ nav'.dlg.st = "applying" => nav.dlg.st = "applying" /\ entries'[at.cid] # None
  BY <1>2, <1>8, <1>9, Nothings DEF PageFits
<1>13. Waiting("ask", at.cid) => Waiting("ask", at.cid)'
  BY <1>3 DEF Waiting
<1>14. at.path # "schema" => /\ \A w \in waits' \ waits : w.who # "page"
                             /\ \A k \in calls' \ calls : ~k.here
  BY <1>3
<1> QED
  BY <1>4, <1>5, <1>7, <1>8, <1>9, <1>10, <1>11, <1>12, <1>13, <1>14, CacheKeeps DEF ViewsOK

LEMMA LoadAnewKeeps ==
  ASSUME IInv, Refresh \/ \E k \in calls : Reconnected(k)
  PROVE  IInv'
<1>1. Typed /\ Fits
  BY Parts
<1>2. gestures \in 0..MaxGestures /\ at.cid \in Conns /\ calls \subseteq Calls
  BY <1>1 DEF Typed, RestOK, PlaceOK, CacheOK
<1>3. CASE Refresh
  <2>1. /\ at.path = "schema" /\ entries' = Dropped(at.cid) /\ flight' = Asked(at.cid)
        /\ waits' = waits \cup {[who |-> "page", conn |-> at.cid]}
        /\ page' = PageOn([page EXCEPT !.st = "loading"])
        /\ excused' = IF JoinsOld(at.cid) THEN excused \cup {at.cid} ELSE excused
        /\ nav' = NavOn(nav, entries')
        /\ jobs' = Hidden(jobs, page', entries') /\ Gesture /\ at' = at /\ server' = server /\ late' = late
        /\ calls' = calls
    BY <1>3 DEF Refresh, LoadForced
  <2>2. gestures' \in 0..MaxGestures
    BY <1>2, <2>1, GesturesOK
  <2> QED
    BY <1>2, <2>1, <2>2, ForceKeeps
<1>4. ASSUME NEW k \in calls, Reconnected(k) PROVE IInv'
  <2>1. /\ entries' = Dropped(k.conn) /\ flight' = Asked(k.conn)
        /\ waits' = waits \cup {[who |-> IF k.here THEN "page" ELSE "gone", conn |-> k.conn]}
        /\ page' = IF k.here THEN PageOn([page EXCEPT !.st = "loading"]) ELSE page
        /\ excused' = IF JoinsOld(k.conn) THEN excused \cup {k.conn} ELSE excused
        /\ calls' = calls \ {k} /\ nav' = NavOn(nav, entries')
        /\ jobs' = Hidden(jobs, page', entries') /\ at' = at /\ server' = server /\ late' = late
        /\ gestures' = gestures
    BY <1>4 DEF Reconnected, LoadForced
  <2>2. k.conn \in Conns /\ k.here \in BOOLEAN
    BY <1>2 DEF Calls
  <2>3. k.here => at.path = "schema"
    BY <1>1 DEF Fits, TheLeftIsSilent
  <2> QED
    BY <1>2, <2>1, <2>2, <2>3, ForceKeeps
<1> QED
  BY <1>3, <1>4

LEMMA ReconnectKeeps ==
  ASSUME IInv, Reconnect
  PROVE  IInv'
<1>1. Typed /\ Fits
  BY Parts
<1>2. /\ page \in PageRecs /\ nav \in NavRecs /\ PageFits /\ NavFits /\ jobs \in SUBSET Closures
      /\ at.cid \in Conns
  BY <1>1 DEF Typed, ViewsOK, JobsOK, Fits, PlaceOK
<1>3. /\ at.path = "schema" /\ page' = PageOn([page EXCEPT !.st = "loading"])
      /\ calls' = calls \cup {[conn |-> at.cid, here |-> TRUE]}
      /\ jobs' = Hidden(jobs, page', entries) /\ Gesture
      /\ UNCHANGED <<at, server, late, entries, flight, waits, nav, excused>>
  BY DEF Reconnect, cacheVars
<1>4. /\ \A c : InFlight(c)' = InFlight(c)
      /\ \A who, c : Waiting(who, c)' = Waiting(who, c)
  BY <1>3 DEF InFlight, Waiting
<1>5. CacheOK' /\ WaitsHaveFlights'
  <2>1. [conn |-> at.cid, here |-> TRUE] \in Calls
    BY <1>2 DEF Calls
  <2>2. CacheOK'
    BY <1>1, <1>3, <2>1 DEF Typed, CacheOK
  <2> QED
    BY <1>1, <1>3, <1>4, <2>2 DEF Fits, WaitsHaveFlights
<1>6. RestOK'
  BY <1>1, <1>3, GesturesOK DEF Typed, RestOK
<1>7. jobs' = Hidden(jobs, page', entries')
  BY <1>3
<1>8. ASSUME NEW d PROVE Followed(d) => Followed(d)'
  <2>1. Quieter(jobs, jobs')
    BY <1>2, <1>7, HiddenQuiets
  <2> QED
    BY <1>3, <2>1, FollowedStays
<1>9. CacheIsFollowed' /\ FlightsAreReal'
  BY <1>1, <1>3, <1>8, CacheStays DEF Fits
<1>10. page' \in PageRecs /\ page'.st = "loading" /\ page'.dlg = NoDialog
  <2>1. [page EXCEPT !.st = "loading"] \in PageRecs /\ [page EXCEPT !.st = "loading"].st = "loading"
    BY <1>2 DEF PageRecs
  <2> QED
    BY <1>3, <2>1, PageOnKeeps
<1>11. PageFits' /\ NavFits'
  BY <1>2, <1>3, <1>10, Nothings DEF PageFits, NavFits, NavShown
<1>12. PageIsTold'
  <2> DEFINE k == [conn |-> at.cid, here |-> TRUE]
  <2>1. k \in calls' /\ k.here
    BY <1>3
  <2> QED
    BY <2>1 DEF PageIsTold
<1>13. /\ page'.dlg.st # "applying"
       /\ nav'.dlg.st = "applying" => nav.dlg.st = "applying" /\ entries'[at.cid] # None
  BY <1>2, <1>3, <1>10, Nothings DEF NavFits, NavShown
<1> QED
  BY <1>3, <1>4, <1>5, <1>6, <1>7, <1>9, <1>10, <1>11, <1>12, <1>13, <1>2, CacheKeeps DEF ViewsOK

LEMMA InvalidateKeeps ==
  ASSUME IInv, NEW c \in Conns, Invalidate(c)
  PROVE  IInv'
<1>1. Typed /\ Fits
  BY Parts
<1>2. /\ page \in PageRecs /\ nav \in NavRecs /\ PageFits /\ NavFits /\ jobs \in SUBSET Closures
      /\ entries \in [Conns -> Schemas \cup {None}]
  BY <1>1 DEF Typed, ViewsOK, JobsOK, Fits, CacheOK
<1>3. /\ entries' = Dropped(c) /\ nav' = NavOn(nav, entries')
      /\ jobs' = Hidden(jobs, page, entries') /\ Gesture
      /\ UNCHANGED <<at, server, late, flight, waits, calls, page, excused>>
  BY DEF Invalidate
<1>4. /\ \A d : InFlight(d)' = InFlight(d)
      /\ \A who, d : Waiting(who, d)' = Waiting(who, d)
  BY <1>3 DEF InFlight, Waiting
<1>5. /\ entries' \in [Conns -> Schemas \cup {None}]
      /\ \A d \in Conns : entries'[d] \in {entries[d], None}
  BY <1>2, <1>3 DEF Dropped
<1>6. CacheOK' /\ WaitsHaveFlights'
  BY <1>1, <1>3, <1>4, <1>5 DEF Typed, CacheOK, Fits, WaitsHaveFlights
<1>7. RestOK'
  BY <1>1, <1>3, GesturesOK DEF Typed, RestOK
<1>8. jobs' = Hidden(jobs, page', entries')
  BY <1>3
<1>9. ASSUME NEW d PROVE Followed(d) => Followed(d)'
  <2>1. Quieter(jobs, jobs')
    BY <1>2, <1>8, HiddenQuiets
  <2> QED
    BY <1>3, <2>1, FollowedStays
<1>10. CacheIsFollowed' /\ FlightsAreReal'
  BY <1>1, <1>3, <1>5, <1>9, CacheStays DEF Fits
<1>11. /\ nav' \in NavRecs /\ nav'.ask = nav.ask /\ nav'.askOf = nav.askOf /\ nav'.busy = nav.busy
       /\ IF entries'[at.cid] = None THEN nav'.dlg = NoDialog ELSE nav' = nav
  BY <1>2, <1>3, NavOnKeeps
<1>12. PageFits' /\ NavFits' /\ PageIsTold'
  BY <1>1, <1>2, <1>3, <1>4, <1>11, Nothings DEF PageFits, NavFits, NavShown, Fits, PageIsTold
<1>13. /\ page'.dlg.st = "applying" => page.dlg.st = "applying" /\ page'.st = "ok"
       /\ nav'.dlg.st = "applying" => nav.dlg.st = "applying" /\ entries'[at.cid] # None
  BY <1>2, <1>3, <1>11, Nothings DEF PageFits
<1> QED
  BY <1>2, <1>3, <1>4, <1>6, <1>7, <1>8, <1>10, <1>11, <1>12, <1>13, CacheKeeps DEF ViewsOK

-----------------------------------------------------------------------------
(* The end of a request.                                                   *)

\* What the end of request c leaves, whatever it was.
LEMMA SettleKeeps ==
  ASSUME IInv, NEW c \in Conns, NEW p \in PageRecs, NEW n \in NavRecs,
         page' = PageOn(p), jobs' = Hidden(jobs, page', entries'),
         nav' = NavOn(IF Waiting("ask", c)
                      THEN [n EXCEPT !.ask = None, !.askOf = None, !.busy = FALSE] ELSE n, entries'),
         flight' = [flight EXCEPT ![c] = NoFlight], waits' = {w \in waits : w.conn # c},
         UNCHANGED <<at, server, late, calls, gestures>>,
         CacheIsFollowed', excused' \subseteq Conns,
         entries' \in [Conns -> Schemas \cup {None}],
         n.ask = nav.ask /\ n.askOf = nav.askOf /\ n.busy = nav.busy /\ n.dlg = nav.dlg,
         p.dlg = page.dlg,
         IF Waiting("page", c)
           THEN p.st \in {"ok", "error"} /\
                (p.st = "ok" => p.schema # None /\ p.of # None /\ (p.of = at.cid \/ p.late))
           ELSE p = page
  PROVE  IInv'
<1>1. Typed /\ Fits
  BY Parts
<1>2. /\ page \in PageRecs /\ nav \in NavRecs /\ PageFits /\ NavFits /\ jobs \in SUBSET Closures
      /\ at.cid \in Conns /\ flight \in [Conns -> Flights] /\ waits \subseteq Waits
      /\ calls \subseteq Calls
  BY <1>1 DEF Typed, ViewsOK, JobsOK, Fits, PlaceOK, CacheOK
<1> DEFINE m == IF Waiting("ask", c) THEN [n EXCEPT !.ask = None, !.askOf = None, !.busy = FALSE] ELSE n
<1>3. /\ page' = PageOn(p) /\ nav' = NavOn(m, entries')
      /\ jobs' = Hidden(jobs, page', entries') /\ flight' = [flight EXCEPT ![c] = NoFlight]
      /\ waits' = {w \in waits : w.conn # c} /\ UNCHANGED <<at, server, late, calls, gestures>>
  OBVIOUS
<1>4. /\ m \in NavRecs /\ m.dlg = nav.dlg
      /\ IF Waiting("ask", c) THEN m.ask = None /\ ~m.busy
         ELSE m.ask = nav.ask /\ m.askOf = nav.askOf /\ m.busy = nav.busy
  BY DEF NavRecs
<1> HIDE DEF m
<1>5. /\ nav' \in NavRecs /\ nav'.ask = m.ask /\ nav'.askOf = m.askOf /\ nav'.busy = m.busy
      /\ IF entries'[at.cid] = None THEN nav'.dlg = NoDialog ELSE nav'.dlg = m.dlg
  <2>1. nav' = NavOn(m, entries') /\ m \in NavRecs
    BY <1>3, <1>4
  <2> DEFINE q == NavOn(m, entries')
  <2>2. /\ q \in NavRecs /\ q.ask = m.ask /\ q.askOf = m.askOf /\ q.busy = m.busy
        /\ IF entries'[at.cid] = None THEN q.dlg = NoDialog ELSE q = m
    BY <2>1, NavOnKeeps
  <2> HIDE DEF q
  <2>3. nav' = q
    BY <2>1 DEF q
  <2> QED
    BY <2>2, <2>3
<1>6. NavFits'
  BY <1>2, <1>3, <1>4, <1>5, Nothings DEF NavFits, NavShown
<1>7. /\ page' \in PageRecs /\ page'.st = p.st /\ page'.of = p.of /\ page'.schema = p.schema
      /\ page'.late = p.late
      /\ IF p.st = "ok" THEN page' = p ELSE page'.dlg = NoDialog
      /\ p = NoPage => page' = NoPage
  BY <1>3, PageOnKeeps
<1>8. Waiting("page", c) => at.path = "schema"
  BY <1>1 DEF Fits, TheLeftIsSilent, Waiting
<1>9. PageFits'
  <2>1. CASE Waiting("page", c)
    BY <1>2, <1>3, <1>7, <1>8, <2>1, Nothings DEF PageFits
  <2>2. CASE ~Waiting("page", c)
    BY <1>2, <1>3, <1>7, <2>2, Nothings DEF PageFits
  <2> QED
    BY <2>1, <2>2
<1>10. /\ flight' \in [Conns -> Flights] /\ flight'[c].st = "none"
       /\ \A d \in Conns : d # c => flight'[d] = flight[d]
  BY <1>2, <1>3, Nothings
<1>11. CacheOK' /\ RestOK'
  BY <1>1, <1>2, <1>3, <1>10 DEF CacheOK, RestOK, Typed
<1>12. FlightsAreReal' /\ WaitsHaveFlights'
  BY <1>1, <1>2, <1>3, <1>10 DEF Fits, FlightsAreReal, WaitsHaveFlights, InFlight, Waits
<1>13. PageIsTold'
  <2>1. ASSUME p.st = "loading" PROVE (\E d \in Conns : Waiting("page", d)') \/ \E k \in calls' : k.here
    <3>1. ~Waiting("page", c) /\ page.st = "loading"
      BY <2>1
    <3>2. ASSUME NEW d \in Conns, Waiting("page", d) PROVE Waiting("page", d)'
      BY <1>3, <3>1, <3>2 DEF Waiting
    <3> QED
      BY <1>1, <1>3, <3>1, <3>2 DEF Fits, PageIsTold
  <2> QED
    BY <1>7, <2>1 DEF PageIsTold
<1>14. page'.dlg.st = "applying" => page.dlg.st = "applying" /\ page'.st = "ok"
  BY <1>7, Nothings
<1>15. nav'.dlg.st = "applying" => nav.dlg.st = "applying" /\ entries'[at.cid] # None
  BY <1>4, <1>5, Nothings
<1>16. nav'.busy => nav.busy /\ (Waiting("ask", at.cid) => Waiting("ask", at.cid)')
  <2>1. nav'.busy => ~Waiting("ask", c) /\ nav.busy
    BY <1>4, <1>5
  <2>2. ~Waiting("ask", c) /\ Waiting("ask", at.cid) => Waiting("ask", at.cid)'
    BY <1>3 DEF Waiting
  <2> QED
    BY <2>1, <2>2
<1>17. \A w \in waits' \ waits : w.who # "page"
  BY <1>3
<1> QED
  BY <1>2, <1>3, <1>5, <1>6, <1>7, <1>9, <1>11, <1>12, <1>13, <1>14, <1>15, <1>16, <1>17, CacheKeeps
     DEF ViewsOK

LEMMA ResolveKeeps ==
  ASSUME IInv, NEW c \in Conns, Resolve(c)
  PROVE  IInv'
<1>1. Typed /\ Fits
  BY Parts
<1>2. /\ page \in PageRecs /\ nav \in NavRecs /\ PageFits /\ jobs \in SUBSET Closures
      /\ flight \in [Conns -> Flights] /\ entries \in [Conns -> Schemas \cup {None}]
      /\ excused \subseteq Conns
  BY <1>1 DEF Typed, ViewsOK, JobsOK, Fits, CacheOK, RestOK
<1> DEFINE saw == flight[c].saw
           p == IF Waiting("page", c)
                THEN [page EXCEPT !.st = "ok", !.of = c, !.schema = saw, !.late = c # at.cid]
                ELSE page
<1>3. /\ flight[c].st = "read" /\ entries' = [entries EXCEPT ![c] = saw]
      /\ page' = PageOn(p) /\ jobs' = Hidden(jobs, page', entries')
      /\ nav' = NavOn(IF Waiting("ask", c)
                      THEN [nav EXCEPT !.ask = None, !.askOf = None, !.busy = FALSE] ELSE nav, entries')
      /\ flight' = [flight EXCEPT ![c] = NoFlight] /\ waits' = {w \in waits : w.conn # c}
      /\ UNCHANGED <<at, server, late, calls, gestures>>
      /\ excused' = IF saw = server[c] THEN excused \ {c} ELSE excused
  BY DEF Resolve, Settle
<1>4. saw \in Schemas /\ saw # None
  BY <1>1, <1>2, <1>3, NoneIsNothing DEF Fits, FlightsAreReal, Flights
<1>5. /\ p \in PageRecs /\ p.dlg = page.dlg
      /\ IF Waiting("page", c)
           THEN p.st \in {"ok", "error"} /\
                (p.st = "ok" => p.schema # None /\ p.of # None /\ (p.of = at.cid \/ p.late))
           ELSE p = page
  <2>1. CASE Waiting("page", c)
    <3>1. /\ p \in PageRecs /\ p.dlg = page.dlg /\ p.st = "ok" /\ p.schema = saw
          /\ p.of = c /\ p.late = (c # at.cid)
      BY <1>2, <1>4, <2>1 DEF PageRecs
    <3> HIDE DEF p, saw
    <3> QED
      BY <1>4, <2>1, <3>1, NoneIsNothing
  <2> QED
    BY <1>2, <2>1
<1> HIDE DEF p, saw
<1>6. /\ entries' \in [Conns -> Schemas \cup {None}] /\ entries'[c] = saw
      /\ \A d \in Conns : d # c => entries'[d] = entries[d]
  BY <1>2, <1>3, <1>4
<1>7. CacheIsFollowed'
  <2>1. Quieter(jobs, jobs')
    BY <1>2, <1>3, HiddenQuiets
  <2>2. ASSUME NEW d, d # c \/ saw # server[c] PROVE Followed(d) => Followed(d)'
    <3>1. d \in excused => d \in excused'
      BY <1>3, <2>2
    <3> QED
      BY <2>1, <3>1, FollowedStays
  <2>3. saw = server[c] \/ Followed(c)
    BY <1>1, <1>3 DEF Fits, CacheIsFollowed, saw
  <2>4. /\ flight'[c].st = "none"
        /\ \A d \in Conns : d # c => flight'[d] = flight[d]
    BY <1>2, <1>3, Nothings
  <2>5. ASSUME NEW d \in Conns
        PROVE  /\ flight'[d].st = "read" => flight'[d].saw = server'[d] \/ Followed(d)'
               /\ InFlight(d)' \/ Followed(d)' \/ entries'[d] \in {None, server'[d]}
    <3>1. CASE d = c
      BY <1>3, <1>6, <2>2, <2>3, <2>4, <3>1
    <3>2. CASE d # c
      <4>1. /\ flight[d].st = "read" => flight[d].saw = server[d] \/ Followed(d)
            /\ InFlight(d) \/ Followed(d) \/ entries[d] \in {None, server[d]}
        BY <1>1 DEF Fits, CacheIsFollowed
      <4> QED
        BY <1>3, <1>6, <2>2, <2>4, <3>2, <4>1 DEF InFlight
    <3> QED
      BY <3>1, <3>2
  <2> QED
    BY <2>5 DEF CacheIsFollowed
<1>8. excused' \subseteq Conns
  BY <1>2, <1>3
<1> QED
  BY <1>2, <1>3, <1>5, <1>6, <1>7, <1>8, SettleKeeps

LEMMA RejectKeeps ==
  ASSUME IInv, NEW c \in Conns, Reject(c)
  PROVE  IInv'
<1>1. Typed /\ Fits
  BY Parts
<1>2. /\ page \in PageRecs /\ nav \in NavRecs /\ PageFits /\ jobs \in SUBSET Closures
      /\ flight \in [Conns -> Flights] /\ entries \in [Conns -> Schemas \cup {None}]
      /\ excused \subseteq Conns
  BY <1>1 DEF Typed, ViewsOK, JobsOK, Fits, CacheOK, RestOK
<1> DEFINE p == IF Waiting("page", c) THEN [page EXCEPT !.st = "error"] ELSE page
           n == IF Waiting("nav", c) THEN [nav EXCEPT !.err = TRUE] ELSE nav
<1>3. /\ entries' = entries
      /\ page' = PageOn(p) /\ jobs' = Hidden(jobs, page', entries')
      /\ nav' = NavOn(IF Waiting("ask", c)
                      THEN [n EXCEPT !.ask = None, !.askOf = None, !.busy = FALSE] ELSE n, entries')
      /\ flight' = [flight EXCEPT ![c] = NoFlight] /\ waits' = {w \in waits : w.conn # c}
      /\ UNCHANGED <<at, server, late, calls, gestures>>
      /\ excused' = excused \cup {c}
  BY DEF Reject, Settle
<1>4. /\ p \in PageRecs /\ p.dlg = page.dlg
      /\ IF Waiting("page", c) THEN p.st = "error" ELSE p = page
  BY <1>2 DEF PageRecs
<1>5. /\ n \in NavRecs /\ n.ask = nav.ask /\ n.askOf = nav.askOf /\ n.busy = nav.busy
      /\ n.dlg = nav.dlg
  BY <1>2 DEF NavRecs
<1> HIDE DEF p, n
<1>6. CacheIsFollowed'
  <2>1. Quieter(jobs, jobs')
    BY <1>2, <1>3, HiddenQuiets
  <2>2. ASSUME NEW d PROVE Followed(d) => Followed(d)'
    <3>1. d \in excused => d \in excused'
      BY <1>3
    <3> QED
      BY <2>1, <3>1, FollowedStays
  <2>3. Followed(c)'
    BY <1>3 DEF Followed
  <2>4. \A d \in Conns : d # c => flight'[d] = flight[d]
    BY <1>2, <1>3
  <2>5. ASSUME NEW d \in Conns
        PROVE  /\ flight'[d].st = "read" => flight'[d].saw = server'[d] \/ Followed(d)'
               /\ InFlight(d)' \/ Followed(d)' \/ entries'[d] \in {None, server'[d]}
    <3>1. CASE d = c
      BY <2>3, <3>1
    <3>2. CASE d # c
      <4>1. /\ flight[d].st = "read" => flight[d].saw = server[d] \/ Followed(d)
            /\ InFlight(d) \/ Followed(d) \/ entries[d] \in {None, server[d]}
        BY <1>1 DEF Fits, CacheIsFollowed
      <4> QED
        BY <1>3, <2>2, <2>4, <3>2, <4>1 DEF InFlight
    <3> QED
      BY <3>1, <3>2
  <2> QED
    BY <2>5 DEF CacheIsFollowed
<1>7. excused' \subseteq Conns /\ entries' \in [Conns -> Schemas \cup {None}]
  BY <1>2, <1>3
<1> QED
  BY <1>2, <1>3, <1>4, <1>5, <1>6, <1>7, SettleKeeps

-----------------------------------------------------------------------------
(* The end of a closure.                                                   *)

LEMMA EndsKeeps ==
  ASSUME IInv, NEW j \in jobs, Ends(j)
  PROVE  IInv'
<1> DEFINE c == j.conn
           left == jobs \ {j}
           who == IF j.by = "page" /\ j.mounted THEN "page"
                  ELSE IF j.by = "ask" /\ j.here THEN "ask" ELSE "gone"
<1>1. Typed /\ Fits
  BY Parts
<1>2. /\ page \in PageRecs /\ nav \in NavRecs /\ PageFits /\ NavFits /\ jobs \in SUBSET Closures
      /\ at.cid \in Conns /\ j \in Closures
  BY <1>1 DEF Typed, ViewsOK, JobsOK, Fits, PlaceOK
<1>3. /\ flight' = Asked(c) /\ waits' = waits \cup {[who |-> who, conn |-> c]}
      /\ jobs' = Hidden(left, page', entries')
      /\ excused' = IF JoinsOld(c) THEN excused \cup {c} ELSE excused
      /\ UNCHANGED <<at, server, late, calls, gestures>>
  BY DEF Ends
<1>4. c \in Conns /\ who \in {"page", "ask", "gone"} /\ j.by \in {"page", "nav", "ask"}
      /\ j.here \in BOOLEAN /\ j.mounted \in BOOLEAN
  BY <1>2 DEF Closures
<1>5. /\ at.path # "schema" /\ j.by = "page" => ~j.mounted
      /\ j.here => j.mounted /\ (j.by # "page" => c = at.cid)
  BY <1>1 DEF Fits, TheLeftIsSilent
<1>6. entries' = Dropped(c) \/ entries' = entries
  BY DEF Ends
<1> HIDE DEF who, left
<1>7. /\ CacheOK' /\ WaitsHaveFlights' /\ InFlight(c)'
      /\ \A d \in Conns : flight'[d] = flight[d] \/ flight'[d].st = "asked"
      /\ \A d \in Conns : entries'[d] \in {entries[d], None}
      /\ flight'[c].st = "read" => flight'[c] = flight[c]
  BY <1>3, <1>4, <1>6, ForcedOK
<1>8. RestOK'
  BY <1>1, <1>3, <1>4 DEF Typed, RestOK
<1>9. left \in SUBSET jobs /\ Quieter(left, jobs')
  BY <1>2, <1>3, HiddenQuiets DEF left
<1>10. CacheIsFollowed' /\ FlightsAreReal'
  <2>1. ASSUME NEW d \in Conns, d # c PROVE Followed(d) => Followed(d)'
    <3>1. d \in excused => d \in excused'
      BY <1>3
    <3>2. \A i \in jobs \ left : i.conn = d /\ i.done => d \in excused'
      BY <2>1 DEF left
    <3> QED
      BY <1>9, <3>1, <3>2, FollowedStays
  <2>2. Followed(c) => Followed(c)' \/ (flight'[c].st = "read" => flight'[c].saw = server'[c])
    <3>1. JoinsOld(c) => Followed(c)'
      BY <1>3 DEF Followed
    <3>2. ~JoinsOld(c) => (flight'[c].st = "read" => flight'[c].saw = server'[c])
      BY <1>3, <1>7 DEF JoinsOld
    <3> QED
      BY <3>1, <3>2
  <2>3. \A d \in Conns : \/ Followed(d) => Followed(d)'
                         \/ InFlight(d)' /\ (flight'[d].st = "read" => flight'[d].saw = server'[d])
    BY <1>7, <2>1, <2>2
  <2> QED
    BY <1>1, <1>3, <1>7, <2>3, CacheStays DEF Fits
<1>11. \A k \in calls' \ calls : ~k.here
  BY <1>3
<1>12. CASE j.by = "page"
  <2> DEFINE p == IF j.here THEN [page EXCEPT !.dlg = NoDialog] ELSE page
             q == [p EXCEPT !.st = "loading"]
  <2>1. /\ page' = IF j.mounted THEN PageOn(q) ELSE p
        /\ nav' = NavOn(nav, entries')
    BY <1>12 DEF Ends
  <2>2. /\ p \in PageRecs /\ p.st = page.st /\ p.of = page.of /\ p.schema = page.schema
        /\ p.late = page.late /\ p.dlg = IF j.here THEN NoDialog ELSE page.dlg
    BY <1>2, Nothings, PageSet
  <2>3. ~j.here => p = page
    OBVIOUS
  <2> HIDE DEF p
  <2>4. q \in PageRecs /\ q.st = "loading"
    BY <2>2 DEF PageRecs
  <2> HIDE DEF q
  <2>5. /\ page' \in PageRecs
        /\ IF j.mounted THEN page'.st = "loading" /\ page'.dlg = NoDialog
           ELSE page' = page
    <3>1. CASE j.mounted
      BY <2>1, <2>4, <3>1, PageOnKeeps
    <3>2. CASE ~j.mounted
      BY <1>2, <1>5, <2>1, <2>3, <3>2
    <3> QED
      BY <3>1, <3>2
  <2>6. /\ nav' \in NavRecs /\ nav'.ask = nav.ask /\ nav'.askOf = nav.askOf /\ nav'.busy = nav.busy
        /\ IF entries'[at.cid] = None THEN nav'.dlg = NoDialog ELSE nav' = nav
    BY <1>2, <2>1, NavOnKeeps
  <2>7. PageFits' /\ NavFits'
    BY <1>2, <1>3, <1>5, <1>12, <2>5, <2>6, Nothings DEF PageFits, NavFits, NavShown
  <2>8. PageIsTold'
    <3>1. CASE j.mounted
      <4>1. [who |-> "page", conn |-> c] \in waits'
        BY <1>3, <1>12, <3>1 DEF who
      <4> QED
        BY <1>4, <4>1 DEF PageIsTold, Waiting
    <3>2. CASE ~j.mounted
      BY <1>1, <1>3, <2>5, <3>2 DEF Fits, PageIsTold, Waiting
    <3> QED
      BY <3>1, <3>2
  <2>9. /\ page'.dlg.st = "applying" => page.dlg.st = "applying" /\ page'.st = "ok" /\ ~j.here
        /\ nav'.dlg.st = "applying" => nav.dlg.st = "applying" /\ entries'[at.cid] # None
        /\ nav'.busy => nav.busy
    BY <1>2, <1>5, <2>5, <2>6, Nothings DEF PageFits
  <2>10. Waiting("ask", at.cid) => Waiting("ask", at.cid)'
    BY <1>3 DEF Waiting
  <2>11. \A i \in jobs \ left : i.here =>
           /\ i.by = "page" => page'.dlg.st # "applying"
           /\ i.by = "nav" => nav'.dlg.st # "applying"
           /\ i.by = "ask" => ~nav'.busy \/ Waiting("ask", at.cid)'
    BY <1>12, <2>9 DEF left
  <2>12. at.path # "schema" => \A w \in waits' \ waits : w.who # "page"
    BY <1>3, <1>5, <1>12 DEF who
  <2> QED
    BY <1>3, <1>7, <1>8, <1>9, <1>10, <1>11, <2>5, <2>6, <2>7, <2>8, <2>9, <2>10, <2>11, <2>12,
       CacheKeeps DEF ViewsOK
<1>13. CASE j.by # "page"
  <2>1. /\ nav' = IF j.by = "nav" /\ j.here THEN [nav EXCEPT !.dlg = NoDialog] ELSE nav
        /\ entries' = entries /\ page' = page
    BY <1>13 DEF Ends
  <2>2. /\ nav' \in NavRecs /\ nav'.ask = nav.ask /\ nav'.askOf = nav.askOf /\ nav'.busy = nav.busy
        /\ nav'.dlg = IF j.by = "nav" /\ j.here THEN NoDialog ELSE nav.dlg
    <3>1. CASE j.by = "nav" /\ j.here
      BY <1>2, <2>1, <3>1, Nothings, NavSet
    <3>2. CASE ~(j.by = "nav" /\ j.here)
      BY <1>2, <2>1, <3>2
    <3> QED
      BY <3>1, <3>2
  <2>3. PageFits' /\ NavFits'
    BY <1>2, <1>3, <2>1, <2>2, Nothings DEF PageFits, NavFits, NavShown
  <2>4. PageIsTold'
    BY <1>1, <1>3, <2>1 DEF Fits, PageIsTold, Waiting
  <2>5. /\ page'.dlg.st = "applying" => page.dlg.st = "applying" /\ page'.st = "ok"
        /\ nav'.dlg.st = "applying" => /\ nav.dlg.st = "applying" /\ entries'[at.cid] # None
                                       /\ ~(j.by = "nav" /\ j.here)
    BY <1>2, <2>1, <2>2, Nothings DEF PageFits, NavFits, NavShown
  <2>6. Waiting("ask", at.cid) => Waiting("ask", at.cid)'
    BY <1>3 DEF Waiting
  <2>7. j.by = "ask" /\ j.here => Waiting("ask", at.cid)'
    BY <1>3, <1>5 DEF who, Waiting
  <2>8. \A i \in jobs \ left : i.here =>
          /\ i.by = "page" => page'.dlg.st # "applying"
          /\ i.by = "nav" => nav'.dlg.st # "applying"
          /\ i.by = "ask" => ~nav'.busy \/ Waiting("ask", at.cid)'
    BY <1>13, <2>5, <2>7 DEF left
  <2>9. \A w \in waits' \ waits : w.who # "page"
    BY <1>3, <1>13 DEF who
  <2> QED
    BY <1>2, <1>3, <1>7, <1>8, <1>9, <1>10, <1>11, <2>1, <2>2, <2>3, <2>4, <2>5, <2>6, <2>8, <2>9,
       CacheKeeps DEF ViewsOK
<1> QED
  BY <1>12, <1>13

-----------------------------------------------------------------------------
(* Navigation.                                                             *)

LEMMA KeptKeeps ==
  ASSUME NEW d \in Dialogs, NEW cid
  PROVE  LET k == Kept(d, cid) IN
         /\ k \in Dialogs /\ k.kind = d.kind /\ k.from = d.from
         /\ k.st = "applying" => d.st = "applying"
         /\ d.kind # None => (k.stray <=> d.stray \/ cid # at.cid)
<1>1. CASE d.kind = None
  BY <1>1 DEF Kept
<1>2. CASE d.kind # None
  <2> DEFINE strays == d.stray \/ cid # at.cid
             st == IF EngineOf[cid] = EngineOf[at.cid] THEN d.st ELSE "form"
  <2>1. Kept(d, cid) = [d EXCEPT !.stray = strays, !.st = st]
    BY <1>2 DEF Kept
  <2>2. strays \in BOOLEAN /\ st \in {"form", "applying", "error"}
        /\ (st = "applying" => d.st = "applying")
    BY DEF Dialogs
  <2> DEFINE k == [d EXCEPT !.stray = strays, !.st = st]
  <2>3. (strays <=> d.stray \/ cid # at.cid)
    OBVIOUS
  <2> HIDE DEF strays, st
  <2>4. k \in Dialogs /\ k.kind = d.kind /\ k.from = d.from /\ k.st = st /\ k.stray = strays
    BY <2>2 DEF Dialogs
  <2> QED
    BY <2>1, <2>2, <2>3, <2>4
<1> QED
  BY <1>1, <1>2

\* What the page shows once its effect has run: a spinner, or the entry of its
\* connection, beside a dialog that it kept.
LEMMA LoadedKeeps ==
  ASSUME NEW p \in PageRecs, NEW cid \in Conns, NEW flash \in BOOLEAN,
         entries \in [Conns -> Schemas \cup {None}]
  PROVE  LET q == Loaded(p, cid, flash) IN
         /\ q \in PageRecs
         /\ IF InFlight(cid) \/ entries[cid] = None THEN q.st = "loading" /\ q.dlg = NoDialog
            ELSE /\ q.st = "ok" /\ q.of = cid /\ q.schema = entries[cid]
                 /\ q.dlg = IF flash THEN NoDialog ELSE Kept(p.dlg, cid)
<1>1. CASE InFlight(cid) \/ entries[cid] = None
  <2> DEFINE q == [p EXCEPT !.st = "loading", !.dlg = NoDialog]
  <2>1. Loaded(p, cid, flash) = q
    BY <1>1 DEF Loaded
  <2>2. q \in PageRecs /\ q.st = "loading" /\ q.dlg = NoDialog
    BY Nothings DEF PageRecs
  <2> QED
    BY <1>1, <2>1, <2>2
<1>2. CASE ~(InFlight(cid) \/ entries[cid] = None)
  <2> DEFINE d == IF flash THEN NoDialog ELSE Kept(p.dlg, cid)
             q == [p EXCEPT !.st = "ok", !.of = cid, !.schema = entries[cid], !.late = FALSE,
                            !.dlg = d]
  <2>1. Loaded(p, cid, flash) = q
    BY <1>2 DEF Loaded
  <2>2. p.dlg \in Dialogs
    BY DEF PageRecs
  <2>3. d \in Dialogs
    BY <2>2, Nothings, KeptKeeps
  <2> HIDE DEF d
  <2>4. q \in PageRecs /\ q.st = "ok" /\ q.of = cid /\ q.schema = entries[cid] /\ q.dlg = d
    BY <2>3 DEF PageRecs
  <2> HIDE DEF q
  <2> QED
    BY <1>2, <2>1, <2>4 DEF d
<1> QED
  BY <1>1, <1>2

\* The closures after a navigation: those of a view that is left are silent.
LEMMA GoneKeep ==
  ASSUME IInv, NEW stays \in BOOLEAN, NEW hears \in BOOLEAN,
         jobs' = IF ~stays THEN Left(jobs, {"page", "nav", "ask"})
                 ELSE {[j EXCEPT !.here = @ /\ hears] : j \in Left(jobs, {"nav", "ask"})}
  PROVE  /\ Quieter(jobs, jobs')
         /\ \A k \in jobs' : /\ k.here => stays /\ k.mounted /\ k.by = "page"
                             /\ ~stays => ~k.mounted
         /\ stays /\ hears => \A j \in jobs : j.by = "page" /\ j.here =>
              \E k \in jobs' : k.by = "page" /\ k.here
<1>1. Typed /\ Fits
  BY Parts
<1>2. jobs \in SUBSET Closures /\ \A j \in jobs : j.here => j.mounted
  BY <1>1 DEF Typed, JobsOK, Fits, TheLeftIsSilent
<1>3. \A j \in Closures : j.by \in {"page", "nav", "ask"}
  BY DEF Closures
<1>4. CASE ~stays
  <2> DEFINE all == {"page", "nav", "ask"}
  <2>1. jobs' = Left(jobs, all)
    BY <1>4
  <2>2. /\ Quieter(jobs, Left(jobs, all))
        /\ \A k \in Left(jobs, all) : IF k.by \in all THEN ~k.here /\ ~k.mounted ELSE k \in jobs
    BY <1>2, LeftQuiets
  <2>3. \A k \in Left(jobs, all) : k.by \in all
    BY <2>2, <1>3 DEF Quieter
  <2> HIDE DEF all
  <2> QED
    BY <1>4, <2>1, <2>2, <2>3
<1>5. CASE stays
  <2> DEFINE by == {"nav", "ask"}
             js == Left(jobs, by)
             heard(j) == j.here /\ hears
             now(j) == [j EXCEPT !.here = heard(j)]
  <2>1. /\ Quieter(jobs, js)
        /\ \A j \in jobs : j.by \notin by => j \in js
        /\ \A k \in js : IF k.by \in by THEN ~k.here /\ ~k.mounted ELSE k \in jobs
    BY <1>2, LeftQuiets
  <2>2. jobs' = {now(j) : j \in js}
    BY <1>5
  <2>3. js \subseteq Closures
    BY <2>1 DEF Quieter
  <2> HIDE DEF js
  <2>4. ASSUME NEW j \in js
        PROVE  /\ now(j) \in Closures /\ SameWork(j, now(j)) /\ now(j).here = heard(j)
               /\ now(j).mounted = j.mounted
    <3>1. j \in Closures /\ heard(j) \in BOOLEAN /\ (heard(j) => j.here)
      BY <2>3 DEF Closures
    <3> HIDE DEF heard
    <3> QED
      BY <3>1, Silenced
  <2> HIDE DEF now
  <2>5. Quieter(jobs, jobs')
    <3>1. jobs' \subseteq Closures
      BY <2>2, <2>4
    <3>2. ASSUME NEW k \in jobs' PROVE \E i \in jobs : SameWork(i, k)
      <4>1. PICK j \in js : k = now(j)
        BY <2>2
      <4>2. PICK i \in jobs : SameWork(i, j)
        BY <2>1 DEF Quieter
      <4> QED
        BY <2>4, <4>1, <4>2, SameWorkFollows
    <3>3. ASSUME NEW i \in jobs PROVE \E k \in jobs' : SameWork(i, k)
      <4>1. PICK j \in js : SameWork(i, j)
        BY <2>1 DEF Quieter
      <4>2. now(j) \in jobs' /\ SameWork(j, now(j))
        BY <2>2, <2>4
      <4> QED
        BY <4>1, <4>2, SameWorkFollows
    <3> QED
      BY <3>1, <3>2, <3>3 DEF Quieter
  <2>6. ASSUME NEW k \in jobs' PROVE k.here => k.mounted /\ k.by = "page"
    <3>1. PICK j \in js : k = now(j)
      BY <2>2
    <3>2. k.here => j.here /\ k.mounted = j.mounted /\ k.by = j.by
      BY <2>4, <3>1 DEF SameWork
    <3>3. j.here => j.by \notin by /\ j \in jobs /\ j.mounted
      BY <1>2, <2>1
    <3> QED
      BY <1>2, <1>3, <3>2, <3>3
  <2>7. ASSUME hears, NEW j \in jobs, j.by = "page", j.here
        PROVE  \E k \in jobs' : k.by = "page" /\ k.here
    <3>1. j \in js
      BY <2>1, <2>7
    <3>2. now(j) \in jobs' /\ now(j).by = "page" /\ now(j).here
      BY <2>2, <2>4, <2>7, <3>1 DEF SameWork
    <3> QED
      BY <3>2
  <2> QED
    BY <1>5, <2>5, <2>6, <2>7
<1> QED
  BY <1>4, <1>5

LEMMA GoKeeps ==
  ASSUME IInv, NEW path \in {"schema", "other"}, NEW cid \in Conns, NEW flash \in BOOLEAN,
         Go(path, cid, flash)
  PROVE  IInv'
<1> DEFINE stays == path = "schema" /\ at.path = "schema"
           asks == entries[cid] = None /\ ~InFlight(cid)
           loads == path = "schema" /\ (InFlight(cid) \/ entries[cid] = None)
           p == IF stays THEN page ELSE NoPage
           hears == page'.st = "ok" /\ ~flash
           aside(w) == [w EXCEPT !.who = IF @ = "page" /\ stays THEN @ ELSE "gone"]
<1>1. Typed /\ Fits
  BY Parts
<1>2. /\ page \in PageRecs /\ PageFits /\ jobs \in SUBSET Closures /\ at.cid \in Conns
      /\ flight \in [Conns -> Flights] /\ entries \in [Conns -> Schemas \cup {None}]
      /\ waits \subseteq Waits /\ calls \subseteq Calls
  BY <1>1 DEF Typed, ViewsOK, JobsOK, Fits, PlaceOK, CacheOK
<1>3. /\ at' = [path |-> path, cid |-> cid] /\ nav' = NoNav
      /\ page' = IF path # "schema" THEN NoPage ELSE Loaded(p, cid, flash)
      /\ flight' = IF asks THEN Asked(cid) ELSE flight
      /\ waits' = {aside(w) : w \in waits}
                  \cup (IF asks THEN {[who |-> "nav", conn |-> cid]} ELSE {})
                  \cup (IF loads THEN {[who |-> "page", conn |-> cid]} ELSE {})
      /\ calls' = IF stays THEN calls ELSE {[k EXCEPT !.here = FALSE] : k \in calls}
      /\ jobs' = IF ~stays THEN Left(jobs, {"page", "nav", "ask"})
                 ELSE {[j EXCEPT !.here = @ /\ page'.st = "ok" /\ ~flash] : j \in Left(jobs, {"nav", "ask"})}
      /\ Gesture /\ UNCHANGED <<server, late, entries, excused>>
  BY DEF Go, NavOf, Reloads
<1>4. at' \in [path : {"schema", "other"}, cid : Conns] /\ at'.path = path /\ at'.cid = cid
  BY <1>3
<1>5. /\ p \in PageRecs
      /\ p.dlg = IF stays THEN page.dlg ELSE NoDialog
      /\ stays \in BOOLEAN /\ hears \in BOOLEAN
  BY <1>2, Nothings
<1>6. /\ Quieter(jobs, jobs')
      /\ \A k \in jobs' : /\ k.here => stays /\ k.mounted /\ k.by = "page"
                          /\ ~stays => ~k.mounted
      /\ stays /\ hears => \A j \in jobs : j.by = "page" /\ j.here =>
           \E k \in jobs' : k.by = "page" /\ k.here
  <2>1. jobs' = IF ~stays THEN Left(jobs, {"page", "nav", "ask"})
                ELSE {[j EXCEPT !.here = @ /\ hears] : j \in Left(jobs, {"nav", "ask"})}
    <3>1. \A j : (j.here /\ page'.st = "ok" /\ ~flash) = (j.here /\ hears)
      OBVIOUS
    <3> HIDE DEF stays
    <3> QED
      BY <1>3, <3>1
  <2> HIDE DEF stays, hears
  <2> QED
    BY <1>5, <2>1, GoneKeep
<1> HIDE DEF p
<1>7. /\ page' \in PageRecs
      /\ path # "schema" => page' = NoPage
      /\ path = "schema" =>
           IF InFlight(cid) \/ entries[cid] = None THEN page'.st = "loading" /\ page'.dlg = NoDialog
           ELSE /\ page'.st = "ok" /\ page'.of = cid /\ page'.schema = entries[cid]
                /\ page'.dlg = IF flash THEN NoDialog ELSE Kept(p.dlg, cid)
  <2>1. CASE path = "schema"
    BY <1>2, <1>3, <1>5, <2>1, LoadedKeeps
  <2>2. CASE path # "schema"
    BY <1>3, <2>2, Nothings
  <2> QED
    BY <2>1, <2>2
<1>8. p.dlg \in Dialogs
  BY <1>5 DEF PageRecs
<1>9. LET k == Kept(p.dlg, cid) IN
      /\ k.kind = p.dlg.kind /\ k.from = p.dlg.from
      /\ k.st = "applying" => p.dlg.st = "applying"
      /\ p.dlg.kind # None => (k.stray <=> p.dlg.stray \/ cid # at.cid)
  BY <1>8, KeptKeeps
<1>10. PageFits'
  <2>1. CASE path # "schema"
    BY <1>4, <1>7, <2>1, Nothings DEF PageFits
  <2>2. CASE path = "schema" /\ (InFlight(cid) \/ entries[cid] = None)
    BY <1>4, <1>7, <2>2, Nothings DEF PageFits
  <2>3. CASE path = "schema" /\ ~(InFlight(cid) \/ entries[cid] = None)
    <3>1. /\ page'.st = "ok" /\ page'.of = at'.cid /\ page'.schema # None /\ page'.of # None
          /\ at'.path = "schema"
      BY <1>4, <1>7, <2>3, NoneIsNothing
    <3>2. page'.dlg.kind # None => /\ page'.dlg.from = at'.cid \/ page'.dlg.stray
                                   /\ page'.dlg.from # None
      <4>1. SUFFICES ASSUME page'.dlg.kind # None
                     PROVE  /\ page'.dlg.from = at'.cid \/ page'.dlg.stray
                            /\ page'.dlg.from # None
        OBVIOUS
      <4>2. page'.dlg = Kept(p.dlg, cid)
        BY <1>7, <2>3, <4>1, Nothings
      <4>3. p.dlg.kind # None
        BY <1>9, <4>1, <4>2
      <4>4. p.dlg = page.dlg
        BY <1>5, <4>3, Nothings
      <4>5. (page.dlg.from = at.cid \/ page.dlg.stray) /\ page.dlg.from # None
        BY <1>2, <4>3, <4>4 DEF PageFits
      <4> QED
        BY <1>4, <1>9, <4>2, <4>3, <4>4, <4>5
    <3> QED
      BY <3>1, <3>2 DEF PageFits
  <2> QED
    BY <2>1, <2>2, <2>3
<1>11. NavFits' /\ AskIsTold'
  BY <1>3, Nothings DEF NavFits, AskIsTold
<1>12. JobsOK' /\ JobsAtHome' /\ EditsAreSent'
  BY <1>1, <1>3, <1>6, WorkStays DEF Fits
<1>13. /\ flight' \in [Conns -> Flights]
       /\ \A c \in Conns : flight'[c] = flight[c] \/ flight'[c].st = "asked"
       /\ \A c \in Conns : InFlight(c) => InFlight(c)'
       /\ asks => InFlight(cid)'
  <2> DEFINE fl == [st |-> "asked", saw |-> None]
  <2>1. fl \in Flights /\ fl.st = "asked"
    BY DEF Flights
  <2> HIDE DEF fl
  <2>2. flight' = IF asks THEN [flight EXCEPT ![cid] = fl] ELSE flight
    BY <1>3 DEF Asked, fl
  <2> HIDE DEF asks
  <2> QED
    BY <1>2, <2>1, <2>2 DEF InFlight
<1>14. CacheIsFollowed' /\ FlightsAreReal'
  <2>1. ASSUME NEW c PROVE Followed(c) => Followed(c)'
    BY <1>3, <1>6, FollowedStays
  <2>2. \A c \in Conns : entries'[c] \in {entries[c], None}
    BY <1>3
  <2> QED
    BY <1>1, <1>3, <1>13, <2>1, <2>2, CacheStays DEF Fits
<1>15. ASSUME NEW w \in waits
       PROVE  /\ aside(w) \in Waits /\ aside(w).conn = w.conn
              /\ ~stays => aside(w).who # "page"
              /\ aside(w).who # "page" => aside(w).who = "gone"
  <2>1. w \in Waits
    BY <1>2
  <2> QED
    BY <2>1 DEF Waits
<1>16. ASSUME NEW k \in calls
       PROVE  LET l == [k EXCEPT !.here = FALSE] IN l \in Calls /\ l.here = FALSE
  BY <1>2 DEF Calls
<1> HIDE DEF aside
<1>17. /\ waits' \subseteq Waits
       /\ \A w \in waits' : \/ \E v \in waits : w = aside(v)
                            \/ asks /\ w.who = "nav" /\ w.conn = cid
                            \/ loads /\ w.who = "page" /\ w.conn = cid
       /\ loads => [who |-> "page", conn |-> cid] \in waits'
  <2>1. {aside(w) : w \in waits} \subseteq Waits
    BY <1>15
  <2>2. [who |-> "nav", conn |-> cid] \in Waits /\ [who |-> "page", conn |-> cid] \in Waits
    BY DEF Waits
  <2> HIDE DEF asks, loads
  <2> QED
    BY <1>3, <2>1, <2>2
<1>18. /\ calls' \subseteq Calls
       /\ ~stays => \A k \in calls' : ~k.here
  BY <1>2, <1>3, <1>16
<1>19. CacheOK' /\ RestOK' /\ ViewsOK' /\ PlaceOK'
  <2>1. RestOK'
    BY <1>1, <1>3, GesturesOK DEF Typed, RestOK
  <2>2. PlaceOK'
    BY <1>1, <1>3, <1>4 DEF Typed, PlaceOK
  <2>3. ViewsOK'
    BY <1>3, <1>7, Nothings DEF ViewsOK
  <2> QED
    BY <1>2, <1>3, <1>13, <1>17, <1>18, <2>1, <2>2, <2>3 DEF CacheOK
<1>20. WaitsHaveFlights'
  <2>1. ASSUME NEW w \in waits' PROVE InFlight(w.conn)'
    <3>1. ASSUME NEW v \in waits, w = aside(v) PROVE InFlight(w.conn)'
      <4>1. w.conn = v.conn /\ v.conn \in Conns
        BY <1>2, <1>15, <3>1 DEF Waits
      <4>2. InFlight(v.conn)
        BY <1>1 DEF Fits, WaitsHaveFlights
      <4> QED
        BY <1>13, <4>1, <4>2
    <3>2. CASE asks /\ w.conn = cid
      BY <1>13, <3>2
    <3>3. CASE loads /\ w.conn = cid
      BY <1>13, <3>3
    <3> QED
      BY <1>17, <3>1, <3>2, <3>3
  <2> QED
    BY <2>1 DEF WaitsHaveFlights
<1>21. PageIsTold'
  <2>1. ASSUME page'.st = "loading" PROVE [who |-> "page", conn |-> cid] \in waits'
    BY <1>7, <1>17, <2>1, Nothings
  <2> QED
    BY <2>1 DEF PageIsTold, Waiting
<1>22. DialogsAreTold'
  <2>1. nav'.dlg.st # "applying"
    BY <1>3, Nothings
  <2>2. ASSUME page'.dlg.st = "applying" PROVE \E k \in jobs' : k.by = "page" /\ k.here
    <3>1. path = "schema" /\ page'.st = "ok" /\ ~flash /\ page'.dlg = Kept(p.dlg, cid)
      BY <1>7, <2>2, Nothings
    <3>2. p.dlg.st = "applying"
      BY <1>9, <2>2, <3>1
    <3>3. stays /\ page.dlg.st = "applying"
      BY <1>5, <3>2, Nothings
    <3>4. hears
      BY <3>1
    <3>5. PICK j \in jobs : j.by = "page" /\ j.here
      BY <1>1, <3>3 DEF Fits, DialogsAreTold
    <3> QED
      BY <1>6, <3>3, <3>4, <3>5
  <2> QED
    BY <2>1, <2>2 DEF DialogsAreTold
<1>23. TheLeftIsSilent'
  <2>1. ASSUME at'.path # "schema"
        PROVE  /\ \A w \in waits' : w.who # "page"
               /\ \A k \in calls' : ~k.here
               /\ \A k \in jobs' : k.by = "page" => ~k.mounted
    <3>1. ~stays /\ ~loads
      BY <1>4, <2>1
    <3>2. ASSUME NEW w \in waits' PROVE w.who # "page"
      BY <1>15, <1>17, <3>1
    <3> QED
      BY <1>6, <1>18, <3>1, <3>2
  <2>2. \A k \in jobs' : k.here => k.mounted /\ (k.by # "page" => k.conn = at'.cid)
    BY <1>6
  <2> QED
    BY <2>1, <2>2 DEF TheLeftIsSilent
<1> QED
  BY <1>10, <1>11, <1>12, <1>14, <1>19, <1>20, <1>21, <1>22, <1>23, Parts DEF Typed, Fits

-----------------------------------------------------------------------------
(* The invariant.                                                          *)

LEMMA InitIInv == Init => IInv
<1> SUFFICES ASSUME Init PROVE IInv
  OBVIOUS
<1>1. FirstTable \in Schemas
  BY DEF FirstTable, Schemas, Tables, Attrs, Names
<1>2. Typed
  <2>1. PlaceOK
    BY <1>1 DEF Init, PlaceOK
  <2>2. CacheOK
    <3>1. entries \in [Conns -> Schemas \cup {None}]
      BY <1>1 DEF Init
    <3> QED
      BY <3>1, Nothings DEF Init, CacheOK
  <2> QED
    BY <2>1, <2>2, Nothings, NoneIsNothing DEF Init, Typed, ViewsOK, JobsOK, RestOK
<1>3. /\ page = NoPage /\ nav = NoNav /\ jobs = {} /\ waits = {} /\ calls = {}
      /\ \A c \in Conns : flight[c] = NoFlight
      /\ \A c \in Conns : entries[c] \in {None, server[c]}
  BY DEF Init
<1>4. PageFits /\ NavFits /\ PageIsTold /\ DialogsAreTold /\ AskIsTold
  BY <1>3, Nothings DEF PageFits, NavFits, PageIsTold, DialogsAreTold, AskIsTold
<1>5. JobsAtHome /\ EditsAreSent /\ TheLeftIsSilent /\ WaitsHaveFlights
  BY <1>3 DEF JobsAtHome, EditsAreSent, TheLeftIsSilent, WaitsHaveFlights
<1>6. FlightsAreReal /\ CacheIsFollowed
  BY <1>3, Nothings DEF FlightsAreReal, CacheIsFollowed
<1> QED
  BY <1>2, <1>4, <1>5, <1>6, Parts DEF Fits

\* A new window knows nothing, and asks anew.
LEMMA ReloadKeeps ==
  ASSUME IInv, Reload
  PROVE  IInv'
<1> DEFINE asked == [st |-> "asked", saw |-> None]
           lost == {[conn |-> j.conn, stmt |-> Head(j.todo)] : j \in {k \in jobs : k.todo # <<>>}}
           who == IF at.path = "schema" THEN {"page", "nav"} ELSE {"nav"}
<1>1. Typed
  BY Parts
<1>2. /\ late' = late \cup lost
      /\ entries' = [c \in Conns |-> None]
      /\ flight' = [c \in Conns |-> IF c = at.cid THEN asked ELSE NoFlight]
      /\ waits' = [who : who, conn : {at.cid}]
      /\ page' = IF at.path = "schema" THEN [NoPage EXCEPT !.st = "loading"] ELSE NoPage
      /\ nav' = NoNav /\ calls' = {} /\ jobs' = {} /\ excused' = {}
      /\ Gesture /\ UNCHANGED <<at, server>>
  BY DEF Reload
<1>3. at \in [path : {"schema", "other"}, cid : Conns] /\ at.cid \in Conns
  BY <1>1 DEF Typed, PlaceOK
<1>4. page' \in PageRecs /\ page'.dlg = NoDialog /\ page'.st # "ok"
  BY <1>2, Nothings DEF NoPage, PageRecs
<1>5. lost \subseteq Sents
  <2>1. ASSUME NEW j \in jobs, j.todo # <<>>
        PROVE  j.conn \in Conns /\ Head(j.todo) \in Statements
    <3>1. j.conn \in Conns /\ j.todo \in Seq(Statements)
      BY <1>1 DEF Typed, JobsOK, Closures
    <3> QED
      BY <2>1, <3>1, HeadTailProperties
  <2> QED
    BY <2>1 DEF Sents
<1> HIDE DEF lost
<1>6. asked \in Flights
  BY DEF Flights
<1>7. CacheOK'
  <2>1. waits' \subseteq Waits
    BY <1>2, <1>3 DEF Waits
  <2>2. entries' \in [Conns -> Schemas \cup {None}] /\ flight' \in [Conns -> Flights]
    BY <1>2, <1>6, Nothings
  <2> QED
    BY <1>2, <2>1, <2>2 DEF CacheOK
<1>8. RestOK'
  BY <1>1, <1>2, <1>5, GesturesOK DEF Typed, RestOK
<1>9. Typed'
  BY <1>1, <1>2, <1>4, <1>7, <1>8, Nothings DEF Typed, PlaceOK, ViewsOK, JobsOK
<1>10. PageFits' /\ NavFits' /\ DialogsAreTold'
  BY <1>2, <1>4, Nothings DEF PageFits, NavFits, DialogsAreTold
<1>11. JobsAtHome' /\ EditsAreSent'
  BY <1>2 DEF JobsAtHome, EditsAreSent
<1>12. /\ \A w \in waits' : w.conn = at.cid
       /\ at.path # "schema" => \A w \in waits' : w.who = "nav"
       /\ at.path = "schema" => Waiting("page", at.cid)'
  BY <1>2 DEF Waiting
<1>13. TheLeftIsSilent' /\ AskIsTold'
  BY <1>2, <1>12, Nothings DEF TheLeftIsSilent, AskIsTold
<1>14. PageIsTold'
  <2>1. at.path # "schema" => page'.st # "loading"
    BY <1>2, Nothings
  <2> QED
    BY <1>2, <1>3, <1>12, <2>1 DEF PageIsTold
<1>15. ASSUME NEW c \in Conns
       PROVE  /\ flight'[c].st # "read" /\ entries'[c] = None
              /\ c = at.cid => flight'[c].st # "none"
  <2>1. flight'[c] = IF c = at.cid THEN asked ELSE NoFlight
    BY <1>2
  <2>2. asked.st = "asked" /\ NoFlight.st = "none"
    BY DEF NoFlight
  <2> QED
    BY <1>2, <2>1, <2>2
<1>16. WaitsHaveFlights'
  BY <1>3, <1>12, <1>15 DEF WaitsHaveFlights, InFlight
<1>17. FlightsAreReal'
  BY <1>15 DEF FlightsAreReal
<1>18. CacheIsFollowed'
  <2>1. ASSUME NEW c \in Conns
        PROVE  /\ (flight[c].st = "read" => flight[c].saw = server[c] \/ Followed(c))'
               /\ (InFlight(c) \/ Followed(c) \/ entries[c] \in {None, server[c]})'
    BY <1>15
  <2> QED
    BY <2>1 DEF CacheIsFollowed
<1> QED
  BY <1>9, <1>10, <1>11, <1>13, <1>14, <1>16, <1>17, <1>18, Parts DEF Fits

LEMMA StutterKeeps ==
  ASSUME IInv, UNCHANGED vars
  PROVE  IInv'
<1>1. Typed /\ Fits
  BY Parts
<1>2. /\ UNCHANGED <<at, server, late, entries, flight, waits, calls, page, nav, jobs, excused, gestures>>
      /\ \A c : InFlight(c)' = InFlight(c) /\ Followed(c)' = Followed(c)
      /\ \A who, c : Waiting(who, c)' = Waiting(who, c)
  BY DEF vars, cacheVars, viewVars, InFlight, Followed, Waiting
<1>3. Typed'
  BY <1>1, <1>2 DEF Typed, PlaceOK, CacheOK, ViewsOK, JobsOK, RestOK
<1>4. JobsAtHome' /\ EditsAreSent'
  BY <1>1, <1>2, WorkStays, QuieterSelf DEF Fits, Typed, JobsOK
<1>5. PageFits' /\ NavFits' /\ TheLeftIsSilent' /\ DialogsAreTold'
  BY <1>1, <1>2 DEF Fits, PageFits, NavFits, NavShown, TheLeftIsSilent, DialogsAreTold
<1>6. PageIsTold' /\ AskIsTold' /\ WaitsHaveFlights' /\ FlightsAreReal' /\ CacheIsFollowed'
  BY <1>1, <1>2 DEF Fits, PageIsTold, AskIsTold, WaitsHaveFlights, FlightsAreReal, CacheIsFollowed
<1> QED
  BY <1>3, <1>4, <1>5, <1>6, Parts DEF Fits

LEMMA NextIInv == IInv /\ [Next]_vars => IInv'
<1> SUFFICES ASSUME IInv, [Next]_vars PROVE IInv'
  OBVIOUS
<1>1. CASE UNCHANGED vars
  BY <1>1, StutterKeeps
<1>2. ASSUME NEW path \in {"schema", "other"}, NEW cid \in Conns, NEW flash \in BOOLEAN,
             Go(path, cid, flash)
      PROVE  IInv'
  BY <1>2, GoKeeps
<1>3. CASE Refresh \/ Reconnect \/ Reload \/ \E k \in calls : Reconnected(k)
  BY <1>3, LoadAnewKeeps, ReconnectKeeps, ReloadKeeps
<1>4. ASSUME NEW by \in {"page", "nav"}, OpenDrawer(by) \/ CloseDrawer(by) \/ CloseDialog(by)
      PROVE  IInv'
  BY <1>4, OpenCloseKeeps
<1>5. ASSUME NEW by \in {"page", "nav"}, NEW kind \in {"add", "edit", "drop"}, NEW col \in Names,
             OpenDialog(by, kind, col)
      PROVE  IInv'
  BY <1>5, OpenDialogKeeps
<1>6. ASSUME NEW by \in {"page", "nav"}, NEW f \in Forms, Apply(by, f)
      PROVE  IInv'
  BY <1>6, ApplyKeeps
<1>7. CASE (\E kind \in {"truncate", "dropTable"} : AskDestructive(kind)) \/ CancelDestructive
  BY <1>7, AskKeeps
<1>8. CASE ConfirmDestructive
  BY <1>8, ConfirmKeeps
<1>9. ASSUME NEW j \in jobs, Accept(j) \/ Ends(j) \/ \E lost \in BOOLEAN : Refuse(j, lost)
      PROVE  IInv'
  BY <1>9, AcceptKeeps, RefuseKeeps, EndsKeeps
<1>11. CASE \E l \in late : Lands(l)
  BY <1>11, LandsKeeps
<1>10. ASSUME NEW c \in Conns,
              Introspect(c) \/ Resolve(c) \/ Reject(c) \/ Elsewhere(c) \/ Invalidate(c)
       PROVE  IInv'
  BY <1>10, IntrospectKeeps, ResolveKeeps, RejectKeeps, ElsewhereKeeps, InvalidateKeeps
<1> QED
  BY <1>1, <1>2, <1>3, <1>4, <1>5, <1>6, <1>7, <1>8, <1>9, <1>10, <1>11 DEF Next

\* Whatever the gestures, the answers and the navigation between them: a column
\* is altered on the connection whose schema its dialog was made from (but for
\* the two ways that the page can stray), a page shows its own connection's
\* schema, and whatever says that it is busy has something that will end it.
THEOREM InvariantHolds == Spec => []IInv
<1> QED
  BY InitIInv, NextIInv, PTL DEF Spec

\* The cache, once nothing is under way, holds what this program's own DDL left.
THEOREM CacheStaysFollowed == Spec => []CacheFollowsDdl
<1>1. IInv => CacheFollowsDdl
  BY DEF IInv, CacheIsFollowed, Followed, CacheFollowsDdl
<1> QED
  BY <1>1, InvariantHolds, PTL

-----------------------------------------------------------------------------
(* What an edit has done.                                                  *)

\* What EditsAreWhole says of one closure.
Whole(j) ==
  LET t == server[j.conn]
      f == j.form IN
  CASE j.old.kind = "drop" -> t[j.old.col] = None
    [] j.old.kind = "add" -> t[f.name] = [type |-> f.type, null |-> f.null]
    [] OTHER ->
         /\ t[f.name] # None
         /\ f.name # j.old.col => t[j.old.col] = None
         /\ f.type # j.old.attr.type => t[f.name].type = f.type
         /\ EngineOf[j.conn] = "mysql" /\ Alters(j.old, f) =>
              t[f.name] = [type |-> f.type, null |-> f.null]

LEMMA WholeParts ==
  /\ EditsAreWhole <=> \A j \in jobs : j.by # "ask" /\ j.todo = <<>> /\ ~j.crossed => Whole(j)
  /\ EditsAreWhole' <=> \A j \in jobs' : j.by # "ask" /\ j.todo = <<>> /\ ~j.crossed => Whole(j)'
BY DEF EditsAreWhole, Whole

LEMMA WholeStays ==
  ASSUME NEW j, NEW k, Whole(j), k.conn = j.conn, k.form = j.form, k.old = j.old,
         server'[j.conn] = server[j.conn]
  PROVE  Whole(k)'
BY DEF Whole

\* The last statement, taken by the server, leaves the table as the form showed it.
LEMMA LastMakesWhole ==
  ASSUME NEW j \in Closures, Sent(j), j.by # "ask", j.todo # <<>>, ~j.crossed,
         Tail(j.todo) = <<>>, server[j.conn] \in Schemas,
         Accepts(server[j.conn], Head(j.todo)),
         server'[j.conn] = Effect(server[j.conn], Head(j.todo)),
         NEW k, Alike(j, k)
  PROVE  Whole(k)'
<1> DEFINE d == j.old
           f == j.form
           e == EngineOf[j.conn]
           all == SqlStatements(EngineOf[j.conn], j.old, j.form)
           t == server[j.conn]
           u == server'[j.conn]
           attrs == [type |-> j.form.type, null |-> j.form.null]
<1>1. /\ d \in Dialogs /\ d.kind # None /\ f \in Forms /\ d.col \in Names /\ f.name \in Names
      /\ \/ j.todo = all /\ all # <<>>
         \/ Len(all) = 2 /\ j.todo = <<all[2]>> /\ TypeIsChanged(j)
  BY DEF Sent, Closures, Dialogs, Forms
<1>2. \/ d.kind = "add" /\ all = <<Build(e, "add", d, f)>>
      \/ d.kind = "drop" /\ all = <<Build(e, "drop", d, f)>>
      \/ d.kind = "edit" /\ all = <<>>
      \/ d.kind = "edit" /\ f.name = d.col /\ all = <<Build(e, "type", d, f)>>
      \/ d.kind = "edit" /\ ~Alters(d, f) /\ f.name # d.col /\ all = <<Build(e, "rename", d, f)>>
      \/ d.kind = "edit" /\ f.name # d.col /\ all = <<Build(e, "type", d, f), Build(e, "rename", d, f)>>
  BY <1>1, SqlShape
<1>3. t \in [Names -> Attrs \cup {None}]
  BY DEF Accepts, Schemas, Tables
<1>4. k.conn = j.conn /\ k.form = f /\ k.old = d
  BY DEF Alike
<1> HIDE DEF all
<1>5. CASE d.kind = "add" /\ j.todo = all /\ all = <<Build(e, "add", d, f)>>
  <2>1. Head(j.todo) = Build(e, "add", d, f)
    BY <1>5, TailOf
  <2>2. u = [t EXCEPT ![f.name] = attrs]
    BY <2>1 DEF Effect, Build
  <2>3. u[f.name] = attrs
    BY <1>1, <1>3, <2>2
  <2> QED
    BY <1>4, <1>5, <2>3 DEF Whole
<1>6. CASE d.kind = "drop" /\ j.todo = all /\ all = <<Build(e, "drop", d, f)>>
  <2>1. Head(j.todo) = Build(e, "drop", d, f)
    BY <1>6, TailOf
  <2>2. u = [t EXCEPT ![d.col] = None]
    BY <2>1 DEF Effect, Build
  <2>3. u[d.col] = None
    BY <1>1, <1>3, <2>2
  <2> QED
    BY <1>4, <1>6, <2>3 DEF Whole
<1>7. CASE d.kind = "edit" /\ f.name = d.col /\ j.todo = all /\ all = <<Build(e, "type", d, f)>>
  <2>1. Head(j.todo) = Build(e, "type", d, f)
    BY <1>7, TailOf
  <2>2. /\ u[d.col] # None /\ u[d.col].type = f.type
        /\ e = "mysql" => u[d.col] = attrs
    BY <2>1, TypeEffect
  <2> QED
    BY <1>4, <1>7, <2>2 DEF Whole
<1>8. ASSUME d.kind = "edit", f.name # d.col, Head(j.todo) = Build(e, "rename", d, f),
             ~Alters(d, f) \/ TypeIsChanged(j)
      PROVE  Whole(k)'
  <2>1. u = [t EXCEPT ![f.name] = t[d.col], ![d.col] = None]
    BY <1>8 DEF Effect, Build
  <2>2. t[d.col] # None
    BY <1>8 DEF Accepts, Build
  <2>3. u[f.name] = t[d.col] /\ u[d.col] = None
    BY <1>1, <1>3, <1>8, <2>1
  <2>4. CASE ~Alters(d, f)
    <3>1. f.type = d.attr.type
      BY <2>4 DEF Alters
    <3> QED
      BY <1>4, <1>8, <2>2, <2>3, <2>4, <3>1 DEF Whole
  <2>5. CASE TypeIsChanged(j)
    <3>1. t[d.col].type = f.type /\ (e = "mysql" => t[d.col] = attrs)
      BY <2>5 DEF TypeIsChanged
    <3> QED
      BY <1>4, <1>8, <2>2, <2>3, <3>1 DEF Whole
  <2> QED
    BY <1>8, <2>4, <2>5
<1>9. CASE d.kind = "edit" /\ ~Alters(d, f) /\ f.name # d.col /\ j.todo = all
           /\ all = <<Build(e, "rename", d, f)>>
  BY <1>8, <1>9, TailOf
<1>10. CASE Len(all) = 2 /\ j.todo = <<all[2]>> /\ TypeIsChanged(j)
  <2>1. Len(<<>>) # 2 /\ \A x : all = <<x>> => Len(all) # 2
    <3>1. Len(<<>>) = 0
      OBVIOUS
    <3>2. ASSUME NEW x PROVE Len(<<x>>) = 1
      OBVIOUS
    <3>3. Len(<<>>) # 2
      BY <3>1
    <3>4. ASSUME NEW x, all = <<x>> PROVE Len(all) # 2
      <4>1. Len(all) = 1
        BY <3>2, <3>4
      <4> QED
        BY <4>1
    <3> QED
      BY <3>3, <3>4
  <2>2. d.kind = "edit" /\ f.name # d.col /\ all = <<Build(e, "type", d, f), Build(e, "rename", d, f)>>
    <3>1. (\E x : all = <<x>>) \/ all = <<>> \/
          (d.kind = "edit" /\ f.name # d.col /\ all = <<Build(e, "type", d, f), Build(e, "rename", d, f)>>)
      BY <1>2
    <3> QED
      BY <1>10, <2>1, <3>1
  <2>3. Head(j.todo) = Build(e, "rename", d, f)
    BY <1>10, <2>2, TailOf
  <2> QED
    BY <1>8, <1>10, <2>2, <2>3
<1>11. ~(j.todo = all /\ all = <<Build(e, "type", d, f), Build(e, "rename", d, f)>>)
  <2> DEFINE x == Build(e, "type", d, f)
             y == Build(e, "rename", d, f)
  <2> HIDE DEF x, y
  <2>1. j.todo = <<x, y>> => Tail(j.todo) = <<y>> /\ <<y>> # <<>>
    BY TailOf
  <2> QED
    BY <2>1 DEF x, y
<1> QED
  BY <1>1, <1>2, <1>5, <1>6, <1>7, <1>9, <1>10, <1>11

\* Only the server's own steps, and another client's, change what closures find;
\* any other step leaves to each the work it has, or begins with all of it.
LEMMA WorkIsKept ==
  ASSUME IInv, [Next]_vars,
         ~\E j \in jobs : Accept(j), ~\E c \in Conns : Elsewhere(c),
         ~\E l \in late : Lands(l)
  PROVE  /\ server' = server
         /\ \A k \in jobs' : \/ \E j \in jobs : SameWork(j, k)
                             \/ k.todo # <<>> \/ k.by = "ask"
<1>1. jobs \in SUBSET Closures
  BY Parts DEF Typed, JobsOK
<1>2. ASSUME NEW js \in SUBSET jobs, Quieter(js, jobs') PROVE \A k \in jobs' : \E j \in jobs : SameWork(j, k)
  BY <1>2 DEF Quieter
<1>3. ASSUME NEW js \in SUBSET jobs, NEW p, NEW e, jobs' = Hidden(js, p, e)
      PROVE  \A k \in jobs' : \E j \in jobs : SameWork(j, k)
  <2>1. js \in SUBSET Closures
    BY <1>1
  <2> QED
    BY <1>2, <1>3, <2>1, HiddenQuiets
<1>4. ASSUME jobs' \subseteq jobs PROVE \A k \in jobs' : \E j \in jobs : SameWork(j, k)
  BY <1>4 DEF SameWork
<1>5. CASE UNCHANGED vars
  BY <1>4, <1>5 DEF vars
<1>6. ASSUME NEW path \in {"schema", "other"}, NEW cid \in Conns, NEW flash \in BOOLEAN,
             Go(path, cid, flash)
      PROVE  server' = server /\ \A k \in jobs' : \E j \in jobs : SameWork(j, k)
  <2> DEFINE stays == path = "schema" /\ at.path = "schema"
             hears == page'.st = "ok" /\ ~flash
  <2>1. /\ server' = server
        /\ jobs' = IF ~stays THEN Left(jobs, {"page", "nav", "ask"})
                   ELSE {[j EXCEPT !.here = @ /\ page'.st = "ok" /\ ~flash] : j \in Left(jobs, {"nav", "ask"})}
    BY <1>6 DEF Go
  <2>2. jobs' = IF ~stays THEN Left(jobs, {"page", "nav", "ask"})
                ELSE {[j EXCEPT !.here = @ /\ hears] : j \in Left(jobs, {"nav", "ask"})}
    <3>1. \A j : (j.here /\ page'.st = "ok" /\ ~flash) = (j.here /\ hears)
      OBVIOUS
    <3> HIDE DEF stays
    <3> QED
      BY <2>1, <3>1
  <2>3. stays \in BOOLEAN /\ hears \in BOOLEAN
    OBVIOUS
  <2> HIDE DEF stays, hears
  <2>4. Quieter(jobs, jobs')
    BY <2>2, <2>3, GoneKeep
  <2> QED
    BY <1>2, <2>1, <2>4
<1>7. CASE Refresh
  BY <1>3, <1>7 DEF Refresh
<1>8. CASE Reconnect
  BY <1>3, <1>8 DEF Reconnect
<1>9. ASSUME NEW k \in calls, Reconnected(k)
      PROVE  server' = server /\ \A l \in jobs' : \E j \in jobs : SameWork(j, l)
  BY <1>3, <1>9 DEF Reconnected
<1>10. ASSUME NEW by \in {"page", "nav"},
              \/ OpenDrawer(by) \/ CloseDrawer(by) \/ CloseDialog(by)
              \/ \E kind \in {"add", "edit", "drop"}, col \in Names : OpenDialog(by, kind, col)
       PROVE  server' = server /\ \A k \in jobs' : \E j \in jobs : SameWork(j, k)
  <2>1. server' = server /\ jobs' = jobs
    BY <1>10 DEF OpenDrawer, CloseDrawer, CloseDialog, OpenDialog, still
  <2> QED
    BY <1>4, <2>1
<1>11. ASSUME NEW by \in {"page", "nav"}, NEW f \in Forms, Apply(by, f)
       PROVE  server' = server /\ \A k \in jobs' : k \in jobs \/ k.todo # <<>>
  <2> DEFINE d == View(by).dlg
             todo == SqlStatements(EngineOf[at.cid], d, f)
             new == NewJob(by, d.from, todo, f, d, d.stray)
  <2>1. todo # <<>> /\ jobs' = jobs \cup {new} /\ server' = server
    BY <1>11 DEF Apply, still
  <2> HIDE DEF d, todo
  <2>2. new.todo = todo
    BY DEF NewJob
  <2> QED
    BY <2>1, <2>2
<1>12. CASE (\E kind \in {"truncate", "dropTable"} : AskDestructive(kind)) \/ CancelDestructive
  <2>1. server' = server /\ jobs' = jobs
    BY <1>12 DEF AskDestructive, CancelDestructive, still
  <2> QED
    BY <1>4, <2>1
<1>13. ASSUME ConfirmDestructive
       PROVE  server' = server /\ \A k \in jobs' : k \in jobs \/ k.by = "ask"
  BY <1>13 DEF ConfirmDestructive, NewJob, still
<1>17. CASE Reload
  BY <1>17 DEF Reload
<1>14. ASSUME NEW j \in jobs, Ends(j) \/ \E lost \in BOOLEAN : Refuse(j, lost)
       PROVE  server' = server /\ \A k \in jobs' : \E i \in jobs : SameWork(i, k)
  <2>1. CASE \E lost \in BOOLEAN : Refuse(j, lost)
    BY <1>4, <2>1 DEF Refuse
  <2>2. CASE Ends(j)
    BY <1>3, <2>2 DEF Ends
  <2> QED
    BY <1>14, <2>1, <2>2
<1>15. ASSUME NEW c \in Conns, Introspect(c) \/ Resolve(c) \/ Reject(c) \/ Invalidate(c)
       PROVE  server' = server /\ \A k \in jobs' : \E j \in jobs : SameWork(j, k)
  <2>1. CASE Introspect(c)
    BY <1>4, <2>1 DEF Introspect
  <2>2. CASE Resolve(c) \/ Reject(c)
    BY <1>3, <2>2 DEF Resolve, Reject, Settle
  <2>3. CASE Invalidate(c)
    BY <1>3, <2>3 DEF Invalidate
  <2> QED
    BY <1>15, <2>1, <2>2, <2>3
<1>16. \A j : SameWork(j, j)
  BY DEF SameWork
<1> QED
  BY <1>5, <1>6, <1>7, <1>8, <1>9, <1>10, <1>11, <1>12, <1>13, <1>14, <1>15, <1>16,
     <1>17, <1>3, <1>4 DEF Next, Refresh, Reconnect

LEMMA NextWhole ==
  ASSUME IInv, EditsAreWhole, [Next]_vars
  PROVE  EditsAreWhole'
<1>1. Typed /\ Fits
  BY Parts
<1>2. jobs \in SUBSET Closures /\ server \in [Conns -> Schemas]
  BY <1>1 DEF Typed, JobsOK, PlaceOK
<1>3. ASSUME NEW j \in jobs, j.by # "ask", j.todo = <<>>, ~j.crossed PROVE Whole(j)
  BY <1>3, WholeParts
<1>4. ASSUME NEW c \in Conns, NEW js \in SUBSET jobs, NEW k \in Crossed(js, c),
             k.by # "ask", k.todo = <<>>, ~k.crossed,
             \A d \in Conns : d # c => server'[d] = server[d]
      PROVE  Whole(k)'
  <2>1. js \in SUBSET Closures
    BY <1>2
  <2>2. PICK i \in js : /\ Alike(i, k) /\ k.todo = i.todo /\ k.done = i.done
                        /\ k.crossed <=> i.crossed \/ i.conn = c
    BY <2>1, CrossedKeeps
  <2>3. i.conn \in Conns /\ i.conn # c /\ Whole(i)
    BY <1>2, <1>3, <1>4, <2>2 DEF Closures, Alike
  <2> QED
    BY <1>4, <2>2, <2>3, WholeStays DEF Alike
<1>5. ASSUME NEW j \in jobs, Accept(j) PROVE EditsAreWhole'
  <2> DEFINE c == j.conn
             new == [j EXCEPT !.todo = Tail(j.todo), !.done = TRUE]
             t == Effect(server[j.conn], Head(j.todo))
  <2>1. /\ j.todo # <<>> /\ Accepts(server[j.conn], Head(j.todo))
        /\ server' = [server EXCEPT ![j.conn] = t] /\ jobs' = Crossed(jobs \ {j}, c) \cup {new}
    BY <1>5 DEF Accept
  <2>2. j \in Closures /\ c \in Conns /\ server[c] \in Schemas
    BY <1>2 DEF Closures
  <2>3. Alike(j, new) /\ new.todo = Tail(j.todo) /\ (new.crossed <=> j.crossed)
    BY <2>2 DEF Closures, Alike
  <2> HIDE DEF new, t
  <2>4. server'[c] = t /\ \A d \in Conns : d # c => server'[d] = server[d]
    BY <1>2, <2>1, <2>2
  <2>5. ASSUME new.by # "ask", new.todo = <<>>, ~new.crossed PROVE Whole(new)'
    <3>1. Sent(j) /\ j.by # "ask"
      BY <1>1, <2>3, <2>5, SentParts DEF Fits, Alike
    <3> QED
      BY <2>1, <2>2, <2>3, <2>4, <2>5, <3>1, LastMakesWhole DEF t
  <2>6. ASSUME NEW k \in jobs', k.by # "ask", k.todo = <<>>, ~k.crossed PROVE Whole(k)'
    <3>1. CASE k = new
      BY <2>5, <2>6, <3>1
    <3>2. CASE k \in Crossed(jobs \ {j}, c)
      <4>1. jobs \ {j} \in SUBSET jobs
        OBVIOUS
      <4> QED
        BY <1>4, <2>2, <2>4, <2>6, <3>2, <4>1
    <3> QED
      BY <2>1, <2>6, <3>1, <3>2
  <2> QED
    BY <2>6, WholeParts
<1>6. ASSUME NEW c \in Conns, Elsewhere(c) PROVE EditsAreWhole'
  <2>1. /\ jobs' = Crossed(jobs, c)
        /\ \A d \in Conns : d # c => server'[d] = server[d]
    BY <1>2, <1>6 DEF Elsewhere
  <2>2. ASSUME NEW k \in jobs', k.by # "ask", k.todo = <<>>, ~k.crossed PROVE Whole(k)'
    BY <1>4, <2>1, <2>2
  <2> QED
    BY <2>2, WholeParts
<1>8. ASSUME NEW l \in late, Lands(l) PROVE EditsAreWhole'
  <2>1. l.conn \in Conns
    BY <1>1 DEF Typed, RestOK, Sents
  <2>2. /\ jobs' = Crossed(jobs, l.conn)
        /\ \A d \in Conns : d # l.conn => server'[d] = server[d]
    BY <1>2, <1>8 DEF Lands
  <2>3. ASSUME NEW k \in jobs', k.by # "ask", k.todo = <<>>, ~k.crossed PROVE Whole(k)'
    BY <1>4, <2>1, <2>2, <2>3
  <2> QED
    BY <2>3, WholeParts
<1>7. CASE (~\E j \in jobs : Accept(j)) /\ (~\E c \in Conns : Elsewhere(c))
           /\ (~\E l \in late : Lands(l))
  <2>1. /\ server' = server
        /\ \A k \in jobs' : \/ \E j \in jobs : SameWork(j, k)
                            \/ k.todo # <<>> \/ k.by = "ask"
    BY <1>7, WorkIsKept
  <2>2. ASSUME NEW k \in jobs', k.by # "ask", k.todo = <<>>, ~k.crossed PROVE Whole(k)'
    <3>1. PICK j \in jobs : SameWork(j, k)
      BY <2>1, <2>2
    <3>2. Whole(j)
      BY <1>3, <2>2, <3>1 DEF SameWork
    <3> QED
      BY <2>1, <3>1, <3>2, WholeStays DEF SameWork
  <2> QED
    BY <2>2, WholeParts
<1> QED
  BY <1>5, <1>6, <1>7, <1>8

\* An Apply that went through has done all that its form showed, whatever else
\* the program did meanwhile, if nobody else altered the table.
THEOREM EditsStayWhole == Spec => []EditsAreWhole
<1>1. Init => EditsAreWhole
  BY DEF Init, EditsAreWhole
<1>2. IInv /\ EditsAreWhole /\ [Next]_vars => EditsAreWhole'
  BY NextWhole
<1> QED
  BY <1>1, <1>2, InvariantHolds, PTL DEF Spec

=============================================================================
