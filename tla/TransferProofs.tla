---------------------------- MODULE TransferProofs ----------------------------
(***************************************************************************)
(* What the Import and Export pages and the import jobs keep, for any      *)
(* connections, dumps and bounds.                                          *)
(*                                                                         *)
(* A step either changes what the pages show, and then no job but that a   *)
(* runner may disown it (ShowKeeps); or one job, of which a page shows no  *)
(* more than that it has ended (KeepKeeps, EndKeeps).                      *)
(***************************************************************************)
EXTENDS Transfer, TLAPS

Forms == [probe : BOOLEAN, format : Formats \cup {"unknown", None},
          conn : Conns \cup {None}, dest : BOOLEAN]
Pages == {"import", "export", "away"}

-----------------------------------------------------------------------------
(* The records of jobs.                                                    *)

LEMMA RecordTypes ==
  ASSUME NEW r \in Records
  PROVE  /\ r.kind \in {"import", "export"} /\ r.conn \in Conns \cup {None}
         /\ r.format \in Formats \cup {None} /\ r.tx \in BOOLEAN /\ r.halt \in BOOLEAN
         /\ r.wraps \in BOOLEAN
         /\ r.dump \in Dumps \cup {<<>>} /\ r.dump \in Seq(Statements)
         /\ r.st \in {"new", "flight", "ok", "error"} /\ r.own \in BOOLEAN
         /\ r.at \in Nat /\ r.erred \in BOOLEAN /\ r.cut \in BOOLEAN
         /\ r.child \in {"none", "running", "done", "failed", "gone"}
         /\ r.held \in SUBSET Nat /\ r.kept \in SUBSET Nat /\ Len(r.dump) \in Nat
<1>1. r.dump \in Dumps \cup {<<>>}
  BY DEF Records
<1>2. r.dump \in Seq(Statements)
  <2>1. <<>> \in Seq(Statements)
    OBVIOUS
  <2> QED
    BY <1>1, <2>1, TransferAssumption
<1>3. Len(r.dump) \in Nat
  BY <1>2
<1> QED
  BY <1>1, <1>2, <1>3 DEF Records

\* Two records that tell the same of a child.
SameChild(r, q) ==
  /\ q.child = r.child /\ q.at = r.at /\ q.held = r.held /\ q.kept = r.kept
  /\ q.cut = r.cut /\ q.format = r.format /\ q.dump = r.dump /\ q.tx = r.tx
  /\ q.halt = r.halt /\ q.wraps = r.wraps

\* ... and of the job, but for who owns it and how it stands.
SameJob(r, q) == SameChild(r, q) /\ q.kind = r.kind /\ q.conn = r.conn

LEMMA SameChildIsExact ==
  ASSUME NEW r, NEW q, SameChild(r, q), ChildIsExact(r)
  PROVE  ChildIsExact(q)
<1>1. Atomic(q) <=> Atomic(r)
  BY DEF SameChild, Atomic, Halts, All
<1>2. Good(q) = Good(r) /\ All(q) = All(r) /\ GoodUpTo(q, q.at) = GoodUpTo(r, r.at)
  BY DEF SameChild, Good, GoodUpTo, All
<1>3. (Halts(q) <=> Halts(r)) /\ (InTransaction(q) <=> InTransaction(r))
  BY DEF SameChild, Halts, InTransaction
<1>4. Whole(q) <=> Whole(r)
  BY <1>2, <1>3 DEF SameChild, Whole
<1> QED
  BY <1>1, <1>2, <1>3, <1>4 DEF SameChild, ChildIsExact

LEMMA Disowned ==
  ASSUME NEW r \in Records
  PROVE  LET q == [r EXCEPT !.own = FALSE] IN
         q \in Records /\ SameJob(r, q) /\ q.st = r.st /\ q.own = FALSE
BY DEF Records, SameJob, SameChild

LEMMA Stood ==
  ASSUME NEW r \in Records, NEW out \in {"ok", "error"}
  PROVE  LET q == [r EXCEPT !.st = out] IN
         q \in Records /\ SameJob(r, q) /\ q.st = out /\ q.own = r.own
BY DEF Records, SameJob, SameChild

-----------------------------------------------------------------------------
(* What the pages show.                                                    *)

Panes == [is : {"idle", "running", "ok", "error"}, of : Jobs \cup {None}]

PaneVarsOK ==
  /\ page \in Pages /\ form \in Forms /\ prompt \in {"idle", "installing", "error"}
  /\ pane \in Panes /\ job \in [Jobs -> Records] /\ lastJob \in 0..MaxJobs
  /\ unseen \subseteq Jobs

RestOK ==
  /\ picking \in [BOOLEAN -> Nat]
  /\ have \subseteq Engines
  /\ known \in (SUBSET Engines) \cup {None}
  /\ asks \subseteq [n : Nat, saw : SUBSET Engines]
  /\ asked \in Nat
  /\ installs \subseteq [engine : Engines, here : BOOLEAN]
  /\ gestures \in 0..MaxGestures

LEMMA TypeParts ==
  (TypeOK <=> PaneVarsOK /\ RestOK) /\ (TypeOK' <=> PaneVarsOK' /\ RestOK')
BY DEF TypeOK, PaneVarsOK, RestOK, Forms, Pages, Panes

LEMMA NoneIsNoJob == None \notin Jobs /\ Jobs \subseteq Nat /\ MaxJobs \in Nat
BY TransferAssumption DEF Jobs

\* Jobs that stay what they are.
LEMMA JobsStay ==
  ASSUME JobsAreExact, ChildrenAreExact, lastJob' = lastJob, unseen' \subseteq unseen,
         \A j \in Jobs : SameJob(job[j], job'[j]) /\ job'[j].st = job[j].st
  PROVE  JobsAreExact' /\ ChildrenAreExact'
<1>1. JobsAreExact'
  BY DEF JobsAreExact, SameJob, SameChild
<1>2. ChildrenAreExact'
  <2>1. ASSUME NEW j \in Jobs PROVE ChildIsExact(job'[j])
    BY SameChildIsExact DEF SameJob, ChildrenAreExact
  <2> QED
    BY <2>1 DEF ChildrenAreExact
<1> QED
  BY <1>1, <1>2

LEMMA EngineIsFormat == \A c \in Conns : EngineOf[c] \in Formats /\ c # None
BY TransferAssumption DEF Formats

\* What an Export page keeps of its form is a form of the same source.
LEMMA KeptIsForm ==
  ASSUME NEW p, NEW f \in Forms, NEW k
  PROVE  /\ Kept(p, f, k) \in Forms
         /\ Kept(p, f, k).conn = f.conn
         /\ RunnerShown(p, f, k) => Kept(p, f, k) = f
         /\ p = "export" /\ f.conn # None /\ f.format \in Formats =>
              Kept(p, f, k).format \in Formats
<1> DEFINE g == [f EXCEPT !.format = EngineOf[f.conn], !.dest = FALSE]
<1>1. f.conn \in Conns \cup {None}
  BY DEF Forms
<1>2. CASE p = "export" /\ f.conn # None /\ ~RunnerShown(p, f, k)
  <2>1. EngineOf[f.conn] \in Formats
    BY <1>1, <1>2, EngineIsFormat
  <2>2. g \in Forms /\ g.conn = f.conn /\ g.format \in Formats
    BY <2>1 DEF Forms
  <2> HIDE DEF g
  <2>3. Kept(p, f, k) = g
    BY <1>2 DEF Kept, g
  <2> QED
    BY <1>2, <2>2, <2>3
<1>3. CASE ~(p = "export" /\ f.conn # None /\ ~RunnerShown(p, f, k))
  <2>1. Kept(p, f, k) = f
    BY <1>3 DEF Kept
  <2> QED
    BY <2>1
<1> QED
  BY <1>2, <1>3

\* The form that is shown fits its page if the one that was asked for does.
LEMMA FormStillFits ==
  ASSUME NEW p, NEW f \in Forms, NEW k, NEW status, Show(p, f, k, status, pane, job),
         p = "export" /\ f.conn # None => f.format \in Formats,
         \A had \in BOOLEAN : picking'[had] > 0 => p = "import"
  PROVE  FormFits'
<1>1. page' = p /\ form' = Kept(p, f, k)
  BY DEF Show
<1> QED
  BY <1>1, KeptIsForm DEF FormFits

\* A page that shows something else keeps its runner, or the runner's job is
\* nobody's.
LEMMA ShowKeeps ==
  ASSUME PaneVarsOK, PaneIsExact, JobsAreExact, ChildrenAreExact,
         NEW p \in Pages, NEW f \in Forms, NEW k,
         NEW status \in {"idle", "installing", "error"},
         Show(p, f, k, status, pane, job), known' = k, lastJob' = lastJob, unseen' = unseen
  PROVE  PaneVarsOK' /\ PaneIsExact' /\ JobsAreExact' /\ ChildrenAreExact'
<1>1. /\ page' = p /\ form' = Kept(p, f, k) /\ page' \in Pages /\ form' \in Forms
      /\ prompt' \in {"idle", "installing", "error"}
  BY KeptIsForm DEF Show
<1>2. CASE p = page /\ RunnerShown(p, f, k)
  <2>1. pane' = pane /\ job' = job
    BY <1>2 DEF Show
  <2>2. PaneVarsOK'
    BY <1>1, <2>1 DEF PaneVarsOK
  <2>3. RunnerShown(page, form, known)'
    BY <1>1, <1>2, KeptIsForm
  <2>4. PaneIsExact'
    BY <2>1, <2>3 DEF PaneIsExact
  <2>5. JobsAreExact' /\ ChildrenAreExact'
    BY <2>1, JobsStay DEF SameJob, SameChild
  <2> QED
    BY <2>2, <2>4, <2>5
<1>3. CASE ~(p = page /\ RunnerShown(p, f, k))
  <2>1. pane' = Idle /\ job' = [j \in Jobs |-> [job[j] EXCEPT !.own = FALSE]]
    BY <1>3 DEF Show
  <2>2. \A j \in Jobs : job[j] \in Records
    BY DEF PaneVarsOK
  <2>3. \A j \in Jobs : /\ job'[j] \in Records /\ SameJob(job[j], job'[j])
                        /\ job'[j].st = job[j].st /\ job'[j].own = FALSE
    BY <2>1, <2>2, Disowned
  <2>4. PaneVarsOK'
    <3>1. job' \in [Jobs -> Records]
      BY <2>1, <2>3
    <3>2. pane' \in Panes
      BY <2>1 DEF Idle, Panes
    <3> QED
      BY <1>1, <3>1, <3>2 DEF PaneVarsOK
  <2>5. PaneIsExact'
    BY <2>1, <2>3 DEF PaneIsExact, Idle
  <2>6. JobsAreExact' /\ ChildrenAreExact'
    BY <2>3, JobsStay
  <2> QED
    BY <2>4, <2>5, <2>6
<1> QED
  BY <1>2, <1>3

LEMMA QuietKeeps ==
  ASSUME PaneVarsOK, PaneIsExact, JobsAreExact, ChildrenAreExact,
         UNCHANGED <<page, form, known, jobVars>>,
         prompt' \in {"idle", "installing", "error"}
  PROVE  PaneVarsOK' /\ PaneIsExact' /\ JobsAreExact' /\ ChildrenAreExact'
<1>1. PaneVarsOK'
  BY DEF PaneVarsOK, jobVars
<1>2. RunnerShown(page, form, known)' <=> RunnerShown(page, form, known)
  BY DEF RunnerShown, BundleKey, ToolReady
<1>3. PaneIsExact'
  BY <1>2 DEF PaneIsExact, jobVars
<1>4. JobsAreExact' /\ ChildrenAreExact'
  BY JobsStay DEF SameJob, SameChild, jobVars
<1> QED
  BY <1>1, <1>3, <1>4

-----------------------------------------------------------------------------
(* The tool cache.                                                         *)

LEMMA InstallsTyped ==
  ASSUME NEW p, NEW f, NEW ins \in SUBSET [engine : Engines, here : BOOLEAN]
  PROVE  Installs(p, f, ins) \subseteq [engine : Engines, here : BOOLEAN]
<1>1. ASSUME NEW i \in ins
      PROVE  [i EXCEPT !.here = FALSE] \in [engine : Engines, here : BOOLEAN]
  BY <1>1
<1> QED
  BY <1>1 DEF Installs

\* A list that is asked for will tell of what is on the machine by then.
LEMMA AsksGrow ==
  ASSUME RestOK, ReadyIsReal, NEW h \in SUBSET Engines, have \subseteq h, have' = h,
         asks' = asks \cup Asked(h), asked' = asked + 1
  PROVE  /\ asks' \subseteq [n : Nat, saw : SUBSET Engines] /\ asked' \in Nat
         /\ \A a \in asks' : a.saw \subseteq have' /\ a.n <= asked'
<1>1. asked \in Nat /\ asks \subseteq [n : Nat, saw : SUBSET Engines]
  BY DEF RestOK
<1>2. \A a \in asks : a.n \in Nat /\ a.n <= asked /\ a.saw \subseteq h
  BY <1>1 DEF ReadyIsReal
<1>3. [n |-> asked + 1, saw |-> h] \in [n : Nat, saw : SUBSET Engines]
  BY <1>1
<1> QED
  BY <1>1, <1>2, <1>3 DEF Asked

LEMMA RefreshKeeps == IInv /\ Refresh => IInv'
<1> SUFFICES ASSUME IInv, Refresh PROVE IInv'
  OBVIOUS
<1>1. PaneVarsOK /\ RestOK
  BY TypeParts DEF IInv
<1>2. PaneVarsOK' /\ PaneIsExact' /\ JobsAreExact' /\ ChildrenAreExact'
  BY <1>1, QuietKeeps DEF Refresh, pageVars, IInv, PaneVarsOK
<1>3. /\ asks' \subseteq [n : Nat, saw : SUBSET Engines] /\ asked' \in Nat
      /\ \A a \in asks' : a.saw \subseteq have' /\ a.n <= asked'
  BY <1>1, AsksGrow DEF Refresh, IInv, RestOK
<1>4. RestOK'
  BY <1>1, <1>3, TransferAssumption DEF Refresh, Gesture, pageVars, RestOK
<1>5. ReadyIsReal' /\ FormFits'
  BY <1>3 DEF Refresh, pageVars, IInv, ReadyIsReal, FormFits
<1> QED
  BY <1>2, <1>4, <1>5, TypeParts DEF IInv

\* Whatever a list answers that was asked for, or the one that is there.
LEMMA AnsweredKeeps ==
  ASSUME IInv, NEW a \in asks, NEW k, Answered(a, k)
  PROVE  IInv'
<1>1. PaneVarsOK /\ RestOK
  BY TypeParts DEF IInv
<1>2. /\ k \in {a.saw, known} /\ known' = k /\ asks' = asks \ {a}
      /\ Show(page, form, k, prompt, pane, job)
      /\ installs' = Installs(page, form, installs)
      /\ UNCHANGED <<picking, have, asked, lastJob, unseen, gestures>>
  BY DEF Answered
<1>3. a.saw \subseteq have /\ a.saw \subseteq Engines
  BY <1>1 DEF IInv, ReadyIsReal, RestOK
<1>4. PaneVarsOK' /\ PaneIsExact' /\ JobsAreExact' /\ ChildrenAreExact'
  BY <1>1, <1>2, ShowKeeps DEF IInv, PaneVarsOK
<1>5. installs' \subseteq [engine : Engines, here : BOOLEAN]
  BY <1>1, <1>2, InstallsTyped DEF RestOK
<1>6. RestOK'
  BY <1>1, <1>2, <1>3, <1>5 DEF RestOK
<1>7. ReadyIsReal'
  BY <1>2, <1>3 DEF IInv, ReadyIsReal
<1>8. FormFits'
  BY <1>1, <1>2, FormStillFits DEF IInv, FormFits, PaneVarsOK
<1> QED
  BY <1>4, <1>6, <1>7, <1>8, TypeParts DEF IInv

LEMMA BundleKeyTyped ==
  ASSUME NEW p, NEW f \in Forms
  PROVE  BundleKey(p, f) \in Engines \cup {None}
<1>1. f.conn # None => EngineOf[f.conn] \in Engines
  BY TransferAssumption DEF Forms, Engines
<1>2. EngineForFormat(f.format) \in Engines \cup {None}
  BY DEF EngineForFormat, Engines
<1> QED
  BY <1>1, <1>2 DEF BundleKey

LEMMA InstallKeeps == IInv /\ Install => IInv'
<1> SUFFICES ASSUME IInv, Install PROVE IInv'
  OBVIOUS
<1>1. PaneVarsOK /\ RestOK
  BY TypeParts DEF IInv
<1> DEFINE e == BundleKey(page, form)
<1>2. /\ e # None /\ prompt' = "installing" /\ gestures < MaxGestures
      /\ gestures' = gestures + 1
      /\ installs' = installs \cup {[engine |-> e, here |-> TRUE]}
      /\ UNCHANGED <<page, form, picking, have, known, asks, asked, jobVars>>
  BY DEF Install, Gesture
<1>3. e \in Engines
  BY <1>1, <1>2, BundleKeyTyped DEF PaneVarsOK
<1> HIDE DEF e
<1>4. PaneVarsOK' /\ PaneIsExact' /\ JobsAreExact' /\ ChildrenAreExact'
  BY <1>1, <1>2, QuietKeeps DEF IInv
<1>5. RestOK'
  <2>1. installs' \subseteq [engine : Engines, here : BOOLEAN]
    <3>1. [engine |-> e, here |-> TRUE] \in [engine : Engines, here : BOOLEAN]
      BY <1>3
    <3> QED
      BY <1>1, <1>2, <3>1 DEF RestOK
  <2>2. gestures' \in 0..MaxGestures
    BY <1>1, <1>2, TransferAssumption DEF RestOK
  <2> QED
    BY <1>1, <1>2, <2>1, <2>2 DEF RestOK
<1>6. ReadyIsReal' /\ FormFits'
  BY <1>2 DEF IInv, ReadyIsReal, FormFits
<1> QED
  BY <1>4, <1>5, <1>6, TypeParts DEF IInv

LEMMA InstalledKeeps ==
  ASSUME IInv, NEW i \in installs, Installed(i)
  PROVE  IInv'
<1>1. PaneVarsOK /\ RestOK
  BY TypeParts DEF IInv
<1>2. /\ have' = have \cup {i.engine} /\ known' = Merged(i.engine)
      /\ asks' = asks \cup Asked(have') /\ asked' = asked + 1
      /\ Show(page, form, known', Status(i, "idle"), pane, job)
      /\ installs' = Installs(page, form, installs \ {i})
      /\ UNCHANGED <<picking, lastJob, unseen, gestures>>
  BY DEF Installed
<1>3. i.engine \in Engines /\ i.here \in BOOLEAN /\ have' \in SUBSET Engines
  BY <1>1, <1>2 DEF RestOK
<1>4. Status(i, "idle") \in {"idle", "installing", "error"}
  BY <1>1 DEF Status, PaneVarsOK
<1>5. PaneVarsOK' /\ PaneIsExact' /\ JobsAreExact' /\ ChildrenAreExact'
  BY <1>1, <1>2, <1>4, ShowKeeps DEF IInv, PaneVarsOK
<1>6. /\ asks' \subseteq [n : Nat, saw : SUBSET Engines] /\ asked' \in Nat
      /\ \A a \in asks' : a.saw \subseteq have' /\ a.n <= asked'
  <2>1. have \subseteq have'
    BY <1>2
  <2> QED
    BY <1>1, <1>2, <1>3, <2>1, AsksGrow DEF IInv
<1>7. installs' \subseteq [engine : Engines, here : BOOLEAN]
  BY <1>1, <1>2, InstallsTyped DEF RestOK
<1>8. known' \in (SUBSET Engines) \cup {None} /\ (known' # None => known' \subseteq have')
  BY <1>1, <1>2, <1>3 DEF RestOK, Merged, IInv, ReadyIsReal
<1>9. RestOK'
  BY <1>1, <1>2, <1>3, <1>6, <1>7, <1>8 DEF RestOK
<1>10. ReadyIsReal'
  BY <1>2, <1>6, <1>8 DEF ReadyIsReal
<1>11. FormFits'
  BY <1>1, <1>2, FormStillFits DEF IInv, FormFits, PaneVarsOK
<1> QED
  BY <1>5, <1>9, <1>10, <1>11, TypeParts DEF IInv

LEMMA InstallFailsKeeps ==
  ASSUME IInv, NEW i \in installs, InstallFails(i)
  PROVE  IInv'
<1>1. PaneVarsOK /\ RestOK
  BY TypeParts DEF IInv
<1>2. Status(i, "error") \in {"idle", "installing", "error"}
  BY <1>1 DEF Status, PaneVarsOK
<1>3. PaneVarsOK' /\ PaneIsExact' /\ JobsAreExact' /\ ChildrenAreExact'
  BY <1>1, <1>2, QuietKeeps DEF InstallFails, IInv
<1>4. RestOK' /\ ReadyIsReal' /\ FormFits'
  BY <1>1 DEF InstallFails, RestOK, IInv, ReadyIsReal, FormFits
<1> QED
  BY <1>3, <1>4, TypeParts DEF IInv

LEMMA InstallOwnKeeps ==
  ASSUME IInv, NEW e \in Engines, InstallOwn(e)
  PROVE  IInv'
<1>1. PaneVarsOK /\ RestOK
  BY TypeParts DEF IInv
<1>2. PaneVarsOK' /\ PaneIsExact' /\ JobsAreExact' /\ ChildrenAreExact'
  BY <1>1, QuietKeeps DEF InstallOwn, IInv, pageVars, PaneVarsOK
<1>3. RestOK'
  BY <1>1, TransferAssumption DEF InstallOwn, RestOK, Gesture, pageVars
<1>4. ReadyIsReal' /\ FormFits'
  BY DEF InstallOwn, pageVars, IInv, ReadyIsReal, FormFits
<1> QED
  BY <1>2, <1>3, <1>4, TypeParts DEF IInv

-----------------------------------------------------------------------------
(* The forms.                                                              *)

LEMMA GestureTyped ==
  ASSUME gestures \in 0..MaxGestures, Gesture \/ UNCHANGED gestures
  PROVE  gestures' \in 0..MaxGestures
BY TransferAssumption DEF Gesture

LEMMA ChangeKeeps ==
  ASSUME IInv, NEW f \in Forms, Change(f), picking' \in [BOOLEAN -> Nat],
         Gesture \/ UNCHANGED gestures,
         \A had \in BOOLEAN : picking'[had] > 0 => page = "import",
         page = "export" /\ f.conn # None => f.format \in Formats
  PROVE  IInv'
<1>1. PaneVarsOK /\ RestOK
  BY TypeParts DEF IInv
<1>2. /\ Show(page, f, known, prompt, pane, job)
      /\ installs' = Installs(page, f, installs)
      /\ UNCHANGED <<have, known, asks, asked, lastJob, unseen>>
  BY DEF Change
<1>3. PaneVarsOK' /\ PaneIsExact' /\ JobsAreExact' /\ ChildrenAreExact'
  BY <1>1, <1>2, ShowKeeps DEF IInv, PaneVarsOK
<1>4. installs' \subseteq [engine : Engines, here : BOOLEAN]
  BY <1>1, <1>2, InstallsTyped DEF RestOK
<1>5. RestOK'
  BY <1>1, <1>2, <1>4, GestureTyped DEF RestOK
<1>6. ReadyIsReal'
  BY <1>2 DEF IInv, ReadyIsReal
<1>7. FormFits'
  BY <1>2, FormStillFits
<1> QED
  BY <1>3, <1>5, <1>6, <1>7, TypeParts DEF IInv

LEMMA GoToKeeps ==
  ASSUME IInv, NEW p \in Pages, NEW c \in Conns \cup {None}, GoTo(p, c)
  PROVE  IInv'
<1> DEFINE f == [Blank EXCEPT !.conn = IF p = "away" THEN None ELSE c,
                 !.format = IF p = "export" /\ c # None THEN EngineOf[c] ELSE None]
<1>1. PaneVarsOK /\ RestOK
  BY TypeParts DEF IInv
<1>2. /\ Show(p, f, known, "idle", pane, job)
      /\ installs' = Installs(p, f, installs)
      /\ asks' = IF p = "away" THEN asks ELSE asks \cup Asked(have)
      /\ asked' = IF p = "away" THEN asked ELSE asked + 1
      /\ picking' = NonePicking /\ Gesture
      /\ UNCHANGED <<have, known, lastJob, unseen>>
  BY DEF GoTo
<1>3. f \in Forms /\ (p = "export" /\ f.conn # None => f.format \in Formats)
  BY EngineIsFormat DEF Blank, Forms
<1> HIDE DEF f
<1>4. PaneVarsOK' /\ PaneIsExact' /\ JobsAreExact' /\ ChildrenAreExact'
  BY <1>1, <1>2, <1>3, ShowKeeps DEF IInv, PaneVarsOK
<1>5. installs' \subseteq [engine : Engines, here : BOOLEAN]
  BY <1>1, <1>2, InstallsTyped DEF RestOK
<1>6. /\ asks' \subseteq [n : Nat, saw : SUBSET Engines] /\ asked' \in Nat
      /\ \A a \in asks' : a.saw \subseteq have' /\ a.n <= asked'
  <2>1. CASE p = "away"
    BY <1>1, <1>2, <2>1 DEF RestOK, IInv, ReadyIsReal
  <2>2. CASE p # "away"
    BY <1>1, <1>2, <2>2, AsksGrow DEF RestOK, IInv
  <2> QED
    BY <2>1, <2>2
<1>7. RestOK'
  BY <1>1, <1>2, <1>5, <1>6, GestureTyped DEF RestOK, NonePicking
<1>8. ReadyIsReal'
  BY <1>2, <1>6 DEF IInv, ReadyIsReal
<1>9. FormFits'
  <2>1. \A had \in BOOLEAN : ~(picking'[had] > 0)
    BY <1>2 DEF NonePicking
  <2> QED
    BY <1>2, <1>3, <2>1, FormStillFits
<1> QED
  BY <1>4, <1>7, <1>8, <1>9, TypeParts DEF IInv

LEMMA FormTypes ==
  ASSUME IInv
  PROVE  /\ form \in Forms /\ form.probe \in BOOLEAN /\ form.dest \in BOOLEAN
         /\ form.format \in Formats \cup {"unknown", None}
         /\ form.conn \in Conns \cup {None} /\ picking \in [BOOLEAN -> Nat]
         /\ \A had \in BOOLEAN : picking[had] > 0 => page = "import"
         /\ (page = "export" /\ form.conn # None => form.format \in Formats)
<1>1. form \in Forms /\ picking \in [BOOLEAN -> Nat]
  BY TypeParts DEF IInv, PaneVarsOK, RestOK
<1> QED
  BY <1>1 DEF Forms, IInv, FormFits

LEMMA PickFileKeeps == IInv /\ PickFile => IInv'
<1> SUFFICES ASSUME IInv, PickFile PROVE IInv'
  OBVIOUS
<1> DEFINE f == [form EXCEPT !.probe = FALSE]
<1>1. /\ page = "import" /\ Change(f) /\ Gesture
      /\ picking' = [picking EXCEPT ![form.conn # None] = @ + 1]
  BY DEF PickFile
<1>2. f \in Forms
  BY FormTypes DEF Forms
<1>3. picking' \in [BOOLEAN -> Nat]
  <2>1. PICK had \in BOOLEAN : had = (form.conn # None)
    OBVIOUS
  <2>2. picking[had] \in Nat /\ picking[had] + 1 \in Nat
    BY FormTypes
  <2>3. picking' = [picking EXCEPT ![had] = picking[had] + 1]
    BY <1>1, <2>1
  <2> QED
    BY <2>2, <2>3, FormTypes
<1> QED
  BY <1>1, <1>2, <1>3, ChangeKeeps

LEMMA ProbedKeeps ==
  ASSUME IInv, NEW g \in Formats \cup {"unknown"}, NEW c \in Conns \cup {None},
         NEW had \in BOOLEAN, Probed(g, c, had)
  PROVE  IInv'
<1> DEFINE f == [form EXCEPT !.probe = TRUE, !.format = g, !.conn = c]
<1>1. /\ picking[had] > 0 /\ picking' = [picking EXCEPT ![had] = @ - 1]
      /\ Change(f) /\ UNCHANGED gestures
  BY DEF Probed
<1>2. page = "import" /\ picking' \in [BOOLEAN -> Nat]
  <2>1. picking[had] \in Nat /\ picking[had] - 1 \in Nat
    BY <1>1, FormTypes
  <2> QED
    BY <1>1, <2>1, FormTypes
<1>3. f \in Forms
  BY FormTypes DEF Forms
<1> QED
  BY <1>1, <1>2, <1>3, ChangeKeeps

LEMMA ProbeFailsKeeps ==
  ASSUME IInv, NEW had \in BOOLEAN, ProbeFails(had)
  PROVE  IInv'
<1>1. PaneVarsOK /\ RestOK
  BY TypeParts DEF IInv
<1>2. PaneVarsOK' /\ PaneIsExact' /\ JobsAreExact' /\ ChildrenAreExact'
  BY <1>1, QuietKeeps DEF ProbeFails, toolVars, PaneVarsOK, IInv
<1>3. picking' \in [BOOLEAN -> Nat] /\ page = "import" /\ page' = page
  <2>1. picking[had] \in Nat /\ picking[had] - 1 \in Nat /\ page = "import"
    BY FormTypes DEF ProbeFails
  <2> QED
    BY <2>1, FormTypes DEF ProbeFails
<1>4. RestOK' /\ ReadyIsReal' /\ FormFits'
  BY <1>1, <1>3 DEF ProbeFails, toolVars, RestOK, IInv, ReadyIsReal, FormFits
<1> QED
  BY <1>2, <1>4, TypeParts DEF IInv

LEMMA SetFormatKeeps ==
  ASSUME IInv, NEW g \in Formats, SetFormat(g)
  PROVE  IInv'
<1> DEFINE f == [form EXCEPT !.format = g]
<1>1. Change(f) /\ Gesture /\ picking' = picking
  BY DEF SetFormat
<1>2. f \in Forms /\ f.format = g
  BY FormTypes DEF Forms
<1> QED
  BY <1>1, <1>2, FormTypes, ChangeKeeps

LEMMA SetConnKeeps ==
  ASSUME IInv, NEW c \in Conns, SetConn(c)
  PROVE  IInv'
<1>1. CASE page = "export" /\ ~RunnerShown(page, form, known)
  <2> DEFINE f == [form EXCEPT !.conn = c, !.format = EngineOf[c], !.dest = FALSE]
  <2>1. Change(f) /\ Gesture /\ picking' = picking
    BY <1>1 DEF SetConn
  <2>2. f \in Forms /\ f.format \in Formats
    BY FormTypes, EngineIsFormat DEF Forms
  <2> QED
    BY <2>1, <2>2, FormTypes, ChangeKeeps
<1>2. CASE ~(page = "export" /\ ~RunnerShown(page, form, known))
  <2> DEFINE f == [form EXCEPT !.conn = c]
  <2>1. Change(f) /\ Gesture /\ picking' = picking
    BY <1>2 DEF SetConn
  <2>2. f \in Forms /\ f.format = form.format
    BY FormTypes DEF Forms
  \* The Export page has a runner, and with it a source.
  <2>3. page = "export" => form.conn # None
    BY <1>2 DEF RunnerShown, BundleKey
  <2> QED
    BY <2>1, <2>2, <2>3, FormTypes, ChangeKeeps
<1> QED
  BY <1>1, <1>2

LEMMA PickDestKeeps == IInv /\ PickDest => IInv'
<1> SUFFICES ASSUME IInv, PickDest PROVE IInv'
  OBVIOUS
<1> DEFINE f == [form EXCEPT !.dest = TRUE]
<1>1. Change(f) /\ Gesture /\ picking' = picking
  BY DEF PickDest
<1>2. f \in Forms /\ f.format = form.format /\ f.conn = form.conn
  BY FormTypes DEF Forms
<1> QED
  BY <1>1, <1>2, FormTypes, ChangeKeeps

-----------------------------------------------------------------------------
(* Jobs.                                                                   *)

LEMMA PagesStay ==
  ASSUME IInv, UNCHANGED <<pageVars, toolVars>>, Gesture \/ UNCHANGED gestures
  PROVE  /\ RestOK' /\ ReadyIsReal' /\ FormFits'
         /\ RunnerShown(page, form, known)' <=> RunnerShown(page, form, known)
         /\ page' \in Pages /\ form' \in Forms /\ prompt' \in {"idle", "installing", "error"}
<1>1. PaneVarsOK /\ RestOK
  BY TypeParts DEF IInv
<1>2. RestOK'
  BY <1>1, GestureTyped DEF RestOK, pageVars, toolVars
<1>3. ReadyIsReal' /\ FormFits'
  BY DEF IInv, ReadyIsReal, FormFits, pageVars, toolVars
<1>4. RunnerShown(page, form, known)' <=> RunnerShown(page, form, known)
  BY DEF pageVars, toolVars, RunnerShown, BundleKey, ToolReady
<1>5. page' \in Pages /\ form' \in Forms /\ prompt' \in {"idle", "installing", "error"}
  BY <1>1 DEF PaneVarsOK, pageVars
<1> QED
  BY <1>2, <1>3, <1>4, <1>5

\* One job that has started stays what it is, but for its child and its state.
LEMMA JobChanges ==
  ASSUME IInv, UNCHANGED <<pageVars, toolVars, lastJob>>, Gesture \/ UNCHANGED gestures,
         NEW j \in Jobs, NEW rec \in Records, job' = [job EXCEPT ![j] = rec],
         job[j].st = "flight",
         rec.kind = job[j].kind, rec.conn = job[j].conn, rec.format = job[j].format,
         rec.own = job[j].own, rec.st # "new",
         rec.child # "none" => rec.kind = "import",
         rec.st = "ok" /\ rec.kind = "import" => rec.child = "done",
         ChildIsExact(rec),
         unseen' \subseteq unseen \cup (IF rec.kind = "import" THEN {j} ELSE {}),
         rec.st = "ok" => j \notin unseen',
         pane' = IF rec.st = "flight" \/ ~rec.own THEN pane ELSE [is |-> rec.st, of |-> j]
  PROVE  IInv'
<1>1. PaneVarsOK /\ RestOK /\ job \in [Jobs -> Records]
  BY TypeParts DEF IInv, PaneVarsOK
<1>2. /\ RestOK' /\ ReadyIsReal' /\ FormFits'
      /\ RunnerShown(page, form, known)' <=> RunnerShown(page, form, known)
      /\ page' \in Pages /\ form' \in Forms /\ prompt' \in {"idle", "installing", "error"}
  BY PagesStay
<1>3. /\ job' \in [Jobs -> Records] /\ job'[j] = rec
      /\ \A i \in Jobs : i # j => job'[i] = job[i]
  BY <1>1
<1>4. /\ rec.st \in {"flight", "ok", "error"} /\ rec.own \in BOOLEAN
      /\ j <= lastJob /\ j # None /\ lastJob \in Nat /\ j \in Nat
      /\ pane \in Panes
  <2>1. rec.st \in {"flight", "ok", "error"} /\ rec.own \in BOOLEAN
    BY RecordTypes
  <2>2. ~(j > lastJob)
    BY DEF IInv, JobsAreExact
  <2> QED
    BY <1>1, <2>1, <2>2, NoneIsNoJob DEF PaneVarsOK
<1>5. PaneVarsOK'
  <2>1. pane' \in Panes
    BY <1>4 DEF Panes
  <2>2. unseen' \subseteq Jobs
    BY <1>1 DEF PaneVarsOK
  <2> QED
    BY <1>1, <1>2, <1>3, <2>1, <2>2 DEF PaneVarsOK
<1>6. JobsAreExact'
  BY <1>3, <1>4 DEF IInv, JobsAreExact
<1>7. ChildrenAreExact'
  BY <1>3 DEF IInv, ChildrenAreExact
<1>8. PaneIsExact'
  <2>1. CASE rec.st = "flight" \/ ~rec.own
    <3>1. pane' = pane
      BY <2>1
    \* A job that no runner owns is in no pane.
    <3>2. ~rec.own => pane.of # j
      BY <1>4 DEF IInv, PaneIsExact
    <3>3. /\ pane.of # None => /\ pane.of <= lastJob /\ job[pane.of].own
                               /\ (pane.is = "running" <=> job[pane.of].st = "flight")
                               /\ (pane.is = "ok" <=> job[pane.of].st = "ok")
          /\ pane.of \in Jobs \cup {None}
          /\ pane.is = "running" => pane.of # None
          /\ pane # Idle => RunnerShown(page, form, known)
          /\ \A i \in Jobs : job[i].st = "flight" /\ job[i].own => pane.of = i
      BY <1>4 DEF IInv, PaneIsExact, Panes
    <3>4. pane.of # None => /\ job'[pane.of].own
                            /\ (pane.is = "running" <=> job'[pane.of].st = "flight")
                            /\ (pane.is = "ok" <=> job'[pane.of].st = "ok")
      BY <1>3, <2>1, <3>2, <3>3
    <3>5. \A i \in Jobs : job'[i].st = "flight" /\ job'[i].own => pane.of = i
      BY <1>3, <3>3
    <3> QED
      BY <1>2, <3>1, <3>3, <3>4, <3>5 DEF PaneIsExact
  <2>2. CASE ~(rec.st = "flight" \/ ~rec.own)
    <3>1. pane' = [is |-> rec.st, of |-> j] /\ pane'.of = j /\ pane'.is = rec.st
      BY <2>2
    <3>2. pane.of = j /\ (pane # Idle => RunnerShown(page, form, known))
          /\ \A i \in Jobs : job[i].st = "flight" /\ job[i].own => pane.of = i
      BY <2>2 DEF IInv, PaneIsExact
    <3>3. pane # Idle
      BY <1>4, <3>2 DEF Idle
    <3> QED
      BY <1>2, <1>3, <1>4, <2>2, <3>1, <3>2, <3>3 DEF PaneIsExact
  <2> QED
    BY <2>1, <2>2
<1> QED
  BY <1>2, <1>5, <1>6, <1>7, <1>8, TypeParts DEF IInv

\* A job ends, well only if its child did.
LEMMA EndKeeps ==
  ASSUME IInv, NEW j \in Jobs, NEW out \in {"ok", "error"}, End(j, out),
         job[j].st = "flight",
         out = "ok" /\ job[j].kind = "import" => job[j].child = "done"
  PROVE  IInv'
<1> DEFINE rec == [job[j] EXCEPT !.st = out]
<1>1. job[j] \in Records
  BY TypeParts DEF IInv, PaneVarsOK
<1>2. rec \in Records /\ SameJob(job[j], rec) /\ rec.st = out /\ rec.own = job[j].own
  BY <1>1, Stood
<1>3. /\ job' = [job EXCEPT ![j] = rec]
      /\ pane' = IF rec.own THEN [is |-> rec.st, of |-> j] ELSE pane
      /\ unseen' \subseteq unseen
      /\ UNCHANGED <<pageVars, toolVars, lastJob, gestures>>
  BY <1>2 DEF End, Told
<1>3a. out = "ok" => j \notin unseen'
  BY DEF End, Told, IInv, JobsAreExact
<1>4. ChildIsExact(rec)
  BY <1>2, SameChildIsExact DEF SameJob, IInv, ChildrenAreExact
<1>5. rec.child # "none" => rec.kind = "import"
  BY <1>2 DEF SameJob, SameChild, IInv, JobsAreExact
<1>6. rec.st = "ok" /\ rec.kind = "import" => rec.child = "done"
  BY <1>2 DEF SameJob, SameChild
<1>7. rec.kind = job[j].kind /\ rec.conn = job[j].conn /\ rec.format = job[j].format
  BY <1>2 DEF SameJob, SameChild
<1> HIDE DEF rec
<1>8. pane' = IF rec.st = "flight" \/ ~rec.own THEN pane ELSE [is |-> rec.st, of |-> j]
  BY <1>2, <1>3
<1> QED
  BY <1>2, <1>3, <1>3a, <1>4, <1>5, <1>6, <1>7, <1>8, JobChanges

\* A child goes on.
LEMMA KeepKeeps ==
  ASSUME IInv, NEW j \in Jobs, NEW rec \in Records, Keep(j, rec), Importing(j),
         rec.kind = job[j].kind, rec.conn = job[j].conn, rec.format = job[j].format,
         rec.own = job[j].own, rec.st = job[j].st, ChildIsExact(rec)
  PROVE  IInv'
<1>1. /\ job' = [job EXCEPT ![j] = rec]
      /\ unseen' \subseteq unseen \cup {j}
      /\ UNCHANGED <<pageVars, toolVars, pane, lastJob, gestures>>
  BY DEF Keep
<1> QED
  BY <1>1, JobChanges DEF Importing

-----------------------------------------------------------------------------
(* The child.                                                              *)

LEMMA GoodStep ==
  ASSUME NEW r, NEW n \in Nat
  PROVE  /\ GoodUpTo(r, 0) = {} /\ 1..0 = {} /\ 1..(n + 1) = (1..n) \cup {n + 1}
         /\ GoodUpTo(r, n + 1) = GoodUpTo(r, n) \cup
                                 (IF r.dump[n + 1] # "bad" THEN {n + 1} ELSE {})
<1>1. 1..0 = {} /\ 1..(n + 1) = (1..n) \cup {n + 1}
  OBVIOUS
<1> QED
  BY <1>1 DEF GoodUpTo

\* What is said of a child is said of what it has done, and these do not change.
SameDump(r, q) ==
  /\ q.kind = r.kind /\ q.conn = r.conn /\ q.format = r.format /\ q.tx = r.tx
  /\ q.halt = r.halt /\ q.wraps = r.wraps /\ q.dump = r.dump /\ q.own = r.own
  /\ q.st = r.st

LEMMA DumpFacts ==
  ASSUME NEW r, NEW q, SameDump(r, q)
  PROVE  /\ Atomic(q) <=> Atomic(r)
         /\ Halts(q) <=> Halts(r)
         /\ InTransaction(q) <=> InTransaction(r)
         /\ Good(q) = Good(r) /\ All(q) = All(r)
         /\ \A n : GoodUpTo(q, n) = GoodUpTo(r, n)
         /\ q.kept = r.kept => (Whole(q) <=> Whole(r))
<1>1. Atomic(q) <=> Atomic(r)
  BY DEF SameDump, Atomic, Halts, All
<1>2. Good(q) = Good(r) /\ All(q) = All(r) /\ \A n : GoodUpTo(q, n) = GoodUpTo(r, n)
  BY DEF SameDump, Good, GoodUpTo, All
<1>3. (Halts(q) <=> Halts(r)) /\ (InTransaction(q) <=> InTransaction(r))
  BY DEF SameDump, Halts, InTransaction
<1>4. q.kept = r.kept => (Whole(q) <=> Whole(r))
  BY <1>2, <1>3 DEF SameDump, Whole
<1> QED
  BY <1>1, <1>2, <1>3, <1>4

LEMMA JobFacts ==
  ASSUME IInv, NEW j \in Jobs
  PROVE  job[j] \in Records /\ ChildIsExact(job[j])
BY TypeParts DEF IInv, PaneVarsOK, ChildrenAreExact

LEMMA GoesOn ==
  ASSUME IInv, NEW j \in Jobs, NEW rec \in Records, Keep(j, rec), Importing(j),
         SameDump(job[j], rec), ChildIsExact(rec)
  PROVE  IInv'
BY KeepKeeps DEF SameDump

LEMMA SpawnKeeps ==
  ASSUME IInv, NEW j \in Jobs, Spawn(j)
  PROVE  IInv'
<1> DEFINE r == job[j]
           q == [r EXCEPT !.child = "running"]
<1>1. Importing(j) /\ r.child = "none" /\ r.format # "sqlite_file" /\ Keep(j, q)
  BY DEF Spawn
<1>2. r \in Records /\ ChildIsExact(r)
  BY JobFacts
<1>3. /\ q \in Records /\ SameDump(r, q) /\ q.child = "running" /\ q.at = r.at
      /\ q.held = r.held /\ q.kept = r.kept /\ q.cut = r.cut
  BY <1>2 DEF Records, SameDump
<1> HIDE DEF q, r
<1>4. ChildIsExact(q)
  <2>1. r.at = 0 /\ r.held = {} /\ r.kept = {} /\ ~r.cut
    BY <1>1, <1>2 DEF ChildIsExact
  <2>2. Len(q.dump) \in Nat
    BY <1>3, RecordTypes
  <2>3. GoodUpTo(q, q.at) = {} /\ 1..q.at = {}
    BY <1>3, <2>1, GoodStep
  <2>4. q.format = r.format
    BY <1>3 DEF SameDump
  <2> QED
    BY <1>1, <1>3, <2>1, <2>2, <2>3, <2>4 DEF ChildIsExact
<1> QED
  BY <1>1, <1>3, <1>4, GoesOn DEF r

\* A file that is over is the file at least.
LEMMA CopyFileKeeps ==
  ASSUME IInv, NEW j \in Jobs, NEW part \in SUBSET All(job[j]),
         NEW out \in {"done", "failed"}, CopyFile(j, part, out)
  PROVE  IInv'
<1> DEFINE r == job[j]
           q == [r EXCEPT !.child = out, !.kept = part]
<1>1. /\ Importing(j) /\ r.child = "none" /\ r.format = "sqlite_file" /\ Keep(j, q)
      /\ (out = "done" => 1 \in part)
  BY DEF CopyFile
<1>2. r \in Records /\ ChildIsExact(r) /\ part \in SUBSET Nat
  BY JobFacts DEF All
<1>3. /\ q \in Records /\ SameDump(r, q) /\ q.at = r.at /\ q.held = r.held /\ q.kept = part
      /\ q.cut = r.cut /\ q.child = out
  BY <1>2 DEF Records, SameDump
<1> HIDE DEF q, r
<1>4. ChildIsExact(q)
  <2>1. q.format = "sqlite_file" /\ ~Atomic(q) /\ ~r.cut
    BY <1>1, <1>2, <1>3 DEF SameDump, Atomic, ChildIsExact
  <2>2. Good(r) = All(r)
    BY <1>1, <1>2 DEF ChildIsExact
  <2>3. q.child = "done" => Whole(q)
    BY <1>1, <1>3, <2>1 DEF Whole
  <2> QED
    BY <1>3, <2>1, <2>2, <2>3, DumpFacts DEF ChildIsExact
<1> QED
  BY <1>1, <1>3, <1>4, GoesOn DEF r

\* A child that ends early, or is killed, has kept no part of an atomic import.
LEMMA EndsEarly ==
  ASSUME NEW r, NEW q, SameDump(r, q), ChildIsExact(r), r.child # "none",
         q.child \in {"failed", "gone"}, q.kept = r.kept, q.cut = r.cut
  PROVE  ChildIsExact(q)
<1>1. Atomic(q) => q.kept \in {{}, All(q)}
  BY DumpFacts DEF ChildIsExact
<1>2. q.format = "sqlite_file" => Good(q) = All(q)
  BY DumpFacts DEF ChildIsExact, SameDump
<1>3. q.cut => q.format \in {"mysql", "sqlite"}
  BY DEF ChildIsExact, SameDump
<1> QED
  BY <1>1, <1>2, <1>3 DEF ChildIsExact

LEMMA ChildDiesKeeps ==
  ASSUME IInv, NEW j \in Jobs, ChildDies(j)
  PROVE  IInv'
<1> DEFINE r == job[j]
           q == [r EXCEPT !.child = "failed", !.held = {}]
<1>1. Importing(j) /\ r.child = "running" /\ Keep(j, q)
  BY DEF ChildDies
<1>2. r \in Records /\ ChildIsExact(r)
  BY JobFacts
<1>3. /\ q \in Records /\ SameDump(r, q) /\ q.cut = r.cut /\ q.child = "failed"
      /\ q.kept = r.kept
  BY <1>2 DEF Records, SameDump
<1> HIDE DEF q, r
<1>4. ChildIsExact(q)
  BY <1>1, <1>2, <1>3, EndsEarly
<1> QED
  BY <1>1, <1>3, <1>4, GoesOn DEF r

LEMMA FeedBreaksKeeps ==
  ASSUME IInv, NEW j \in Jobs, FeedBreaks(j)
  PROVE  IInv'
<1> DEFINE r == job[j]
           q == [r EXCEPT !.cut = TRUE]
<1>1. Importing(j) /\ r.child = "running" /\ r.format \in {"mysql", "sqlite"} /\ Keep(j, q)
  BY DEF FeedBreaks
<1>2. r \in Records /\ ChildIsExact(r)
  BY JobFacts
<1>3. /\ q \in Records /\ SameDump(r, q) /\ q.child = r.child /\ q.at = r.at
      /\ q.held = r.held /\ q.kept = r.kept
  BY <1>2 DEF Records, SameDump
<1> HIDE DEF q, r
<1>4. ChildIsExact(q)
  <2>1. q.format = r.format /\ q.dump = r.dump
    BY <1>3 DEF SameDump
  <2> QED
    BY <1>1, <1>2, <1>3, <2>1, DumpFacts DEF ChildIsExact
<1> QED
  BY <1>1, <1>3, <1>4, GoesOn DEF r

\* A statement is read: it fails and ends the child or is skipped, or it waits
\* for the commit, or it is kept.
LEMMA StatementKeeps ==
  ASSUME IInv, NEW j \in Jobs, Statement(j)
  PROVE  IInv'
<1> DEFINE r == job[j]
           s == r.at + 1
<1>1. /\ Importing(j) /\ r.child = "running" /\ ~r.cut /\ s <= Len(r.dump)
      /\ r \in Records /\ ChildIsExact(r) /\ r.at \in Nat /\ Len(r.dump) \in Nat
      /\ r.held \in SUBSET Nat /\ r.kept \in SUBSET Nat /\ s \in Nat
  BY JobFacts, RecordTypes DEF Statement
<1>2. /\ s \in All(r) /\ r.format # "sqlite_file"
      /\ r.kept \cup r.held = GoodUpTo(r, r.at)
      /\ Halts(r) => GoodUpTo(r, r.at) = 1..r.at
      /\ ~InTransaction(r) => r.held = {}
      /\ Atomic(r) => r.kept = {}
  BY <1>1 DEF ChildIsExact, All
<1>3. /\ 1..s = (1..r.at) \cup {s}
      /\ GoodUpTo(r, s) = GoodUpTo(r, r.at) \cup (IF r.dump[s] # "bad" THEN {s} ELSE {})
  BY <1>1, GoodStep
<1>4. CASE r.dump[s] = "bad" /\ Halts(r)
  <2> DEFINE q == [r EXCEPT !.child = "failed", !.held = {}]
  <2>1. Keep(j, q)
    BY <1>4 DEF Statement
  <2>2. /\ q \in Records /\ SameDump(r, q) /\ q.cut = r.cut /\ q.child = "failed"
        /\ q.kept = r.kept
    BY <1>1 DEF Records, SameDump
  <2> HIDE DEF q, r
  <2>3. ChildIsExact(q)
    BY <1>1, <2>2, EndsEarly
  <2> QED
    BY <1>1, <2>1, <2>2, <2>3, GoesOn DEF r
\* It is enough that what is kept and held has grown by what could be run.
<1>5. ASSUME NEW q \in Records, SameDump(r, q), q.child = "running", q.at = s,
             ~q.cut, q.kept \cup q.held = GoodUpTo(r, s),
             Halts(r) => r.dump[s] # "bad",
             ~InTransaction(r) => q.held = {},
             Atomic(r) => q.kept = {}
      PROVE  ChildIsExact(q)
  <2>1. q.format = r.format /\ q.dump = r.dump
    BY <1>5 DEF SameDump
  <2>2. Halts(r) => GoodUpTo(r, s) = 1..s
    BY <1>2, <1>3, <1>5
  <2> HIDE DEF r, s
  <2> QED
    BY <1>1, <1>2, <1>5, <2>1, <2>2, DumpFacts DEF ChildIsExact
<1>6. CASE r.dump[s] = "bad" /\ ~Halts(r)
  <2> DEFINE q == [r EXCEPT !.at = s, !.erred = TRUE]
  <2>1. Keep(j, q)
    BY <1>6 DEF Statement
  <2>2. /\ q \in Records /\ SameDump(r, q) /\ q.child = r.child /\ q.at = s /\ q.cut = r.cut
        /\ q.kept = r.kept /\ q.held = r.held
    BY <1>1 DEF Records, SameDump
  <2> HIDE DEF q, r, s
  <2>3. ChildIsExact(q)
    BY <1>1, <1>2, <1>3, <1>5, <1>6, <2>2
  <2> QED
    BY <1>1, <2>1, <2>2, <2>3, GoesOn DEF r
<1>7. CASE r.dump[s] # "bad" /\ r.format = "mysql" /\ r.dump[s] = "ddl"
  <2> DEFINE q == [r EXCEPT !.at = s, !.kept = @ \cup r.held \cup {s}, !.held = {}]
  <2>1. Keep(j, q)
    BY <1>7 DEF Statement
  <2>2. /\ q \in Records /\ SameDump(r, q) /\ q.child = r.child /\ q.at = s /\ q.cut = r.cut
        /\ q.kept = r.kept \cup r.held \cup {s} /\ q.held = {}
    BY <1>1 DEF Records, SameDump
  <2>3. ~Atomic(r)
    BY <1>2, <1>7 DEF Atomic
  <2> HIDE DEF q, r, s
  <2>4. q.kept \cup q.held = GoodUpTo(r, s)
    BY <1>2, <1>3, <1>7, <2>2
  <2>5. ChildIsExact(q)
    BY <1>1, <1>5, <1>7, <2>2, <2>3, <2>4
  <2> QED
    BY <1>1, <2>1, <2>2, <2>5, GoesOn DEF r
<1>8. CASE r.dump[s] # "bad" /\ ~(r.format = "mysql" /\ r.dump[s] = "ddl") /\ InTransaction(r)
  <2> DEFINE q == [r EXCEPT !.at = s, !.held = @ \cup {s}]
  <2>1. Keep(j, q)
    BY <1>8 DEF Statement
  <2>2. /\ q \in Records /\ SameDump(r, q) /\ q.child = r.child /\ q.at = s /\ q.cut = r.cut
        /\ q.kept = r.kept /\ q.held = r.held \cup {s}
    BY <1>1 DEF Records, SameDump
  <2> HIDE DEF q, r, s
  <2>3. q.kept \cup q.held = GoodUpTo(r, s)
    BY <1>2, <1>3, <1>8, <2>2
  <2>4. ChildIsExact(q)
    BY <1>1, <1>2, <1>5, <1>8, <2>2, <2>3
  <2> QED
    BY <1>1, <2>1, <2>2, <2>4, GoesOn DEF r
<1>9. CASE r.dump[s] # "bad" /\ ~(r.format = "mysql" /\ r.dump[s] = "ddl") /\ ~InTransaction(r)
  <2> DEFINE q == [r EXCEPT !.at = s, !.kept = @ \cup {s}]
  <2>1. Keep(j, q)
    BY <1>9 DEF Statement
  <2>2. /\ q \in Records /\ SameDump(r, q) /\ q.child = r.child /\ q.at = s /\ q.cut = r.cut
        /\ q.kept = r.kept \cup {s} /\ q.held = r.held
    BY <1>1 DEF Records, SameDump
  <2>3. ~Atomic(r)
    BY <1>9 DEF Atomic, InTransaction
  <2> HIDE DEF q, r, s
  <2>4. q.kept \cup q.held = GoodUpTo(r, s)
    BY <1>2, <1>3, <1>9, <2>2
  <2>5. ChildIsExact(q)
    BY <1>1, <1>2, <1>5, <1>9, <2>2, <2>3, <2>4
  <2> QED
    BY <1>1, <2>1, <2>2, <2>5, GoesOn DEF r
<1> QED
  BY <1>4, <1>6, <1>7, <1>8, <1>9

\* The end of the dump is its commit, and nothing else is.
LEMMA EndOfInputKeeps ==
  ASSUME IInv, NEW j \in Jobs, EndOfInput(j)
  PROVE  IInv'
<1> DEFINE r == job[j]
           q == [r EXCEPT !.child = IF r.format = "sqlite" /\ r.erred THEN "failed" ELSE "done",
                          !.kept = IF Committed(r) THEN @ \cup r.held ELSE @,
                          !.held = {}]
<1>1. /\ Importing(j) /\ r.child = "running" /\ (r.cut \/ r.at = Len(r.dump)) /\ Keep(j, q)
      /\ r \in Records /\ ChildIsExact(r) /\ r.held \in SUBSET Nat /\ r.kept \in SUBSET Nat
  BY JobFacts, RecordTypes DEF EndOfInput
<1>2. /\ q \in Records /\ SameDump(r, q) /\ q.child \in {"failed", "done"} /\ q.cut = r.cut
      /\ q.kept = IF Committed(r) THEN r.kept \cup r.held ELSE r.kept
  BY <1>1 DEF Records, SameDump
<1> HIDE DEF q, r
<1>3. /\ r.format # "sqlite_file"
      /\ r.kept \cup r.held = GoodUpTo(r, r.at)
      /\ Halts(r) => GoodUpTo(r, r.at) = 1..r.at
      /\ Atomic(r) => r.kept = {}
      /\ r.cut => r.format \in {"mysql", "sqlite"}
  BY <1>1 DEF ChildIsExact
<1>4. ~r.cut => q.kept = Good(r) /\ (Halts(r) => Good(r) = All(r))
  BY <1>1, <1>2, <1>3 DEF Committed, Good, All
<1>5. Atomic(r) => q.kept \in {{}, All(r)}
  <2>1. Atomic(r) => Halts(r)
    BY DEF Atomic, Halts
  <2>2. r.cut => ~Committed(r)
    BY <1>3 DEF Committed
  <2> QED
    BY <1>2, <1>3, <1>4, <2>1, <2>2
<1>6. ChildIsExact(q)
  <2>1. q.format = r.format
    BY <1>2 DEF SameDump
  <2>2. ~q.cut => Whole(q)
    BY <1>2, <1>3, <1>4, <2>1, DumpFacts DEF Whole
  <2> QED
    BY <1>2, <1>3, <1>5, <2>1, <2>2, DumpFacts DEF ChildIsExact
<1> QED
  BY <1>1, <1>2, <1>6, GoesOn DEF r

LEMMA CancelKeeps == IInv /\ Cancel => IInv'
<1> SUFFICES ASSUME IInv, Cancel PROVE IInv'
  OBVIOUS
<1> DEFINE j == pane.of
           r == job[j]
           q == IF r.child \in {"running", "done", "failed"} /\ r.format # "sqlite_file"
                THEN [r EXCEPT !.child = "gone", !.held = {}] ELSE r
<1>1. pane.is = "running" /\ Importing(j) /\ j \in Jobs
  BY TypeParts DEF Cancel, IInv, PaneVarsOK, PaneIsExact, Panes
<1>2. /\ UNCHANGED <<pageVars, toolVars, pane, lastJob, unseen>> /\ Gesture
      /\ job' = IF r.child \in {"running", "done", "failed"} /\ r.format # "sqlite_file"
                THEN [job EXCEPT ![j].child = "gone", ![j].held = {}] ELSE job
  BY DEF Cancel
<1>3. r \in Records /\ ChildIsExact(r) /\ job \in [Jobs -> Records]
  BY <1>1, JobFacts, TypeParts DEF IInv, PaneVarsOK
<1>4. job' = [job EXCEPT ![j] = q]
  BY <1>1, <1>2, <1>3
<1>5. CASE q = r
  <2> HIDE DEF q
  <2>1. r.child # "none" => r.kind = "import"
    BY <1>1 DEF IInv, JobsAreExact
  <2>2. r.st = "flight"
    BY <1>1 DEF Importing
  <2> HIDE DEF r, j
  <2> QED
    BY <1>1, <1>2, <1>3, <1>4, <1>5, <2>1, <2>2, JobChanges DEF r
<1>6. CASE /\ q = [r EXCEPT !.child = "gone", !.held = {}]
           /\ r.child \in {"running", "done", "failed"}
  <2> DEFINE u == [r EXCEPT !.child = "gone", !.held = {}]
  <2>3a. /\ u \in Records /\ SameDump(r, u) /\ u.cut = r.cut /\ u.child = "gone"
         /\ u.kept = r.kept
    BY <1>3 DEF Records, SameDump
  <2>4a. q = u
    BY <1>6
  <2> HIDE DEF q, u
  <2>1. /\ q \in Records /\ SameDump(r, q) /\ q.cut = r.cut /\ q.child = "gone"
        /\ q.kept = r.kept
    BY <2>3a, <2>4a
  <2>2. ChildIsExact(q)
    BY <1>3, <1>6, <2>1, EndsEarly
  <2>3. r.st = "flight" /\ r.kind = "import"
    BY <1>1 DEF Importing
  <2> HIDE DEF r, j
  <2> QED
    BY <1>1, <1>2, <1>4, <2>1, <2>2, <2>3, JobChanges DEF SameDump, r
<1> QED
  BY <1>5, <1>6

LEMMA PollKeeps ==
  ASSUME IInv, NEW j \in Jobs, Poll(j)
  PROVE  IInv'
<1> DEFINE out == IF job[j].child = "done" THEN "ok" ELSE "error"
<1>1. job[j].st = "flight" /\ End(j, out)
  BY DEF Poll, Importing
<1> QED
  BY <1>1, EndKeeps

LEMMA SpawnFailsKeeps ==
  ASSUME IInv, NEW j \in Jobs, SpawnFails(j)
  PROVE  IInv'
BY EndKeeps DEF SpawnFails, Importing

LEMMA ExportEndsKeeps ==
  ASSUME IInv, NEW j \in Jobs, NEW out \in {"ok", "error"}, ExportEnds(j, out)
  PROVE  IInv'
BY EndKeeps DEF ExportEnds

\* A runner starts one job at a time, of what its form holds.
LEMMA StartKeeps ==
  ASSUME IInv, NEW tx \in BOOLEAN, NEW halt \in BOOLEAN, NEW wraps \in BOOLEAN,
         NEW d \in Dumps \cup {<<>>}, Start(tx, halt, wraps, d)
  PROVE  IInv'
<1>1. /\ PaneVarsOK /\ RestOK /\ job \in [Jobs -> Records] /\ lastJob \in Nat
      /\ pane.of \in Jobs \cup {None} /\ unseen \subseteq Jobs
  BY TypeParts, NoneIsNoJob DEF IInv, PaneVarsOK, Panes
<1>2. /\ RunnerShown(page, form, known) /\ pane.is # "running"
      /\ (page = "export" => ~tx /\ d = <<>>)
      /\ (page = "import" /\ form.format = "sqlite_file" => \A s \in 1..Len(d) : d[s] # "bad")
      /\ Gesture /\ UNCHANGED <<pageVars, toolVars, unseen>>
  BY DEF Start
<1>3. /\ RestOK' /\ ReadyIsReal' /\ FormFits' /\ RunnerShown(page, form, known)'
      /\ page' \in Pages /\ form' \in Forms /\ prompt' \in {"idle", "installing", "error"}
  BY <1>2, PagesStay
\* None of its jobs is under way.
<1>4. \A i \in Jobs : ~(job[i].st = "flight" /\ job[i].own)
  <2>1. ASSUME NEW i \in Jobs, job[i].st = "flight", job[i].own PROVE FALSE
    <3>1. pane.of = i
      BY <2>1 DEF IInv, PaneIsExact
    <3>2. pane.is = "running"
      BY <2>1, <3>1, NoneIsNoJob DEF IInv, PaneIsExact
    <3> QED
      BY <1>2, <3>2
  <2> QED
    BY <2>1
<1>5. CASE page = "import" /\ ~form.probe
  <2>1. pane' = [is |-> "error", of |-> None] /\ UNCHANGED <<job, lastJob, unseen>>
    BY <1>2, <1>5 DEF Start
  <2>2. pane' \in Panes /\ pane'.of = None /\ pane'.is # "running"
    BY <2>1 DEF Panes
  <2>3. PaneVarsOK'
    BY <1>1, <1>3, <2>1, <2>2 DEF PaneVarsOK
  <2>4. PaneIsExact'
    BY <1>3, <1>4, <2>1, <2>2 DEF PaneIsExact
  <2>5. JobsAreExact' /\ ChildrenAreExact'
    BY <2>1, JobsStay DEF IInv, SameJob, SameChild
  <2> QED
    BY <1>3, <2>3, <2>4, <2>5, TypeParts DEF IInv
<1>6. CASE ~(page = "import" /\ ~form.probe)
  <2> DEFINE n == lastJob + 1
             r == [NoJob EXCEPT !.kind = page, !.conn = form.conn, !.format = form.format,
                                !.tx = tx, !.halt = halt, !.wraps = wraps, !.dump = d,
                                !.st = "flight", !.own = TRUE]
  <2>1. /\ lastJob < MaxJobs /\ lastJob' = n /\ pane' = [is |-> "running", of |-> n]
        /\ job' = [job EXCEPT ![n] = r]
    BY <1>6 DEF Start
  <2>2. n \in Jobs /\ n # None /\ n \in Nat /\ n \in 0..MaxJobs
    BY <1>1, <2>1, NoneIsNoJob DEF Jobs
  <2>3. /\ page \in {"import", "export"} /\ form.conn \in Conns
        /\ form.format \in Formats
        /\ (page = "import" => EngineForFormat(form.format) = EngineOf[form.conn])
    <3>1. page \in {"import", "export"} /\ form.conn # None
      BY <1>2 DEF RunnerShown, BundleKey
    <3>2. page = "import" => /\ EngineForFormat(form.format) # None
                             /\ EngineForFormat(form.format) = EngineOf[form.conn]
      BY <1>2, <3>1 DEF RunnerShown, BundleKey
    <3>3. page = "import" => form.format \in Formats
      BY <3>2 DEF EngineForFormat, Formats
    <3> QED
      BY <3>1, <3>2, <3>3, FormTypes
  <2>4. /\ r \in Records /\ r.kind = page /\ r.conn = form.conn /\ r.format = form.format
        /\ r.tx = tx /\ r.dump = d /\ r.st = "flight" /\ r.own = TRUE
        /\ r.child = "none" /\ r.at = 0 /\ r.held = {} /\ r.kept = {} /\ r.cut = FALSE
    BY <2>3 DEF NoJob, Records
  <2> HIDE DEF r, n
  <2>5. ChildIsExact(r)
    <3>1. r.format = "sqlite_file" => \A s \in 1..Len(d) : d[s] # "bad"
      BY <1>2, <2>3, <2>4
    <3>2. r.format = "sqlite_file" => Good(r) = All(r)
      BY <2>4, <3>1 DEF Good, GoodUpTo, All
    <3> QED
      BY <2>4, <3>2 DEF ChildIsExact
  <2>6. /\ job' \in [Jobs -> Records] /\ job'[n] = r
        /\ \A i \in Jobs : i # n => job'[i] = job[i]
    BY <1>1, <2>1, <2>2, <2>4
  <2>7. PaneVarsOK'
    <3>1. pane' \in Panes
      BY <2>1, <2>2 DEF Panes
    <3> QED
      BY <1>1, <1>2, <1>3, <2>1, <2>2, <2>6, <3>1 DEF PaneVarsOK
  <2>8. PaneIsExact'
    <3>1. pane'.is = "running" /\ pane'.of = n
      BY <2>1
    <3> QED
      BY <1>3, <1>4, <2>1, <2>2, <2>4, <2>6, <3>1 DEF PaneIsExact
  <2>9. JobsAreExact'
    <3>1. n \notin unseen
      BY <1>1, <2>2 DEF n, IInv, JobsAreExact
    <3>2. \A i \in Jobs : i \in Nat /\ (i > n <=> i > lastJob /\ i # n)
      BY <1>1, NoneIsNoJob DEF n
    <3> QED
      BY <1>2, <2>1, <2>2, <2>3, <2>4, <2>6, <3>1, <3>2 DEF IInv, JobsAreExact
  <2>10. ChildrenAreExact'
    BY <2>5, <2>6 DEF IInv, ChildrenAreExact
  <2> QED
    BY <1>3, <2>7, <2>8, <2>9, <2>10, TypeParts DEF IInv
<1> QED
  BY <1>5, <1>6

-----------------------------------------------------------------------------
(* The specification.                                                      *)

LEMMA InitIInv == Init => IInv
<1> SUFFICES ASSUME Init PROVE IInv
  OBVIOUS
<1>1. /\ NoJob \in Records /\ NoJob.st = "new" /\ NoJob.own = FALSE /\ NoJob.child = "none"
      /\ NoJob.at = 0 /\ NoJob.held = {} /\ NoJob.kept = {} /\ NoJob.cut = FALSE
      /\ NoJob.format = None /\ NoJob.tx = FALSE
  BY DEF NoJob, Records
<1>2. TypeOK
  <2>1. PaneVarsOK
    BY <1>1, NoneIsNoJob DEF Init, PaneVarsOK, Pages, Forms, Panes, Blank, Idle
  <2>2. RestOK
    BY TransferAssumption DEF Init, RestOK, NonePicking
  <2> QED
    BY <2>1, <2>2, TypeParts
<1>3. \A j \in Jobs : job[j] = NoJob
  BY DEF Init
<1>4. PaneIsExact
  BY <1>1, <1>3 DEF Init, PaneIsExact, Idle
<1>5. ReadyIsReal /\ FormFits
  BY DEF Init, ReadyIsReal, FormFits, NonePicking, Blank
<1>6. JobsAreExact
  BY <1>1, <1>3 DEF Init, JobsAreExact, Jobs
<1>7. ChildrenAreExact
  <2>1. NoJob.format # "sqlite_file"
    BY <1>1, TransferAssumption DEF Formats
  <2> QED
    BY <1>1, <1>3, <2>1 DEF ChildrenAreExact, ChildIsExact, Atomic
<1> QED
  BY <1>2, <1>4, <1>5, <1>6, <1>7 DEF IInv

\* Every gesture and every answer keeps IInv.
LEMMA NextIInv == IInv /\ [Next]_vars => IInv'
<1> SUFFICES ASSUME IInv, [Next]_vars PROVE IInv'
  OBVIOUS
<1>1. CASE Refresh \/ Install \/ PickFile \/ PickDest \/ Cancel
  BY <1>1, RefreshKeeps, InstallKeeps, PickFileKeeps, PickDestKeeps, CancelKeeps
<1>2. CASE \E a \in asks : Answered(a, a.saw) \/ Answered(a, known)
  BY <1>2, AnsweredKeeps
<1>3. CASE \E i \in installs : Installed(i) \/ InstallFails(i)
  BY <1>3, InstalledKeeps, InstallFailsKeeps
<1>4. CASE \E e \in Engines : InstallOwn(e)
  BY <1>4, InstallOwnKeeps
<1>5. CASE \E p \in {"import", "export", "away"}, c \in Conns \cup {None} : GoTo(p, c)
  BY <1>5, GoToKeeps DEF Pages
<1>6. ASSUME NEW had \in BOOLEAN,
             \/ ProbeFails(had)
             \/ \E f \in Formats \cup {"unknown"}, c \in Conns \cup {None} : Probed(f, c, had)
      PROVE  IInv'
  BY <1>6, ProbedKeeps, ProbeFailsKeeps
<1>7. CASE \E f \in Formats : SetFormat(f)
  BY <1>7, SetFormatKeeps
<1>8. CASE \E c \in Conns : SetConn(c)
  BY <1>8, SetConnKeeps
<1>9. CASE \E tx, halt, wraps \in BOOLEAN, d \in Dumps \cup {<<>>} : Start(tx, halt, wraps, d)
  BY <1>9, StartKeeps
<1>10. ASSUME NEW j \in Jobs, \E out \in {"ok", "error"} : ExportEnds(j, out)
       PROVE  IInv'
  BY <1>10, ExportEndsKeeps
<1>11. ASSUME NEW j \in Jobs,
              \/ Spawn(j) \/ SpawnFails(j) \/ Statement(j)
              \/ FeedBreaks(j) \/ EndOfInput(j) \/ ChildDies(j) \/ Poll(j)
       PROVE  IInv'
  BY <1>11, SpawnKeeps, SpawnFailsKeeps, StatementKeeps, FeedBreaksKeeps,
     EndOfInputKeeps, ChildDiesKeeps, PollKeeps
<1>12. ASSUME NEW j \in Jobs,
              \E part \in SUBSET All(job[j]), out \in {"done", "failed"} : CopyFile(j, part, out)
       PROVE  IInv'
  BY <1>12, CopyFileKeeps
<1>13. CASE UNCHANGED vars
  <2>1. UNCHANGED <<pageVars, toolVars, jobVars, gestures>>
    BY <1>13 DEF vars
  <2>2. UNCHANGED <<page, form, known, prompt>>
    BY <2>1 DEF pageVars, toolVars
  <2>3. PaneVarsOK' /\ PaneIsExact' /\ JobsAreExact' /\ ChildrenAreExact'
    BY <2>1, <2>2, QuietKeeps, TypeParts DEF IInv, PaneVarsOK
  <2> QED
    BY <2>1, <2>3, PagesStay, TypeParts DEF IInv
<1> QED
  BY <1>1, <1>2, <1>3, <1>4, <1>5, <1>6, <1>7, <1>8, <1>9, <1>10, <1>11, <1>12, <1>13 DEF Next

\* The pages show the tools that are there and the jobs that are theirs, and a
\* child has kept and holds what its dump and its options say, in every
\* reachable state.
THEOREM InvariantHolds == Spec => []IInv
BY InitIInv, NextIInv, PTL DEF Spec

\* An atomic import leaves everything or nothing, one that is called done has
\* kept all that its tool could run (of a SQLite file, the file), and then the
\* schema cache has been told.
THEOREM ImportsStayHonest == Spec => []ImportsAreHonest
<1>1. ASSUME IInv, NEW j \in Jobs
      PROVE  /\ Atomic(job[j]) /\ job[j].st \in {"ok", "error"} =>
                  job[j].kept \in {{}, All(job[j])}
             /\ job[j].kind = "import" /\ job[j].st = "ok" =>
                  job[j].cut \/ Whole(job[j])
             /\ j \in unseen => job[j].st # "ok"
  <2>1. ChildIsExact(job[j])
    BY <1>1 DEF IInv, ChildrenAreExact
  <2>2. /\ job[j].kind = "import" /\ job[j].st = "ok" => job[j].child = "done"
        /\ j \in unseen => job[j].st # "ok"
    BY <1>1 DEF IInv, JobsAreExact
  <2> QED
    BY <2>1, <2>2 DEF ChildIsExact
<1>2. IInv => unseen \subseteq Jobs
  BY TypeParts DEF IInv, PaneVarsOK
<1>3. IInv => ImportsAreHonest
  BY <1>1, <1>2 DEF ImportsAreHonest, AllOrNothing, DoneIsWhole, SchemaFollowsImports
<1> QED
  BY <1>3, InvariantHolds, PTL

=============================================================================
