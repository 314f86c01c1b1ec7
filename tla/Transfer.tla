------------------------------- MODULE Transfer -------------------------------
(***************************************************************************)
(* The Import and Export pages over the tool cache, and the import jobs.   *)
(*                                                                         *)
(* Each page shows its runner only while its form names a connection, the  *)
(* format fits, and the tool cache says that the engine's tools are ready; *)
(* a runner that disappears forgets its job, which goes on. What an export *)
(* does to its file is ExportJob: here it only ends well or badly.         *)
(*                                                                         *)
(* An import feeds a dump, a sequence of rows, DDL and statements that     *)
(* fail, to a child process. What psql, pg_restore, mysql and sqlite3 do   *)
(* with errors, transactions and the end of their input is external.       *)
(* Left out: progress, logs, options that change only the text of a dump,  *)
(* credentials, the SSH forward, and the two PostgreSQL archive formats,   *)
(* which behave as psql's plain one does. A dump has no statements of its  *)
(* own that begin or end a transaction, but SQLite's, which may be wrapped *)
(* in one as .dump writes it (wraps). Of a SQLite file's dump the first    *)
(* statement is the file, and the others its -wal and -shm.                *)
(***************************************************************************)
EXTENDS Naturals, Sequences, FiniteSets

CONSTANTS
  Conns, EngineOf,
  Dumps,       \* what a dump may hold: sequences over Statements
  MaxJobs, MaxAsks, MaxGestures,
  None

Engines == {"postgres", "mysql", "sqlite"}
Formats == Engines \cup {"sqlite_file"}
Statements == {"row", "ddl", "bad"}

ASSUME TransferAssumption ==
  /\ EngineOf \in [Conns -> Engines]
  /\ Dumps \subseteq Seq(Statements)
  /\ {MaxJobs, MaxAsks, MaxGestures} \subseteq Nat
  /\ None \notin Conns \cup Formats \cup Nat

Jobs == 1..MaxJobs

VARIABLES
  page,     \* "import", "export" or "away"
  form,     \* what the page's own state holds
  picking,  \* detections of this page without an answer, by whether a target was picked
  prompt,   \* status of ToolInstallPrompt
  have,     \* the engines whose tools are on this machine
  known,    \* useToolCache.bundles: the engines it calls ready, None if empty
  asks,     \* calls of listToolBundles that have not answered, and what they saw
  asked,
  installs, \* installs under way: engine, and whether their prompt is mounted
  pane,     \* the mounted runner's RunState
  job,
  lastJob,
  unseen,   \* import jobs whose changes the schema cache has not been told of
  gestures

pageVars == <<page, form, picking, prompt>>
toolVars == <<have, known, asks, asked, installs>>
jobVars == <<pane, job, lastJob, unseen>>
vars == <<pageVars, toolVars, jobVars, gestures>>

Idle == [is |-> "idle", of |-> None]
NonePicking == [had \in BOOLEAN |-> 0]
Blank == [probe |-> FALSE, format |-> None, conn |-> None, dest |-> FALSE]
NoJob == [kind |-> "import", conn |-> None, format |-> None, tx |-> FALSE,
          halt |-> FALSE, wraps |-> FALSE, dump |-> <<>>, st |-> "new", own |-> FALSE, child |-> "none",
          at |-> 0, erred |-> FALSE, cut |-> FALSE, held |-> {}, kept |-> {}]

Records ==
  [kind : {"import", "export"}, conn : Conns \cup {None}, format : Formats \cup {None},
   tx : BOOLEAN, halt : BOOLEAN, wraps : BOOLEAN, dump : Dumps \cup {<<>>},
   st : {"new", "flight", "ok", "error"}, own : BOOLEAN, at : Nat, erred : BOOLEAN,
   cut : BOOLEAN, child : {"none", "running", "done", "failed", "gone"},
   held : SUBSET Nat, kept : SUBSET Nat]

TypeOK ==
  /\ page \in {"import", "export", "away"}
  /\ form \in [probe : BOOLEAN, format : Formats \cup {"unknown", None},
               conn : Conns \cup {None}, dest : BOOLEAN]
  /\ picking \in [BOOLEAN -> Nat]
  /\ prompt \in {"idle", "installing", "error"}
  /\ have \subseteq Engines
  /\ known \in (SUBSET Engines) \cup {None}
  /\ asks \subseteq [n : Nat, saw : SUBSET Engines]
  /\ asked \in Nat
  /\ installs \subseteq [engine : Engines, here : BOOLEAN]
  /\ pane \in [is : {"idle", "running", "ok", "error"}, of : Jobs \cup {None}]
  /\ job \in [Jobs -> Records]
  /\ lastJob \in 0..MaxJobs
  /\ unseen \subseteq Jobs
  /\ gestures \in 0..MaxGestures

Init ==
  /\ page = "away" /\ form = Blank /\ picking = NonePicking /\ prompt = "idle"
  /\ have \in SUBSET Engines
  /\ known = None /\ asks = {} /\ asked = 0 /\ installs = {}
  /\ pane = Idle /\ job = [j \in Jobs |-> NoJob] /\ lastJob = 0
  /\ unseen = {} /\ gestures = 0

Gesture == gestures < MaxGestures /\ gestures' = gestures + 1

-----------------------------------------------------------------------------
(* What the pages mount.                                                   *)

\* engineForDumpFormat.
EngineForFormat(f) == IF f = "sqlite_file" THEN "sqlite"
                      ELSE IF f \in Engines THEN f ELSE None

\* bundleKey: of the format's engine on the Import page, of the source's on
\* the Export page.
BundleKey(p, f) ==
  CASE p = "import" /\ f.conn # None -> EngineForFormat(f.format)
    [] p = "export" /\ f.conn # None -> EngineOf[f.conn]
    [] OTHER -> None

ToolReady(e, k) == k # None /\ e \in k

\* ImportRunner or ExportRunner is on the page.
RunnerShown(p, f, k) ==
  /\ BundleKey(p, f) # None
  /\ ToolReady(BundleKey(p, f), k)
  /\ EngineOf[f.conn] = BundleKey(p, f)

\* Format and destination are the Export runner's own: they go with it, and the
\* next one starts with its source's format.
Kept(p, f, k) ==
  IF p = "export" /\ f.conn # None /\ ~RunnerShown(p, f, k)
  THEN [f EXCEPT !.format = EngineOf[f.conn], !.dest = FALSE] ELSE f

\* Mutant: the runner's pane stays when the runner goes.
ShowKeepsPane(p, f, k, status, pn, js) ==
  /\ page' = p /\ form' = Kept(p, f, k)
  /\ pane' = pn
  /\ job' = IF p = page /\ RunnerShown(p, f, k) THEN js
            ELSE [j \in Jobs |-> [js[j] EXCEPT !.own = FALSE]]
  /\ prompt' = IF p = page /\ BundleKey(p, f) # None THEN status ELSE "idle"

\* A runner that leaves the page takes its state along; so does a prompt.
Show(p, f, k, status, pn, js) ==
  /\ page' = p /\ form' = Kept(p, f, k)
  /\ IF p = page /\ RunnerShown(p, f, k)
     THEN pane' = pn /\ job' = js
     ELSE /\ pane' = Idle
          /\ job' = [j \in Jobs |-> [js[j] EXCEPT !.own = FALSE]]
  /\ prompt' = IF p = page /\ BundleKey(p, f) # None THEN status ELSE "idle"

\* Whose answers still reach the prompt: those of the mounted one.
Installs(p, f, ins) ==
  IF p = page /\ BundleKey(p, f) # None THEN ins
  ELSE {[i EXCEPT !.here = FALSE] : i \in ins}

-----------------------------------------------------------------------------
(* The tool cache.                                                         *)

Asked(h) == {[n |-> asked + 1, saw |-> h]}

\* refresh: the page's mount, Re-check, and the prompt's effect.
Refresh ==
  /\ page # "away"
  /\ asked < MaxAsks
  /\ asks' = asks \cup Asked(have) /\ asked' = asked + 1
  /\ Gesture
  /\ UNCHANGED <<pageVars, jobVars, have, known, installs>>

\* The list answers, whenever; an error leaves the list as it was.
Answered(a, k) ==
  /\ a \in asks
  /\ k \in {a.saw, known}
  /\ known' = k
  /\ asks' = asks \ {a}
  /\ Show(page, form, k, prompt, pane, job)
  /\ installs' = Installs(page, form, installs)
  /\ UNCHANGED <<picking, have, asked, lastJob, unseen, gestures>>

\* onInstall: the button is there while the bundle is known and not ready.
Install ==
  LET e == BundleKey(page, form) IN
  /\ e # None /\ known # None /\ e \notin known
  /\ prompt # "installing"
  /\ prompt' = "installing"
  /\ installs' = installs \cup {[engine |-> e, here |-> TRUE]}
  /\ Gesture
  /\ UNCHANGED <<page, form, picking, have, known, asks, asked, jobVars>>

Merged(e) == IF known = None THEN None ELSE known \cup {e}

Status(i, s) == IF i.here THEN s ELSE prompt

\* The end of install and of onInstall, wherever the page has gone: the
\* status is merged into the list, and the caller asks for the list again.
Installed(i) ==
  /\ i \in installs
  /\ have' = have \cup {i.engine}
  /\ known' = Merged(i.engine)
  /\ asked < MaxAsks
  /\ asks' = asks \cup Asked(have') /\ asked' = asked + 1
  /\ Show(page, form, known', Status(i, "idle"), pane, job)
  /\ installs' = Installs(page, form, installs \ {i})
  /\ UNCHANGED <<picking, lastJob, unseen, gestures>>

InstallFails(i) ==
  /\ i \in installs
  /\ installs' = installs \ {i}
  /\ prompt' = Status(i, "error")
  /\ UNCHANGED <<page, form, picking, have, known, asks, asked, jobVars, gestures>>

\* The user follows the install hint.
InstallOwn(e) ==
  /\ e \notin have
  /\ have' = have \cup {e}
  /\ Gesture
  /\ UNCHANGED <<pageVars, known, asks, asked, installs, jobVars>>

-----------------------------------------------------------------------------
(* The forms.                                                              *)

\* A page mounts, with the connection of its link if it has one.
GoTo(p, c) ==
  /\ p # page
  /\ p = "away" \/ asked < MaxAsks
  /\ asks' = IF p = "away" THEN asks ELSE asks \cup Asked(have)
  /\ asked' = IF p = "away" THEN asked ELSE asked + 1
  /\ LET f == [Blank EXCEPT !.conn = IF p = "away" THEN None ELSE c,
                            !.format = IF p = "export" /\ c # None THEN EngineOf[c] ELSE None] IN
       /\ Show(p, f, known, "idle", pane, job)
       /\ installs' = Installs(p, f, installs)
  /\ picking' = NonePicking
  /\ Gesture
  /\ UNCHANGED <<have, known, lastJob, unseen>>

Change(f) ==
  /\ Show(page, f, known, prompt, pane, job)
  /\ installs' = Installs(page, f, installs)
  /\ UNCHANGED <<have, known, asks, asked, lastJob, unseen>>

\* pickFile: the form keeps its format while the file is probed, and the closure
\* the target of its click.
PickFile ==
  /\ page = "import"
  /\ picking' = [picking EXCEPT ![form.conn # None] = @ + 1]
  /\ Change([form EXCEPT !.probe = FALSE])
  /\ Gesture

\* The probe answers; a target is guessed if none was picked at the click, in
\* place of one that was picked since. The engine is of another kind, or the
\* dump of none, or the probe fails.
Probed(f, c, had) ==
  /\ picking[had] > 0
  /\ picking' = [picking EXCEPT ![had] = @ - 1]
  /\ IF had \/ {d \in Conns : EngineOf[d] = EngineForFormat(f)} = {}
     THEN c = form.conn ELSE c \in Conns /\ EngineOf[c] = EngineForFormat(f)
  /\ Change([form EXCEPT !.probe = TRUE, !.format = f, !.conn = c])
  /\ UNCHANGED gestures

ProbeFails(had) ==
  /\ picking[had] > 0
  /\ picking' = [picking EXCEPT ![had] = @ - 1]
  /\ UNCHANGED <<page, form, prompt, toolVars, jobVars, gestures>>

\* FormatOverride, FormatSelect: the Export page offers those of the source.
SetFormat(f) ==
  /\ f # form.format
  /\ \/ page = "import" /\ form.probe /\ f \in Formats
     \/ /\ page = "export" /\ RunnerShown(page, form, known)
        /\ EngineForFormat(f) = EngineOf[form.conn]
  /\ Change([form EXCEPT !.format = f])
  /\ Gesture
  /\ UNCHANGED picking

\* ConnectionPicker. The Export runner starts with its first source's format,
\* and keeps format and destination while it stays on the page.
SetConn(c) ==
  /\ page # "away" /\ c # form.conn
  /\ page = "import" /\ EngineForFormat(form.format) # None =>
       EngineOf[c] = EngineForFormat(form.format)
  /\ Change(IF page = "export" /\ ~RunnerShown(page, form, known)
            THEN [form EXCEPT !.conn = c, !.format = EngineOf[c], !.dest = FALSE]
            ELSE [form EXCEPT !.conn = c])
  /\ Gesture
  /\ UNCHANGED picking

PickDest ==
  /\ page = "export" /\ RunnerShown(page, form, known) /\ ~form.dest
  /\ Change([form EXCEPT !.dest = TRUE])
  /\ Gesture
  /\ UNCHANGED picking

-----------------------------------------------------------------------------
(* Jobs.                                                                   *)

\* start: without a probe, reading its path throws before any call is made.
Start(tx, halt, wraps, d) ==
  LET j == lastJob + 1 IN
  /\ RunnerShown(page, form, known)
  /\ pane.is # "running"
  /\ page = "export" => form.dest /\ ~tx /\ ~halt /\ ~wraps /\ d = <<>>
  /\ page = "import" => d \in Dumps /\ (wraps => form.format = "sqlite")
  /\ page = "import" /\ form.format = "sqlite_file" =>
       d # <<>> /\ \A s \in 1..Len(d) : d[s] # "bad"
  /\ IF page = "import" /\ ~form.probe
     THEN pane' = [is |-> "error", of |-> None] /\ UNCHANGED <<job, lastJob>>
     ELSE /\ lastJob < MaxJobs
          /\ lastJob' = j
          /\ pane' = [is |-> "running", of |-> j]
          /\ job' = [job EXCEPT ![j] =
               [NoJob EXCEPT !.kind = page, !.conn = form.conn, !.format = form.format,
                             !.tx = tx, !.halt = halt, !.wraps = wraps, !.dump = d,
                             !.st = "flight", !.own = TRUE]]
  /\ Gesture
  /\ UNCHANGED <<pageVars, toolVars, unseen>>

\* Mutant: the cache is told of the target that the page shows by then.
ToldOfShown(j) == {i \in unseen : job[i].conn # form.conn}

\* onDone: invalidate, of the target the job was started for.
Told(j) == {i \in unseen : job[i].conn # job[j].conn}

End(j, out) ==
  /\ job' = [job EXCEPT ![j].st = out]
  /\ pane' = IF job[j].own THEN [is |-> out, of |-> j] ELSE pane
  /\ unseen' = IF out = "ok" /\ job[j].kind = "import" THEN Told(j) ELSE unseen
  /\ UNCHANGED <<pageVars, toolVars, lastJob, gestures>>

\* An export is refused if its format is of another engine than its source.
ExportEnds(j, out) ==
  /\ job[j].st = "flight" /\ job[j].kind = "export"
  /\ out = "ok" => EngineForFormat(job[j].format) = EngineOf[job[j].conn]
  /\ End(j, out)

Importing(j) == job[j].st = "flight" /\ job[j].kind = "import"

Keep(j, rec) ==
  /\ job' = [job EXCEPT ![j] = rec]
  /\ unseen' = IF rec.kept # job[j].kept THEN unseen \cup {j} ELSE unseen
  /\ UNCHANGED <<pageVars, toolVars, pane, lastJob, gestures>>

\* run_import up to the spawn: the tool is located, the child registered.
Spawn(j) ==
  /\ Importing(j) /\ job[j].child = "none"
  /\ job[j].format # "sqlite_file"
  /\ EngineOf[job[j].conn] \in have
  /\ Keep(j, [job[j] EXCEPT !.child = "running"])

\* No source file, no tunnel, no password, no tool.
SpawnFails(j) == Importing(j) /\ job[j].child = "none" /\ End(j, "error")

All(r) == 1..Len(r.dump)

\* The file is copied over the target; then, of each side file, the stale one is
\* removed, which must work, and the new one copied, which may fail unnoticed.
CopyFile(j, part, out) ==
  /\ Importing(j) /\ job[j].child = "none"
  /\ job[j].format = "sqlite_file"
  /\ part \subseteq All(job[j])
  /\ out = "done" \/ part # {} => 1 \in part
  /\ Keep(j, [job[j] EXCEPT !.child = out, !.kept = part])

\* -1 forces ON_ERROR_STOP; mysql and sqlite3 stop only if told to.
Halts(r) == r.halt \/ (r.format = "postgres" /\ r.tx)

\* -1 or autocommit=0; sqlite3 is told nothing, and has the dump's own or none.
InTransaction(r) == IF r.format = "sqlite" THEN r.wraps ELSE r.tx

\* The child takes the next statement: an error ends it or is skipped, DDL
\* commits what MySQL holds, and the rest waits for the commit if there is one.
Statement(j) ==
  LET r == job[j]
      s == r.at + 1 IN
  /\ Importing(j) /\ r.child = "running" /\ ~r.cut
  /\ s <= Len(r.dump)
  /\ Keep(j,
       IF r.dump[s] = "bad" /\ Halts(r)
       THEN [r EXCEPT !.child = "failed", !.held = {}]
       ELSE IF r.dump[s] = "bad" THEN [r EXCEPT !.at = s, !.erred = TRUE]
       ELSE IF r.format = "mysql" /\ r.dump[s] = "ddl"
       THEN [r EXCEPT !.at = s, !.kept = @ \cup r.held \cup {s}, !.held = {}]
       ELSE IF InTransaction(r) THEN [r EXCEPT !.at = s, !.held = @ \cup {s}]
       ELSE [r EXCEPT !.at = s, !.kept = @ \cup {s}])

\* The task that feeds stdin cannot open or read the file, and returns.
FeedBreaks(j) ==
  /\ Importing(j) /\ job[j].child = "running" /\ ~job[j].cut
  /\ job[j].format \in {"mysql", "sqlite"}
  /\ Keep(j, [job[j] EXCEPT !.cut = TRUE])

\* Whether the end of the input comes with a commit: psql's own, the dump's
\* own, or the trailer.
Committed(r) == r.format = "postgres" \/ ~r.cut

\* sqlite3 fails if any statement did.
EndOfInput(j) ==
  LET r == job[j] IN
  /\ Importing(j) /\ r.child = "running"
  /\ r.cut \/ r.at = Len(r.dump)
  /\ Keep(j, [r EXCEPT !.child = IF r.format = "sqlite" /\ r.erred THEN "failed" ELSE "done",
                       !.kept = IF Committed(r) THEN @ \cup r.held ELSE @,
                       !.held = {}])

\* The connection drops, or the child dies.
ChildDies(j) ==
  /\ Importing(j) /\ job[j].child = "running"
  /\ Keep(j, [job[j] EXCEPT !.child = "failed", !.held = {}])

\* cancel: the registry has the child from its spawn to the poll that sees
\* it end; before, the call does nothing and the button stays.
Cancel ==
  LET j == pane.of IN
  /\ pane.is = "running" /\ Importing(j)
  /\ Gesture
  /\ IF job[j].child \in {"running", "done", "failed"} /\ job[j].format # "sqlite_file"
     THEN job' = [job EXCEPT ![j].child = "gone", ![j].held = {}]
     ELSE job' = job
  /\ UNCHANGED <<pageVars, toolVars, pane, lastJob, unseen>>

\* The poll that finds the slot empty, or the child ended.
Poll(j) ==
  /\ Importing(j)
  /\ job[j].child \in {"done", "failed", "gone"}
  /\ End(j, IF job[j].child = "done" THEN "ok" ELSE "error")

Next ==
  \/ Refresh \/ Install \/ PickFile \/ PickDest \/ Cancel
  \/ \E a \in asks : Answered(a, a.saw) \/ Answered(a, known)
  \/ \E i \in installs : Installed(i) \/ InstallFails(i)
  \/ \E e \in Engines : InstallOwn(e)
  \/ \E p \in {"import", "export", "away"}, c \in Conns \cup {None} : GoTo(p, c)
  \/ \E had \in BOOLEAN :
       \/ ProbeFails(had)
       \/ \E f \in Formats \cup {"unknown"}, c \in Conns \cup {None} : Probed(f, c, had)
  \/ \E f \in Formats : SetFormat(f)
  \/ \E c \in Conns : SetConn(c)
  \/ \E tx, halt, wraps \in BOOLEAN, d \in Dumps \cup {<<>>} : Start(tx, halt, wraps, d)
  \/ \E j \in Jobs :
       \/ \E out \in {"ok", "error"} : ExportEnds(j, out)
       \/ Spawn(j) \/ SpawnFails(j) \/ Statement(j)
       \/ FeedBreaks(j) \/ EndOfInput(j) \/ ChildDies(j) \/ Poll(j)
       \/ \E part \in SUBSET All(job[j]), out \in {"done", "failed"} : CopyFile(j, part, out)

Spec == Init /\ [][Next]_vars

-----------------------------------------------------------------------------
(* What must hold.                                                         *)

\* The statements among the first n of a dump that the tool can run.
GoodUpTo(r, n) == {s \in 1..n : r.dump[s] # "bad"}
Good(r) == GoodUpTo(r, Len(r.dump))

\* The imports of which one transaction holds everything, whatever fails.
\* Outside the promise: MySQL's DDL, which commits; a tool told to go on after
\* errors, which commits the statements that worked; a SQLite dump that opens no
\* transaction of its own, for which the page's option does nothing; and a file
\* copied half way.
Atomic(r) ==
  /\ r.tx /\ r.format # "sqlite_file"
  /\ r.format = "mysql" => \A s \in All(r) : r.dump[s] # "ddl"
  /\ r.format = "sqlite" => r.wraps
  /\ r.format # "postgres" => Halts(r)

\* An import in one transaction leaves all of the dump or nothing, however it
\* ends: an error, a Cancel, a dead child.
AllOrNothing ==
  \A j \in Jobs :
    Atomic(job[j]) /\ job[j].st \in {"ok", "error"} => job[j].kept \in {{}, All(job[j])}

\* What a tool that says that it is done has kept: all that it did not report as
\* an error; of a SQLite file the file, and any of its side files.
Whole(r) ==
  IF r.format = "sqlite_file" THEN 1 \in r.kept
  ELSE r.kept = Good(r) /\ (Halts(r) => Good(r) = All(r))

\* An import that the page calls done is whole, unless the feed broke and the
\* child took that for the end of the dump.
DoneIsWhole ==
  \A j \in Jobs :
    job[j].kind = "import" /\ job[j].st = "ok" => job[j].cut \/ Whole(job[j])

\* A finished import has told the schema cache of its own target. One that
\* fails half way, or is cancelled, has not: the sidebar keeps the old schema.
SchemaFollowsImports == \A j \in unseen : job[j].st # "ok"

ImportsAreHonest == AllOrNothing /\ DoneIsWhole /\ SchemaFollowsImports

\* What the page's option says, "Wrap in a single transaction (rollback on any
\* error)": an import that was started with it, and whose tool failed, has left
\* nothing; MySQL's DDL apart, which no transaction holds. It does not hold (Atomic
\* says of which imports it does).
OptionRollsBack ==
  \A j \in Jobs :
    job[j].tx /\ job[j].format \in {"postgres", "sqlite"} /\ job[j].child = "failed" =>
      job[j].kept = {}

-----------------------------------------------------------------------------
(* The inductive invariant.                                                *)

\* A pane speaks of a job that this runner started, in the state it is in;
\* and a running job of this runner is the one that Cancel reaches.
PaneIsExact ==
  /\ pane.is = "running" => pane.of # None
  /\ pane.of # None => pane.of <= lastJob /\ job[pane.of].own
                       /\ (pane.is = "running" <=> job[pane.of].st = "flight")
                       /\ (pane.is = "ok" <=> job[pane.of].st = "ok")
  /\ pane # Idle => RunnerShown(page, form, known)
  /\ \A j \in Jobs : job[j].st = "flight" /\ job[j].own => pane.of = j

\* A tool that a list calls ready is on the machine.
ReadyIsReal ==
  /\ known # None => known \subseteq have
  /\ \A a \in asks : a.saw \subseteq have /\ a.n <= asked

\* The Import page probes, and the Export page's form has a format as soon as
\* it has a source.
FormFits ==
  /\ \A had \in BOOLEAN : picking[had] > 0 => page = "import"
  /\ page = "export" /\ form.conn # None => form.format \in Formats

\* A job has what its form had, and a child only if it imports.
JobsAreExact ==
  \A j \in Jobs :
    LET r == job[j] IN
    /\ (r.st = "new") <=> j > lastJob
    /\ r.st # "new" => r.conn \in Conns /\ r.format \in Formats
    /\ j \in unseen => r.kind = "import" /\ r.st \in {"flight", "error"}
    /\ r.kind = "import" /\ r.st # "new" => EngineForFormat(r.format) = EngineOf[r.conn]
    /\ r.child # "none" => r.kind = "import" /\ r.st # "new"
    /\ r.st = "ok" /\ r.kind = "import" => r.child = "done"

\* What a child may have kept and may still hold, by its state: all that it
\* could run of what it has read, and of an atomic import nothing before the end.
ChildIsExact(r) ==
  /\ r.child = "none" => r.at = 0 /\ r.held = {} /\ r.kept = {} /\ ~r.cut
  /\ r.format = "sqlite_file" => r.child # "running" /\ Good(r) = All(r)
  /\ r.cut => r.format \in {"mysql", "sqlite"}
  /\ r.child = "running" =>
       /\ r.at <= Len(r.dump)
       /\ r.kept \cup r.held = GoodUpTo(r, r.at)
       /\ Halts(r) => GoodUpTo(r, r.at) = 1..r.at
       /\ ~InTransaction(r) => r.held = {}
       /\ Atomic(r) => r.kept = {}
  /\ r.child = "done" => r.cut \/ Whole(r)
  /\ Atomic(r) => r.kept \in {{}, All(r)}

ChildrenAreExact == \A j \in Jobs : ChildIsExact(job[j])

IInv == TypeOK /\ PaneIsExact /\ ReadyIsReal /\ FormFits /\ JobsAreExact /\ ChildrenAreExact

=============================================================================
