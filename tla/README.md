# Bearhold Studio in TLA+

Bearhold Studio is a desktop client for PostgreSQL, MySQL and SQLite: a Next.js
interface in a Tauri shell, Rust drivers on sqlx, and external dump tools. This
directory holds TLA+ models of the parts of it where order and failure matter,
TLC runs that check them on small instances, and TLAPS proofs of the central
properties for every instance.

Paths below are short: `drivers/` is `src/services/drivers/`, `core/` is
`src/services/core/src/`, `desktop/` is `src/apps/desktop/src-tauri/src/`, and
`app/`, `components/`, `lib/`, `store/` are under `src/apps/web/`.

1. [The system](#1-the-system)
2. [What correct means](#2-what-correct-means-component-by-component)
3. [The modules](#3-the-modules)
4. [The runs and their bounds](#4-the-runs-and-their-bounds)
5. [What is proved](#5-what-is-proved)
6. [Fairness](#6-fairness)
7. [Known divergences](#7-known-divergences)
8. [Not modelled](#8-not-modelled)
9. [What is left](#9-what-is-left)
10. [Running it](#10-running-it)

## 1. The system

| Component | Source | State it keeps | Operations | Talks to |
|---|---|---|---|---|
| Running and cancelling | `drivers/{postgres,mysql}/src/lib.rs` (`execute`, `run_script`, `cancel_query`) | `query_pids` / `query_conn_ids`, pinned connections | run a script, cancel by query id | the pool, the server |
| Pool and tunnel caches | the same files (`pool_for`, `ensure_tunnel`, `disconnect`), `core/ssh_tunnel.rs` | `pools`, `tunnels` per profile | open, serve, drop | every driver call; bastion; server |
| Batches | `apply_batch` of the three drivers, `core/driver.rs` | a transaction on the server | apply statements, report outcomes | the Compare panels |
| Commands | `desktop/commands.rs`, `state.rs` | the drivers and registries | one per UI request, concurrently on tokio | UI through IPC |
| Export jobs | `desktop/dump/export.rs`, `mod.rs` | `ExportRegistry`: job id -> slot with the child; files | start, poll, cancel, clean up | dump tools, file system |
| Import jobs | `desktop/dump/import.rs`, `detect.rs` | `ImportRegistry`, a stdin feed, the target file | start, feed, cancel | tools, the SQLite file |
| Import and Export pages | `app/{import,export}/page.tsx`, `components/ToolInstallPrompt.tsx`, `store/toolCache.ts` | a form, a runner and its job, the list of tools | pick, start, cancel, install | jobs, tool commands, schema cache |
| Tool bundles | `desktop/tools/*`, `desktop/dump/tool_locator.rs` | staging and bundle directories, marker | install, locate, uninstall | network, file system |
| Secrets | `core/secrets.rs` | master key, encrypted file, mirror in memory | set, get, delete | drivers, the form |
| Profiles, form, shell | `store/connections.ts`, `components/{ConnectionForm,AppShell,ImportConnectionsDialog}.tsx` | profiles, pins, last use; one form | edit, test, save, delete, import | secrets, drivers |
| Schema and server-info caches | `store/schemaCache.ts`, `serverInfoCache.ts` | entries and promises in flight | load, invalidate | every page |
| Schema page, table list, DDL | `app/schema/page.tsx`, `components/{AppShell,TableDetailsDrawer,DdlDialog}.tsx`, `lib/buildDdl.ts` | a copy of the schema; drawers and dialogs | refresh, reconnect, alter, truncate, drop | schema cache, `execute` |
| SQL page, tabs | `app/sql/page.tsx`, `store/sqlTabs.ts`, `lib/openTable.ts`, `components/SqlEditor.tsx` | `runByTab`, tabs per connection, the pending load | run, stop, reconnect, load, tab operations | commands, caches |
| Result grid | `components/ResultTable.tsx`, `BulkInsertDialog.tsx` | pending edits, selection, dialogs | edit, save, discard, delete, insert | `execute`, the SQL page |
| Compare | `app/compare/page.tsx`, `components/compare/*`, `store/migrationLog.ts` | pair, loaded lists, selection, applied rows, log | pick, diff, apply | caches, `apply_batch` |
| Diff algorithms | `lib/schemaDiff.ts`, `tableGraph.ts`, `dataDiff.ts`, `dataDiffSql.ts` | none | pure | panels |
| The rest | history, snippets, grid preferences, layouts, ERD, palette, plan viewer, home page, HTTP stub, test kit | UI lists | single user, no interleaving | |

What makes it hard: the shell runs commands concurrently, and every `await`
between a read of a shared map and its use is a place where another command
runs. In the interface every answer of a command is a callback that arrives
after the user has moved on: to another tab, another connection, another page,
or away. Failure is everywhere: tools that do not exist, connections that die
during a COMMIT, processes that are killed, files that cannot be written,
statements that stop half way. `PROJECT.json` lists each such place at its line
under `hazards`.

## 2. What correct means, component by component

* **Running and cancelling**: a backend is registered exactly while its script
  runs; Stop interrupts its own script, ends the whole of it, and always answers.
* **Pools**: nobody is served a closed pool; a pool connects through a tunnel
  that is up; reconnect leaves nothing old behind.
* **Batches**: all or nothing where the engine can; otherwise a prefix; the
  answer and the log are true.
* **Exports**: the file is whole or absent; credentials do not stay; a cancel is
  final, and comes to an end.
* **Imports**: done means done; one transaction means all or nothing; the pages
  never wait for a job or a tool that is not there.
* **Secrets and profiles**: no password outlives its profile, and none is lost
  while its profile stays; what a form says is about what it shows.
* **Schema cache**: one request at a time, none that nobody answers, and nobody
  is shown an older schema than before.
* **Schema views**: DDL runs on the connection that its dialog was made from,
  does what the form showed, and is followed by the cache.
* **SQL page**: a pane shows a run of its own tab, the newest one; Stop reaches
  it; a load is opened once, where it was meant.
* **Result grid**: a cell shows what is stored or what is pending; a statement
  goes to the row it was made for, once.
* **Compare**: the list on the screen belongs to the pair on the screen; a drop
  runs only when it was ticked there; the log tells what the servers did.
* **Diffs**: the statements run in an order the server accepts, and after them
  the two sides are equal.

## 3. The modules

| Module | Models | Parameters |
|---|---|---|
| `QueryCancel` | `execute` and `cancel_query` on one pool | queries, cancels, backends, pool size, script length |
| `PoolCache` | the two maps of a driver for one profile | calls, disconnects |
| `BatchContract` | what the trait `Driver` promises of `apply_batch` | none |
| `ApplyBatch` | the three drivers' strategies, and the panels' reading of the answer | batch length, statement kinds |
| `ExportContract` | what `start_export` and `cancel_export` promise to the pages | jobs |
| `ExportJob` | `start_export` and `cancel_export` on one output path | jobs, cancels |
| `SchemaCache` | `load` and `invalidate` of the interface's cache | connections, loads, requests, changes |
| `SqlPage` | the tab store, runs, and loads from other views | connections, tables, texts, limits, numbers of tabs, runs, loads, mounts |
| `ResultGrid` | edits, selection, inserts, and their batches | tables, rows, columns, values, pasted lines, batches, results shown |
| `DiffBatch` | what the diff generators produce and what it does to the server | schemas, tables, column types, row caps |
| `Compare` | the Compare workspace and the migration log | connections, rows of a list, length of the log, batches |
| `Transfer` | Import and Export pages, tool list, import jobs | connections, dumps, jobs, lists asked for |
| `Connections` | profiles, form, secrets, deletion | profiles |
| `SchemaViews` | schema page, table list, DDL dialogs | connections, engines |
| `MC*` | names, functions and symmetry for TLC | |
| `DriverProofs` | theorems about `QueryCancel`, `PoolCache` and `ApplyBatch` | |
| `StoreProofs` | theorems about `SchemaCache` and `Connections` | |
| the other `*Proofs` | theorems about the module they are named after | |

How they compose. `ApplyBatch` refines `BatchContract` (`INSTANCE ... WITH
landed <- durable, told <- answer`), and
`ExportJob` refines `ExportContract`. The interface's modules stand on the
backend's by contract rather than by one big product: `Compare` sends a batch and
is given any answer that `ApplyBatch` allows; the rows of its lists are what
`DiffBatch` puts there; `SchemaViews` has the schema cache of `SchemaCache` with
tables in place of versions; `SqlPage`'s run and Stop are `QueryCancel`'s; an
export that `Transfer` starts ends as `ExportContract` says; `ResultGrid` is the grid under
`SqlPage`'s panes. In every module of the interface one action is one run of
JavaScript up to its next `await`, and an answer is an action of its own that
may come at any time, in any order, or never. A variable marked *history* in a
module records what happened for the properties and is read by no guard.

`DriverProofs` and `StoreProofs` extend several components at once, so these have
names of their own for what every module has: `PoolCache` has `PoolInit`, `PoolNext`,
`PoolSpec`, `PoolIInv`, `poolVars`, and `NoCall` where others say `None`; `ApplyBatch` has
`Apply...` and `applyVars`; `SchemaCache` has `Cache...`, `cacheVars` and `Nothing`.

### QueryCancel

`pc[q]` walks through `run_script`: acquire a connection, fetch its backend id
(only a request with a query id does), loop over the statements, leave. The
registration is `RegisterPid`; `DropGuard` is the destructor of `QueryIdGuard`,
which Rust runs before that of the connection (`DropConn`), because locals are
dropped in the reverse order of their declaration. `cpc[k]` walks through
`cancel_query`: the lookup and the signal are separate steps, with the wait for
a side connection from the same pool in between. What sqlx and the server do
(idle connections, new ones up to `max_connections`, reuse of backend ids) is
external and modelled from how the drivers use it. A signal reaches whatever the
backend executes at that instant, and is lost on an idle one. Recycling includes
the connection's return to the pool and its being closed and another one opened
with the same backend id.

### PoolCache

`callPc[c]` walks through `pool_for` and the use of the pool, `dpc[d]` through `disconnect`.
One driver, one profile. A pool and a tunnel are named after the call that
opened them, so that replaced ones stay distinguishable from the current one.
Between `Miss` and `Connected` lie the tunnel lookup, the bastion's handshake,
the dial, and under `PREFERRED` the second attempt without TLS. `disconnect` is
three steps: remove the pool from the map and close it, wait until it is
closed, remove the tunnel. The map holds the only lasting reference to a tunnel;
`Reachable(c)` says that the tunnel behind c's pool is that one. `crowded` is a
history variable: calls that opened, or disconnects that ran, while another one
did. The UI can produce both situations (several panels load at once), but the
code only keeps its promises to the others.

### ApplyBatch and BatchContract

`phase` is where `apply_batch`, and then its panel, is. `kind[i]` is `"dml"`, `"ddl"` as `is_ddl_statement` recognises it, or
`"masked"`: DDL that it does not recognise. The driver decides by the text, the
server by what the statement is, and MySQL commits implicitly before and after
DDL. A statement that the server rejects is `StatementRefused`. A statement lands, is pending in the transaction, or both ends are
discarded. `CommitFails` and `Crash` leave the server in either state, since a
COMMIT may have arrived. `Record` is the panel's handling of the answer and the
entry in the migration log. `BatchContract` has no strategies, only what landed
and what was told.

### ExportJob and ExportContract

`tool[j]` chooses between `pg_dump` (which opens the output itself, after the
spawn), `mysqldump` and `sqlite3` (whose output the job opens first), and a
file copy without a child. `Spawn` also registers the child, as nothing awaits
between the two. `Poll` is one turn of the wait loop: it takes the slot's
mutex, looks, and gives the mutex back before it sleeps. `CancelTake` takes
the child out of the slot, kills it and keeps the slot's mutex while it waits
(`CancelReap`). `CleanUp` removes the output after any error. All jobs write to
the one path that is interesting; jobs under way at the same time are marked
`crowded`. `ExportContract` has no tools, processes, slots or locks: jobs that are under way, what is
at the path once none is, what each job answered, and which ones a cancel reached
(`slot` taken) or stopped (the child was alive and has been killed). There a job stands for
its whole dump, so a dump that is not in `whole` is mapped to `Mixed`.

### SchemaCache

A schema is the number of changes it has seen. `load` reads the slot and the
entry and stores its promise without an `await` (`Join`, `Cached`, `Send`), and
an answer stores the entry, frees the slot and settles everybody who shares the
promise (`Resolve`, `Reject`). The driver reads the catalogue somewhere between
(`Introspect`; its several queries count as one instant). `how[l]` is what the
pages do: load lazily, force, or invalidate and force in one step. `atCall` and
`joined` are history.

### SqlPage

`store` is `useSqlTabs`: per connection the open tabs, the focus, and per tab its
text, table and `ran`, the text that last ran. `panel[kind][i]` is `runByTab` and `planByTab`, `run[r]`
every call of `api.runQuery` with the tab, connection and mount it came from:
the continuation writes to the tab it captured, if the mount is still there
(`panel`), and stamps the store whether or not it is. `due` holds the runs that wait
behind `setTimeout(0)`. A load has two lives: `pending` is the payload in
`sessionStorage`, which `Arrive` and the mount drain, and `fired` counts the events
that come 50 ms later; `handled` is the ref that tells one from the other, and
dies with the mount. Leaving (`Leave`), arriving (`Arrive`), navigating (`Go`),
`Reconnect` and its answer, the row limit (`SetLimit`), and opening, selecting,
editing and closing a tab are actions.

### ResultGrid

A row is a table and a key; rows keep their places in every result, as the
grid's row ids do. A cell (`Spots`) is a place and a column: `data` is the grid's copy,
`pending[s]` the edit of cell s. Applying is a `job` that captured its edits and loops over
them, one `await` per statement; `mount` says whether the grid that started it is still
the one on the screen. `Switch` is the focus moving to another tab's result while the
grid stays mounted; a run that starts unmounts it.

AG Grid is external, and one behaviour of it matters: `setDataValue` on a row fires
`cellValueChanged` if the row's value changes by it, with the value that was shown as the
old one. On the result that the batch was made in it changes nothing, as the row holds the
edit already. On another result it does, and `onCellValueChanged` records an edit there as
if it had been typed (`Shown`, in `Updated`). `strays` are these edits, and `stained` the
rows they came to. What the end of an answer then deletes from the row's map depends on the
order of edits within it; rows where that map changed under a batch are `loose`, and
`LeftBy` allows each outcome. The answer of an UPDATE, a DELETE or an INSERT may be lost
after the statement has taken effect; the lines of a paste this happened to are `unheard`.
The histories relate what was typed, picked, pasted and sent: `typed` and `strays` to
`updates`, `picked` to `deletes`, `landed` and `unheard` to `doubled`.

### DiffBatch

Two pure programs and a server. `DiffSchemas` is `diffSchemas` with
`orderChanges` and the topological sort of `tableGraph.ts` (folds and a bounded
iteration, no recursion); a statement is a record of what it asks for.
`Accepts` and `Effect` (`AcceptsRow` and `RowEffect` for rows) are the server: it
refuses a statement because of the objects that
exist (a key to a missing column, a column under a view, a table below its
child), as PostgreSQL and MySQL do, and that part is external. `ReadRows`, `ByKey`
and `BuildSyncStatements` are the reading, the alignment of `diffData`, and
`buildSyncStatements`: two windows of rows under a cap, aligned by a normalised key. Values pass through three conversions that lose
something: the driver's decoding (`Read`: a BIGINT becomes a JSON number),
`normalizeValue` (a timestamp loses its microseconds, TINYINT(1) becomes a truth
value), and the server's own equality (`Same`). A rival client may write a row between the
reading and the batch. There is no user in this module: every choice is made at
`Init` or by the order of statements. `Effect`, `Renamed` and `Narrowed` are what the server
makes of the statements that `schemaDiff.ts` writes, and so external too.

### Compare

`load` is what the panel shows, `loads` what has been asked for; `live` is the
`cancelled` flag of the effect's clean-up. `timer` is the 150 ms before the
schemas of a new pair are read, during which the old list stays. In the Tables tab
`asks` are the schema loads, which have no such flag. A batch remembers
the list it was made of and whether the panel that sent it is still mounted
(`view`); its answer writes the log in any case and the marks only to a panel that
is still there, whatever list it shows by then. The panel's memo of the changes also depends
on the source's object and on the server infos: when one of these is replaced the list is
computed again, from the same schemas, and selection and marks go back to the default. There
is no action for that; a list whose marks are reset offers less to apply than one
that keeps them. `ticked`, `stained` and `forgot` are
history.

### Transfer

`form` is a page's own state, and `RunnerShown` the condition under which it
renders a runner: the runner mounts and unmounts as the form, the probe and the
tool list change. A job that loses its runner goes on without anybody who listens.
`known` is what the interface believes of the tools, `have` what is there, and
`asks` are the calls of `list_tool_bundles` in flight, each with what it saw. An
import job feeds its dump statement by statement (`Statement`, `FeedBreaks`,
`EndOfInput`); the child holds what is in an open transaction and keeps what is
committed; `ChildDies`, `Poll` and `Cancel` come in any order. `wraps` says whether a SQLite
dump has a BEGIN and COMMIT of its own: nothing else gives it one, and without it each
statement commits (`InTransaction`). A SQLite file import (`CopyFile`) replaces the target
file and then its side files; the dump's first part stands for the file, the others for the
side files, of which any may be missing when the job is done. The probe of a file uses
the target that was picked when its dialog was opened (`picking`), and overwrites one picked
since. An Export runner has the format and destination, and takes them with it when it
goes (`Kept`).

### Connections

`saved`, `inline`, `pinned` and `used` are the persisted store. `mirror` and `disk` are
the two places of a secret. `calls` are the commands that have not returned, of five
kinds: the migration of an inline password, the store before a Test, the Test,
the store before a Save, and the erasure of a deleted profile; `here` says
whether the form that made the call is still mounted, `shell` whether the shell is.
`SetLands` and `EraseLands` happen at the backend, `TestStored`, `Tried`, `SaveStored` and
`Removed` are the continuations. (`EraseLands` is one step for the slots of a profile,
which the code erases one by one; it ends with none, all or the first ones erased, but no
other call comes between two slots.) `reached[id]` are the fields with which the backend has
been asked of a profile: its driver keeps a pool by the profile's id, so a Test may be
answered by one that was opened with other fields (`Pooled`, `Tried`); pages ask
with the fields that are saved (`PagesAsk`). `Restart` keeps the store and the file. `gave`, `tried` and `lost`
are history.

### SchemaViews

`server` has the one table of each connection that changes. `entries`, `flight` and
`waits` are the schema cache with its promise and those who wait for it. `page` is
the schema page's copy with its drawer and dialog, `nav` the sidebar's list, which
reads the cache directly. `jobs` are the closures of Apply and Confirm: statements
still to run, then the reload. `SqlStatements` is `buildDdl` by engine; the dialog tells it neither version nor
type, so that it takes every MySQL for an old one and throws for a rename (`Throws`), which
takes down the window (`Reload`). A statement that fails may have reached
the server all the same: it is in `late` then, and takes effect at any time or never
(`Lands`). What the server makes of a statement (`Effect`) is external; that MySQL's MODIFY
drops AUTO_INCREMENT and COMMENT is left out. `excused` names the connections whose cache may
be behind for one of five reasons that `CacheFollowsDdl` states.

## 4. The runs and their bounds

| Run | Instance | Distinct states | Properties beyond the invariant |
|---|---|---|---|
| `query_cancel` | 3 queries (2 cancellable), 1 cancel, 2 backends, pool of 2, scripts of up to 2 statements | 295 thousand | `MisfireOnlyAfterTargetEnded`; `CancelReturns`, `InterruptedRunReleases` (liveness) |
| `pool_cache` | 3 calls, 2 disconnects, one edit of the profile at any time, with or without tunnel, symmetric | 3.9 million | `CleanSlate`: a reconnect alone leaves nothing in the maps |
| `apply_batch` | 3 engines, 2 panels, up to 4 statements of 3 kinds | 14 thousand | `AllOrNothing`, `LogIsHonest`, refinement of the contract |
| `export_job` | 2 jobs, 2 cancels, 4 tools | 599 thousand | `NoHalfWritten`, `CancelIsFinal`, `CancelEndsJob` (liveness), refinement of the contract |
| `schema_cache` | 2 connections, 3 loads, 3 requests, 2 changes each, symmetric | 647 thousand | `NeverOlder`: no caller sees a schema go back |
| `sql_page` | 2 connections, 1 table, 3 tabs, 2 runs, 2 loads, 2 mounts, 4 gestures, symmetric | 1.6 million | `RunsAndTabsAgree`: Stop reaches the newest run, the dirty dot is about the result shown; `LoadsDelivered`: a load opens, and once |
| `result_grid` | 2 tables of 1 row and 2 columns, 2 values, 2 pasted lines, 2 batches, 3 results shown, 4 gestures, symmetric | 1.7 million | `WritesAreMeant`: an UPDATE reaches the row its value was put in, a retry repeats nothing |
| `diff_batch` | every valid pair of schemas of two tables, up to 3 columns, keys both ways, an index, a view, both engines; every pair of tables of 3 keys, 5 column types, both directions, cap 2, a rival | 1.6 million | `OrderIsSafe`, `SecondPassIsIndexes`, `RowsConverge` |
| `compare` | 3 connections of 2 engines, 2 rows of which one drops, 2 batches, log of 1, 4 gestures, symmetric | 200 thousand | `DropsArePicked`, `LogTellsTheServer` |
| `transfer` | one connection per engine, 3 dumps of 2 statements, with and without a transaction of their own, 1 job, 2 tool lists, 5 gestures | 919 thousand | `ImportsAreHonest`: all or nothing, done is whole, the schema cache is told |
| `connections` | 2 profiles, 6 gestures, symmetric | 5.7 million | `SecretsFollowProfiles` |
| `schema_views` | a PostgreSQL and a MySQL connection, 6 gestures | 1.8 million | `CacheFollowsDdl`, `EditsAreWhole` |

Every run also checks `IInv` (`PoolIInv`, `ApplyIInv`, `CacheIInv`), the conjunction of the module's type invariant and
the invariants that tie its variables together (`diff_batch` has no state worth one).
It is the inductive invariant of the module's proof, parts that only the proof needs
included. So each run also checks what is a conjunct there: an interrupted script runs no
statement more and the registry is exact (`query_cancel`), an opener that nothing
overlapped has its tunnel in the map and a teardown closes the pool first (`pool_cache`), a
forced load that sent its own request is fresh (`schema_cache`), the panes, lists, dialogs
and verdicts are of what is on the screen (the interface's modules).

**Configurations beside the runs.** Four more configurations each check one thing that the
code, or its page, says and does not do; TLC finds the counterexample within seconds:

| Configuration | Module | Refutes | Says |
|---|---|---|---|
| `StaleTest.cfg` | `MCConnections` | `TestChecksTheForm` | Test checks the fields on the form |
| `StrayEdits.cfg` | `MCResultGrid` | `PendingWasTyped` | pending edits are the user's |
| `CredsLeft.cfg` | `MCExportJob` | `CredsAlwaysForgotten` | the credentials file is always removed |
| `ImportOption.cfg` | `MCTransfer` | `OptionRollsBack` | the page's option rolls back on any error |

`GridBatches.cfg` (`MCResultGrid`) is the grid with two rows of one column and three gestures
(886 thousand states), where a batch of DELETEs can fail half way as well; `WritesAreMeant`
holds there.

Deadlock checking is off in every run: the calls, jobs or gestures of an instance are
bounded, and a model stops when these are used up and nothing is under way. The
system stops in the same way, when the user does nothing more.

**Why these bounds are enough.** Two connections are the drivers' own
`max_connections`; a third query is what it takes for one to wait, or to be hit
by a signal meant for another, while both slots change hands; two statements
give the gap between statements. Three calls and two disconnects let a call
open, another replace its pool and tunnel, and a third be served, around two
teardowns. Four statements have a failing one with a neighbour on each side and
an implicit commit before it. Two jobs at one path are all the interference a
path can have, and two cancels race for one slot. Three loads are two that
share a promise and one before or after them, on one of two connections that
must not mix.

In the interface the bound that matters is `MaxGestures`: how often the user acts.
Answers cost nothing and come in every order between. Four gestures on the SQL page
are two runs or loads and two changes of tab, connection or page between them; two
mounts make a continuation outlive its page. On the grid its own buttons are not counted, so
four gestures are an edit, a change of tab, a second edit and a change back, with Apply, the
batch and its retry between any two of them; two columns let one cell of a row be edited
while the answer of a batch comes to the other, and two pasted lines let the second fail after
the first went in. Two batches of Compare are one that belongs to an
earlier list and one of the list on the screen; a log of one entry overflows at the
second; a third connection has another engine. For imports one job suffices, as jobs
share nothing but the tool list and each page shows one; two lists are one that was
asked for before an install and answers after it, and the install's own. Two profiles are the one that is deleted and the one
that is shown instead; six gestures are edit, Test, Save, delete, confirm, restart.
`diff_batch` has no order of gestures: two tables have every key between them, a cycle
included, three columns make a rename ambiguous or not, and a cap of two over
three keys truncates one side, both or none. Its data are enumerated whole.

**Mutants.** For each property of a run `PROJECT.json` names a small
change of a mapped definition, of the kind a programming error would make (the guard
dropped on success only, the pool closed before it leaves the map, a late list that
replaces a newer one, a Save that goes on although the secret could not be stored), under which TLC
finds the property violated.

## 5. What is proved

Every theorem is about `Spec` without fairness, and rests only on the named
assumption of the module on its constants: sets of calls are disjoint,
`None` and the other markers are not members of them, bounds are natural
numbers. The sets need not be finite. Eight modules have theorems; they use no
`RECURSIVE` operator.

Each proof module has the same shape: an `Init` lemma (the initial states satisfy the
inductive invariant), a `Next` lemma with a step per action, and theorems that draw the
properties from the invariant.

| Module | About | Theorems |
|---|---|---|
| `DriverProofs` | `QueryCancel` | `InvariantHolds`, `RegistryIsExact`, `NoEarlyMisfire`, `InterruptAbandonsScript` |
| | `PoolCache` | `PoolInvariantHolds`, `NoClosedPoolServed`, `RoutesStayUp`, `TeardownIsOrdered`, `ReconnectAloneCleans` |
| | `ApplyBatch` | `ApplyInvariantHolds`, `TransactionalIsAtomic`, `LogTellsTheTruth`, `DriversImplementContract` |
| `ExportJobProofs` | `ExportJob` | `InvariantHolds`, `NoDumpHalfWritten`, `CancelLeavesNothing`, `CredentialsGo`, `SuccessLeavesWholeDump`, `ExportsImplementContract` |
| `StoreProofs` | `SchemaCache` | `CacheInvariantHolds`, `OneLiveRequest`, `ForceIsFreshWhenAlone`, `SchemasNeverGoBack` |
| | `Connections` | `InvariantHolds`, `SecretsInvariant`, `SecretsStay` |
| `SqlPageProofs` | `SqlPage` | `InvariantHolds`, `PanesFollowRuns`, `LoadsArrive` |
| `CompareProofs` | `Compare` | `InvariantHolds`, `DropsStayPicked`, `LogFollowsServers` |
| `TransferProofs` | `Transfer` | `InvariantHolds`, `ImportsStayHonest` |
| `ResultGridProofs` | `ResultGrid` | `InvariantHolds`, `WritesStayAsMeant` |
| `SchemaViewsProofs` | `SchemaViews` | `InvariantHolds`, `CacheStaysFollowed`, `EditsStayWhole` |

`InvariantHolds` is `Spec => []IInv` (`PoolInvariantHolds` is `PoolSpec => []PoolIInv`, and so
on), of the invariant that the run checks.

* **QueryCancel.** `RegistryExact` is not inductive alone. `IInv` adds that calls
  hold connections exactly while their code says so, that no two hold one, that
  an interrupted script is leaving, and `AimFollowsTarget`: the id a cancel
  carries is that of its target's connection as long as the target is in its
  script. Together with exclusiveness this gives `NoEarlyMisfire`: whoever is hit
  by the signal holds that connection, so if it is not the target, the target has
  left.
* **PoolCache.** A pool that is cached was put there by a call that has been
  through `pool_for`, so a new pool is never among the closed ones. For tunnels
  the invariant follows the lone opener: from the moment it has its port, the
  tunnel in the map is the one behind it (`LoneOpenerHasPort`), because a second
  opener or a teardown would have marked it (`CrowdIsMarked`). `CleanSlate` is an
  action property, from `AloneEmptiesMap`.
* **ApplyBatch.** What has run without error is pending or durable (`RanIsKept`),
  a transactional batch keeps all of it pending in an open transaction
  (`TransactionHolds`), a batch run one by one keeps nothing pending. The
  refinement `DriversImplementContract` maps each step to a contract step or to
  a stutter: statements of a transaction stutter, a commit is `LandAll` with the
  answer (`LandAndTell`), an error answer is `Tell`. `LogIsHonest` also says that after an error
  answer the log has no statement as done: a refused batch and a lost COMMIT are told, and logged,
  as errors.
* **ExportJob.** `JobShape` and `CancelShape` tie together where a job is, its
  child, its registry entry and the cancel that holds the slot's mutex: when the
  job sees an empty slot and gets the mutex, the child is dead. `FileShape` says
  whose output is at the path. Then `NoDumpHalfWritten` follows, because a dead
  child cannot create the file again after its removal, and
  `SuccessLeavesWholeDump`, because an `ok` comes only from the exit status. (The run
  does not list `SuccessIsComplete`: the contract, which it checks, implies it.)
  In the refinement `ExportsImplementContract` the steps of a job, its child and a
  cancel stutter or write to the path (`QuietIsContract`), but for the beginning, the end
  (`EndIsContract`) and the moment a cancel takes the child. The end needs that every way
  to it has set a result, that `cancelled` means an empty slot, and that a killed
  child's job can end in nothing else; these are parts of `JobShape`.
* **SchemaCache.** `OneRoundTrip` needs that every request that is out is the one
  in the slot (`OutIsInSlot`). `NeverOlder` needs the order in which versions
  were read (`ReadInOrder`): what was returned is at most what is cached, which
  is at most what a request under way has read, which is at most the server's.
* **Connections.** `SecretsFollowProfiles` looks at the profile, the mirror and the
  file, but a write of the file writes the whole mirror: it may make up for a
  deletion that failed, or undo it. So the invariant has to say what may be in one
  place only. A given password is in both, or its erasure is under way
  (`GivenAreMirrored`); one that only the file holds is being erased or has been
  counted as lost (`FileAloneIsErasing`), so the next write of another profile
  cannot drop it unnoticed; a Save whose store has landed finds it in both
  unless an erasure came between (`StoredIsThere`); what an erasure left is `tried`
  (`LeftoversAreTried`). Most actions fall under one lemma (`Undisturbed`): they leave
  the stores alone and start or end only calls that have not landed.
  The rest of `IInv` falls into two parts that need nothing of the secrets: what is said
  of saved profiles, pages and the order of last use (`StoreInv`; `used` is a sequence
  without repetitions, so `Without` takes out the one place of an id), and what is said of
  the form and its calls (`FormInv`). Its `VerdictIsOfForm` has two exceptions, edits during the
  Test and a backend that had been asked with other fields (`pooled`); the rest of it rests
  on the fact that an edit takes the verdict away and that a call reaches only the form that
  made it. For the latter most steps fall under
  `FormUndisturbed`, `ShownStays` or `FormGoes`: the calls of before are of the same form,
  the verdict changes with its own call, or the form is unmounted and nobody listens.
* **Compare.** `DropsArePicked` is inductive as it stands, because every way to a new
  list goes through `Relist` or a fresh mount (`RelistDrops`). `IInv` is not inductive
  without two parts that say why the list is of the pair on the screen: at most one load
  may still answer, and none during the delay (`OneLiveLoad`), and a batch whose list
  nobody replaced has the list and the marks on the screen (`SameListStays`). Each answer
  is then of the pair it was asked for (`FreshListIsInOrder`), and a batch keeps the side
  and the rows it was sent with (`BatchesStay`). `LogFollowsServers` needs that a recorded
  entry goes to the front of a sequence cut at its cap (`RecordedIsLog`) and that removal
  takes one entry out of it (`WithoutIsLog`).
* **SqlPage.** Three parts, proved apart. The tab store's (`StoreOK`) has one lemma per
  operation of `useSqlTabs`: numbers are handed out once, so a tab is of one connection
  and a table of one tab. All that the runs need of it is that a step opens only tabs
  with new numbers (`Grows`): a pane shows a run of its tab, kind and mount, so an old
  run's answer can reach neither a newer mount's pane nor another tab's, and a stamp from
  another mount is the exception that `DotMatchesResult` names. `StopReachesNewest` is
  part of the induction, with `PanesAreExact` and the fact that a run not yet started
  has no tab. For loads (`LoadsOK`), what may come twice is a load that this mount opened,
  that has its event outstanding and is not the last nonce: `LoadsInOrder` says that such
  a load is in a crowd (`OpensOnce`).

* **Transfer.** `PaneIsExact` and `ReadyIsReal` are about the pages: a running job of a
  runner that is still shown is the one in its pane, and a list of tools, however late,
  saw only tools that are there, since the pages remove none. `JobsAreExact` gives a job
  the form it was started from (which needs `FormFits`: the form has a format that fits),
  and ties its outcome to its child. `ChildIsExact` carries `AllOrNothing` and
  `DoneIsWhole`: a child that runs has kept and holds together exactly the statements it
  could run of those it has read (`GoodUpTo`), an atomic import has kept none of them,
  and a child that stops at errors has met none. (`Atomic` lists where one transaction is not what
  the page promises: MySQL's DDL, a tool that goes on after errors, a SQLite dump without a
  transaction of its own, a copied file. `Whole` asks of a copied file that the file itself is
  there, because that is all that the job knows.) Each statement extends that by one
  (`GoodStep`), and the end of the input commits all of it or, if the feed broke without
  its trailer, nothing. The steps are of two kinds: those that change what the pages
  show and at most disown a job (`ShowKeeps`), and those that move one job (`KeepKeeps`,
  `EndKeeps`).
* **ResultGrid.** `UpdatesAreMeant` needs that every edit that waits, in the grid or in
  a batch, was typed or was recorded by the grid itself when an answer met another result (a
  stray), and that the grid's edits are of the rows in their places while
  the result is mounted (`EditsAreTyped`). An edit changes under a batch that had it to do
  (`Following`) only into one that has the same property; and a cell of an unstained row is
  honest because its own answer writes what it shows already. `RetriesAreFresh` is the harder half: a row that
  a batch has deleted must not be in a selection that Delete could take again. While a
  batch of this grid works its dialog stays, and it is the only one
  (`OneBatchWorks`), so what is gone can be left in the selection only until the
  dialog's batch ends (`SelectionIsFresh`), and a pasted line that is in is one that the
  batch at work has done (`PasteIsFresh`); one that is in without an answer is `unheard`, and is
  the only one that may go in twice. A batch whose grid is no longer on the screen
  works on (`mount`), and the parts speak only of those that are.
* **SchemaViews.** Four parts. `ActsAtHome` (a dialog's DDL goes to the connection it was
  made from, but for the two races) needs to know what can still speak to a view:
  `TheLeftIsSilent`. `CacheFollowsDdl` speaks of moments at which nothing is under way;
  between them `CacheIsFollowed` says that the cache, or the answer a request has
  already read, may be behind only where a closure that has sent DDL will still load it
  anew. A statement whose answer was lost may land long after its closure ended, and excuses its
  connection when it does. `NobodyWaitsForNothing` pairs every waiting view with a request or a closure.
  `EditsAreWhole` is about statements sent one by one: `EditsAreSent` says which part
  of `SqlStatements` has been sent and what the table looks like after it. It is
  proved from `IInv` (`NextWhole`), by what the last statement does
  (`LastMakesWhole`) and by the fact that any other change of the table is a crossing.

**What the proofs found in the models.** The invariants of `Transfer`, `ResultGrid` and
`SchemaViews` that TLC had checked were true and not inductive; the parts above were
added to `IInv`, and TLC checks them as well. In `SchemaViews`, `Effect` had two arms of a `CASE`
that were both true for a MySQL change of type, so that the definition did not say
which of them was meant (TLC took the first): the arms now exclude each other. The proof also needs
that the value for a table that is gone is not a table, which is now an assumption.

Four theorems say apart what the runs check as a conjunct of the invariant:
`RoutesStayUp` (`LoneOpenIsCoherent`), `TeardownIsOrdered` (`TeardownKeepsTunnel`),
`ForceIsFreshWhenAlone` (`ForcedReachesServer`) and `InterruptAbandonsScript`
(`NoStatementAfterInterrupt`, which follows from it). `CredentialsGo` is of `CredsForgotten`: every way out of a job but the
early return named in section 7 removes the credentials file.

**Only model-checked.** Six of the thirty-five properties of the runs. The liveness properties
(`CancelReturns`, `InterruptedRunReleases`, `CancelEndsJob`), as
TLAPS does not do fairness here. `OrderIsSafe`, `SecondPassIsIndexes` and `RowsConverge`
of `DiffBatch`, which is pure algorithms over data: what its folds
compute for every input is an induction over data, and out of the prover's reach.

## 6. Fairness

Stated only where the code or its runtime makes progress by itself. In
`QueryCancel`: an acquire ends, with a connection or by its timeout
(`acquire_timeout`); the id query ends; destructors run; a signal is sent.
Statements are not assumed to end, and no user is assumed to press anything. In
`ExportJob`: the job polls, unwinds and cleans up, a killed process dies, a
cancel that has started goes on. The tool itself may run for ever. The other
modules have no fairness and no liveness properties: a server, a tool or a
bastion may never answer, and what the interface shows then is part of what is checked
(for instance that a busy view has something under way, `NobodyWaitsForNothing`).

## 7. Known divergences

Places where what the code does differs from what a comment, a label or a reader would
expect. Where a definition is named, it is in the module and TLC finds a
counterexample of it; the four that have a configuration of their own (section 4) are
marked with it. The others are in the models as they are in
the code, and are the exceptions that the properties state.

**Running, pools, batches, exports, schema cache.**

* *A cancel may hit another script* (`NoStrayCancel`). The backend id is read
  before, and used after, the wait for a side connection
  (`drivers/postgres/src/lib.rs:534`), against the comment on `QueryIdGuard` (262-264).
  What holds, and is proved, is `MisfireOnlyAfterTargetEnded`.
* *Reconnect can leave a pool on a dead tunnel* (`NextQueryReopens`), if a query
  opens a new pool between the removal of the old pool and that of the tunnel
  (`drivers/postgres/src/lib.rs:645`, against `desktop/commands.rs:153`).
* *Rolled-back rows are shown as applied* (`AppliedIsDurable`): the schema panel
  (`SchemaDiffPanel.tsx:202`) reads `Ok` outcomes as effects, also when `committed` is
  false, although `core/driver.rs:98` says what they mean then. The data panel looks at `committed`.
* *A MySQL batch reported as rolled back may have landed*
  (`RolledBackLeavesNothing`): DDL behind a leading comment is not recognised
  (`drivers/mysql/src/lib.rs:628`, against `desktop/commands.rs:84`).
* *Credentials stay on disk* (`CredsAlwaysForgotten`, `CredsLeft.cfg`) if the output file cannot
  be created (`desktop/dump/export.rs:382`, before the removal at 387, whose comment says
  "Always try to delete the creds file, success or failure").
* *A cancel before the spawn, or during a file copy, does nothing*
  (`CancelFindsTheJob`, `desktop/dump/export.rs:559`), although the page tells that the job
  will be cancelled (`app/export/page.tsx:276`).
* *A forced load may return the schema of before* (`ForcedIsFresh`,
  `store/schemaCache.ts:43`, against `AppShell.tsx:844`): it joins a
  request in flight that has read the catalogue already. What holds is
  `ForcedReachesServer`: one that finds the slot empty is fresh.

**SQL page.**

* *A load may open, and run, in another connection* (`LoadsStayHome`): the event path
  leaves the payload in `sessionStorage`, where the next mount finds it
  (`lib/openTable.ts:126`, `app/sql/page.tsx:192`; the comment at `openTable.ts:121` says
  otherwise).
* `store/sqlTabs.ts:25` and 52 say that opening a table again refreshes its SQL with the
  present row limit; the code (224-241) leaves it.
* Reconnect runs whatever tab is in focus when it returns, not the one it was pressed in
  (`app/sql/page.tsx:441`). A change of the row limit overwrites an edited
  table tab (412). A run that an earlier mount of the page started cannot be stopped.

**Result grid.**

* *Rows that were not picked may be deleted* (`DeletesArePicked`): the selection outlives
  the result it was made in.
* A batch of updates goes on after its result was swapped and writes its outcome to the
  new one's cells (`ResultTable.tsx:684`; the `stained` exception). The grid reports that as a
  change, and *an edit that nobody typed is pending* (`PendingWasTyped`, `StrayEdits.cfg`): it
  is listed in the next preview and sent by the next Apply (the `strays` exception), against
  the comment at 583-588.
* A line of a bulk insert that was stored while its answer was lost counts as failed, stays in
  the dialog and is inserted again (`BulkInsertDialog.tsx:128`; the `unheard` exception).
* When a bulk insert fails half way after rows went in, the re-run that follows unmounts
  the dialog and its message (`BulkInsertDialog.tsx:128`). That re-run, too, goes
  to the tab in focus (`app/sql/page.tsx:276`). Select all takes rows that the search
  box hides.

**Diffs.**

* `schemaDiff.ts:238` says that there are no foreign-key conflicts by construction:
  there are for cycles, for a new table whose key points at a column the batch adds later,
  and for a dropped column below a table that goes later (the exceptions of `OrderIsSafe`).
* The default selection leaves out the drop half of a redefinition, so the default Apply
  of one is refused. A column's type under an unchanged view is refused.
* A cap that truncates makes rows beyond it look missing: the DELETEs are of rows
  that exist on both sides. `upsertMode` is never set.
* `normalizeValue` blurs: microseconds of `timestamp` and DATETIME, padded numeric text,
  all TINYINT(1) other than 0. Keys that differ in these only are taken for one row, and cells for
  equal. `timestamptz` texts with a numeric offset are compared as text. A BIGINT
  above 2^53 is rounded on the way. Updates name the source's spelling of a key also when
  the target is written.

**Compare.**

* For 150 ms after a new pair is picked the old list stays, and Apply runs it against the
  new source (`SchemaDiffPanel.tsx:79`; the `hasty` exception of `BatchFitsItsSide`).
* The late answer of a batch marks rows of the list on the screen (the `stained` exception
  of `MarksAreTrue`), and applied rows stay selected. `setApplied(true)` marks the data panel's
  list also if its direction changed (`DataDiffPanel.tsx:301`).
* The comment at `SchemaDiffPanel.tsx:237` speaks of the source's fresh schema, but the
  list is not computed again. The data panel has no flag against the schema
  of an earlier pick (`DataDiffPanel.tsx:90`), and its effect does not depend on the
  key columns it uses (187-195). `serverInfoCache.ts:65` keeps the null of a failure for ever.

**Import, export, tools.**

* A runner that disappears, with the form or with the tool list, forgets its job, which
  goes on without Cancel. A list of tools that is older than an install and answers after
  it makes them disappear (`store/toolCache.ts:37`); a first refresh that fails leaves
  "Loading tool bundle metadata" on the page (`ToolInstallPrompt.tsx:73`).
* A file whose probe fails keeps the format of the one before, and Start then throws
  (`app/import/page.tsx:195`, 268). The export's runner, as long as it stays, keeps format and
  destination when the source changes (`app/export/page.tsx:139`); when it goes it forgets both.
  A target picked while a file is probed is replaced by the guess (`app/import/page.tsx:102`).
* A failed or cancelled import that has kept changes tells the schema cache nothing. A
  Cancel between the child's exit and the next poll reports a cancelled import that was
  committed (`desktop/dump/import.rs:579`). A feed that breaks looks like the end of the
  dump to the child (524).
* "Wrap in a single transaction (rollback on any error)" (`app/import/page.tsx:312`) does
  not hold (`OptionRollsBack`, `ImportOption.cfg`) for a SQLite dump without a BEGIN of its own,
  as nothing is passed to sqlite3 for the option (`desktop/dump/import.rs:454`); nor for MySQL's
  DDL, with `--force`, and for sqlite3 without `-bail` (the conditions of `AllOrNothing` in
  `Transfer`).
* The import over a SQLite file overwrites it and then removes its sidecars
  (`desktop/dump/import.rs:419`), and expects a reconnect that the page does not do (416). A side
  file of the source that cannot be copied is passed over (490), and the import reports success
  without the transactions of its WAL.

**Profiles and secrets.**

* *A Test of edited fields may be answered by the pool of the old ones* (`TestChecksTheForm`,
  `StaleTest.cfg`): `test_connection` pings through the pool that is cached by the profile's id
  (`desktop/commands.rs:42`, `drivers/postgres/src/lib.rs:52`).
* Test stores a typed password, also of a profile that is then never saved
  (`ConnectionForm.tsx:303`). A failed migration followed by a Save loses the inline
  password (147, 218); a migration may overwrite a newer one (66).
* An edit of the username leaves the last verdict (187). A discovered host key is kept
  when the bastion changes (264). Following a link from one profile's edit page to another's
  keeps the first one's form.
* A Save that returns after its profile was deleted saves it again and moves the user
  there. Deletion of secrets is best effort, although the dialog says that they are deleted
  (`AppShell.tsx:334`). The mirror is changed before the file is written (`core/secrets.rs:149`).
* "Password is stored in your OS keychain" (`ConnectionForm.tsx:431`): it is in an encrypted file.
* `markUsed` does not run when only the connection in the address changes (`AppShell.tsx:79`).

**Schema views.**

* A slower answer for the connection of before replaces the page's schema
  (`app/schema/page.tsx:44`), and DDL from it goes to the present connection; so does that of
  a dialog that stays open while the palette changes the connection. These are the
  exceptions of `ActsAtHome`. The page's copy does not follow the list's DDL.
* On PostgreSQL an edit of nullability or default produces no statement and reports success
  (`DdlDialog.tsx:137`, `lib/buildDdl.ts:126`). An edit that fails half way, or whose last answer
  is lost, is not followed by a reload (`DdlDialog.tsx:207`, 225; `AppShell.tsx:667`).
  A rename of a MySQL column throws while the dialog renders: it passes neither the version
  nor the type (`lib/buildDdl.ts:88-93`). A failed Refresh leaves the list blank (`AppShell.tsx:688`).
* The dialog's `rename` mode is used by nobody; the palette looks for
  `/connections/<id>` (`CommandPalette.tsx:96`) where the routes have `?cid=`, so its
  sections for the present connection never show.

## 8. Not modelled

* **Text and bytes**: quoting and wording of SQL, `core/query.rs` (splitting a
  script), decoding, `detect.rs`, catalogue queries, layout, rendering, formatting. Pure
  data transformation whose states TLC would only enumerate character by character; the
  conversions that lose a value are in `DiffBatch`.
* **Tool bundles' backend** (`desktop/tools/*`): two installs that share a staging
  directory, a crash between the steps, the marker. `Transfer` has what the pages see.
* **A transaction that a script leaves open** in a pooled session, SQLite's sidecar files of an
  *export*, and the application ending during an export. Listed under `hazards` with the reason.
* **SSH**: handshake, host keys and copy loops (network I/O); the tunnel's life is in
  `PoolCache`.
* **`serverInfoCache`**: the schema cache without forced loads.
* **History, snippets, grid preferences, layouts, ERD, palette, plan viewer, home page**: one
  user, one thread, no answer to wait for. **HTTP stub, test kit, scripts**: no logic of
  the product.
* Within modelled components, the head comment of each module names what it leaves out.

## 9. What is left

1. The imports of `Transfer` have no contract of their own to refine, as exports have.
2. The hazards without a property (`PROJECT.json` gives the reason of each): a model of the
   bundles' staging directory, and of a pooled session with an open transaction, would cover
   two of them.

## 10. Running it

    tlc -workers 2 -config <Module>.cfg MC<Module>
    tlapm <Module>Proofs.tla

`ApplyBatch` has no `MC` module: `tlc -config ApplyBatch.cfg ApplyBatch`. The five
configurations beside the runs name their module in section 4
(`tlc -config StaleTest.cfg MCConnections`). Each run takes
less than three minutes on two free cores. `DriverProofs` and `ExportJobProofs` are proved
within half a minute, `StoreProofs` in about one, and the others in some minutes each.
