------------------------------ MODULE DiffBatch ------------------------------
(***************************************************************************)
(* What the two comparison generators produce, and what their batch does   *)
(* to the side it is run against: the ordered DDL of diffSchemas, and the  *)
(* INSERTs, UPDATEs and DELETEs of diffData and buildSyncStatements.       *)
(*                                                                         *)
(* A statement is the change it asks for; the quoting and the wording of   *)
(* the SQL are left out, the attributes it restates are kept. The server   *)
(* refuses what PostgreSQL or MySQL refuses because of the objects that    *)
(* exist, never because of the rows. Names are numbers, in their           *)
(* alphabetical order. SQLite, which has no ALTER COLUMN, is left out, and *)
(* so are views over views and primary keys. A value of a row is a number: *)
(* two that differ only in their last bit are one value for part of the    *)
(* way from the server to the comparison (Same, Read, NormalizeValue).     *)
(***************************************************************************)
EXTENDS Naturals, SequencesExt

CONSTANTS
  Engines,      \* a subset of {"postgres", "mysql"}
  Schemas,      \* the schemas compared
  RowSets,      \* the tables compared row by row: keys to values
  ColumnTypes,  \* the types of their columns, by engine
  RowCaps       \* the row caps offered

(***************************************************************************)
(* A schema is [tables, views]; a table [cols, fks, idx], each a function  *)
(* from names; a column [type, null, dflt]; a foreign key [col, ref, to,   *)
(* del]; an index the column it covers; a view the [table, col] it reads.  *)
(***************************************************************************)

VARIABLES
  engine,  \* of both sides
  kind,    \* "schema" or "rows"
  db,      \* db[side]: what the server of that side holds
  origin,  \* history: db when the comparison started
  dir,     \* the direction: which side is written
  cap,     \* the row cap
  column,  \* the type of the columns that are compared row by row
  picked,  \* the selection: "all", or "safe", the one the panel starts with
  seen,    \* seen[side]: the rows that side answered with, <<key, value>> in order
  rival,   \* the key of a row another client wrote meanwhile, or 0
  todo,    \* the statements not run yet
  status   \* "reading", "running", "done", "refused"

vars == <<engine, kind, db, origin, dir, cap, column, picked, seen, rival, todo, status>>
inputs == <<engine, kind, origin, dir, cap, column, picked>>

Sides == {"source", "target"}
Directions == {"source-to-target", "target-to-source"}

Names(f) == SetToSortSeq(DOMAIN f, <)
Each(names, Op(_)) == FlattenSeq([i \in DOMAIN names |-> Op(names[i])])
When(c, s) == IF c THEN s ELSE <<>>
Without(f, n) == [m \in DOMAIN f \ {n} |-> f[m]]
With(f, n, v) == [m \in DOMAIN f \cup {n} |-> IF m = n THEN v ELSE f[m]]

Change(k, t, n, d) == [kind |-> k, table |-> t, name |-> n, def |-> d]

-----------------------------------------------------------------------------
\* Columns that left and columns that came with one signature each way.
Renames(s, t) ==
  LET gone == DOMAIN s.cols \ DOMAIN t.cols
      new == DOMAIN t.cols \ DOMAIN s.cols
  IN  {p \in gone \X new :
         /\ {g \in gone : s.cols[g] = t.cols[p[2]]} = {p[1]}
         /\ {n \in new : t.cols[n] = s.cols[p[1]]} = {p[2]}}

DiffColumns(k, s, t) ==
  LET renamed == Renames(s, t)
      Rename(g) == SetToSeq({Change("rename-column", k, g, p[2]) :
                             p \in {q \in renamed : q[1] = g}})
      Kept(n) == LET sc == s.cols[n] tc == t.cols[n]
                 IN  When(sc.type # tc.type, <<Change("alter-column-type", k, n, tc)>>)
                     \o When(sc.null # tc.null, <<Change("alter-column-nullable", k, n, tc)>>)
      Wanted(n) == IF n \in DOMAIN s.cols THEN Kept(n)
                   ELSE When(\A p \in renamed : p[2] # n, <<Change("add-column", k, n, t.cols[n])>>)
      Left(n) == When(n \notin DOMAIN t.cols /\ \A p \in renamed : p[1] # n,
                      <<Change("drop-column", k, n, 0)>>)
  IN  Each(Names(s.cols), Rename) \o Each(Names(t.cols), Wanted) \o Each(Names(s.cols), Left)

\* Indexes are compared by name alone.
DiffIndexes(k, s, t) ==
  LET Add(n) == When(n \notin DOMAIN s.idx, <<Change("add-index", k, n, t.idx[n])>>)
      Drop(n) == When(n \notin DOMAIN t.idx, <<Change("drop-index", k, n, 0)>>)
  IN  Each(Names(t.idx), Add) \o Each(Names(s.idx), Drop)

DiffForeignKeys(k, s, t) ==
  LET Drop(n) == Change("drop-fk", k, n, 0)
      Wanted(n) == When(n \in DOMAIN s.fks /\ s.fks[n] # t.fks[n], <<Drop(n)>>)
                   \o When(n \notin DOMAIN s.fks \/ s.fks[n] # t.fks[n],
                           <<Change("add-fk", k, n, t.fks[n])>>)
      Left(n) == When(n \notin DOMAIN t.fks, <<Drop(n)>>)
  IN  Each(Names(t.fks), Wanted) \o Each(Names(s.fks), Left)

\* Mutant: a view that is redefined is only dropped.
DiffViewsDropsOnly(s, t) ==
  LET Drop(v) == Change("drop-view", v, v, 0)
      Create(v) == Change("create-view", v, v, t.views[v])
      Wanted(v) == IF v \notin DOMAIN s.views THEN <<Create(v)>>
                   ELSE When(s.views[v] # t.views[v], <<Drop(v)>>)
      Left(v) == When(v \notin DOMAIN t.views, <<Drop(v)>>)
  IN  Each(Names(t.views), Wanted) \o Each(Names(s.views), Left)

DiffViews(s, t) ==
  LET Drop(v) == Change("drop-view", v, v, 0)
      Create(v) == Change("create-view", v, v, t.views[v])
      Wanted(v) == IF v \notin DOMAIN s.views THEN <<Create(v)>>
                   ELSE When(s.views[v] # t.views[v], <<Drop(v), Create(v)>>)
      Left(v) == When(v \notin DOMAIN t.views, <<Drop(v)>>)
  IN  Each(Names(t.views), Wanted) \o Each(Names(s.views), Left)

Phases == <<{"drop-view"}, {"drop-fk"}, {"create-table"},
            {"rename-column", "add-column", "alter-column-type", "alter-column-nullable"},
            {"add-index"}, {"add-fk"}, {"create-view"}, {"drop-index"},
            {"drop-column"}, {"drop-table"}>>
PhaseRank(k) == (CHOOSE i \in DOMAIN Phases : k \in Phases[i]) - 1

\* topSortTables: the first ready table each time; what a cycle holds goes last.
ParentFirst(s) ==
  LET nodes == DOMAIN s.tables
      Parents(t) == ({s.tables[t].fks[f].ref : f \in DOMAIN s.tables[t].fks} \cap nodes) \ {t}
      Out[i \in 0..Cardinality(nodes)] ==
        IF i = 0 THEN <<>>
        ELSE LET placed == ToSet(Out[i - 1])
                 ready == {t \in nodes \ placed : Parents(t) \subseteq placed}
             IN  Out[i - 1] \o When(ready # {}, <<Min(ready)>>)
      sorted == Out[Cardinality(nodes)]
  IN  sorted \o SetToSortSeq(nodes \ ToSet(sorted), <)

\* Mutant: the order of the creates is used for the drops too.
ChildFirstForgotten(s) == ParentFirst(s)
ChildFirst(s) == Reverse(ParentFirst(s))

Unranked == 9
RankIn(order, t) == IF \E i \in DOMAIN order : order[i] = t
                    THEN CHOOSE i \in DOMAIN order : order[i] = t ELSE Unranked

OrderChanges(raw, s, t) ==
  LET up == ParentFirst(t)
      down == ChildFirst(s)
      Place(c) == PhaseRank(c.kind) * 10
                  + (IF c.kind \in {"drop-column", "drop-table"} THEN RankIn(down, c.table)
                     ELSE IF c.kind \in {"drop-view", "create-view"} THEN Unranked
                     ELSE RankIn(up, c.table))
  IN  FlattenSeq([p \in 1..100 |-> SelectSeq(raw, LAMBDA c : Place(c) = p)])

DiffSchemas(s, t) ==
  LET both == DOMAIN s.tables \cap DOMAIN t.tables
      Create(k) == When(k \notin both, <<Change("create-table", k, k, t.tables[k])>>)
      Alter(k) == IF k \notin both THEN <<>>
                  ELSE LET a == s.tables[k] b == t.tables[k]
                       IN  DiffColumns(k, a, b) \o DiffIndexes(k, a, b) \o DiffForeignKeys(k, a, b)
      Drop(k) == When(k \notin both, <<Change("drop-table", k, k, 0)>>)
  IN  OrderChanges(Each(Names(t.tables), Create) \o Each(Names(t.tables), Alter)
                   \o DiffViews(s, t) \o Each(Names(s.tables), Drop), s, t)

-----------------------------------------------------------------------------
(***************************************************************************)
(* The server, external: what it accepts, and what a statement does.       *)
(***************************************************************************)
Refs(d, t, n) ==  \* the foreign keys that point at column n of table t
  {<<k, f>> \in UNION {{<<k, f>> : f \in DOMAIN d.tables[k].fks} : k \in DOMAIN d.tables} :
     d.tables[k].fks[f].ref = t /\ (n = 0 \/ d.tables[k].fks[f].to = n)}
Reads(d, t, n) ==  \* PostgreSQL keeps what a view reads
  engine = "postgres"
  /\ \E v \in DOMAIN d.views : d.views[v].table = t /\ (n = 0 \/ d.views[v].col = n)

Resolves(d, t, cols, fk) ==
  /\ fk.col \in DOMAIN cols
  /\ IF fk.ref = t THEN fk.to \in DOMAIN cols
     ELSE fk.ref \in DOMAIN d.tables /\ fk.to \in DOMAIN d.tables[fk.ref].cols

Accepts(d, c) ==
  LET t == c.table n == c.name k == c.kind tab == d.tables[t]
  IN  \/ k = "drop-view" /\ n \in DOMAIN d.views
      \/ k = "create-view" /\ n \notin DOMAIN d.views /\ c.def.table \in DOMAIN d.tables
                           /\ c.def.col \in DOMAIN d.tables[c.def.table].cols
      \/ k = "create-table" /\ t \notin DOMAIN d.tables
           /\ \A f \in DOMAIN c.def.fks : Resolves(d, t, c.def.cols, c.def.fks[f])
      \/ k = "drop-table" /\ \A r \in Refs(d, t, 0) : r[1] = t
                          /\ ~Reads(d, t, 0)
      \/ k = "add-column" /\ n \notin DOMAIN tab.cols
      \/ k = "rename-column" /\ n \in DOMAIN tab.cols /\ c.def \notin DOMAIN tab.cols
      \/ k = "alter-column-type" /\ n \in DOMAIN tab.cols /\ ~Reads(d, t, n)
      \/ k = "alter-column-nullable" /\ n \in DOMAIN tab.cols
      \/ k = "drop-column" /\ n \in DOMAIN tab.cols /\ Refs(d, t, n) = {} /\ ~Reads(d, t, n)
           /\ (engine = "mysql" => \A f \in DOMAIN tab.fks : tab.fks[f].col # n)
      \/ k = "add-index" /\ n \notin DOMAIN tab.idx /\ c.def \in DOMAIN tab.cols
      \/ k = "drop-index" /\ (engine = "mysql" => n \in DOMAIN tab.idx)
      \/ k = "add-fk" /\ n \notin DOMAIN tab.fks /\ Resolves(d, t, tab.cols, c.def)
      \/ k = "drop-fk" /\ n \in DOMAIN tab.fks

\* MODIFY COLUMN restates the column; ALTER COLUMN changes one attribute.
Altered(old, c) ==
  IF engine = "mysql" THEN c.def
  ELSE IF c.kind = "alter-column-type" THEN [old EXCEPT !.type = c.def.type]
  ELSE [old EXCEPT !.null = c.def.null]

\* Renaming a column carries along the indexes, keys and views that name it.
Renamed(d, t, from, to) ==
  LET New(n) == IF n = from THEN to ELSE n
      Key(k, fk) == [fk EXCEPT !.col = IF k = t THEN New(@) ELSE @,
                               !.to = IF fk.ref = t THEN New(@) ELSE @]
      Tab(k) ==
        LET tab == d.tables[k]
        IN  IF k = t
            THEN [cols |-> With(Without(tab.cols, from), to, tab.cols[from]),
                  fks |-> [f \in DOMAIN tab.fks |-> Key(k, tab.fks[f])],
                  idx |-> [i \in DOMAIN tab.idx |-> New(tab.idx[i])]]
            ELSE [tab EXCEPT !.fks = [f \in DOMAIN @ |-> Key(k, @[f])]]
  IN  [tables |-> [k \in DOMAIN d.tables |-> Tab(k)],
       views |-> [v \in DOMAIN d.views |->
                    IF d.views[v].table = t THEN [d.views[v] EXCEPT !.col = New(@)]
                    ELSE d.views[v]]]

\* The columns a table is left with after a column is dropped, and its indexes.
Narrowed(tab, n) ==
  [cols |-> Without(tab.cols, n),
   fks |-> [f \in {g \in DOMAIN tab.fks : tab.fks[g].col # n} |-> tab.fks[f]],
   idx |-> [i \in {j \in DOMAIN tab.idx : tab.idx[j] # n} |-> tab.idx[i]]]

\* CREATE TABLE carries the columns and the foreign keys, and no index.
Created(def) == [def EXCEPT !.idx = <<>>]

Effect(d, c) ==
  LET t == c.table n == c.name tab == d.tables[t]
      Table(new) == [d EXCEPT !.tables[t] = new]
  IN  CASE c.kind = "drop-view" -> [d EXCEPT !.views = Without(@, n)]
        [] c.kind = "create-view" -> [d EXCEPT !.views = With(@, n, c.def)]
        [] c.kind = "create-table" -> [d EXCEPT !.tables = With(@, t, Created(c.def))]
        [] c.kind = "drop-table" -> [d EXCEPT !.tables = Without(@, t)]
        [] c.kind = "add-column" -> Table([tab EXCEPT !.cols = With(@, n, c.def)])
        [] c.kind = "rename-column" -> Renamed(d, t, n, c.def)
        [] c.kind \in {"alter-column-type", "alter-column-nullable"} ->
             Table([tab EXCEPT !.cols = With(@, n, Altered(tab.cols[n], c))])
        [] c.kind = "drop-column" -> Table(Narrowed(tab, n))
        [] c.kind = "add-index" -> Table([tab EXCEPT !.idx = With(@, n, c.def)])
        [] c.kind = "drop-index" -> Table([tab EXCEPT !.idx = Without(@, n)])
        [] c.kind = "add-fk" -> Table([tab EXCEPT !.fks = With(@, n, c.def)])
        [] c.kind = "drop-fk" -> Table([tab EXCEPT !.fks = Without(@, n)])

-----------------------------------------------------------------------------
(***************************************************************************)
(* Rows: `SELECT ... ORDER BY pk LIMIT cap` on both sides, aligned by key. *)
(***************************************************************************)
Window(rows) == {k \in DOMAIN rows : Cardinality({j \in DOMAIN rows : j < k}) < cap}
Restricted(rows, keys) == [k \in keys |-> rows[k]]

\* The driver sends a BIGINT as a JSON number, which a double rounds.
Read(v) == IF column = "bigint" THEN v - (v % 2) ELSE v

\* What the server takes for one value: a DECIMAL whatever its scale.
Same(v, w) == IF column = "decimal" THEN v \div 2 = w \div 2 ELSE v = w

\* The declared type decides how values are compared.
ClassifyColumn ==
  CASE column = "tinyint(1)" -> IF engine = "mysql" THEN "boolean" ELSE "numeric"
    [] column = "timestamp" -> "datetime"
    [] column \in {"decimal", "bigint"} -> "numeric"
    [] OTHER -> "text"

\* The form compared: a truth value, a time without its microseconds, a number
\* without its scale, a number in a text without the blanks around it.
NormalizeValue(v) ==
  CASE ClassifyColumn = "boolean" -> Min({v, 1})
    [] ClassifyColumn = "datetime" \/ column \in {"decimal", "text"} -> v \div 2
    [] OTHER -> v

Written == IF dir = "source-to-target" THEN "source" ELSE "target"
Desired == IF dir = "source-to-target" THEN "target" ELSE "source"

\* The map of one side's answer: of two rows with one key the later one.
ByKey(rows) ==
  [n \in {NormalizeValue(rows[i][1]) : i \in DOMAIN rows} |->
     Last(SelectSeq(rows, LAMBDA r : NormalizeValue(r[1]) = n))]

Row(k, n, v) == [kind |-> k, name |-> n, def |-> v]
OnlyIn(a, b) == Names(Restricted(a, DOMAIN a \ DOMAIN b))
CellsEqual(v, w) == NormalizeValue(v) = NormalizeValue(w)
Mismatched(a, b) ==
  Names(Restricted(a, {k \in DOMAIN a \cap DOMAIN b : ~CellsEqual(a[k][2], b[k][2])}))

\* Mutant: an update writes the value of the side that is written.
BuildSyncKeepsOwn(rows) ==
  LET written == rows[Written] desired == rows[Desired]
      Insert(k) == <<Row("insert", desired[k][1], desired[k][2])>>
      Update(k) == <<Row("update", rows["source"][k][1], written[k][2])>>
      Delete(k) == <<Row("delete", written[k][1], 0)>>
  IN  Each(OnlyIn(desired, written), Insert) \o Each(Mismatched(written, desired), Update)
      \o Each(OnlyIn(written, desired), Delete)

\* An UPDATE names the source's key, whichever side it is for.
BuildSyncStatements(rows) ==
  LET written == rows[Written] desired == rows[Desired]
      Insert(k) == <<Row("insert", desired[k][1], desired[k][2])>>
      Update(k) == <<Row("update", rows["source"][k][1], desired[k][2])>>
      Delete(k) == <<Row("delete", written[k][1], 0)>>
  IN  Each(OnlyIn(desired, written), Insert) \o Each(Mismatched(written, desired), Update)
      \o Each(OnlyIn(written, desired), Delete)

\* A plain INSERT of a key that is there aborts the batch; the others match or not.
Matching(rows, k) == {j \in DOMAIN rows : Same(j, k)}
AcceptsRow(rows, c) == c.kind = "insert" => Matching(rows, c.name) = {}
RowEffect(rows, c) ==
  CASE c.kind = "insert" -> With(rows, c.name, c.def)
    [] c.kind = "update" -> [k \in DOMAIN rows |-> IF Same(k, c.name) THEN c.def ELSE rows[k]]
    [] c.kind = "delete" -> Restricted(rows, DOMAIN rows \ Matching(rows, c.name))

-----------------------------------------------------------------------------
Init ==
  /\ engine \in Engines
  /\ kind \in {"schema", "rows"}
  /\ db \in [Sides -> IF kind = "schema" THEN Schemas ELSE RowSets]
  /\ origin = db
  /\ dir \in (IF kind = "schema" THEN {"source-to-target"} ELSE Directions)
  /\ cap \in (IF kind = "schema" THEN {0} ELSE RowCaps)
  /\ column \in (IF kind = "schema" THEN {"none"} ELSE ColumnTypes[engine])
  /\ kind = "rows" =>
       \A s \in Sides : \A j, k \in DOMAIN db[s] : Same(j, k) => j = k
  /\ picked \in (IF kind = "schema" THEN {"all", "safe"} ELSE {"all"})
  /\ seen = [s \in {} |-> 0]
  /\ rival = 0
  /\ todo = <<>>
  /\ status = "reading"

\* The two SELECTs are sent together and answer in either order.
ReadRows(side) ==
  /\ kind = "rows" /\ status = "reading" /\ side \notin DOMAIN seen
  /\ LET keys == Names(Restricted(db[side], Window(db[side])))
     IN  seen' = With(seen, side, [i \in DOMAIN keys |->
                                     <<Read(keys[i]), Read(db[side][keys[i]])>>])
  /\ UNCHANGED <<inputs, db, rival, todo, status>>

\* Another client writes one row, at any time.
Elsewhere(side, k, v) ==
  /\ kind = "rows" /\ status \in {"reading", "running"} /\ rival = 0
  /\ rival' = k
  /\ Matching(db[side], k) \subseteq {k}
  /\ db' = [db EXCEPT ![side] = IF v = 0 THEN Without(@, k) ELSE With(@, k, v)]
  /\ UNCHANGED <<inputs, seen, todo, status>>

Destructive == {"drop-table", "drop-column", "drop-index", "drop-fk", "drop-view"}
Safe(changes) == SelectSeq(changes, LAMBDA c : c.kind \notin Destructive)

CompareSchemas ==
  /\ kind = "schema" /\ status = "reading"
  /\ LET changes == DiffSchemas(db["source"], db["target"])
     IN  todo' = IF picked = "all" THEN changes ELSE Safe(changes)
  /\ status' = "running"
  /\ UNCHANGED <<inputs, db, seen, rival>>

CompareRows ==
  /\ kind = "rows" /\ status = "reading" /\ DOMAIN seen = Sides
  /\ todo' = BuildSyncStatements([side \in Sides |-> ByKey(seen[side])])
  /\ status' = "running"
  /\ UNCHANGED <<inputs, db, seen, rival>>

Accepted(c) == IF kind = "schema" THEN Accepts(db[Written], c) ELSE AcceptsRow(db[Written], c)
After(c) == IF kind = "schema" THEN Effect(db[Written], c) ELSE RowEffect(db[Written], c)

Step ==
  /\ status = "running" /\ todo # <<>> /\ Accepted(Head(todo))
  /\ db' = [db EXCEPT ![Written] = After(Head(todo))]
  /\ todo' = Tail(todo)
  /\ UNCHANGED <<inputs, seen, rival, status>>

\* The rest is skipped; what a refused batch leaves behind is ApplyBatch's.
Refuse ==
  /\ status = "running" /\ todo # <<>> /\ ~Accepted(Head(todo))
  /\ status' = "refused"
  /\ UNCHANGED <<inputs, db, seen, rival, todo>>

Finish ==
  /\ status = "running" /\ todo = <<>>
  /\ status' = "done"
  /\ UNCHANGED <<inputs, db, seen, rival, todo>>

Keys == UNION {DOMAIN r : r \in RowSets}
Values == UNION {{r[k] : k \in DOMAIN r} : r \in RowSets}

Next ==
  \/ \E side \in Sides : ReadRows(side)
  \/ \E side \in Sides, k \in Keys, v \in Values \cup {0} : Elsewhere(side, k, v)
  \/ CompareSchemas \/ CompareRows
  \/ Step \/ Refuse \/ Finish

Spec == Init /\ [][Next]_vars

-----------------------------------------------------------------------------
From == origin["source"]
To == origin["target"]
Both(t) == t \in DOMAIN From.tables \cap DOMAIN To.tables

Cyclic(d) ==
  LET Points(a, b) == \E f \in DOMAIN d.tables[a].fks : d.tables[a].fks[f].ref = b
  IN  \E a, b \in DOMAIN d.tables : a # b /\ Points(a, b) /\ Points(b, a)

\* A table the batch creates points at a column the batch adds or renames later.
NewKeyToNewColumn ==
  \E t \in DOMAIN To.tables : ~Both(t) /\
    \E f \in DOMAIN To.tables[t].fks :
      LET fk == To.tables[t].fks[f]
      IN  Both(fk.ref) /\ fk.to \notin DOMAIN From.tables[fk.ref].cols

\* A column goes while the table that points at it has yet to be dropped.
DroppedBelowItsChild ==
  \E t \in DOMAIN From.tables : ~Both(t) /\
    \E f \in DOMAIN From.tables[t].fks :
      LET fk == From.tables[t].fks[f]
      IN  Both(fk.ref) /\ fk.to \notin DOMAIN To.tables[fk.ref].cols

\* A column changes its type under a view that stays as it is.
TypeUnderView ==
  \E v \in DOMAIN From.views \cap DOMAIN To.views :
    LET w == From.views[v]
    IN  w = To.views[v] /\ Both(w.table)
        /\ From.tables[w.table].cols[w.col].type # To.tables[w.table].cols[w.col].type

\* A key or a view is redefined, and only the half that is not a drop is picked.
HalfRedefined ==
  picked = "safe" /\
    (\/ \E v \in DOMAIN From.views \cap DOMAIN To.views : From.views[v] # To.views[v]
     \/ \E t \in DOMAIN To.tables : Both(t) /\
          \E f \in DOMAIN From.tables[t].fks \cap DOMAIN To.tables[t].fks :
            From.tables[t].fks[f] # To.tables[t].fks[f])

\* A picked type change meets a view whose drop is not picked.
TypeUnderKeptView ==
  picked = "safe" /\ \E v \in DOMAIN From.views : v \notin DOMAIN To.views

(***************************************************************************)
(* The order of the DDL batch is one the server can follow but in seven    *)
(* cases (orderChanges): keys in a cycle, at the one side or the other; a  *)
(* new table's key to a column that comes later; a column that goes before *)
(* the table that points at it; a type that changes under a view, which    *)
(* stays as it is or whose drop is not picked; half of a redefinition.     *)
(***************************************************************************)
OrderIsSafe ==
  (kind = "schema" /\ status = "refused") =>
    \/ Cyclic(From) \/ Cyclic(To)
    \/ NewKeyToNewColumn \/ DroppedBelowItsChild
    \/ TypeUnderView \/ HalfRedefined \/ TypeUnderKeptView

(***************************************************************************)
(* After the whole batch a second comparison finds nothing to change but   *)
(* indexes: those of a table the batch created, and those that fell with a *)
(* column it dropped (diffSchemas, buildCreateTable).                      *)
(***************************************************************************)
SecondPassIsIndexes ==
  (kind = "schema" /\ status = "done" /\ picked = "all") =>
    LET left == DiffSchemas(db["source"], To)
    IN  \A i \in DOMAIN left :
          /\ left[i].kind = "add-index"
          /\ Both(left[i].table) => left[i].name \in DOMAIN From.tables[left[i].table].idx

(***************************************************************************)
(* A row batch that ran to its end makes the two sides agree on every key  *)
(* that both windows cover, whichever side is written, as far as the       *)
(* comparison tells values apart; but for the row another client wrote     *)
(* meanwhile, a key that another one is taken for, and a key that is not   *)
(* read as it is (diffData, buildSyncStatements).                          *)
(***************************************************************************)
Form(v) == NormalizeValue(Read(v))
Covered(k) ==
  \A s \in Sides :
    Len(seen[s]) < cap \/ \E i \in DOMAIN seen[s] : k <= seen[s][i][1]
Distinct(k) ==
  /\ Read(k) = k
  /\ rival # 0 => Form(k) # Form(rival)
  /\ \A s \in Sides : \A j \in DOMAIN origin[s] : Form(j) = Form(k) => Same(j, k)

RowsConverge ==
  (kind = "rows" /\ status = "done") =>
    \A k \in {j \in Keys : Covered(j) /\ Distinct(j)} :
      LET ours == Matching(db["source"], k)
          theirs == Matching(db["target"], k)
      IN  /\ ours = {} <=> theirs = {}
          /\ \A i \in ours, j \in theirs : Form(db["source"][i]) = Form(db["target"][j])

=============================================================================
