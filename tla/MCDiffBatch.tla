----------------------------- MODULE MCDiffBatch -----------------------------
\* DiffBatch on every pair of small schemas and small tables: two tables, up to
\* three columns, a foreign key each way, an index and a view.
EXTENDS DiffBatch, TLC

Plain == [type |-> 1, null |-> FALSE, dflt |-> 0]
Loose == [type |-> 1, null |-> TRUE, dflt |-> 1]
Wide == [type |-> 2, null |-> TRUE, dflt |-> 0]

Columns == {1 :> Plain, (1 :> Plain) @@ (2 :> Plain), (1 :> Plain) @@ (2 :> Wide),
            (1 :> Plain) @@ (3 :> Plain), (1 :> Plain) @@ (2 :> Loose) @@ (3 :> Plain)}
NoKeys == [f \in {} |-> 0]
Key(c, t, n) == 1 :> [col |-> c, ref |-> t, to |-> n, del |-> 1]

Tables1 ==
  {[cols |-> (1 :> Plain), fks |-> NoKeys, idx |-> NoKeys],
   [cols |-> (1 :> Plain) @@ (2 :> Plain), fks |-> NoKeys, idx |-> NoKeys],
   [cols |-> (1 :> Plain) @@ (2 :> Plain), fks |-> Key(2, 2, 1), idx |-> NoKeys]}
Tables2 ==
  {[cols |-> c, fks |-> f, idx |-> i] :
     c \in Columns, f \in {NoKeys, Key(2, 1, 1), Key(2, 1, 2), Key(3, 1, 1)},
     i \in {NoKeys, 1 :> 2}}

Valid(d) ==
  /\ \A t \in DOMAIN d.tables :
       LET tab == d.tables[t]
       IN  /\ \A i \in DOMAIN tab.idx : tab.idx[i] \in DOMAIN tab.cols
           /\ \A f \in DOMAIN tab.fks :
                /\ Resolves(d, t, tab.cols, tab.fks[f])
                /\ tab.cols[tab.fks[f].col].type = 1
  /\ \A v \in DOMAIN d.views :
       d.views[v].table \in DOMAIN d.tables
       /\ d.views[v].col \in DOMAIN d.tables[d.views[v].table].cols

View(t, c) == 1 :> [table |-> t, col |-> c]
MCSchemas ==
  {d \in {[tables |-> t, views |-> v] :
            t \in {NoKeys} \cup {1 :> a : a \in Tables1} \cup {2 :> b : b \in Tables2}
                  \cup {(1 :> a) @@ (2 :> b) : a \in Tables1, b \in Tables2},
            v \in {NoKeys, View(1, 2), View(2, 2)}} : Valid(d)}

MCRowSets == UNION {[ks -> {1, 3}] : ks \in SUBSET (1..3)}
MCColumnTypes == [postgres |-> {"uuid", "timestamp"},
                  mysql |-> {"decimal", "tinyint(1)", "bigint"}]

=============================================================================
