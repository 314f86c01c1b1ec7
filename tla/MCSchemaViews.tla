---------------------------- MODULE MCSchemaViews ----------------------------
(* One PostgreSQL and one MySQL connection.                                *)
EXTENDS SchemaViews

CONSTANTS pg, my

MCEngineOf == [c \in Conns |-> IF c = pg THEN "postgres" ELSE "mysql"]
=============================================================================
