------------------------------ MODULE MCTransfer ------------------------------
(* One connection per engine, and dumps of two statements.                 *)
EXTENDS Transfer, TLC
CONSTANTS pg1, my1, lite1
MCConns == {pg1, my1, lite1}
MCEngineOf == pg1 :> "postgres" @@ my1 :> "mysql" @@ lite1 :> "sqlite"
MCDumps == {<<"row", "row">>, <<"row", "bad">>, <<"ddl", "bad">>}
===============================================================================
