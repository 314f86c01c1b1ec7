----------------------------- MODULE MCCompare -----------------------------
\* Compare with three connections, one of another engine.
EXTENDS Compare, TLC

CONSTANTS pg1, pg2, my1, create, drop

MCEngineOf == pg1 :> "postgres" @@ pg2 :> "postgres" @@ my1 :> "mysql"
MCSymmetry == Permutations({pg1, pg2})

=============================================================================
