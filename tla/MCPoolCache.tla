----------------------------- MODULE MCPoolCache -----------------------------
\* PoolCache with three concurrent calls of one profile and one or two
\* disconnects. Calls and Disconnects are interchangeable.
EXTENDS PoolCache, TLC

CONSTANTS c1, c2, c3, d1, d2

MCSymmetry == Permutations(Calls) \cup Permutations(Disconnects)

=============================================================================
