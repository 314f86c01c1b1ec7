---------------------------- MODULE MCSchemaCache ----------------------------
\* SchemaCache with interchangeable connections, loads and requests.
EXTENDS SchemaCache, TLC

CONSTANTS cA, cB, l1, l2, l3, r1, r2, r3

MCSymmetry == Permutations(Conns) \cup Permutations(Loads) \cup Permutations(Requests)

=============================================================================
