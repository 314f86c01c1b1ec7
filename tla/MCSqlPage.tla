------------------------------ MODULE MCSqlPage ------------------------------
\* SqlPage with interchangeable connections.
EXTENDS SqlPage, TLC

CONSTANTS cA, cB

MCSymmetry == Permutations(Connections)

=============================================================================
