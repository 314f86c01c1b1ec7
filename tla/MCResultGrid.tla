---------------------------- MODULE MCResultGrid ----------------------------
\* ResultGrid with interchangeable rows, tables, values and lines.
EXTENDS ResultGrid, TLC

CONSTANTS r1, r2, c1, c2, users, orders, v0, v1, l1, l2

MCSymmetry ==
  UNION {Permutations(Rows), Permutations(Tables), Permutations(Cols), Permutations(Cells), Permutations(Lines)}

=============================================================================
