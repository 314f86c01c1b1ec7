---------------------------- MODULE MCConnections ----------------------------
(* Connections with two profiles and a bounded number of user actions.     *)
EXTENDS Connections, TLC

CONSTANTS a, b

MCIds == {a, b}

Sym == Permutations(MCIds)
=============================================================================
