---------------------------- MODULE BatchContract ----------------------------
(***************************************************************************)
(* What Driver::apply_batch promises, whatever the engine: a batch the     *)
(* engine can roll back lands as a whole or not at all, and the answer     *)
(* tells which; any other lands in order, and is only reported committed   *)
(* when all of it has landed. A caller who gets an error knows nothing.    *)
(***************************************************************************)
EXTENDS Naturals, FiniteSets

VARIABLES
  size,    \* number of statements of the batch
  atomic,  \* the engine can undo all of them
  landed,  \* the statements whose effects other sessions see
  told     \* the answer: "none", "error", "committed", "rolled back", "partial"

vars == <<size, atomic, landed, told>>

Init ==
  /\ size \in Nat
  /\ atomic \in BOOLEAN
  /\ landed = {}
  /\ told = "none"

\* The commit of a transaction.
LandAll ==
  /\ told = "none" /\ atomic /\ landed = {}
  /\ landed' = 1..size
  /\ UNCHANGED <<size, atomic, told>>

\* A statement commits itself, and those before it that had not landed.
LandPrefix ==
  /\ told = "none" /\ ~atomic
  /\ \E i \in 1..size : landed \subseteq 1..i /\ landed' = 1..i
  /\ UNCHANGED <<size, atomic, told>>

Tell ==
  /\ told = "none"
  /\ told' \in {"error", "committed", "rolled back", "partial"}
  /\ told' = "committed" => landed = 1..size
  /\ told' = "rolled back" /\ atomic => landed = {}
  /\ told' = "partial" => ~atomic
  /\ UNCHANGED <<size, atomic, landed>>

\* The commit and the answer to it are one step of the caller's.
LandAndTell ==
  /\ told = "none"
  /\ atomic => landed = {}
  /\ landed' = 1..size
  /\ told' \in {"committed", "error"}
  /\ UNCHANGED <<size, atomic>>

Next == LandAll \/ LandPrefix \/ Tell \/ LandAndTell

Spec == Init /\ [][Next]_vars

=============================================================================
