---------------------------- MODULE ExportContract ----------------------------
(***************************************************************************)
(* What start_export and cancel_export promise to the pages, whatever the  *)
(* tool: a job answers once; one that answers ok has its whole dump at the *)
(* path, any other leaves nothing there; one that was refused touches      *)
(* nothing; and a job says cancelled only after a cancel reached it, and   *)
(* nothing else after a cancel killed its tool. Of a job that ran beside   *)
(* another one on the same path, a whole dump is not promised.             *)
(***************************************************************************)
CONSTANTS
  Jobs,
  Old,   \* the file that was there before
  None   \* no file

VARIABLES
  under,    \* the jobs under way
  beside,   \* the jobs that ran beside another one
  path,     \* what is at the path: a job stands for its whole dump
  told,     \* told[j]: what start_export answered
  reached,  \* the jobs whose tool a cancel took
  stopped   \* the jobs whose tool it killed

vars == <<under, beside, path, told, reached, stopped>>
cancels == <<reached, stopped>>

Init ==
  /\ under = {} /\ beside = {} /\ reached = {} /\ stopped = {}
  /\ path \in {Old, None}
  /\ told = [j \in Jobs |-> "none"]

Refuse(j) ==
  /\ j \notin under /\ told[j] = "none"
  /\ told' = [told EXCEPT ![j] = "error"]
  /\ UNCHANGED <<under, beside, path, cancels>>

Begin(j) ==
  /\ j \notin under /\ told[j] = "none"
  /\ under' = under \cup {j}
  /\ beside' = IF under = {} THEN beside ELSE beside \cup under'
  /\ UNCHANGED <<path, told, cancels>>

\* Only a job under way touches the path.
Write ==
  /\ under # {}
  /\ UNCHANGED <<under, beside, told, cancels>>

Return(j) ==
  /\ j \in under
  /\ under' = under \ {j}
  /\ \E out \in {"ok", "error", "cancelled"} :
       /\ told' = [told EXCEPT ![j] = out]
       /\ out = "ok" => path' = j \/ j \in beside
       /\ j \in stopped => out = "cancelled"
       /\ out = "cancelled" => j \in reached
       /\ out # "ok" => path' = None
  /\ UNCHANGED <<beside, cancels>>

\* A cancel reaches a job that may just have answered; it kills only one that
\* has not.
Cancel(j) ==
  /\ j \notin reached
  /\ reached' = reached \cup {j}
  /\ \/ stopped' = stopped
     \/ j \in under /\ stopped' = stopped \cup {j}
  /\ UNCHANGED <<under, beside, path, told>>

Next ==
  \/ Write
  \/ \E j \in Jobs : Refuse(j) \/ Begin(j) \/ Return(j) \/ Cancel(j)

Spec == Init /\ [][Next]_vars

===============================================================================
