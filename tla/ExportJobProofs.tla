--------------------------- MODULE ExportJobProofs ---------------------------
(***************************************************************************)
(* What holds of ExportJob for any number of jobs at one path and any      *)
(* number of cancels.                                                      *)
(***************************************************************************)
EXTENDS ExportJob, TLAPS

LEMMA InitIInv == Init => IInv
BY ExportAssumption
   DEF Init, IInv, TypeOK, JobShape, CancelShape, CredsForgotten, CancelIsFinal,
       CrowdIsMarked, FileShape, HasOpened, Active, Alive, Tools, JobPcs, Results,
       ChildStates, CancelPcs

\* Every step of a job, of its process and of a cancel keeps IInv.
LEMMA NextIInv == IInv /\ [Next]_vars => IInv'
<1> SUFFICES ASSUME IInv, [Next]_vars
             PROVE  IInv'
  OBVIOUS
<1> USE ExportAssumption
    DEF IInv, TypeOK, JobShape, CancelShape, CredsForgotten, CancelIsFinal,
        CrowdIsMarked, FileShape, HasOpened, Active, Alive, Tools, JobPcs, Results,
        ChildStates, CancelPcs, cancelVars, slotVars, Go, Fail
<1>1. ASSUME NEW j \in Jobs, Refuse(j) PROVE IInv'
  BY <1>1 DEF Refuse
<1>2. ASSUME NEW j \in Jobs, Begin(j) PROVE IInv'
  BY <1>2 DEF Begin
<1>3. ASSUME NEW j \in Jobs, Prepare(j) PROVE IInv'
  BY <1>3 DEF Prepare
<1>4. ASSUME NEW j \in Jobs, PrepareFails(j) PROVE IInv'
  BY <1>4 DEF PrepareFails
<1>5. ASSUME NEW j \in Jobs, OpenOutput(j) PROVE IInv'
  BY <1>5 DEF OpenOutput, Truncate, Writing
<1>6. ASSUME NEW j \in Jobs, OpenFails(j) PROVE IInv'
  BY <1>6 DEF OpenFails
<1>7. ASSUME NEW j \in Jobs, CopyDone(j) PROVE IInv'
  BY <1>7 DEF CopyDone
<1>8. ASSUME NEW j \in Jobs, CopyFails(j) PROVE IInv'
  BY <1>8 DEF CopyFails
<1>9. ASSUME NEW j \in Jobs, Spawn(j) PROVE IInv'
  BY <1>9 DEF Spawn
<1>10. ASSUME NEW j \in Jobs, SpawnFails(j) PROVE IInv'
  BY <1>10 DEF SpawnFails
<1>11. ASSUME NEW j \in Jobs, Poll(j) PROVE IInv'
  <2> USE <1>11 DEF Poll
  <2>1. TypeOK'
    OBVIOUS
  <2>2. CredsForgotten' /\ CrowdIsMarked'
    OBVIOUS
  <2>3. CancelShape'
    OBVIOUS
  <2>4. JobShape'
    OBVIOUS
  <2>5. CancelIsFinal'
    OBVIOUS
  <2>6. FileShape'
    OBVIOUS
  <2> QED
    BY <2>1, <2>2, <2>3, <2>4, <2>5, <2>6
<1>12. ASSUME NEW j \in Jobs, Unwind(j) PROVE IInv'
  BY <1>12 DEF Unwind
<1>13. ASSUME NEW j \in Jobs, CleanUp(j) PROVE IInv'
  BY <1>13 DEF CleanUp
<1>14. ASSUME NEW j \in Jobs, ChildOpens(j) PROVE IInv'
  BY <1>14 DEF ChildOpens, Truncate, Writing
<1>15. ASSUME NEW j \in Jobs, ChildExits(j) PROVE IInv'
  BY <1>15 DEF ChildExits
<1>16. ASSUME NEW j \in Jobs, ChildDies(j) PROVE IInv'
  BY <1>16 DEF ChildDies
<1>17. ASSUME NEW k \in Cancels, NEW j \in Jobs, CancelRemove(k, j) PROVE IInv'
  <2> USE <1>17 DEF CancelRemove
  <2>1. TypeOK' /\ JobShape' /\ CrowdIsMarked' /\ FileShape'
    OBVIOUS
  <2>2. CredsForgotten' /\ CancelIsFinal'
    OBVIOUS
  <2>3. CASE j \notin registry
    <3>1. /\ cpc' = [cpc EXCEPT ![k] = "false"]
          /\ target' = [target EXCEPT ![k] = j]
          /\ UNCHANGED <<registry, slot, lock, child>>
      BY <2>3
    <3>2. CancelShape'
      BY <3>1
    <3> QED
      BY <2>1, <2>2, <3>2
  <2>4. CASE j \in registry
    <3>1. /\ cpc' = [cpc EXCEPT ![k] = "lock"]
          /\ target' = [target EXCEPT ![k] = j]
          /\ registry' = registry \ {j}
          /\ UNCHANGED <<slot, lock, child>>
      BY <2>4
    \* No other cancel has this job: its entry was still there.
    <3>2. \A l \in Cancels : cpc[l] \in {"lock", "reap", "true"} => target[l] # j
      BY <2>4
    <3>3. slot[j] = "child" /\ child[j] # "none"
      BY <2>4
    <3>4. CancelShape'
      BY <3>1, <3>2, <3>3
    <3> QED
      BY <2>1, <2>2, <3>4
  <2> QED
    BY <2>3, <2>4
<1>18. ASSUME NEW k \in Cancels, CancelTake(k) PROVE IInv'
  BY <1>18 DEF CancelTake
<1>19. ASSUME NEW k \in Cancels, CancelReap(k) PROVE IInv'
  BY <1>19 DEF CancelReap
<1>20. ASSUME UNCHANGED vars PROVE IInv'
  BY <1>20 DEF vars
<1> QED
  BY <1>1, <1>2, <1>3, <1>4, <1>5, <1>6, <1>7, <1>8, <1>9, <1>10, <1>11, <1>12, <1>13, <1>14, <1>15, <1>16, <1>17, <1>18, <1>19, <1>20
     DEF Next, JobStep, ChildStep, CancelStep

\* The inductive invariant holds in every reachable state.
THEOREM InvariantHolds == Spec => []IInv
BY InitIInv, NextIInv, PTL DEF Spec

\* Jobs that do not overlap never leave a half-written dump at the path.
THEOREM NoDumpHalfWritten == Spec => []NoHalfWritten
<1>1. IInv => NoHalfWritten
  BY DEF IInv, TypeOK, FileShape, NoHalfWritten
<1> QED
  BY <1>1, InvariantHolds, PTL

\* A cancel that answers true leaves no process behind and no job that claims
\* success for a killed one.
THEOREM CancelLeavesNothing == Spec => []CancelIsFinal
<1>1. IInv => CancelIsFinal
  BY DEF IInv
<1> QED
  BY <1>1, InvariantHolds, PTL

\* The credentials outlive no tool that ran.
THEOREM CredentialsGo == Spec => []CredsForgotten
<1>1. IInv => CredsForgotten
  BY DEF IInv
<1> QED
  BY <1>1, InvariantHolds, PTL

\* A lone job that reports success has left its whole dump at the path.
THEOREM SuccessLeavesWholeDump == Spec => SuccessIsComplete
<1>1. ASSUME IInv, [Next]_vars
      PROVE  [\A j \in Jobs \ crowded :
                pc[j] # "done" /\ pc'[j] = "done" /\ result'[j] = "ok" =>
                  file' = j /\ j \in whole']_vars
  <2>1. SUFFICES ASSUME NEW j \in Jobs \ crowded,
                        pc[j] # "done", pc'[j] = "done", result'[j] = "ok"
                 PROVE  file' = j /\ j \in whole'
    OBVIOUS
  <2>2. CopyDone(j) \/ Unwind(j)
    BY <1>1, <2>1
       DEF Next, JobStep, ChildStep, CancelStep, Refuse, Begin, Prepare,
           PrepareFails, OpenOutput, OpenFails, CopyDone, CopyFails, Spawn,
           SpawnFails, Poll, Unwind, CleanUp, ChildOpens, ChildExits, ChildDies,
           CancelRemove, CancelTake, CancelReap, vars, Go, Fail, IInv, TypeOK,
           JobShape, Results
  <2>3. HasOpened(j) /\ j \in Jobs
    BY <1>1, <2>1, <2>2 DEF HasOpened, CopyDone, Unwind, Go, IInv, FileShape, JobShape
  <2> QED
    BY <1>1, <2>1, <2>2, <2>3 DEF CopyDone, Unwind, Go, IInv, FileShape, TypeOK
<1> QED
  BY <1>1, InvariantHolds, PTL DEF Spec, SuccessIsComplete

-----------------------------------------------------------------------------
(* The refinement. A step shows at the end of a job, when a cancel reaches   *)
(* it, and before that at most at the path.                                  *)

\* What the pages see stays, or a job under way has written.
LEMMA QuietIsContract ==
  ASSUME Under' = Under, crowded' = crowded, Told' = Told, Reached' = Reached,
         Stopped' = Stopped, Under # {} \/ AtPath' = AtPath
  PROVE  [Contract!Next]_(Contract!vars)
BY DEF Contract!Next, Contract!vars, Contract!Write, Contract!cancels

\* A job that goes on has answered nothing.
LEMMA GoesOn ==
  ASSUME TypeOK, NEW j \in Jobs, NEW to \in JobPcs \ {"new", "done"},
         pc[j] \notin {"new", "done"}, pc' = [pc EXCEPT ![j] = to],
         \A i \in Jobs \ {j} : result'[i] = result[i]
  PROVE  Under' = Under /\ Told' = Told /\ Under # {}
<1>1. \A i \in Jobs : /\ pc'[i] \in {"new", "done"} <=> pc[i] \in {"new", "done"}
                      /\ pc'[i] = "done" <=> pc[i] = "done"
                      /\ pc[i] = "done" => result'[i] = result[i]
  BY DEF TypeOK
<1>2. Told' = Told
  BY <1>1 DEF Told
<1>3. Under' = Under /\ j \in Under
  BY <1>1 DEF Under
<1> QED
  BY <1>2, <1>3

\* A job that ends gives its answer and leaves those that are under way.
LEMMA Ends ==
  ASSUME TypeOK, NEW j \in Jobs, pc[j] \notin {"new", "done"},
         pc' = [pc EXCEPT ![j] = "done"], \A i \in Jobs \ {j} : result'[i] = result[i]
  PROVE  /\ j \in Under /\ Under' = Under \ {j}
         /\ Told' = [Told EXCEPT ![j] = result'[j]]
<1>1. /\ pc'[j] = "done"
      /\ \A i \in Jobs \ {j} : pc'[i] = pc[i]
  BY DEF TypeOK
<1>2. Told' = [Told EXCEPT ![j] = result'[j]]
  BY <1>1 DEF Told
<1>3. j \in Under /\ Under' = Under \ {j}
  BY <1>1 DEF Under
<1> QED
  BY <1>2, <1>3

\* The end of a job is the contract's, if the path holds what the answer says.
LEMMA EndIsContract ==
  ASSUME IInv, NEW j \in Jobs, pc[j] \notin {"new", "done"},
         pc' = [pc EXCEPT ![j] = "done"], \A i \in Jobs \ {j} : result'[i] = result[i],
         UNCHANGED <<child, slot, crowded>>,
         \/ result'[j] = "ok" /\ child[j] \notin {"dying", "killed"}
                              /\ (AtPath' = j \/ j \in crowded)
         \/ result'[j] = result[j] /\ result[j] \in {"error", "cancelled"} /\ AtPath' = None
  PROVE  [Contract!Next]_(Contract!vars)
<1>1. /\ j \in Under /\ Under' = Under \ {j}
      /\ Told' = [Told EXCEPT ![j] = result'[j]]
  BY Ends DEF IInv
<1>2. Reached' = Reached /\ Stopped' = Stopped /\ crowded' = crowded
  BY DEF Reached, Stopped
<1>3. /\ result'[j] \in {"ok", "error", "cancelled"}
      /\ result'[j] = "ok" => AtPath' = j \/ j \in crowded
      /\ result'[j] # "ok" => AtPath' = None
  OBVIOUS
<1>4. result'[j] = "cancelled" => j \in Reached
  BY DEF Reached, IInv, JobShape
<1>5. j \in Stopped => result'[j] = "cancelled"
  BY DEF Stopped, IInv, JobShape
<1>6. Contract!Return(j)
  BY <1>1, <1>2, <1>3, <1>4, <1>5 DEF Contract!Return, Contract!cancels
<1> QED
  BY <1>6 DEF Contract!Next

\* Before the first step nothing is under way and nobody has asked.
LEMMA InitContract == Init => Contract!Init
BY ExportAssumption
   DEF Init, Contract!Init, Under, AtPath, Told, Reached, Stopped

\* Every step is one that the pages are promised, or one that they do not see.
LEMMA NextContract == IInv /\ [Next]_vars => [Contract!Next]_(Contract!vars)
<1> SUFFICES ASSUME IInv, [Next]_vars
             PROVE  [Contract!Next]_(Contract!vars)
  OBVIOUS
<1>t. TypeOK
  BY DEF IInv
<1>1. ASSUME NEW j \in Jobs, Refuse(j) PROVE [Contract!Next]_(Contract!vars)
  <2>1. /\ pc[j] = "new" /\ pc' = [pc EXCEPT ![j] = "done"]
        /\ result' = [result EXCEPT ![j] = "error"]
    BY <1>1 DEF Refuse, Go, Fail
  <2>2. j \notin Under /\ Under' = Under
    BY <2>1, <1>t DEF Under, TypeOK
  <2>3. Told[j] = "none" /\ Told' = [Told EXCEPT ![j] = "error"]
    BY <2>1, <1>t DEF Told, TypeOK
  <2>4. UNCHANGED <<crowded, AtPath, Reached, Stopped>>
    BY <1>1 DEF Refuse, AtPath, Reached, Stopped, slotVars
  <2>5. Contract!Refuse(j)
    BY <2>2, <2>3, <2>4 DEF Contract!Refuse, Contract!cancels
  <2> QED
    BY <2>5 DEF Contract!Next
<1>2. ASSUME NEW j \in Jobs, Begin(j) PROVE [Contract!Next]_(Contract!vars)
  <2>1. pc[j] = "new" /\ pc' = [pc EXCEPT ![j] = "prepare"] /\ result' = result
    BY <1>2 DEF Begin, Go
  <2>2. j \notin Under /\ Under' = Under \cup {j}
    BY <2>1, <1>t DEF Under, TypeOK
  <2>3. Told[j] = "none" /\ Told' = Told
    BY <2>1, <1>t DEF Told, TypeOK
  <2>4. UNCHANGED <<AtPath, Reached, Stopped>>
    BY <1>2 DEF Begin, AtPath, Reached, Stopped, slotVars
  <2>5. crowded' = IF Under = {} THEN crowded ELSE crowded \cup Under'
    BY <1>2, <2>2 DEF Begin, Under
  <2>6. Contract!Begin(j)
    BY <2>2, <2>3, <2>4, <2>5 DEF Contract!Begin, Contract!cancels
  <2> QED
    BY <2>6 DEF Contract!Next
<1>3. ASSUME NEW j \in Jobs,
             \/ Prepare(j) \/ PrepareFails(j) \/ OpenOutput(j) \/ OpenFails(j) \/ CopyFails(j)
             \/ SpawnFails(j) \/ Poll(j)
      PROVE  [Contract!Next]_(Contract!vars)
  <2>1. /\ pc[j] \notin {"new", "done"}
        /\ \E to \in JobPcs \ {"new", "done"} : pc' = [pc EXCEPT ![j] = to]
        /\ \A i \in Jobs \ {j} : result'[i] = result[i]
    BY <1>3, <1>t
       DEF Prepare, PrepareFails, OpenOutput, OpenFails, CopyFails, SpawnFails, Poll, Go,
           Fail, JobPcs, TypeOK
  <2>2. Under' = Under /\ Told' = Told /\ Under # {}
    BY <2>1, <1>t, GoesOn
  <2>3. UNCHANGED <<crowded, child, slot>>
    BY <1>3 DEF Prepare, PrepareFails, OpenOutput, OpenFails, CopyFails, SpawnFails, Poll,
                slotVars
  <2> QED
    BY <2>2, <2>3, QuietIsContract DEF Reached, Stopped
<1>4. ASSUME NEW j \in Jobs, Spawn(j) PROVE [Contract!Next]_(Contract!vars)
  <2>1. /\ pc[j] = "spawn" /\ pc' = [pc EXCEPT ![j] = "wait"] /\ result' = result
        /\ UNCHANGED <<crowded, slot>>
        /\ child' = [child EXCEPT ![j] = IF tool[j] = "pg_dump" THEN "starting" ELSE "running"]
    BY <1>4 DEF Spawn, Go
  <2>2. child[j] = "none"
    BY <2>1 DEF IInv, JobShape
  <2>3. Stopped' = Stopped /\ Reached' = Reached
    BY <2>1, <2>2, <1>t DEF Stopped, Reached, TypeOK
  <2>4. Under' = Under /\ Told' = Told /\ Under # {}
    BY <2>1, <1>t, GoesOn DEF JobPcs
  <2> QED
    BY <2>1, <2>3, <2>4, QuietIsContract
<1>5. ASSUME NEW j \in Jobs, CopyDone(j) PROVE [Contract!Next]_(Contract!vars)
  <2>1. /\ pc[j] = "copying" /\ pc' = [pc EXCEPT ![j] = "done"]
        /\ result' = [result EXCEPT ![j] = "ok"] /\ whole' = whole \cup {j}
        /\ UNCHANGED <<file, child, slot, crowded>>
    BY <1>5 DEF CopyDone, Go, slotVars
  <2>2. result'[j] = "ok" /\ \A i \in Jobs \ {j} : result'[i] = result[i]
    BY <2>1, <1>t DEF TypeOK
  <2>3. j \in crowded \/ file = j
    BY <2>1 DEF IInv, FileShape, HasOpened
  <2>4. AtPath' = j \/ j \in crowded
    BY <2>1, <2>3 DEF AtPath
  <2>5. child[j] \notin {"dying", "killed"}
    BY <2>1 DEF IInv, JobShape
  <2> QED
    BY <2>1, <2>2, <2>4, <2>5, EndIsContract
<1>6. ASSUME NEW j \in Jobs, Unwind(j) PROVE [Contract!Next]_(Contract!vars)
  <2>1. /\ pc[j] = "unwind"
        /\ pc' = [pc EXCEPT ![j] = IF result[j] = "ok" THEN "done" ELSE "clean"]
        /\ UNCHANGED <<result, child, file, whole, slot, crowded>>
    BY <1>6 DEF Unwind, Go
  <2>2. CASE result[j] = "ok"
    <3>1. child[j] = "ok" /\ j \in whole
      BY <2>1, <2>2 DEF IInv, FileShape
    <3>2. j \in crowded \/ file = j
      BY <2>1, <3>1 DEF IInv, FileShape, HasOpened
    <3>3. AtPath' = j \/ j \in crowded
      BY <2>1, <3>1, <3>2 DEF AtPath
    <3> QED
      BY <2>1, <2>2, <3>1, <3>3, EndIsContract
  <2>3. CASE result[j] # "ok"
    <3>1. Under' = Under /\ Told' = Told /\ Under # {}
      BY <2>1, <2>3, <1>t, GoesOn DEF JobPcs
    <3> QED
      BY <2>1, <3>1, QuietIsContract DEF Reached, Stopped
  <2> QED
    BY <2>2, <2>3
<1>7. ASSUME NEW j \in Jobs, CleanUp(j) PROVE [Contract!Next]_(Contract!vars)
  <2>1. /\ pc[j] = "clean" /\ pc' = [pc EXCEPT ![j] = "done"] /\ file' = None
        /\ UNCHANGED <<result, child, slot, crowded>>
    BY <1>7 DEF CleanUp, Go, slotVars
  <2>2. result[j] \in {"error", "cancelled"}
    BY <2>1, <1>t DEF IInv, JobShape, TypeOK, Results
  <2>3. AtPath' = None
    BY <2>1, ExportAssumption DEF AtPath
  <2> QED
    BY <2>1, <2>2, <2>3, EndIsContract
<1>8. ASSUME NEW j \in Jobs, ChildStep(j) PROVE [Contract!Next]_(Contract!vars)
  <2>1. UNCHANGED <<pc, result, slot, crowded>>
    BY <1>8 DEF ChildStep, ChildOpens, ChildExits, ChildDies, slotVars
  <2>2. Stopped' = Stopped
    BY <1>8, <1>t DEF ChildStep, ChildOpens, ChildExits, ChildDies, Stopped, TypeOK
  <2>3. j \in Under
    BY <1>8, <1>t
       DEF ChildStep, ChildOpens, ChildExits, ChildDies, Under, IInv, JobShape, Alive,
           TypeOK, JobPcs
  <2> QED
    BY <2>1, <2>2, <2>3, QuietIsContract DEF Under, Told, Reached
<1>9. ASSUME NEW k \in Cancels, CancelTake(k) PROVE [Contract!Next]_(Contract!vars)
  <2> DEFINE j == target[k]
  <2>1. /\ cpc[k] = "lock" /\ UNCHANGED <<pc, result, file, whole, crowded>>
        /\ slot' = [slot EXCEPT ![j] = "taken"]
        /\ child' = [child EXCEPT ![j] = IF Alive(j) THEN "dying" ELSE @]
    BY <1>9 DEF CancelTake
  <2>2. j \in Jobs /\ slot[j] = "child" /\ child[j] \notin {"dying", "killed"}
    BY <2>1 DEF IInv, CancelShape, JobShape
  <2>3. j \notin Reached /\ Reached' = Reached \cup {j}
    BY <2>1, <2>2, <1>t DEF Reached, TypeOK
  <2>4. Alive(j) => j \in Under
    BY <2>2, <1>t DEF Under, IInv, JobShape, Alive, TypeOK, JobPcs
  <2>5. Stopped' = IF Alive(j) THEN Stopped \cup {j} ELSE Stopped
    BY <2>1, <2>2, <1>t DEF Stopped, TypeOK
  <2>6. UNCHANGED <<Under, crowded, AtPath, Told>>
    BY <2>1 DEF Under, AtPath, Told
  <2>7. Contract!Cancel(j)
    BY <2>3, <2>4, <2>5, <2>6 DEF Contract!Cancel
  <2> QED
    BY <2>2, <2>7 DEF Contract!Next
<1>10. ASSUME NEW k \in Cancels, (\E j \in Jobs : CancelRemove(k, j)) \/ CancelReap(k)
       PROVE  [Contract!Next]_(Contract!vars)
  <2>1. UNCHANGED <<pc, result, file, whole, slot, child, crowded>>
    BY <1>10 DEF CancelRemove, CancelReap
  <2> QED
    BY <2>1, QuietIsContract DEF Under, AtPath, Told, Reached, Stopped
<1>11. ASSUME UNCHANGED vars PROVE [Contract!Next]_(Contract!vars)
  BY <1>11, QuietIsContract DEF vars, Under, AtPath, Told, Reached, Stopped
<1> QED
  BY <1>1, <1>2, <1>3, <1>4, <1>5, <1>6, <1>7, <1>8, <1>9, <1>10, <1>11
     DEF Next, JobStep, CancelStep

\* start_export and cancel_export keep what they promise to the pages, for any
\* jobs, cancels and tools.
THEOREM ExportsImplementContract == Spec => ImplementsContract
BY InitContract, NextContract, InvariantHolds, PTL
   DEF Spec, ImplementsContract, Contract!Spec

=============================================================================
