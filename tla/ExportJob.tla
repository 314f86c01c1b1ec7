------------------------------ MODULE ExportJob ------------------------------
(***************************************************************************)
(* Exporting a database to a file: run_export prepares the dump tool's     *)
(* command, spawns it, registers the child under the caller's job id and   *)
(* polls it; cancel_export takes the child out of the registry's slot and  *)
(* kills it; whatever fails, the output is removed.                        *)
(*                                                                         *)
(* All jobs write to one path, the worst case. A page that is left and     *)
(* opened again starts a second job beside the first: such jobs are marked *)
(* crowded, and of a file two of them have open at once the model keeps    *)
(* only that it is Mixed.                                                  *)
(*                                                                         *)
(* Abstracted: the tool's options, stderr and progress events, the SSH     *)
(* tunnel of the job (its failure is Refuse), SQLite's sidecar files. A    *)
(* file that is there can be removed, and the application does not crash.  *)
(***************************************************************************)
EXTENDS FiniteSets

CONSTANTS
  Jobs,     \* calls of start_export, one fresh job_id each
  Cancels,  \* calls of cancel_export
  Old,      \* the dump that is at the path before
  Mixed,    \* what two writers leave there
  None

ASSUME ExportAssumption ==
  /\ Jobs \cap Cancels = {}
  /\ Old # Mixed /\ None \notin {Old, Mixed}
  /\ {Old, Mixed, None} \cap (Jobs \cup Cancels) = {}

VARIABLES
  tool,      \* tool[j]: "pg_dump", "mysqldump", "sqlite3" or "copy" (fs::copy)
  pc,        \* pc[j]: where job j is
  result,    \* result[j]: what run_export is about to return, or has
  child,     \* child[j]: the process
  file,      \* whose output is at the path: a job, Old, Mixed or None
  whole,     \* the jobs whose tool, or copy, has written everything
  creds,     \* the jobs whose --defaults-extra-file is on disk
  registry,  \* the jobs with an entry in ExportRegistry
  slot,      \* slot[j]: "child" or "taken", the registry's Option<Child>
  lock,      \* lock[j]: who holds the slot's mutex across an await, or None
  cpc,       \* cpc[k]: where cancel k is
  target,    \* target[k]: the job it is for
  crowded    \* history: the jobs that ran beside another one

vars == <<tool, pc, result, child, file, whole, creds, registry, slot, lock,
          cpc, target, crowded>>
cancelVars == <<cpc, target>>
slotVars == <<registry, slot, lock>>

Tools == {"pg_dump", "mysqldump", "sqlite3", "copy"}
JobPcs == {"new", "prepare", "open", "copying", "spawn", "wait", "unwind",
           "clean", "done"}
Results == {"none", "ok", "error", "cancelled"}
\* pg_dump is "starting" until it has opened its --file.
ChildStates == {"none", "starting", "running", "dying", "ok", "failed", "killed"}
CancelPcs == {"new", "lock", "reap", "true", "false"}

TypeOK ==
  /\ tool \in [Jobs -> Tools]
  /\ pc \in [Jobs -> JobPcs]
  /\ result \in [Jobs -> Results]
  /\ child \in [Jobs -> ChildStates]
  /\ file \in Jobs \cup {Old, Mixed, None}
  /\ whole \in SUBSET Jobs
  /\ creds \in SUBSET Jobs
  /\ registry \in SUBSET Jobs
  /\ slot \in [Jobs -> {"child", "taken"}]
  /\ lock \in [Jobs -> Jobs \cup Cancels \cup {None}]
  /\ cpc \in [Cancels -> CancelPcs]
  /\ target \in [Cancels -> Jobs \cup {None}]
  /\ crowded \in SUBSET Jobs

Init ==
  /\ tool \in [Jobs -> Tools]
  /\ pc = [j \in Jobs |-> "new"]
  /\ result = [j \in Jobs |-> "none"]
  /\ child = [j \in Jobs |-> "none"]
  /\ file \in {Old, None}
  /\ whole = {}
  /\ creds = {}
  /\ registry = {}
  /\ slot = [j \in Jobs |-> "child"]
  /\ lock = [j \in Jobs |-> None]
  /\ cpc = [k \in Cancels |-> "new"]
  /\ target = [k \in Cancels |-> None]
  /\ crowded = {}

-----------------------------------------------------------------------------
Alive(j) == child[j] \in {"starting", "running", "dying"}

\* Job j has the file that is at the path open.
Writing(j) ==
  /\ file \in {j, Mixed}
  /\ pc[j] \in {"copying", "spawn"} \/ child[j] \in {"running", "dying"}

\* File::create, fs::copy or the tool itself: the path is j's from here on.
Truncate(j) ==
  file' = IF \E i \in Jobs \ {j} : Writing(i) THEN Mixed ELSE j

Go(j, from, to) == pc[j] = from /\ pc' = [pc EXCEPT ![j] = to]

Fail(j) == result' = [result EXCEPT ![j] = "error"]

-----------------------------------------------------------------------------
(* run_export.                                                             *)

\* The path, the format or the tunnel is refused: `?`, before anything else.
Refuse(j) ==
  /\ Go(j, "new", "done")
  /\ Fail(j)
  /\ UNCHANGED <<tool, child, file, whole, creds, slotVars, cancelVars, crowded>>

Begin(j) ==
  /\ Go(j, "new", "prepare")
  /\ LET beside == {i \in Jobs : pc[i] \notin {"new", "done"}}
     IN  crowded' = IF beside = {} THEN crowded ELSE crowded \cup beside \cup {j}
  /\ UNCHANGED <<tool, result, child, file, whole, creds, slotVars, cancelVars>>

\* The tool is located; for mysqldump, if the profile has a password, it is
\* written to a temporary file.
Prepare(j) ==
  /\ Go(j, "prepare", IF tool[j] = "pg_dump" THEN "spawn" ELSE "open")
  /\ creds' \in {creds} \cup (IF tool[j] = "mysqldump" THEN {creds \cup {j}} ELSE {})
  /\ UNCHANGED <<tool, result, child, file, whole, slotVars, cancelVars, crowded>>

\* No tool, no stored password, or the credentials could not be written: `?`,
\* with part of the credentials file on disk or without.
PrepareFails(j) ==
  /\ Go(j, "prepare", "clean")
  /\ Fail(j)
  /\ creds' \in {creds} \cup (IF tool[j] = "mysqldump" THEN {creds \cup {j}} ELSE {})
  /\ UNCHANGED <<tool, child, file, whole, slotVars, cancelVars, crowded>>

\* mysqldump and sqlite3 write to stdout, which is the output file.
OpenOutput(j) ==
  /\ Go(j, "open", IF tool[j] = "copy" THEN "copying" ELSE "spawn")
  /\ Truncate(j)
  /\ UNCHANGED <<tool, result, child, whole, creds, slotVars, cancelVars, crowded>>

\* `?` again: past the removal of the credentials.
OpenFails(j) ==
  /\ Go(j, "open", "clean")
  /\ Fail(j)
  /\ UNCHANGED <<tool, child, file, whole, creds, slotVars, cancelVars, crowded>>

CopyDone(j) ==
  /\ Go(j, "copying", "done")
  /\ result' = [result EXCEPT ![j] = "ok"]
  /\ whole' = whole \cup {j}
  /\ UNCHANGED <<tool, child, file, creds, slotVars, cancelVars, crowded>>

CopyFails(j) ==
  /\ Go(j, "copying", "clean")
  /\ Fail(j)
  /\ UNCHANGED <<tool, child, file, whole, creds, slotVars, cancelVars, crowded>>

\* spawn_and_wait: the child runs and has its entry before the first await.
Spawn(j) ==
  /\ Go(j, "spawn", "wait")
  /\ child' = [child EXCEPT ![j] = IF tool[j] = "pg_dump" THEN "starting" ELSE "running"]
  /\ registry' = registry \cup {j}
  /\ UNCHANGED <<tool, result, file, whole, creds, slot, lock, cancelVars, crowded>>

SpawnFails(j) ==
  /\ Go(j, "spawn", "unwind")
  /\ Fail(j)
  /\ UNCHANGED <<tool, child, file, whole, creds, slotVars, cancelVars, crowded>>

\* Mutant: the job waits for the child with the slot's mutex held.
PollHoldsLock(j) ==
  /\ pc[j] = "wait" /\ lock[j] \in {None, j}
  /\ IF slot[j] = "child" /\ Alive(j)
       THEN lock' = [lock EXCEPT ![j] = j] /\ UNCHANGED <<pc, result>>
       ELSE /\ lock' = [lock EXCEPT ![j] = None]
            /\ pc' = [pc EXCEPT ![j] = "unwind"]
            /\ result' = [result EXCEPT ![j] =
                 IF slot[j] = "taken" THEN "cancelled"
                 ELSE IF child[j] = "ok" THEN "ok" ELSE "error"]
  /\ UNCHANGED <<tool, child, file, whole, creds, registry, slot, cancelVars, crowded>>

\* Mutant: an empty slot is not looked for, the child's exit ends the job.
PollMissesTaken(j) ==
  /\ Go(j, "wait", "unwind")
  /\ lock[j] = None /\ ~Alive(j)
  /\ result' = [result EXCEPT ![j] = IF child[j] = "failed" THEN "error" ELSE "ok"]
  /\ UNCHANGED <<tool, child, file, whole, creds, slotVars, cancelVars, crowded>>

\* A poll that ends the wait: an empty slot means cancelled, else try_wait has
\* the exit status, or fails on a process that is gone. A poll that finds the
\* child running leaves everything as it is. The mutex is held for the poll only.
Poll(j) ==
  /\ Go(j, "wait", "unwind")
  /\ lock[j] = None
  /\ \/ slot[j] = "taken" /\ result' = [result EXCEPT ![j] = "cancelled"]
     \/ slot[j] = "child" /\ child[j] = "ok" /\ result' = [result EXCEPT ![j] = "ok"]
     \/ slot[j] = "child" /\ ~Alive(j) /\ Fail(j)
  /\ UNCHANGED <<tool, child, file, whole, creds, slotVars, cancelVars, crowded>>

\* spawn_and_wait removes the entry if it made one; back in run_mysqldump the
\* credentials go, whatever the result.
Unwind(j) ==
  /\ Go(j, "unwind", IF result[j] = "ok" THEN "done" ELSE "clean")
  /\ registry' = registry \ {j}
  /\ creds' = creds \ {j}
  /\ UNCHANGED <<tool, result, child, file, whole, slot, lock, cancelVars, crowded>>

\* Mutant: a cancel is not taken for an error, and its output stays.
CleanUpErrorsOnly(j) ==
  /\ Go(j, "clean", "done")
  /\ file' = IF result[j] = "error" THEN None ELSE file
  /\ UNCHANGED <<tool, result, child, whole, creds, slotVars, cancelVars, crowded>>

\* Back in run_export: whatever is at the path is removed.
CleanUp(j) ==
  /\ Go(j, "clean", "done")
  /\ file' = None
  /\ UNCHANGED <<tool, result, child, whole, creds, slotVars, cancelVars, crowded>>

-----------------------------------------------------------------------------
(* The child.                                                              *)

ChildOpens(j) ==
  /\ child[j] = "starting"
  /\ child' = [child EXCEPT ![j] = "running"]
  /\ Truncate(j)
  /\ UNCHANGED <<tool, pc, result, whole, creds, slotVars, cancelVars, crowded>>

ChildExits(j) ==
  /\ \/ /\ child[j] = "running"
        /\ child' = [child EXCEPT ![j] = "ok"]
        /\ whole' = whole \cup {j}
     \/ /\ child[j] \in {"starting", "running"}
        /\ child' = [child EXCEPT ![j] = "failed"]
        /\ UNCHANGED whole
  /\ UNCHANGED <<tool, pc, result, file, creds, slotVars, cancelVars, crowded>>

ChildDies(j) ==
  /\ child[j] = "dying"
  /\ child' = [child EXCEPT ![j] = "killed"]
  /\ UNCHANGED <<tool, pc, result, file, whole, creds, slotVars, cancelVars, crowded>>

-----------------------------------------------------------------------------
(* cancel_export.                                                          *)

\* The page's Cancel button is there from the call of start_export to its
\* answer. The entry leaves the registry with the first cancel that finds it.
CancelRemove(k, j) ==
  /\ cpc[k] = "new" /\ pc[j] # "done"
  /\ target' = [target EXCEPT ![k] = j]
  /\ cpc' = [cpc EXCEPT ![k] = IF j \in registry THEN "lock" ELSE "false"]
  /\ registry' = registry \ {j}
  /\ UNCHANGED <<tool, pc, result, child, file, whole, creds, slot, lock, crowded>>

\* Mutant: the child is taken and dropped, which leaves the process running.
CancelDropsChild(k) ==
  /\ cpc[k] = "lock" /\ lock[target[k]] = None
  /\ slot' = [slot EXCEPT ![target[k]] = "taken"]
  /\ cpc' = [cpc EXCEPT ![k] = "true"]
  /\ UNCHANGED <<tool, pc, result, child, file, whole, creds, registry, lock, target, crowded>>

\* The child is taken and killed; the mutex is kept until it is reaped. A
\* process that has exited by itself cannot be killed any more.
CancelTake(k) ==
  /\ cpc[k] = "lock" /\ lock[target[k]] = None
  /\ slot' = [slot EXCEPT ![target[k]] = "taken"]
  /\ lock' = [lock EXCEPT ![target[k]] = k]
  /\ child' = [child EXCEPT ![target[k]] = IF Alive(target[k]) THEN "dying" ELSE @]
  /\ cpc' = [cpc EXCEPT ![k] = "reap"]
  /\ UNCHANGED <<tool, pc, result, file, whole, creds, registry, target, crowded>>

CancelReap(k) ==
  /\ cpc[k] = "reap" /\ ~Alive(target[k])
  /\ lock' = [lock EXCEPT ![target[k]] = None]
  /\ cpc' = [cpc EXCEPT ![k] = "true"]
  /\ UNCHANGED <<tool, pc, result, child, file, whole, creds, registry, slot, target, crowded>>

-----------------------------------------------------------------------------
JobStep(j) ==
  \/ Refuse(j) \/ Begin(j) \/ Prepare(j) \/ PrepareFails(j)
  \/ OpenOutput(j) \/ OpenFails(j) \/ CopyDone(j) \/ CopyFails(j)
  \/ Spawn(j) \/ SpawnFails(j) \/ Poll(j) \/ Unwind(j)
  \/ CleanUp(j)

ChildStep(j) == ChildOpens(j) \/ ChildExits(j) \/ ChildDies(j)

CancelStep(k) ==
  \/ \E j \in Jobs : CancelRemove(k, j)
  \/ CancelTake(k) \/ CancelReap(k)

Next ==
  \/ \E j \in Jobs : JobStep(j) \/ ChildStep(j)
  \/ \E k \in Cancels : CancelStep(k)

Spec == Init /\ [][Next]_vars

\* The job polls every WAIT_POLL_MS, goes on once the wait is over, and a cancel
\* goes on too; SIGKILL ends a process. A tool left alone may run for ever, and
\* nothing is assumed of what precedes the spawn.
Fairness ==
  /\ \A j \in Jobs :
       WF_vars(Poll(j)) /\ WF_vars(Unwind(j)) /\ WF_vars(CleanUp(j))
       /\ WF_vars(ChildDies(j))
  /\ \A k \in Cancels : WF_vars(CancelTake(k)) /\ WF_vars(CancelReap(k))

FairSpec == Spec /\ Fairness

-----------------------------------------------------------------------------
(* What holds.                                                             *)

\* "On cancel or error the partial output file is removed so the user never
\* sees a half-written dump": with no two jobs at once, whatever is at the path
\* when none is under way is complete: the killed or failed tool is dead before
\* its output is removed, and cannot create it again.
NoHalfWritten ==
  crowded = {} /\ (\A j \in Jobs : pc[j] \in {"new", "done"}) =>
    file \in whole \cup {Old, None}

\* A job that reports success, and ran alone, has left its complete dump there:
\* stated and proved; the runs check it as a part of ImplementsContract.
SuccessIsComplete ==
  [][\A j \in Jobs \ crowded :
       pc[j] # "done" /\ pc'[j] = "done" /\ result'[j] = "ok" =>
         file' = j /\ j \in whole']_vars

\* A cancel that answers true has seen the child dead, and a killed tool's job
\* never reports success.
CancelIsFinal ==
  /\ \A k \in Cancels : cpc[k] = "true" => ~Alive(target[k])
  /\ \A j \in Jobs : child[j] \in {"dying", "killed"} => result[j] # "ok"

\* Once the tool has run, its credentials are gone before the job cleans up or
\* returns: a job without a tool can leave them, one with a tool never does.
CredsForgotten ==
  \A j \in creds : pc[j] \in {"clean", "done"} => child[j] = "none"

\* "Holding it for the whole run made every job uncancellable": a cancel that
\* has found the job's entry brings the job to its end, however long the tool
\* would have run.
CancelEndsJob ==
  \A j \in Jobs, k \in Cancels :
    cpc[k] = "lock" /\ target[k] = j ~> pc[j] = "done" /\ ~Alive(j)

\* The jobs and their cancels, as the pages see them. A dump that is not whole
\* is nobody's yet.
Under == {j \in Jobs : pc[j] \notin {"new", "done"}}
AtPath == IF file \in Jobs \ whole THEN Mixed ELSE file
Told == [j \in Jobs |-> IF pc[j] = "done" THEN result[j] ELSE "none"]
Reached == {j \in Jobs : slot[j] = "taken"}
Stopped == {j \in Jobs : child[j] \in {"dying", "killed"}}

Contract == INSTANCE ExportContract WITH
  under <- Under, beside <- crowded, path <- AtPath, told <- Told,
  reached <- Reached, stopped <- Stopped

\* Whatever the tool, a job under way is atomic for the pages: it ends with its
\* whole dump at the path, or with nothing, and says which.
ImplementsContract == Contract!Spec

\* What makes them inductive. Each place of a job with what it implies for its
\* process, its entry and its result.
JobShape ==
  \A j \in Jobs :
    /\ pc[j] \in {"new", "prepare", "open", "copying", "spawn"} =>
         child[j] = "none" /\ result[j] = "none" /\ slot[j] = "child" /\ j \notin whole
    /\ pc[j] = "wait" => child[j] # "none" /\ result[j] = "none"
    /\ pc[j] \in {"unwind", "clean", "done"} => ~Alive(j)
    /\ j \in registry =>
         pc[j] \in {"wait", "unwind"} /\ slot[j] = "child" /\ child[j] # "none"
    /\ slot[j] = "taken" /\ lock[j] = None => ~Alive(j)
    /\ slot[j] = "child" => child[j] \notin {"dying", "killed"}
    /\ pc[j] = "clean" => result[j] # "ok"
    /\ pc[j] \in {"unwind", "clean", "done"} => result[j] # "none"
    /\ result[j] = "cancelled" => slot[j] = "taken"
    /\ child[j] \in {"dying", "killed"} => result[j] \in {"none", "cancelled"}
    /\ tool[j] = "copy" => pc[j] # "spawn" /\ child[j] = "none"

\* A cancel past the registry has a job that was spawned, and the slot's mutex
\* while it waits for the child.
CancelShape ==
  /\ \A k \in Cancels :
       /\ cpc[k] # "new" => target[k] \in Jobs
       /\ cpc[k] \in {"lock", "reap", "true"} =>
            target[k] \notin registry /\ child[target[k]] # "none"
       /\ cpc[k] = "lock" => slot[target[k]] = "child"
       /\ cpc[k] \in {"reap", "true"} => slot[target[k]] = "taken"
       /\ cpc[k] = "reap" => lock[target[k]] = k
  /\ \A j \in Jobs :
       lock[j] # None => lock[j] \in Cancels /\ cpc[lock[j]] = "reap" /\ target[lock[j]] = j
  /\ \A k, l \in Cancels :
       k # l /\ {cpc[k], cpc[l]} \subseteq {"lock", "reap", "true"} => target[k] # target[l]

\* Jobs under way at the same time are marked.
Active(j) == pc[j] \notin {"new", "done"}
CrowdIsMarked == \A i, j \in Jobs : i # j /\ Active(i) /\ Active(j) => i \in crowded

\* What is at the path: a lone job that has opened it finds its own output there.
HasOpened(j) ==
  \/ pc[j] = "copying" \/ (pc[j] = "spawn" /\ tool[j] # "pg_dump")
  \/ pc[j] \in {"wait", "unwind"} /\ child[j] \in {"running", "ok"}
FileShape ==
  /\ \A j \in Jobs \ crowded : HasOpened(j) => file = j
  /\ \A j \in Jobs : child[j] = "ok" \/ result[j] = "ok" => j \in whole
  /\ \A j \in Jobs : pc[j] = "unwind" /\ result[j] = "ok" => child[j] = "ok"
  /\ file \in Jobs => pc[file] # "new" /\ (pc[file] = "done" => file \in whole)
  /\ file = Mixed => crowded # {}

\* The inductive invariant.
IInv ==
  /\ TypeOK /\ JobShape /\ CancelShape /\ CredsForgotten /\ CancelIsFinal
  /\ CrowdIsMarked /\ FileShape

-----------------------------------------------------------------------------
(* What the comments promise and the code does not keep: TLC finds a        *)
(* counterexample of each, which the README tells.                          *)

\* "Always try to delete the creds file, success or failure": no credentials
\* are left on disk once the job has returned.
CredsAlwaysForgotten == \A j \in creds : pc[j] # "done"

\* "The backend kills the child and the awaited startExport rejects": a cancel
\* that finds nothing to kill has come after the job had its result.
CancelFindsTheJob ==
  [][\A k \in Cancels :
       cpc[k] = "new" /\ cpc'[k] = "false" => result[target'[k]] # "none"]_vars

=============================================================================
