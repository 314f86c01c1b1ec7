------------------------------ MODULE ApplyBatch ------------------------------
(***************************************************************************)
(* Applying a migration: the Compare panels send a batch of statements,    *)
(* `apply_batch` runs it in a transaction or, on MySQL with DDL in it,     *)
(* statement by statement, and the panel marks rows and writes the         *)
(* migration log from the answer.                                          *)
(*                                                                         *)
(* Statements are numbers. What the model keeps of one is its kind: DML;   *)
(* DDL that is_ddl_statement recognises by its first word; and DDL it does *)
(* not ("masked": behind a comment, or with another first word). The       *)
(* server goes by what the statement is, not by its first word. Outcomes   *)
(* are `done` statements Ok, the one at `failedAt` Fail, the rest          *)
(* Skipped. The batch has the only open transaction of its connection.     *)
(***************************************************************************)
EXTENDS Naturals, FiniteSets

CONSTANTS
  MaxLen,  \* longest batch
  Kinds    \* the kinds of statement in it

ASSUME BatchAssumption == MaxLen \in Nat /\ Kinds \subseteq {"dml", "ddl", "masked"}

VARIABLES
  engine,   \* "postgres", "mysql" or "sqlite"
  panel,    \* the panel that applies: "schema" or "data"
  n,        \* number of statements
  kind,     \* kind[i]: what statement i is
  phase,    \* where apply_batch, then the panel, is
  done,     \* statements that ran without error
  failedAt, \* the statement that was rejected, or 0
  tx,       \* the server's side of the batch's transaction
  pending,  \* statements that ran in it and are not committed
  durable,  \* statements whose effects are committed
  answer,   \* what apply_batch returned
  applied,  \* the rows the panel shows as applied
  logOk     \* the migration log's entry: its statements recorded Ok

applyVars == <<engine, panel, n, kind, phase, done, failedAt, tx, pending,
               durable, answer, applied, logOk>>
batchVars == <<engine, panel, n, kind>>
uiVars == <<applied, logOk>>

Engines == {"postgres", "mysql", "sqlite"}
Pcs == {"new", "run", "returned", "logged", "crashed"}
Answers == {"none", "error", "committed", "rolled back", "partial"}

ApplyTypeOK ==
  /\ engine \in Engines
  /\ panel \in {"schema", "data"}
  /\ n \in 1..MaxLen
  /\ kind \in [1..n -> Kinds]
  /\ phase \in Pcs
  /\ done \in 0..n
  /\ failedAt \in 0..n
  /\ tx \in {"none", "open"}
  /\ pending \in SUBSET (1..n)
  /\ durable \in SUBSET (1..n)
  /\ answer \in Answers
  /\ applied \in SUBSET (1..n)
  /\ logOk \in SUBSET (1..n)

ApplyInit ==
  /\ engine \in Engines
  /\ panel \in {"schema", "data"}
  /\ n \in 1..MaxLen
  /\ kind \in [1..n -> Kinds]
  /\ panel = "data" => \A i \in 1..n : kind[i] = "dml"
  /\ phase = "new"
  /\ done = 0
  /\ failedAt = 0
  /\ tx = "none"
  /\ pending = {}
  /\ durable = {}
  /\ answer = "none"
  /\ applied = {}
  /\ logOk = {}

-----------------------------------------------------------------------------
(* The server.                                                             *)

\* statements.iter().any(is_ddl_statement)
ContainsDdl == \E i \in 1..n : kind[i] = "ddl"

\* The MySQL path without a transaction.
OneByOne == engine = "mysql" /\ ContainsDdl

\* MySQL ends the open transaction before it runs DDL, and commits DDL itself.
CommitsItself(i) == engine = "mysql" /\ kind[i] # "dml"

\* Statement i runs: into the open transaction, or for good.
Lands(i) ==
  IF tx = "open" /\ ~CommitsItself(i)
    THEN pending' = pending \cup {i} /\ UNCHANGED <<durable, tx>>
    ELSE pending' = {} /\ durable' = durable \cup pending \cup {i} /\ tx' = "none"

\* The server forgets the open transaction.
Discard == pending' = {} /\ tx' = "none" /\ UNCHANGED durable

-----------------------------------------------------------------------------
(* apply_batch.                                                            *)

Begin ==
  /\ phase = "new"
  /\ phase' = "run"
  /\ tx' = IF OneByOne THEN "none" ELSE "open"
  /\ UNCHANGED <<batchVars, done, failedAt, pending, durable, answer, uiVars>>

\* pool_for or pool.begin() fails.
BeginFails ==
  /\ phase = "new"
  /\ phase' = "returned"
  /\ answer' = "error"
  /\ UNCHANGED <<batchVars, done, failedAt, tx, pending, durable, uiVars>>

StatementOk ==
  /\ phase = "run" /\ failedAt = 0 /\ done < n
  /\ Lands(done + 1)
  /\ done' = done + 1
  /\ UNCHANGED <<batchVars, phase, failedAt, answer, uiVars>>

\* Mutant: an error is taken for success.
StatementRefusedUnseen ==
  /\ phase = "run" /\ failedAt = 0 /\ done < n
  /\ done' = done + 1
  /\ UNCHANGED <<batchVars, phase, failedAt, tx, pending, durable, answer, uiVars>>

\* The server rejects the statement, DDL having ended the transaction already
\* or not; or the connection is lost, after which nobody knows whether a
\* statement that commits itself ran, and an open transaction is gone.
StatementRefused ==
  /\ phase = "run" /\ failedAt = 0 /\ done < n
  /\ failedAt' = done + 1
  /\ \/ UNCHANGED <<tx, pending, durable>>
     \/ /\ CommitsItself(done + 1)
        /\ durable' = durable \cup pending
        /\ pending' = {} /\ tx' = "none"
     \/ Discard
     \/ (tx = "none" \/ CommitsItself(done + 1)) /\ Lands(done + 1)
  /\ UNCHANGED <<batchVars, phase, done, answer, uiVars>>

\* Mutant: what ran before the failure is committed.
RollbackCommits ==
  /\ phase = "run" /\ failedAt # 0 /\ ~OneByOne
  /\ durable' = durable \cup pending /\ pending' = {} /\ tx' = "none"
  /\ phase' = "returned"
  /\ answer' = "rolled back"
  /\ UNCHANGED <<batchVars, done, failedAt, uiVars>>

\* A failed ROLLBACK is ignored: the server discards the transaction with the
\* connection.
Rollback ==
  /\ phase = "run" /\ failedAt # 0 /\ ~OneByOne
  /\ Discard
  /\ phase' = "returned"
  /\ answer' = "rolled back"
  /\ UNCHANGED <<batchVars, done, failedAt, uiVars>>

Commit ==
  /\ phase = "run" /\ failedAt = 0 /\ done = n /\ ~OneByOne
  /\ durable' = durable \cup pending /\ pending' = {} /\ tx' = "none"
  /\ phase' = "returned"
  /\ answer' = "committed"
  /\ UNCHANGED <<batchVars, done, failedAt, uiVars>>

\* Mutant: the result of COMMIT is ignored.
CommitFailsUnseen ==
  /\ phase = "run" /\ failedAt = 0 /\ done = n /\ ~OneByOne
  /\ durable' \in {durable, durable \cup pending} /\ pending' = {} /\ tx' = "none"
  /\ phase' = "returned"
  /\ answer' = "committed"
  /\ UNCHANGED <<batchVars, done, failedAt, uiVars>>

\* COMMIT was refused, or its answer was lost.
CommitFails ==
  /\ phase = "run" /\ failedAt = 0 /\ done = n /\ ~OneByOne
  /\ durable' \in {durable, durable \cup pending} /\ pending' = {} /\ tx' = "none"
  /\ phase' = "returned"
  /\ answer' = "error"
  /\ UNCHANGED <<batchVars, done, failedAt, uiVars>>

ReportOneByOne ==
  /\ phase = "run" /\ OneByOne /\ (failedAt # 0 \/ done = n)
  /\ phase' = "returned"
  /\ answer' = IF failedAt # 0 THEN "partial" ELSE "committed"
  /\ UNCHANGED <<batchVars, done, failedAt, tx, pending, durable, uiVars>>

\* The application ends: dropping the transaction, or losing the connection,
\* rolls back, unless COMMIT had gone out.
Crash ==
  /\ phase \in {"new", "run"}
  /\ phase' = "crashed"
  /\ \/ Discard
     \/ phase = "run" /\ failedAt = 0 /\ done = n /\ tx = "open"
        /\ durable' = durable \cup pending /\ pending' = {} /\ tx' = "none"
  /\ UNCHANGED <<batchVars, done, failedAt, answer, uiVars>>

-----------------------------------------------------------------------------
\* The schema panel marks the rows reported Ok, the data panel all of them when
\* the batch committed.
Shown ==
  IF answer # "error" /\ (panel = "schema" \/ answer = "committed") THEN 1..done ELSE {}

\* The log's entry repeats the outcomes; after an error every one is a failure.
LoggedOk == IF answer = "error" THEN {} ELSE 1..done

\* The panel takes the answer.
Record ==
  /\ phase = "returned"
  /\ phase' = "logged"
  /\ applied' = Shown
  /\ logOk' = LoggedOk
  /\ UNCHANGED <<batchVars, done, failedAt, tx, pending, durable, answer>>

ApplyNext ==
  \/ Begin \/ BeginFails \/ StatementOk \/ StatementRefused \/ Rollback \/ Commit
  \/ CommitFails \/ ReportOneByOne \/ Crash \/ Record

ApplySpec == ApplyInit /\ [][ApplyNext]_applyVars

-----------------------------------------------------------------------------
(* What holds.                                                             *)

\* The batches that one transaction can hold.
Transactional == engine # "mysql" \/ \A i \in 1..n : kind[i] = "dml"

\* Other sessions see a transactional batch whole or not at all, at every
\* instant, through every error, lost connection and crash.
AllOrNothing == Transactional => durable \in {{}, 1..n}

\* The flag in the migration log is true of the database: committed means that
\* every statement is there, rolled back that none is; a partial MySQL batch has
\* kept every statement reported Ok and at most the failing one beside them. After
\* an error answer, when the batch may have landed or not, the log claims nothing.
LogIsHonest ==
  phase = "logged" =>
    /\ answer = "error" => logOk = {}
    /\ answer = "committed" => durable = 1..n /\ logOk = 1..n
    /\ answer = "rolled back" /\ Transactional => durable = {}
    /\ answer = "partial" => logOk \subseteq durable /\ durable \subseteq 1..failedAt

\* Nothing behind the first failure has any effect.
NothingPastTheFailure ==
  failedAt # 0 => failedAt = done + 1 /\ durable \cup pending \subseteq 1..failedAt

\* What makes them inductive. While the batch runs, what has run without error
\* is either durable or pending; a transactional batch keeps it all pending, in
\* its open transaction, and a batch run one by one keeps nothing pending.
RanIsKept ==
  /\ phase = "new" => durable = {} /\ pending = {} /\ tx = "none" /\ done = 0 /\ failedAt = 0
  /\ phase = "run" /\ failedAt = 0 => durable \cup pending = 1..done
TransactionHolds ==
  Transactional /\ phase \in {"new", "run"} =>
    durable = {} /\ (phase = "run" /\ failedAt = 0 => tx = "open")
OneByOneHolds ==
  OneByOne => pending = {} /\ tx = "none" /\ 1..done \subseteq durable

\* The answer is given once, and is true from the moment it is given.
AnswerIsTrue ==
  /\ phase \in {"new", "run", "crashed"} => answer = "none"
  /\ answer = "committed" => durable = 1..n /\ done = n
  /\ answer = "rolled back" /\ Transactional => durable = {}
  /\ answer = "partial" => OneByOne /\ failedAt # 0
  /\ phase = "logged" => logOk = LoggedOk

\* The inductive invariant.
ApplyIInv ==
  /\ ApplyTypeOK /\ AllOrNothing /\ NothingPastTheFailure /\ RanIsKept
  /\ TransactionHolds /\ OneByOneHolds /\ AnswerIsTrue

\* The drivers implement what the trait promises.
Contract == INSTANCE BatchContract
              WITH size <- n, atomic <- Transactional, landed <- durable, told <- answer

ImplementsContract == Contract!Spec

-----------------------------------------------------------------------------
(* What the comments promise and the code does not keep: TLC finds a        *)
(* counterexample of each, which the README tells.                          *)

\* "Ok statements land in `applied`": the rows shown as applied are in the
\* database.
AppliedIsDurable == phase = "logged" => applied \subseteq durable

\* "The returned result honestly reports which prior statements had already
\* committed": a batch reported as rolled back has left nothing behind.
RolledBackLeavesNothing == answer = "rolled back" => durable = {}

=============================================================================
