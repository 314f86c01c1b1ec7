----------------------------- MODULE QueryCancel -----------------------------
(***************************************************************************)
(* Running and stopping a query on one connection profile, as the          *)
(* PostgreSQL and MySQL drivers do it: `execute` pins a pooled connection  *)
(* for a whole script and registers its backend id under the caller's      *)
(* query_id; `cancel_query` looks that id up, takes a second connection    *)
(* from the same pool and signals the backend.                             *)
(*                                                                         *)
(* The lookup, the wait for the side connection and the signal are three   *)
(* separate steps of the cancel, and scripts finish, give their connection *)
(* back and start on recycled ones in between.                             *)
(*                                                                         *)
(* Abstracted: row data and SQL text; the pool is already open (PoolCache  *)
(* models opening it); a signal takes effect at the instant it is sent; a  *)
(* backend executes at most the statement of the script that holds it.     *)
(***************************************************************************)
EXTENDS Naturals, FiniteSets

CONSTANTS
  Queries,   \* calls of execute, one fresh query_id each
  Tokened,   \* the queries whose request carries a query_id
  Cancels,   \* calls of cancel_query
  Backends,  \* backend pids / connection ids the server hands out and reuses
  MaxConn,   \* the pool's max_connections
  MaxStmts,  \* longest script
  None

ASSUME CancelAssumption ==
  /\ Tokened \subseteq Queries
  /\ Queries \cap Cancels = {}
  /\ None \notin Backends \cup Queries \cup Cancels
  /\ MaxConn \in Nat \ {0}
  /\ MaxStmts \in Nat \ {0}

VARIABLES
  pc,        \* pc[q]: where query q is in execute / run_script
  len,       \* len[q]: number of statements of its script
  stmt,      \* stmt[q]: number of statements it has sent
  by,        \* by[q]: the cancel whose signal interrupted q, or None
  registry,  \* query_pids / query_conn_ids: query_id -> backend, or None
  open,      \* the pool's live server connections
  held,      \* held[h]: the connection a query or a cancel has checked out
  cpc,       \* cpc[k]: where cancel k is in cancel_query
  target,    \* target[k]: the query_id it was called with
  pid        \* pid[k]: the backend it read from the registry

vars == <<pc, len, stmt, by, registry, open, held, cpc, target, pid>>
queryVars == <<pc, len, stmt, by, registry>>
cancelVars == <<cpc, target, pid>>

Holders == Queries \cup Cancels

\* "acquire": waiting for a connection; "pid": asking for the backend id;
\* "between": connection pinned, no statement in flight; "running": a
\* statement in flight; "exit": leaving run_script, the guard still armed;
\* "unpin": guard gone, connection not yet back in the pool.
QueryPcs == {"new", "acquire", "pid", "between", "running", "exit", "unpin", "done"}
CancelPcs == {"new", "acquire", "signal", "ok", "error"}

Pinned(q) == pc[q] \in {"pid", "between", "running", "exit", "unpin"}

\* Between the insertion of its entry and the guard's drop.
InScript(q) == pc[q] \in {"between", "running", "exit"}

TypeOK ==
  /\ pc \in [Queries -> QueryPcs]
  /\ len \in [Queries -> 0..MaxStmts]
  /\ stmt \in [Queries -> 0..MaxStmts]
  /\ by \in [Queries -> Cancels \cup {None}]
  /\ registry \in [Queries -> Backends \cup {None}]
  /\ open \in SUBSET Backends
  /\ held \in [Holders -> Backends \cup {None}]
  /\ cpc \in [Cancels -> CancelPcs]
  /\ target \in [Cancels -> Queries \cup {None}]
  /\ pid \in [Cancels -> Backends \cup {None}]

Init ==
  /\ pc = [q \in Queries |-> "new"]
  /\ len = [q \in Queries |-> 0]
  /\ stmt = [q \in Queries |-> 0]
  /\ by = [q \in Queries |-> None]
  /\ registry = [q \in Queries |-> None]
  /\ open = {}
  /\ held = [h \in Holders |-> None]
  /\ cpc = [k \in Cancels |-> "new"]
  /\ target = [k \in Cancels |-> None]
  /\ pid = [k \in Cancels |-> None]

-----------------------------------------------------------------------------
(* The pool.                                                               *)

CheckedOut == {held[h] : h \in Holders} \ {None}
Idle == open \ CheckedOut

\* The connections acquire() may return now: an idle one if there is one, else
\* a new one while fewer than max_connections are open.
Available ==
  IF Idle # {} THEN Idle
  ELSE IF Cardinality(open) < MaxConn THEN Backends \ open ELSE {}

Acquire(h) ==
  \E b \in Available :
    /\ held' = [held EXCEPT ![h] = b]
    /\ open' = open \cup {b}

\* The pool gives an idle connection up: idle_timeout, or the ping of
\* test_before_acquire found it dead.
CloseIdle ==
  /\ \E b \in Idle : open' = open \ {b}
  /\ UNCHANGED <<queryVars, cancelVars, held>>

-----------------------------------------------------------------------------
(* execute and run_script.                                                 *)

Go(q, from, to) == pc[q] = from /\ pc' = [pc EXCEPT ![q] = to]

\* execute: the pool is there, the script is split; an empty one is refused.
Execute(q) ==
  /\ pc[q] = "new"
  /\ \E n \in 0..MaxStmts :
       /\ len' = [len EXCEPT ![q] = n]
       /\ pc' = [pc EXCEPT ![q] = IF n = 0 THEN "done" ELSE "acquire"]
  /\ UNCHANGED <<stmt, by, registry, open, held, cancelVars>>

\* pool.acquire(): only a request with a query_id asks for the backend id.
QueryAcquire(q) ==
  /\ Go(q, "acquire", IF q \in Tokened THEN "pid" ELSE "between")
  /\ Acquire(q)
  /\ UNCHANGED <<len, stmt, by, registry, cancelVars>>

\* acquire_timeout elapsed, or the new connection could not be opened.
QueryAcquireFails(q) ==
  /\ Go(q, "acquire", "done")
  /\ UNCHANGED <<len, stmt, by, registry, open, held, cancelVars>>

RegisterPid(q) ==
  /\ Go(q, "pid", "between")
  /\ registry' = [registry EXCEPT ![q] = held[q]]
  /\ UNCHANGED <<len, stmt, by, open, held, cancelVars>>

\* The id query failed: `?` leaves before the guard exists.
PidFetchFails(q) ==
  /\ Go(q, "pid", "unpin")
  /\ UNCHANGED <<len, stmt, by, registry, open, held, cancelVars>>

StartStatement(q) ==
  /\ Go(q, "between", "running")
  /\ stmt[q] < len[q]
  /\ stmt' = [stmt EXCEPT ![q] = @ + 1]
  /\ UNCHANGED <<len, by, registry, open, held, cancelVars>>

\* Mutant: each statement gives its connection back to the pool.
StatementDoneUnpins(q) ==
  /\ Go(q, "running", "between")
  /\ held' = [held EXCEPT ![q] = None]
  /\ UNCHANGED <<len, stmt, by, registry, open, cancelVars>>

StatementDone(q) ==
  /\ Go(q, "running", "between")
  /\ UNCHANGED <<len, stmt, by, registry, open, held, cancelVars>>

\* The first error abandons the rest of the script.
StatementFails(q) ==
  /\ Go(q, "running", "exit")
  /\ UNCHANGED <<len, stmt, by, registry, open, held, cancelVars>>

FinishScript(q) ==
  /\ Go(q, "between", "exit")
  /\ stmt[q] = len[q]
  /\ UNCHANGED <<len, stmt, by, registry, open, held, cancelVars>>

\* Mutant: the entry is removed only when every statement has run.
DropGuardOnSuccessOnly(q) ==
  /\ Go(q, "exit", "unpin")
  /\ registry' = [registry EXCEPT ![q] = IF by[q] = None THEN None ELSE @]
  /\ UNCHANGED <<len, stmt, by, open, held, cancelVars>>

\* QueryIdGuard::drop. Locals drop in reverse order, so it precedes DropConn.
DropGuard(q) ==
  /\ Go(q, "exit", "unpin")
  /\ registry' = [registry EXCEPT ![q] = None]
  /\ UNCHANGED <<len, stmt, by, open, held, cancelVars>>

\* The connection goes back to the pool, or is discarded when it is broken.
DropConn(q) ==
  /\ Go(q, "unpin", "done")
  /\ held' = [held EXCEPT ![q] = None]
  /\ open' \in {open, open \ {held[q]}}
  /\ UNCHANGED <<len, stmt, by, registry, cancelVars>>

-----------------------------------------------------------------------------
(* cancel_query.                                                           *)

\* Stop reads the query id of a run that has begun; an id without an entry
\* is a no-op, any other has its backend copied out of the map.
CancelLookup(k, q) ==
  /\ cpc[k] = "new"
  /\ q \in Tokened /\ pc[q] # "new"
  /\ target' = [target EXCEPT ![k] = q]
  /\ pid' = [pid EXCEPT ![k] = registry[q]]
  /\ cpc' = [cpc EXCEPT ![k] = IF registry[q] = None THEN "ok" ELSE "acquire"]
  /\ UNCHANGED <<queryVars, open, held>>

CancelAcquire(k) ==
  /\ cpc[k] = "acquire"
  /\ cpc' = [cpc EXCEPT ![k] = "signal"]
  /\ Acquire(k)
  /\ UNCHANGED <<queryVars, target, pid>>

\* Mutant: the caller waits for a slot for as long as it takes.
CancelAcquireNeverFails(k) == FALSE /\ UNCHANGED vars /\ cpc[k] = "acquire"

CancelAcquireFails(k) ==
  /\ cpc[k] = "acquire"
  /\ cpc' = [cpc EXCEPT ![k] = "error"]
  /\ UNCHANGED <<queryVars, open, held, target, pid>>

\* The queries with work in flight on backend b.
Busy(b) == {q \in Queries : held[q] = b /\ pc[q] \in {"pid", "running"}}

\* What the signal does to the query it meets: its statement ends with
\* query_cancelled, which run_script propagates.
Interrupted(q) == IF pc[q] = "pid" THEN "unpin" ELSE "exit"

\* pg_cancel_backend / KILL QUERY. A backend with nothing in flight ignores it.
\* The side connection may itself be the recycled backend, and then the cancel
\* can interrupt its own statement; a backend that is gone is Ok for PostgreSQL
\* and an error for MySQL. The side connection goes back to the pool.
CancelSignal(k) ==
  /\ cpc[k] = "signal"
  /\ \E r \in {"ok", "error"} :
       /\ pid[k] \in open \ {held[k]} => r = "ok"
       /\ cpc' = [cpc EXCEPT ![k] = r]
  /\ pc' = [q \in Queries |-> IF q \in Busy(pid[k]) THEN Interrupted(q) ELSE pc[q]]
  /\ by' = [q \in Queries |-> IF q \in Busy(pid[k]) THEN k ELSE by[q]]
  /\ held' = [held EXCEPT ![k] = None]
  /\ UNCHANGED <<len, stmt, registry, open, target, pid>>

-----------------------------------------------------------------------------
QueryStep(q) ==
  \/ Execute(q) \/ QueryAcquire(q) \/ QueryAcquireFails(q) \/ RegisterPid(q)
  \/ PidFetchFails(q) \/ StartStatement(q) \/ StatementDone(q) \/ StatementFails(q)
  \/ FinishScript(q) \/ DropGuard(q) \/ DropConn(q)

CancelStep(k) ==
  \/ \E q \in Queries : CancelLookup(k, q)
  \/ CancelAcquire(k) \/ CancelAcquireFails(k) \/ CancelSignal(k)

Next ==
  \/ \E q \in Queries : QueryStep(q)
  \/ \E k \in Cancels : CancelStep(k)
  \/ CloseIdle

Spec == Init /\ [][Next]_vars

\* The client side keeps going: an acquire ends within acquire_timeout, the
\* destructors run, a signal is sent once the side connection is there. Nothing
\* is assumed of the statements themselves: one may run for ever.
Fairness ==
  /\ \A q \in Queries :
       /\ WF_vars(QueryAcquire(q) \/ QueryAcquireFails(q))
       /\ WF_vars(RegisterPid(q) \/ PidFetchFails(q))
       /\ WF_vars(DropGuard(q))
       /\ WF_vars(DropConn(q))
  /\ \A k \in Cancels :
       /\ WF_vars(CancelAcquire(k) \/ CancelAcquireFails(k))
       /\ WF_vars(CancelSignal(k))

FairSpec == Spec /\ Fairness

-----------------------------------------------------------------------------
(* What holds.                                                             *)

\* The registry says exactly which backend runs which live script: an entry
\* exists while the script is inside its guard and never longer, and names the
\* connection pinned for it (the comments on QueryIdGuard and on run_script).
RegistryExact ==
  \A q \in Queries :
    registry[q] = IF q \in Tokened /\ InScript(q) THEN held[q] ELSE None

\* No two calls hold one connection.
HeldExclusively ==
  \A g, h \in Holders : g # h /\ held[g] = held[h] => held[g] = None

\* Between the lookup and the signal a cancel goes on aiming at the connection
\* its target is pinned to, for as long as the target is in its script.
AimFollowsTarget ==
  \A k \in Cancels :
    cpc[k] \in {"acquire", "signal"} =>
      /\ target[k] \in Tokened /\ pid[k] # None
      /\ pc[target[k]] \in {"between", "running", "exit", "unpin", "done"}
      /\ InScript(target[k]) => pid[k] = held[target[k]]

\* Calls hold a connection of the pool exactly while their code says so.
HeldWhilePinned ==
  /\ \A q \in Queries : IF Pinned(q) THEN held[q] \in open ELSE held[q] = None
  /\ \A k \in Cancels : IF cpc[k] = "signal" THEN held[k] \in open ELSE held[k] = None

\* An interrupted script is on its way out.
InterruptedIsLeaving ==
  \A q \in Queries : by[q] # None => pc[q] \in {"exit", "unpin", "done"}

\* Only a request with a query_id asks for its backend id.
OnlyTokenedAsk == \A q \in Queries : pc[q] = "pid" => q \in Tokened

\* The inductive invariant.
IInv ==
  /\ TypeOK /\ HeldWhilePinned /\ HeldExclusively
  /\ OnlyTokenedAsk /\ RegistryExact /\ AimFollowsTarget /\ InterruptedIsLeaving

\* A cancel can interrupt a query other than its target only once its target has
\* left run_script: pinning one connection for the whole script (run_script) and
\* dropping the guard before the connection make Stop exact while it matters.
MisfireOnlyAfterTargetEnded ==
  [][\A q \in Queries, k \in Cancels :
       by[q] = None /\ by'[q] = k /\ target[k] # q => ~InScript(target[k])]_vars

\* Once a script has been interrupted none of its later statements is sent.
NoStatementAfterInterrupt ==
  [][\A q \in Queries : by[q] # None => stmt'[q] = stmt[q]]_vars

\* Stop answers: cancel_query returns even while scripts that never end hold
\* every slot of the pool, because its acquire times out.
CancelReturns ==
  \A k \in Cancels : cpc[k] = "acquire" ~> cpc[k] \in {"ok", "error"}

\* A script that was interrupted gives back its slot and its registry entry.
InterruptedRunReleases ==
  \A q \in Queries :
    by[q] # None ~> pc[q] = "done" /\ held[q] = None /\ registry[q] = None

-----------------------------------------------------------------------------
(* What the comments promise and the code does not keep: TLC finds a        *)
(* counterexample of each, which the README tells.                          *)

\* "Keeping the registry tight prevents a stale PID from accidentally
\* cancelling an unrelated query": only its own cancel interrupts a query.
NoStrayCancel ==
  \A q \in Queries : by[q] # None => target[by[q]] = q

=============================================================================
