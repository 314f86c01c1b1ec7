----------------------------- MODULE DriverProofs -----------------------------
(***************************************************************************)
(* What holds of the drivers: cancelling queries (QueryCancel), the pools  *)
(* and the tunnels (PoolCache) and applying batches (ApplyBatch). They     *)
(* share no state, and each part uses its own component's definitions.     *)
(***************************************************************************)
EXTENDS QueryCancel, PoolCache, ApplyBatch, TLAPS

-------------------------------------------------------------------------------
(***************************************************************************)
(* QueryCancel, for every number of queries, cancels and backends and for  *)
(* every pool size.                                                        *)
(***************************************************************************)

\* The pool is empty and every call is still to come: nothing to disturb.
LEMMA InitIInv == Init => IInv
BY CancelAssumption
   DEF Init, IInv, TypeOK, HeldWhilePinned, HeldExclusively, OnlyTokenedAsk,
       RegistryExact, AimFollowsTarget, InterruptedIsLeaving, QueryPcs,
       CancelPcs, Pinned, InScript, Holders

\* acquire() hands out a connection nobody holds, whether it was idle in the
\* pool or has just been opened.
LEMMA AcquireFree ==
  ASSUME IInv, NEW h \in Holders, Acquire(h)
  PROVE  \E b \in Backends :
           /\ \A g \in Holders : held[g] # b
           /\ held' = [held EXCEPT ![h] = b]
           /\ open' = open \cup {b}
<1>1. PICK b \in Available : held' = [held EXCEPT ![h] = b] /\ open' = open \cup {b}
  BY Zenon DEF Acquire
<1>2. b \in Idle \/ b \in Backends \ open
  BY DEF Available
<1>3. \A g \in Holders : held[g] = None \/ held[g] \in open
  BY DEF IInv, HeldWhilePinned, Holders
<1>4. b \in Backends /\ b # None /\ \A g \in Holders : held[g] # b
  BY <1>2, <1>3, CancelAssumption DEF Idle, CheckedOut, IInv, TypeOK
<1> QED
  BY <1>1, <1>4

\* Every step of run_script, of cancel_query and of the pool keeps IInv.
LEMMA NextIInv == IInv /\ [Next]_vars => IInv'
<1> SUFFICES ASSUME IInv, [Next]_vars
             PROVE  IInv'
  OBVIOUS
<1> USE CancelAssumption
    DEF IInv, TypeOK, HeldWhilePinned, HeldExclusively, OnlyTokenedAsk,
        RegistryExact, AimFollowsTarget, InterruptedIsLeaving, QueryPcs,
        CancelPcs, Pinned, InScript, Holders, queryVars, cancelVars, Go
<1>1. ASSUME NEW q \in Queries, Execute(q) PROVE IInv'
  BY <1>1 DEF Execute
<1>2. ASSUME NEW q \in Queries, QueryAcquire(q) PROVE IInv'
  <2>1. PICK b \in Backends : /\ \A g \in Holders : held[g] # b
                              /\ held' = [held EXCEPT ![q] = b]
                              /\ open' = open \cup {b}
    BY <1>2, AcquireFree DEF QueryAcquire
  <2>2. /\ pc[q] = "acquire"
        /\ pc' = [pc EXCEPT ![q] = IF q \in Tokened THEN "pid" ELSE "between"]
        /\ UNCHANGED <<len, stmt, by, registry, cpc, target, pid>>
    BY <1>2 DEF QueryAcquire
  <2> QED
    BY <2>1, <2>2
<1>3. ASSUME NEW q \in Queries, QueryAcquireFails(q) PROVE IInv'
  BY <1>3 DEF QueryAcquireFails
<1>4. ASSUME NEW q \in Queries, RegisterPid(q) PROVE IInv'
  BY <1>4 DEF RegisterPid
<1>5. ASSUME NEW q \in Queries, PidFetchFails(q) PROVE IInv'
  BY <1>5 DEF PidFetchFails
<1>6. ASSUME NEW q \in Queries, StartStatement(q) PROVE IInv'
  BY <1>6 DEF StartStatement
<1>7. ASSUME NEW q \in Queries, StatementDone(q) PROVE IInv'
  BY <1>7 DEF StatementDone
<1>8. ASSUME NEW q \in Queries, StatementFails(q) PROVE IInv'
  BY <1>8 DEF StatementFails
<1>9. ASSUME NEW q \in Queries, FinishScript(q) PROVE IInv'
  BY <1>9 DEF FinishScript
<1>10. ASSUME NEW q \in Queries, DropGuard(q) PROVE IInv'
  BY <1>10 DEF DropGuard
<1>11. ASSUME NEW q \in Queries, DropConn(q) PROVE IInv'
  BY <1>11 DEF DropConn
<1>12. ASSUME NEW k \in Cancels, NEW q \in Queries, CancelLookup(k, q) PROVE IInv'
  BY <1>12 DEF CancelLookup
<1>13. ASSUME NEW k \in Cancels, CancelAcquire(k) PROVE IInv'
  <2>1. PICK b \in Backends : /\ \A g \in Holders : held[g] # b
                              /\ held' = [held EXCEPT ![k] = b]
                              /\ open' = open \cup {b}
    BY <1>13, AcquireFree DEF CancelAcquire
  <2>2. /\ cpc[k] = "acquire"
        /\ cpc' = [cpc EXCEPT ![k] = "signal"]
        /\ UNCHANGED <<pc, len, stmt, by, registry, target, pid>>
    BY <1>13 DEF CancelAcquire
  <2> QED
    BY <2>1, <2>2
<1>14. ASSUME NEW k \in Cancels, CancelAcquireFails(k) PROVE IInv'
  BY <1>14 DEF CancelAcquireFails
<1>15. ASSUME NEW k \in Cancels, CancelSignal(k) PROVE IInv'
  BY <1>15 DEF CancelSignal, Busy, Interrupted
<1>16. ASSUME CloseIdle PROVE IInv'
  BY <1>16 DEF CloseIdle, Idle, CheckedOut
<1>17. ASSUME UNCHANGED vars PROVE IInv'
  BY <1>17 DEF vars
<1> QED
  BY <1>1, <1>2, <1>3, <1>4, <1>5, <1>6, <1>7, <1>8, <1>9, <1>10, <1>11, <1>12,
     <1>13, <1>14, <1>15, <1>16, <1>17 DEF Next, QueryStep, CancelStep

\* The inductive invariant holds in every reachable state.
THEOREM InvariantHolds == Spec => []IInv
BY InitIInv, NextIInv, PTL DEF Spec

\* The registry names the pinned connection of every live tokened script and
\* nothing else, so that no entry outlives its script.
THEOREM RegistryIsExact == Spec => []RegistryExact
<1>1. IInv => RegistryExact
  BY DEF IInv
<1> QED
  BY <1>1, InvariantHolds, PTL

-----------------------------------------------------------------------------
\* A signal sent while its target is in its script meets no other query: the
\* connection it is aimed at is the target's, and nobody else holds that one.
LEMMA SignalIsExactWhileTargetLives ==
  ASSUME IInv, NEW k \in Cancels, CancelSignal(k), NEW q \in Queries,
         target[k] # q, q \in Busy(pid[k])
  PROVE  ~InScript(target[k])
<1>1. target[k] \in Queries /\ q \in Holders /\ held[q] = pid[k] /\ pid[k] # None
  BY CancelAssumption
     DEF IInv, AimFollowsTarget, CancelSignal, Busy, TypeOK, Holders
<1>2. InScript(target[k]) => pid[k] = held[target[k]]
  BY DEF IInv, AimFollowsTarget, CancelSignal
<1> QED
  BY <1>1, <1>2 DEF IInv, HeldExclusively, Holders

\* Nothing but a signal ever marks a query as interrupted.
LEMMA OnlySignalInterrupts ==
  ASSUME IInv, [Next]_vars, NEW q \in Queries, by'[q] # by[q]
  PROVE  \E k \in Cancels : CancelSignal(k) /\ q \in Busy(pid[k]) /\ by'[q] = k
<1>1. PICK k \in Cancels : CancelSignal(k)
  BY DEF Next, QueryStep, CancelStep, Execute, QueryAcquire, QueryAcquireFails,
         RegisterPid, PidFetchFails, StartStatement, StatementDone,
         StatementFails, FinishScript, DropGuard, DropConn, CancelLookup,
         CancelAcquire, CancelAcquireFails, CloseIdle, vars, queryVars
<1> QED
  BY <1>1 DEF CancelSignal, IInv, TypeOK

\* For any number of queries and cancels, Stop reaches a query other than its
\* own only after its own has left run_script.
THEOREM NoEarlyMisfire == Spec => MisfireOnlyAfterTargetEnded
<1>1. ASSUME IInv, [Next]_vars
      PROVE  [\A q \in Queries, k \in Cancels :
                by[q] = None /\ by'[q] = k /\ target[k] # q => ~InScript(target[k])]_vars
  <2>1. SUFFICES ASSUME NEW q \in Queries, NEW k \in Cancels,
                        by[q] = None, by'[q] = k, target[k] # q
                 PROVE  ~InScript(target[k])
    OBVIOUS
  <2>2. CancelSignal(k) /\ q \in Busy(pid[k])
    BY <1>1, <2>1, OnlySignalInterrupts, CancelAssumption
  <2> QED
    BY <1>1, <2>1, <2>2, SignalIsExactWhileTargetLives
<1> QED
  BY <1>1, InvariantHolds, PTL DEF Spec, MisfireOnlyAfterTargetEnded

\* An interrupted script never sends another statement.
THEOREM InterruptAbandonsScript == Spec => NoStatementAfterInterrupt
<1>1. ASSUME IInv, [Next]_vars
      PROVE  [\A q \in Queries : by[q] # None => stmt'[q] = stmt[q]]_vars
  BY <1>1 DEF IInv, TypeOK, InterruptedIsLeaving, Next, QueryStep, CancelStep, Go,
              Execute, QueryAcquire, QueryAcquireFails, RegisterPid, PidFetchFails,
              StartStatement, StatementDone, StatementFails, FinishScript,
              DropGuard, DropConn, CancelLookup, CancelAcquire,
              CancelAcquireFails, CancelSignal, CloseIdle, vars, queryVars
<1> QED
  BY <1>1, InvariantHolds, PTL DEF Spec, NoStatementAfterInterrupt

-------------------------------------------------------------------------------
(***************************************************************************)
(* PoolCache, for every number of concurrent calls and disconnects, with   *)
(* and without a tunnel.                                                   *)
(***************************************************************************)

LEMMA PoolInitIInv == PoolInit => PoolIInv
BY PoolAssumption
   DEF PoolInit, PoolIInv, PoolTypeOK, CachedPoolNotClosed, LoneOpenIsCoherent, Reachable,
       TeardownKeepsTunnel, PlaintextOnlyUnderPrefer, PoolsAreSettled, Settled,
       CrowdIsMarked, LoneOpenerHasPort, RetryIsPrefer, ClosingHasPool,
       AloneEmptiesMap, Modes,
       OpenerPcs, CallPcs, DisconnectPcs, Opening, TearingDown

\* Every step of pool_for and of disconnect keeps PoolIInv.
LEMMA PoolNextIInv == PoolIInv /\ [PoolNext]_poolVars => PoolIInv'
<1> SUFFICES ASSUME PoolIInv, [PoolNext]_poolVars
             PROVE  PoolIInv'
  OBVIOUS
<1> USE PoolAssumption
    DEF PoolIInv, PoolTypeOK, CachedPoolNotClosed, LoneOpenIsCoherent, Reachable,
        TeardownKeepsTunnel, PlaintextOnlyUnderPrefer, PoolsAreSettled, Settled,
        CrowdIsMarked, LoneOpenerHasPort, RetryIsPrefer, ClosingHasPool,
       AloneEmptiesMap, Modes,
        OpenerPcs, CallPcs, DisconnectPcs, Opening, TearingDown,
        calledWith, disconnectVars, CallGoes
<1>1. ASSUME NEW c \in Calls, Hit(c) PROVE PoolIInv'
  BY <1>1 DEF Hit
<1>2. ASSUME NEW c \in Calls, Miss(c) PROVE PoolIInv'
  BY <1>2 DEF Miss, Crowd
<1>3. ASSUME NEW c \in Calls, TunnelLookup(c) PROVE PoolIInv'
  BY <1>3 DEF TunnelLookup
<1>4. ASSUME NEW c \in Calls, OpenTunnel(c) PROVE PoolIInv'
  BY <1>4 DEF OpenTunnel
<1>5. ASSUME NEW c \in Calls, Dial(c) PROVE PoolIInv'
  BY <1>5 DEF Dial
<1>6. ASSUME NEW c \in Calls, TlsRefused(c) PROVE PoolIInv'
  BY <1>6 DEF TlsRefused
<1>7. ASSUME NEW c \in Calls, Connected(c) PROVE PoolIInv'
  BY <1>7 DEF Connected
<1>8. ASSUME NEW c \in Calls, OpenFails(c) PROVE PoolIInv'
  BY <1>8 DEF OpenFails
<1>9. ASSUME NEW c \in Calls, Checkout(c) PROVE PoolIInv'
  BY <1>9 DEF Checkout
<1>10. ASSUME NEW c \in Calls, CheckoutFails(c) PROVE PoolIInv'
  BY <1>10 DEF CheckoutFails
<1>11. ASSUME NEW c \in Calls, Finish(c) PROVE PoolIInv'
  BY <1>11 DEF Finish
<1>12. ASSUME NEW d \in Disconnects, RemovePool(d) PROVE PoolIInv'
  BY <1>12 DEF RemovePool, Crowd
<1>13. ASSUME NEW d \in Disconnects, PoolClosed(d) PROVE PoolIInv'
  BY <1>13 DEF PoolClosed
<1>14. ASSUME NEW d \in Disconnects, RemoveTunnel(d) PROVE PoolIInv'
  BY <1>14 DEF RemoveTunnel
<1>15. ASSUME EditProfile PROVE PoolIInv'
  BY <1>15 DEF EditProfile
<1>16. ASSUME UNCHANGED poolVars PROVE PoolIInv'
  BY <1>16 DEF poolVars
<1> QED
  BY <1>1, <1>2, <1>3, <1>4, <1>5, <1>6, <1>7, <1>8, <1>9, <1>10, <1>11, <1>12, <1>13, <1>14, <1>15, <1>16
     DEF PoolNext, CallStep, DisconnectStep

\* The inductive invariant holds in every reachable state.
THEOREM PoolInvariantHolds == PoolSpec => []PoolIInv
BY PoolInitIInv, PoolNextIInv, PTL DEF PoolSpec

\* pool_for never hands out a pool that is being closed.
THEOREM NoClosedPoolServed == PoolSpec => []CachedPoolNotClosed
<1>1. PoolIInv => CachedPoolNotClosed
  BY DEF PoolIInv
<1> QED
  BY <1>1, PoolInvariantHolds, PTL

\* Nothing that opens alone is left with a dead tunnel.
THEOREM RoutesStayUp == PoolSpec => []LoneOpenIsCoherent
<1>1. PoolIInv => LoneOpenIsCoherent
  BY DEF PoolIInv
<1> QED
  BY <1>1, PoolInvariantHolds, PTL

\* Nothing that tears down alone cuts the tunnel under its own pool.
THEOREM TeardownIsOrdered == PoolSpec => []TeardownKeepsTunnel
<1>1. PoolIInv => TeardownKeepsTunnel
  BY DEF PoolIInv
<1> QED
  BY <1>1, PoolInvariantHolds, PTL

\* A disconnect that overlaps no opener and no other disconnect leaves both maps
\* empty.
THEOREM ReconnectAloneCleans == PoolSpec => CleanSlate
<1>1. ASSUME PoolIInv, [PoolNext]_poolVars
      PROVE  [\A d \in Disconnects \ crowded :
                dpc[d] # "done" /\ dpc'[d] = "done" =>
                  pools' = NoCall /\ tunnels' = NoCall]_poolVars
  <2>1. SUFFICES ASSUME NEW d \in Disconnects \ crowded,
                        dpc[d] # "done", dpc'[d] = "done"
                 PROVE  pools' = NoCall /\ tunnels' = NoCall
    OBVIOUS
  <2>2. RemoveTunnel(d)
    BY <1>1, <2>1
       DEF PoolNext, CallStep, DisconnectStep, Hit, Miss, TunnelLookup, OpenTunnel,
           Dial, TlsRefused, Connected, OpenFails, Checkout, CheckoutFails,
           Finish, RemovePool, PoolClosed, RemoveTunnel, EditProfile, poolVars,
           disconnectVars, PoolIInv, PoolTypeOK
  <2>3. pools = NoCall
    BY <1>1, <2>1, <2>2
       DEF RemoveTunnel, PoolIInv, AloneEmptiesMap
  <2> QED
    BY <2>2, <2>3 DEF RemoveTunnel
<1> QED
  BY <1>1, PoolInvariantHolds, PTL DEF PoolSpec, CleanSlate

-------------------------------------------------------------------------------
(***************************************************************************)
(* ApplyBatch, for batches of every length and every mix of statements, on *)
(* the three engines, and that it implements BatchContract.                *)
(***************************************************************************)

\* The statements up to the next one.
LEMMA Prefixes ==
  ASSUME NEW d \in Nat
  PROVE  /\ 1..0 = {}
         /\ (1..d) \cup {d + 1} = 1..(d + 1)
         /\ 1..d \subseteq 1..(d + 1)
OBVIOUS

LEMMA ApplyInitIInv == ApplyInit => ApplyIInv
BY BatchAssumption, Prefixes
   DEF ApplyInit, ApplyIInv, ApplyTypeOK, AllOrNothing, NothingPastTheFailure, RanIsKept,
       TransactionHolds, OneByOneHolds, AnswerIsTrue, Engines, Pcs, Answers

\* One transaction can hold the batch only when apply_batch opens one.
LEMMA TransactionalHasTransaction ==
  ASSUME ApplyIInv, Transactional
  PROVE  /\ ~OneByOne
         /\ \A i \in 1..n : ~CommitsItself(i)
BY DEF ApplyIInv, ApplyTypeOK, Transactional, OneByOne, ContainsDdl, CommitsItself

\* Every step of apply_batch and of the panel keeps ApplyIInv.
LEMMA ApplyNextIInv == ApplyIInv /\ [ApplyNext]_applyVars => ApplyIInv'
<1> SUFFICES ASSUME ApplyIInv, [ApplyNext]_applyVars
             PROVE  ApplyIInv'
  OBVIOUS
<1>0. UNCHANGED batchVars
  BY DEF ApplyNext, Begin, BeginFails, StatementOk, StatementRefused, Rollback, Commit,
         CommitFails, ReportOneByOne, Crash, Record, Shown, LoggedOk, applyVars,
         batchVars
<1>a. Transactional' = Transactional /\ OneByOne' = OneByOne
  BY <1>0 DEF Transactional, OneByOne, ContainsDdl, batchVars
<1>b. Transactional => ~OneByOne /\ \A i \in 1..n : ~CommitsItself(i)
  BY TransactionalHasTransaction
<1>c. done \in Nat /\ n \in Nat /\ n \in 1..n
  BY BatchAssumption DEF ApplyIInv, ApplyTypeOK
<1>d. /\ 1..0 = {} /\ (1..done) \cup {done + 1} = 1..(done + 1)
      /\ 1..done \subseteq 1..(done + 1)
  BY <1>c, Prefixes
<1>e. done <= n
  BY BatchAssumption DEF ApplyIInv, ApplyTypeOK
<1>f. 1..done \subseteq 1..n
  BY <1>c, <1>e
<1> USE <1>0, <1>a, <1>b, <1>c, <1>d, <1>f
    DEF ApplyIInv, ApplyTypeOK, AllOrNothing, NothingPastTheFailure, RanIsKept,
        TransactionHolds, OneByOneHolds, AnswerIsTrue, Engines, Pcs, Answers,
        batchVars, uiVars
<1>1. ASSUME Begin PROVE ApplyIInv'
  BY <1>1 DEF Begin
<1>2. ASSUME BeginFails PROVE ApplyIInv'
  BY <1>2 DEF BeginFails
<1>3. ASSUME StatementOk PROVE ApplyIInv'
  BY <1>3 DEF StatementOk, Lands
<1>4. ASSUME StatementRefused PROVE ApplyIInv'
  BY <1>4 DEF StatementRefused, Lands, Discard
<1>5. ASSUME Rollback PROVE ApplyIInv'
  BY <1>5 DEF Rollback, Discard
<1>6. ASSUME Commit PROVE ApplyIInv'
  BY <1>6 DEF Commit
<1>7. ASSUME CommitFails PROVE ApplyIInv'
  BY <1>7 DEF CommitFails
<1>8. ASSUME ReportOneByOne PROVE ApplyIInv'
  BY <1>8 DEF ReportOneByOne
<1>9. ASSUME Crash PROVE ApplyIInv'
  BY <1>9 DEF Crash, Discard
<1>10. ASSUME Record PROVE ApplyIInv'
  <2>1. applied' \in SUBSET (1..n) /\ logOk' \in SUBSET (1..n)
    BY <1>10 DEF Record, Shown, LoggedOk
  <2>2. ApplyTypeOK'
    BY <1>10, <2>1 DEF Record, Shown, LoggedOk
  <2>3. RanIsKept' /\ TransactionHolds' /\ OneByOneHolds'
    BY <1>10 DEF Record, Shown, LoggedOk
  <2>4. AllOrNothing' /\ NothingPastTheFailure'
    BY <1>10 DEF Record, Shown, LoggedOk
  <2>5. AnswerIsTrue'
    BY <1>10 DEF Record, Shown, LoggedOk
  <2> QED
    BY <2>2, <2>3, <2>4, <2>5
<1>11. ASSUME UNCHANGED applyVars PROVE ApplyIInv'
  <2>1. ApplyTypeOK'
    BY <1>11 DEF applyVars
  <2>2. RanIsKept' /\ TransactionHolds' /\ OneByOneHolds'
    BY <1>11 DEF applyVars
  <2>3. AllOrNothing' /\ NothingPastTheFailure'
    BY <1>11 DEF applyVars
  <2>4. AnswerIsTrue'
    BY <1>11 DEF applyVars, LoggedOk
  <2> QED
    BY <2>1, <2>2, <2>3, <2>4
<1> QED
  BY <1>1, <1>2, <1>3, <1>4, <1>5, <1>6, <1>7, <1>8, <1>9, <1>10, <1>11 DEF ApplyNext

\* The inductive invariant holds in every reachable state.
THEOREM ApplyInvariantHolds == ApplySpec => []ApplyIInv
BY ApplyInitIInv, ApplyNextIInv, PTL DEF ApplySpec

\* Other sessions never see part of a transactional batch.
THEOREM TransactionalIsAtomic == ApplySpec => []AllOrNothing
<1>1. ApplyIInv => AllOrNothing
  BY DEF ApplyIInv
<1> QED
  BY <1>1, ApplyInvariantHolds, PTL

\* What the migration log says of a batch is true of the database.
THEOREM LogTellsTheTruth == ApplySpec => []LogIsHonest
<1>1. ApplyIInv => LogIsHonest
  BY DEF ApplyIInv, ApplyTypeOK, AnswerIsTrue, LogIsHonest, LoggedOk, OneByOneHolds,
         NothingPastTheFailure
<1> QED
  BY <1>1, ApplyInvariantHolds, PTL

-----------------------------------------------------------------------------
(* The refinement: Begin and the statements of a transaction are stutters, *)
(* COMMIT lands the batch and answers in one step.                         *)

LEMMA InitContract == ApplyInit => Contract!Init
BY BatchAssumption DEF ApplyInit, Contract!Init, Transactional

LEMMA NextContract == ApplyIInv /\ [ApplyNext]_applyVars => [Contract!Next]_(Contract!vars)
<1> SUFFICES ASSUME ApplyIInv, [ApplyNext]_applyVars
             PROVE  [Contract!Next]_(Contract!vars)
  OBVIOUS
<1>0. UNCHANGED batchVars
  BY DEF ApplyNext, Begin, BeginFails, StatementOk, StatementRefused, Rollback, Commit,
         CommitFails, ReportOneByOne, Crash, Record, Shown, LoggedOk, applyVars,
         batchVars
<1>a. Transactional' = Transactional /\ n' = n
  BY <1>0 DEF Transactional, batchVars
<1>b. Transactional => ~OneByOne /\ \A i \in 1..n : ~CommitsItself(i)
  BY TransactionalHasTransaction
<1>c. done \in Nat /\ n \in Nat /\ n \in 1..n
  BY BatchAssumption DEF ApplyIInv, ApplyTypeOK
<1>d. /\ 1..0 = {} /\ (1..done) \cup {done + 1} = 1..(done + 1)
      /\ 1..done \subseteq 1..(done + 1)
  BY <1>c, Prefixes
<1> USE <1>a, <1>b, <1>c, <1>d
    DEF ApplyIInv, ApplyTypeOK, RanIsKept, TransactionHolds, OneByOneHolds, AnswerIsTrue,
        uiVars, Contract!vars, Contract!Next
<1>1. ASSUME Begin PROVE [Contract!Next]_(Contract!vars)
  BY <1>1 DEF Begin
<1>2. ASSUME BeginFails PROVE [Contract!Next]_(Contract!vars)
  BY <1>2 DEF BeginFails, Contract!Tell
<1>3. ASSUME StatementOk PROVE [Contract!Next]_(Contract!vars)
  <2>1. done + 1 \in 1..n /\ answer = "none" /\ answer' = "none"
        /\ durable \cup pending = 1..done /\ durable \subseteq 1..(done + 1)
    BY <1>3 DEF StatementOk
  <2>2. durable' = durable \/ durable' = 1..(done + 1)
    BY <1>3, <2>1 DEF StatementOk, Lands
  <2>3. Transactional => durable' = durable
    BY <1>3, <2>1 DEF StatementOk, Lands
  <2> QED
    BY <2>1, <2>2, <2>3, <1>0 DEF Contract!LandPrefix, batchVars
<1>4. ASSUME StatementRefused PROVE [Contract!Next]_(Contract!vars)
  <2>1. done + 1 \in 1..n /\ answer = "none" /\ answer' = "none"
        /\ durable \cup pending = 1..done
    BY <1>4 DEF StatementRefused
  <2>2. durable' \in {durable, 1..done, 1..(done + 1)}
    BY <1>4, <2>1 DEF StatementRefused, Lands, Discard
  <2>3. Transactional => durable' = durable
    BY <1>4, <2>1 DEF StatementRefused, Lands, Discard
  <2>4. durable' = durable \/ \E i \in 1..n : durable \subseteq 1..i /\ durable' = 1..i
    <3>1. CASE durable' = 1..done
      <4>1. CASE done = 0
        BY <2>1, <3>1, <4>1
      <4>2. CASE done \in 1..n
        BY <2>1, <3>1, <4>2
      <4> QED
        BY <4>1, <4>2, <2>1
    <3>2. CASE durable' = 1..(done + 1)
      <4>1. durable \subseteq 1..(done + 1)
        BY <2>1
      <4> QED
        BY <2>1, <3>2, <4>1
    <3> QED
      BY <2>2, <3>1, <3>2
  <2> QED
    BY <2>1, <2>3, <2>4, <1>0 DEF Contract!LandPrefix, batchVars
<1>5. ASSUME Rollback PROVE [Contract!Next]_(Contract!vars)
  BY <1>5 DEF Rollback, Discard, Contract!Tell
<1>6. ASSUME Commit PROVE [Contract!Next]_(Contract!vars)
  BY <1>6 DEF Commit, Contract!LandAndTell
<1>7. ASSUME CommitFails PROVE [Contract!Next]_(Contract!vars)
  BY <1>7 DEF CommitFails, Contract!LandAndTell, Contract!Tell
<1>8. ASSUME ReportOneByOne PROVE [Contract!Next]_(Contract!vars)
  BY <1>8 DEF ReportOneByOne, Contract!Tell
<1>9. ASSUME Crash PROVE [Contract!Next]_(Contract!vars)
  <2>1. answer = "none" /\ answer' = "none"
    BY <1>9 DEF Crash
  <2>2. durable' = durable \/ (phase = "run" /\ durable \subseteq 1..n /\ durable' = 1..n)
    BY <1>9 DEF Crash, Discard
  <2> QED
    BY <2>1, <2>2, <1>0 DEF Contract!LandAll, Contract!LandPrefix, batchVars
<1>10. ASSUME Record PROVE [Contract!Next]_(Contract!vars)
  BY <1>10 DEF Record, Shown, LoggedOk
<1>11. ASSUME UNCHANGED applyVars PROVE [Contract!Next]_(Contract!vars)
  BY <1>11 DEF applyVars
<1> QED
  BY <1>1, <1>2, <1>3, <1>4, <1>5, <1>6, <1>7, <1>8, <1>9, <1>10, <1>11 DEF ApplyNext

\* The three drivers' apply_batch implements the promise of the Driver trait.
THEOREM DriversImplementContract == ApplySpec => ImplementsContract
BY InitContract, NextContract, ApplyInvariantHolds, PTL
   DEF ApplySpec, ImplementsContract, Contract!Spec

===============================================================================
