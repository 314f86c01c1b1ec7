------------------------------ MODULE PoolCache ------------------------------
(***************************************************************************)
(* The cache of connection pools and SSH tunnels a driver keeps for one    *)
(* profile: `pool_for` and `ensure_tunnel` fill it on the first use,       *)
(* `disconnect` (the Reconnect button) empties it. Every driver call goes  *)
(* through pool_for; calls run concurrently, and between the lookup that   *)
(* misses and the insert lie the bastion's handshake, the secrets, the TCP *)
(* connection and the server's handshake.                                  *)
(*                                                                         *)
(* A pool and a tunnel are named after the call that opened them. The map  *)
(* holds the only handle that keeps a tunnel's listener alive: a tunnel    *)
(* that is replaced or removed accepts no connection, but those already    *)
(* forwarded through it go on (forward_one owns the SSH session).          *)
(*                                                                         *)
(* PostgreSQL never has its TLS refused here (sqlx negotiates it), SQLite  *)
(* has neither tunnel nor TLS: their pool_for takes fewer of the steps.    *)
(* A tunnel whose SSH session or listener dies stays in the map until it   *)
(* is disconnected: here its Dial or Checkout fails, which any may.        *)
(* Abstracted: credentials, the pool's size (QueryCancel has it), and      *)
(* whether a pool has an idle connection left or must open one.            *)
(***************************************************************************)
EXTENDS Naturals, FiniteSets

CONSTANTS
  Calls,        \* driver calls that need the pool
  Disconnects,  \* calls of disconnect
  NoCall

ASSUME PoolAssumption ==
  /\ Calls \cap Disconnects = {}
  /\ NoCall \notin Calls \cup Disconnects

VARIABLES
  ssh,      \* the profile has an SSH tunnel configured
  mode,     \* the profile's TLS mode as saved now: "prefer" or "require"
  pools,    \* the cached pool, or NoCall
  tunnels,  \* the cached tunnel, or NoCall
  closed,   \* the pools on which close() has been called
  callPc,   \* callPc[c]: where call c is
  asked,    \* asked[c]: the TLS mode in the copy of the profile c was given
  port,     \* port[c]: the tunnel c's pool connects through, NoCall: directly
  plain,    \* plain[c]: the pool c opened is not encrypted
  got,      \* got[c]: the pool pool_for returned to c
  dpc,      \* dpc[d]: where disconnect d is
  dpool,    \* dpool[d]: the pool it removed
  crowded   \* history: openers and disconnects that ran beside another one

poolVars == <<ssh, mode, pools, tunnels, closed, callPc, asked, port, plain,
              got, dpc, dpool, crowded>>
calledWith == <<asked, port, plain, got>>
disconnectVars == <<dpc, dpool, closed>>

Modes == {"prefer", "require"}

\* The inside of pool_for, from the miss to the insert.
OpenerPcs == {"lookup", "open", "dial", "handshake", "redial", "rehandshake"}
CallPcs == {"new", "have", "using", "done"} \cup OpenerPcs
DisconnectPcs == {"new", "closing", "untunnel", "done"}

PoolTypeOK ==
  /\ ssh \in BOOLEAN
  /\ mode \in Modes
  /\ pools \in Calls \cup {NoCall}
  /\ tunnels \in Calls \cup {NoCall}
  /\ closed \in SUBSET Calls
  /\ callPc \in [Calls -> CallPcs]
  /\ asked \in [Calls -> Modes]
  /\ port \in [Calls -> Calls \cup {NoCall}]
  /\ plain \in [Calls -> BOOLEAN]
  /\ got \in [Calls -> Calls \cup {NoCall}]
  /\ dpc \in [Disconnects -> DisconnectPcs]
  /\ dpool \in [Disconnects -> Calls \cup {NoCall}]
  /\ crowded \in SUBSET (Calls \cup Disconnects)

PoolInit ==
  /\ ssh \in BOOLEAN
  /\ mode \in Modes
  /\ pools = NoCall
  /\ tunnels = NoCall
  /\ closed = {}
  /\ callPc = [c \in Calls |-> "new"]
  /\ asked = [c \in Calls |-> mode]
  /\ port = [c \in Calls |-> NoCall]
  /\ plain = [c \in Calls |-> FALSE]
  /\ got = [c \in Calls |-> NoCall]
  /\ dpc = [d \in Disconnects |-> "new"]
  /\ dpool = [d \in Disconnects |-> NoCall]
  /\ crowded = {}

-----------------------------------------------------------------------------
\* Who is opening or tearing down now, and the mark a newcomer leaves on them.
Opening == {c \in Calls : callPc[c] \in OpenerPcs}
TearingDown == {d \in Disconnects : dpc[d] \in {"closing", "untunnel"}}
Crowd(x) ==
  LET beside == Opening \cup TearingDown
  IN  crowded' = IF beside = {} THEN crowded ELSE crowded \cup beside \cup {x}

\* Something listens on the address c's pool was given.
Reachable(c) == port[c] \in {NoCall, tunnels}

CallGoes(c, from, to) == callPc[c] = from /\ callPc' = [callPc EXCEPT ![c] = to]

\* The profile is saved with another TLS mode; no pool is told.
EditProfile ==
  /\ mode' \in Modes \ {mode}
  /\ UNCHANGED <<ssh, pools, tunnels, callPc, asked, port, plain, got,
                 disconnectVars, crowded>>

\* pool_for finds a pool.
Hit(c) ==
  /\ pools # NoCall
  /\ CallGoes(c, "new", "have")
  /\ asked' = [asked EXCEPT ![c] = mode]
  /\ got' = [got EXCEPT ![c] = pools]
  /\ UNCHANGED <<ssh, mode, pools, tunnels, port, plain, disconnectVars, crowded>>

\* pool_for finds none and goes on to open one.
Miss(c) ==
  /\ pools = NoCall
  /\ CallGoes(c, "new", IF ssh THEN "lookup" ELSE "dial")
  /\ asked' = [asked EXCEPT ![c] = mode]
  /\ Crowd(c)
  /\ UNCHANGED <<ssh, mode, pools, tunnels, port, plain, got, disconnectVars>>

\* ensure_tunnel reuses the cached tunnel or opens one.
TunnelLookup(c) ==
  /\ CallGoes(c, "lookup", IF tunnels = NoCall THEN "open" ELSE "dial")
  /\ port' = [port EXCEPT ![c] = tunnels]
  /\ UNCHANGED <<ssh, mode, pools, tunnels, asked, plain, got, disconnectVars, crowded>>

\* The insert replaces, and so shuts, a tunnel another call has put there.
OpenTunnel(c) ==
  /\ CallGoes(c, "open", "dial")
  /\ tunnels' = c
  /\ port' = [port EXCEPT ![c] = c]
  /\ UNCHANGED <<ssh, mode, pools, asked, plain, got, disconnectVars, crowded>>

\* The first connection of the new pool reaches the server's port...
Dial(c) ==
  /\ Reachable(c)
  /\ CallGoes(c, "dial", "handshake") \/ CallGoes(c, "redial", "rehandshake")
  /\ UNCHANGED <<ssh, mode, pools, tunnels, calledWith, disconnectVars, crowded>>

\* ... where the TLS handshake fails: MySQL tries once more without TLS, under
\* Prefer only ...
TlsRefused(c) ==
  /\ CallGoes(c, "handshake", IF asked[c] = "prefer" THEN "redial" ELSE "done")
  /\ UNCHANGED <<ssh, mode, pools, tunnels, calledWith, disconnectVars, crowded>>

\* ... or succeeds: the insert replaces whatever pool is cached by then.
Connected(c) ==
  /\ CallGoes(c, "handshake", "have") \/ CallGoes(c, "rehandshake", "have")
  /\ plain' = [plain EXCEPT ![c] = callPc[c] = "rehandshake"]
  /\ pools' = c
  /\ got' = [got EXCEPT ![c] = c]
  /\ UNCHANGED <<ssh, mode, tunnels, asked, port, disconnectVars, crowded>>

\* Any await of pool_for may fail: secrets, bastion, network, server.
OpenFails(c) ==
  /\ callPc[c] \in OpenerPcs \ {"lookup"}
  /\ callPc' = [callPc EXCEPT ![c] = "done"]
  /\ UNCHANGED <<ssh, mode, pools, tunnels, calledWith, disconnectVars, crowded>>

\* The call takes a connection from its pool; a closed pool refuses.
Checkout(c) ==
  /\ got[c] \notin closed
  /\ CallGoes(c, "have", "using")
  /\ UNCHANGED <<ssh, mode, pools, tunnels, calledWith, disconnectVars, crowded>>

\* PoolClosed, acquire_timeout, or no route to the server.
CheckoutFails(c) ==
  /\ CallGoes(c, "have", "done")
  /\ UNCHANGED <<ssh, mode, pools, tunnels, calledWith, disconnectVars, crowded>>

Finish(c) ==
  /\ CallGoes(c, "using", "done")
  /\ UNCHANGED <<ssh, mode, pools, tunnels, calledWith, disconnectVars, crowded>>

-----------------------------------------------------------------------------
(* disconnect.                                                             *)

\* Mutant: the pool is looked up and closed but stays in the map.
ClosePoolInPlace(d) ==
  /\ dpc[d] = "new"
  /\ dpool' = [dpool EXCEPT ![d] = pools]
  /\ dpc' = [dpc EXCEPT ![d] = IF pools = NoCall THEN "untunnel" ELSE "closing"]
  /\ closed' = closed \cup ({pools} \ {NoCall})
  /\ Crowd(d)
  /\ UNCHANGED <<ssh, mode, pools, tunnels, callPc, calledWith>>

\* The pool leaves the map and close() marks it at once.
RemovePool(d) ==
  /\ dpc[d] = "new"
  /\ pools' = NoCall
  /\ dpool' = [dpool EXCEPT ![d] = pools]
  /\ dpc' = [dpc EXCEPT ![d] = IF pools = NoCall THEN "untunnel" ELSE "closing"]
  /\ closed' = closed \cup ({pools} \ {NoCall})
  /\ Crowd(d)
  /\ UNCHANGED <<ssh, mode, tunnels, callPc, calledWith>>

\* close().await returns once every connection has come back.
PoolClosed(d) ==
  /\ dpc[d] = "closing"
  /\ \A c \in Calls : callPc[c] = "using" => got[c] # dpool[d]
  /\ dpc' = [dpc EXCEPT ![d] = "untunnel"]
  /\ UNCHANGED <<ssh, mode, pools, tunnels, closed, callPc, calledWith, dpool, crowded>>

\* Mutant: disconnect forgets the tunnel.
LeaveTunnel(d) ==
  /\ dpc[d] = "untunnel"
  /\ dpc' = [dpc EXCEPT ![d] = "done"]
  /\ UNCHANGED <<ssh, mode, pools, tunnels, closed, callPc, calledWith, dpool, crowded>>

RemoveTunnel(d) ==
  /\ dpc[d] = "untunnel"
  /\ tunnels' = NoCall
  /\ dpc' = [dpc EXCEPT ![d] = "done"]
  /\ UNCHANGED <<ssh, mode, pools, closed, callPc, calledWith, dpool, crowded>>

-----------------------------------------------------------------------------
CallStep(c) ==
  \/ Hit(c) \/ Miss(c) \/ TunnelLookup(c) \/ OpenTunnel(c) \/ Dial(c)
  \/ TlsRefused(c) \/ Connected(c) \/ OpenFails(c)
  \/ Checkout(c) \/ CheckoutFails(c) \/ Finish(c)

DisconnectStep(d) == RemovePool(d) \/ PoolClosed(d) \/ RemoveTunnel(d)

PoolNext ==
  \/ \E c \in Calls : CallStep(c)
  \/ \E d \in Disconnects : DisconnectStep(d)
  \/ EditProfile

PoolSpec == PoolInit /\ [][PoolNext]_poolVars

-----------------------------------------------------------------------------
(* What holds.                                                             *)

\* pool_for never hands out a pool that disconnect has begun to close: it is
\* out of the map before close() is called, and only new pools go in.
CachedPoolNotClosed == pools \notin closed

\* A pool opened while no other call was opening and no disconnect was under
\* way goes through the tunnel in the map for as long as it is cached, so that
\* the listener its later connections need is alive.
LoneOpenIsCoherent ==
  \A c \in Calls \ crowded : pools = c => Reachable(c)

\* "Drop the tunnel last so any in-flight pool teardown can still flow through
\* it": while a disconnect waits for its pool, the pool's tunnel stays up.
TeardownKeepsTunnel ==
  \A d \in Disconnects \ crowded :
    dpc[d] = "closing" /\ dpool[d] \notin crowded => Reachable(dpool[d])

\* Unencrypted pools are opened under Prefer alone.
PlaintextOnlyUnderPrefer == \A c \in Calls : plain[c] => asked[c] = "prefer"

\* What makes them inductive. Pools in the map, or closed, come from calls that
\* have been through pool_for.
Settled(c) == callPc[c] \in {"have", "using", "done"}
PoolsAreSettled ==
  /\ pools # NoCall => Settled(pools)
  /\ \A p \in closed : Settled(p)

\* Whoever runs beside another is marked; a cached pool opened alone means that
\* nobody is opening or tearing down now.
CrowdIsMarked ==
  /\ \A x, y \in Opening \cup TearingDown : x # y => x \in crowded
  /\ pools \in Calls \ crowded => Opening \cup TearingDown = {}

\* A lone opener's tunnel is the cached one from the moment it has its port.
LoneOpenerHasPort ==
  /\ \A c \in Calls : callPc[c] = "new" => port[c] = NoCall /\ ~plain[c]
  /\ \A c \in Calls \ crowded :
       callPc[c] \in OpenerPcs \ {"lookup", "open"} => Reachable(c)

\* Only a call under Prefer gets past a refused TLS handshake.
RetryIsPrefer ==
  \A c \in Calls : callPc[c] \in {"redial", "rehandshake"} => asked[c] = "prefer"

\* While a lone disconnect is under way nobody fills the map.
AloneEmptiesMap ==
  \A d \in Disconnects \ crowded : dpc[d] \in {"closing", "untunnel"} => pools = NoCall

ClosingHasPool == \A d \in Disconnects : dpc[d] = "closing" => dpool[d] \in Calls

\* The inductive invariant.
PoolIInv ==
  /\ PoolTypeOK /\ CachedPoolNotClosed /\ LoneOpenIsCoherent /\ TeardownKeepsTunnel
  /\ PlaintextOnlyUnderPrefer /\ PoolsAreSettled /\ CrowdIsMarked
  /\ LoneOpenerHasPort /\ RetryIsPrefer /\ ClosingHasPool
  /\ AloneEmptiesMap

\* A disconnect nobody overlaps ends with nothing in either map.
CleanSlate ==
  [][\A d \in Disconnects \ crowded :
       dpc[d] # "done" /\ dpc'[d] = "done" => pools' = NoCall /\ tunnels' = NoCall]_poolVars

-----------------------------------------------------------------------------
(* What the comments promise and the code does not keep: TLC finds a        *)
(* counterexample of each, which the README tells.                          *)

\* "The next query will reopen everything from scratch": after a reconnect, the
\* pool the next query finds connects through a tunnel that is still there.
NextQueryReopens ==
  (\E d \in Disconnects : dpc[d] = "done") /\ pools # NoCall => Reachable(pools)

=============================================================================
