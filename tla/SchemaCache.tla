----------------------------- MODULE SchemaCache -----------------------------
(***************************************************************************)
(* The interface's cache of introspected schemas: `load` answers from the  *)
(* cache, joins the request that is in flight for the connection, or sends *)
(* one; `invalidate` drops the entry, and leaves a request in flight alone.*)
(*                                                                         *)
(* A schema is the number of changes made to it so far. JavaScript runs    *)
(* each step to its end: an answer stores the entry, frees the slot and    *)
(* settles every caller that shares the promise. Between the request and   *)
(* its answer anything else runs, and the driver reads the catalogue at    *)
(* some instant in between.                                                *)
(*                                                                         *)
(* Abstracted: the schema's content, loadedAt, and when the pages render.  *)
(***************************************************************************)
EXTENDS Naturals

CONSTANTS
  Conns,      \* connection ids
  Loads,      \* calls of load
  Requests,   \* calls of api.getSchema
  MaxChanges, \* changes to one schema
  Nothing

ASSUME CacheAssumption ==
  /\ MaxChanges \in Nat
  /\ Nothing \notin Nat \cup Conns \cup Requests

VARIABLES
  version,   \* version[c]: the schema on the server
  entries,   \* entries[c]: the cached schema, or Nothing
  inFlight,  \* inFlight[c]: the request in flight, or Nothing
  rpc,       \* rpc[r]: where request r is
  conn,      \* conn[r]: the connection it is for
  read,      \* read[r]: the schema the driver read for it
  lpc,       \* lpc[l]: where load l is
  of,        \* of[l]: the connection it is for
  how,       \* how[l]: "lazy", "force", or "reload" (invalidate, then force)
  shares,    \* shares[l]: the request whose promise l was given, or Nothing
  result,    \* result[l]: the schema it returned
  atCall,    \* history: the schema on the server when l was called
  joined     \* history: the loads that found a request in flight

cacheVars == <<version, entries, inFlight, rpc, conn, read, lpc, of, how,
               shares, result, atCall, joined>>
requestVars == <<rpc, conn, read>>
loadVars == <<lpc, of, how, shares, result, atCall, joined>>

Versions == 0..MaxChanges
Hows == {"lazy", "force", "reload"}

\* "asked": sent, the catalogue not read yet; "read": the answer is under way.
Outstanding(r) == rpc[r] \in {"asked", "read"}

CacheTypeOK ==
  /\ version \in [Conns -> Versions]
  /\ entries \in [Conns -> Versions \cup {Nothing}]
  /\ inFlight \in [Conns -> Requests \cup {Nothing}]
  /\ rpc \in [Requests -> {"new", "asked", "read", "resolved", "rejected"}]
  /\ conn \in [Requests -> Conns \cup {Nothing}]
  /\ read \in [Requests -> Versions]
  /\ lpc \in [Loads -> {"new", "waiting", "ok", "error"}]
  /\ of \in [Loads -> Conns \cup {Nothing}]
  /\ how \in [Loads -> Hows]
  /\ shares \in [Loads -> Requests \cup {Nothing}]
  /\ result \in [Loads -> Versions]
  /\ atCall \in [Loads -> Versions]
  /\ joined \subseteq Loads

CacheInit ==
  /\ version = [c \in Conns |-> 0]
  /\ entries = [c \in Conns |-> Nothing]
  /\ inFlight = [c \in Conns |-> Nothing]
  /\ rpc = [r \in Requests |-> "new"]
  /\ conn = [r \in Requests |-> Nothing]
  /\ read = [r \in Requests |-> 0]
  /\ lpc = [l \in Loads |-> "new"]
  /\ of = [l \in Loads |-> Nothing]
  /\ how = [l \in Loads |-> "lazy"]
  /\ shares = [l \in Loads |-> Nothing]
  /\ result = [l \in Loads |-> 0]
  /\ atCall = [l \in Loads |-> 0]
  /\ joined = {}

-----------------------------------------------------------------------------
(* load.                                                                   *)

\* Mutant: the forced loads of the past, each with its own round trip.
PendingUnlessForced(c, k) == k = "lazy" /\ inFlight[c] # Nothing

\* load finds a promise to return, forced or not.
Pending(c, k) == inFlight[c] # Nothing

\* load returns the cached entry.
Served(c, k) == k = "lazy" /\ entries[c] # Nothing

\* The pages that reload invalidate first, in the same step.
Dropped(c, k) == IF k = "reload" THEN [entries EXCEPT ![c] = Nothing] ELSE entries

Called(l, c, k) ==
  /\ lpc[l] = "new"
  /\ of' = [of EXCEPT ![l] = c]
  /\ how' = [how EXCEPT ![l] = k]
  /\ atCall' = [atCall EXCEPT ![l] = version[c]]

Join(l, c, k) ==
  /\ Called(l, c, k)
  /\ Pending(c, k)
  /\ lpc' = [lpc EXCEPT ![l] = "waiting"]
  /\ shares' = [shares EXCEPT ![l] = inFlight[c]]
  /\ joined' = joined \cup {l}
  /\ entries' = Dropped(c, k)
  /\ UNCHANGED <<version, inFlight, requestVars, result>>

Cached(l, c, k) ==
  /\ Called(l, c, k)
  /\ ~Pending(c, k) /\ Served(c, k)
  /\ lpc' = [lpc EXCEPT ![l] = "ok"]
  /\ result' = [result EXCEPT ![l] = entries[c]]
  /\ UNCHANGED <<version, entries, inFlight, requestVars, shares, joined>>

Send(l, c, k, r) ==
  /\ Called(l, c, k)
  /\ ~Pending(c, k) /\ ~Served(c, k)
  /\ rpc[r] = "new"
  /\ rpc' = [rpc EXCEPT ![r] = "asked"]
  /\ conn' = [conn EXCEPT ![r] = c]
  /\ inFlight' = [inFlight EXCEPT ![c] = r]
  /\ lpc' = [lpc EXCEPT ![l] = "waiting"]
  /\ shares' = [shares EXCEPT ![l] = r]
  /\ entries' = Dropped(c, k)
  /\ UNCHANGED <<version, read, result, joined>>

\* The driver's introspection.
Introspect(r) ==
  /\ rpc[r] = "asked"
  /\ rpc' = [rpc EXCEPT ![r] = "read"]
  /\ read' = [read EXCEPT ![r] = version[conn[r]]]
  /\ UNCHANGED <<version, entries, inFlight, conn, loadVars>>

\* The promise of request r settles, and with it every load that shares it.
Settle(r, outcome) ==
  lpc' = [l \in Loads |-> IF lpc[l] = "waiting" /\ shares[l] = r THEN outcome ELSE lpc[l]]

Resolve(r) ==
  /\ rpc[r] = "read"
  /\ rpc' = [rpc EXCEPT ![r] = "resolved"]
  /\ entries' = [entries EXCEPT ![conn[r]] = read[r]]
  /\ inFlight' = [inFlight EXCEPT ![conn[r]] = Nothing]
  /\ Settle(r, "ok")
  /\ result' = [l \in Loads |->
                  IF lpc[l] = "waiting" /\ shares[l] = r THEN read[r] ELSE result[l]]
  /\ UNCHANGED <<version, conn, read, of, how, shares, atCall, joined>>

\* Mutant: a failure leaves its promise in the slot.
RejectKeepsSlot(r) ==
  /\ Outstanding(r)
  /\ rpc' = [rpc EXCEPT ![r] = "rejected"]
  /\ Settle(r, "error")
  /\ UNCHANGED <<version, entries, inFlight, conn, read, of, how, shares, result,
                 atCall, joined>>

\* The command fails, before or after the catalogue was read.
Reject(r) ==
  /\ Outstanding(r)
  /\ rpc' = [rpc EXCEPT ![r] = "rejected"]
  /\ inFlight' = [inFlight EXCEPT ![conn[r]] = Nothing]
  /\ Settle(r, "error")
  /\ UNCHANGED <<version, entries, conn, read, of, how, shares, result, atCall, joined>>

\* After a reconnect on the SQL page, and after an import.
Invalidate(c) ==
  /\ entries' = [entries EXCEPT ![c] = Nothing]
  /\ UNCHANGED <<version, inFlight, requestVars, loadVars>>

\* DDL, from this program or another one.
Change(c) ==
  /\ version[c] < MaxChanges
  /\ version' = [version EXCEPT ![c] = @ + 1]
  /\ UNCHANGED <<entries, inFlight, requestVars, loadVars>>

-----------------------------------------------------------------------------
LoadStep(l, c, k) == Join(l, c, k) \/ Cached(l, c, k) \/ \E r \in Requests : Send(l, c, k, r)

RequestStep(r) == Introspect(r) \/ Resolve(r) \/ Reject(r)

CacheNext ==
  \/ \E l \in Loads, c \in Conns, k \in Hows : LoadStep(l, c, k)
  \/ \E r \in Requests : RequestStep(r)
  \/ \E c \in Conns : Invalidate(c) \/ Change(c)

CacheSpec == CacheInit /\ [][CacheNext]_cacheVars

-----------------------------------------------------------------------------
(* What holds.                                                             *)

\* "One in-flight at a time per connection": however many panels ask, forced or
\* not, the server sees one introspection of a connection at a time.
OneRoundTrip ==
  \A r, s \in Requests : Outstanding(r) /\ Outstanding(s) /\ conn[r] = conn[s] => r = s

\* The slot is occupied by a request that is still out, and nothing waits on one
\* that is not: no failure leaves the cache "pending forever".
SlotIsLive ==
  /\ \A c \in Conns :
       inFlight[c] # Nothing => Outstanding(inFlight[c]) /\ conn[inFlight[c]] = c
  /\ \A l \in Loads : lpc[l] = "waiting" => shares[l] # Nothing /\ Outstanding(shares[l])

\* A load that asks for a fresh schema and found no request in flight returns
\* one that was read after it was called.
ForcedReachesServer ==
  \A l \in Loads \ joined :
    lpc[l] = "ok" /\ how[l] # "lazy" => result[l] >= atCall[l]

\* No caller is given an older schema than one that a caller was given before,
\* whatever was forced, invalidated or failed in between.
NeverOlder ==
  [][\A k, l \in Loads :
       lpc[k] = "ok" /\ lpc[l] # "ok" /\ lpc'[l] = "ok" /\ of'[l] = of[k] =>
         result'[l] >= result[k]]_cacheVars

\* What makes them inductive. Every request that is out is in the slot, and
\* whoever waits for it wants its connection's schema.
OutIsInSlot ==
  /\ \A r \in Requests :
       /\ rpc[r] # "new" => conn[r] \in Conns
       /\ Outstanding(r) => inFlight[conn[r]] = r
  /\ \A l \in Loads :
       /\ IF lpc[l] = "new" THEN shares[l] = Nothing ELSE of[l] \in Conns
       /\ shares[l] # Nothing => rpc[shares[l]] # "new" /\ conn[shares[l]] = of[l]

\* Versions in the order in which they were read: returned, cached, under way.
ReadInOrder ==
  /\ \A c \in Conns : entries[c] # Nothing => entries[c] <= version[c]
  /\ \A r \in Requests : rpc[r] = "read" =>
       /\ read[r] <= version[conn[r]]
       /\ entries[conn[r]] # Nothing => entries[conn[r]] <= read[r]
  /\ \A k \in Loads : lpc[k] = "ok" =>
       /\ result[k] <= version[of[k]]
       /\ entries[of[k]] # Nothing => result[k] <= entries[of[k]]
       /\ \A r \in Requests : rpc[r] = "read" /\ conn[r] = of[k] => result[k] <= read[r]

\* A load that sent its request is answered from after its call.
OwnIsFresh ==
  \A l \in Loads :
    /\ lpc[l] # "new" => atCall[l] <= version[of[l]]
    /\ lpc[l] = "waiting" /\ l \notin joined /\ rpc[shares[l]] = "read" =>
         read[shares[l]] >= atCall[l]

\* The inductive invariant.
CacheIInv ==
  /\ CacheTypeOK /\ OneRoundTrip /\ SlotIsLive /\ ForcedReachesServer
  /\ OutIsInSlot /\ ReadInOrder /\ OwnIsFresh

-----------------------------------------------------------------------------
(* What the comments promise and the code does not keep: TLC finds a        *)
(* counterexample of each, which the README tells.                          *)

\* "Force a fresh fetch": after a schema change, a forced load does not return
\* the schema of before.
ForcedIsFresh ==
  \A l \in Loads : lpc[l] = "ok" /\ how[l] # "lazy" => result[l] >= atCall[l]

=============================================================================
