----------------------------- MODULE StoreProofs ------------------------------
(***************************************************************************)
(* What holds of the shell's stores: the schema cache (SchemaCache), and   *)
(* the connections with their form and secrets (Connections). They share   *)
(* no state, and each part uses its own component's definitions.           *)
(***************************************************************************)
EXTENDS SchemaCache, Connections, SequenceTheorems, TLAPS

-------------------------------------------------------------------------------
(***************************************************************************)
(* SchemaCache, for any connections, loads, requests and changes.          *)
(***************************************************************************)

\* The empty cache satisfies the invariant.
LEMMA CacheInitIInv == CacheInit => CacheIInv
BY CacheAssumption
   DEF CacheInit, CacheIInv, CacheTypeOK, OneRoundTrip, SlotIsLive, ForcedReachesServer,
       OutIsInSlot, ReadInOrder, OwnIsFresh, Outstanding, Versions, Hows

\* Every step of a load, a request or the world preserves the invariant.
LEMMA CacheNextIInv == CacheIInv /\ [CacheNext]_cacheVars => CacheIInv'
<1> SUFFICES ASSUME CacheIInv, [CacheNext]_cacheVars PROVE CacheIInv'
  OBVIOUS
<1> USE CacheAssumption
    DEF CacheIInv, CacheTypeOK, OneRoundTrip, SlotIsLive, ForcedReachesServer, OutIsInSlot,
        ReadInOrder, OwnIsFresh, Outstanding, Versions, Hows
<1>1. ASSUME NEW l \in Loads, NEW c \in Conns, NEW k \in Hows, Join(l, c, k)
      PROVE  CacheIInv'
  BY <1>1 DEF Join, Called, Pending, Dropped, requestVars
<1>2. ASSUME NEW l \in Loads, NEW c \in Conns, NEW k \in Hows, Cached(l, c, k)
      PROVE  CacheIInv'
  BY <1>2 DEF Cached, Called, Pending, Served, requestVars
<1>3. ASSUME NEW l \in Loads, NEW c \in Conns, NEW k \in Hows, NEW r \in Requests,
             Send(l, c, k, r)
      PROVE  CacheIInv'
  BY <1>3 DEF Send, Called, Pending, Served, Dropped
<1>4. ASSUME NEW r \in Requests, Introspect(r)
      PROVE  CacheIInv'
  BY <1>4 DEF Introspect, loadVars
<1>5. ASSUME NEW r \in Requests, Resolve(r)
      PROVE  CacheIInv'
  BY <1>5 DEF Resolve, Settle
<1>6. ASSUME NEW r \in Requests, Reject(r)
      PROVE  CacheIInv'
  BY <1>6 DEF Reject, Settle
<1>7. ASSUME NEW c \in Conns, Invalidate(c)
      PROVE  CacheIInv'
  BY <1>7 DEF Invalidate, requestVars, loadVars
<1>8. ASSUME NEW c \in Conns, Change(c)
      PROVE  CacheIInv'
  BY <1>8 DEF Change, requestVars, loadVars
<1>9. CASE UNCHANGED cacheVars
  BY <1>9 DEF cacheVars
<1> QED
  BY <1>1, <1>2, <1>3, <1>4, <1>5, <1>6, <1>7, <1>8, <1>9
     DEF CacheNext, LoadStep, RequestStep

\* The invariant of the cache's entries, slots, requests and callers.
THEOREM CacheInvariantHolds == CacheSpec => []CacheIInv
BY CacheInitIInv, CacheNextIInv, PTL DEF CacheSpec

\* The dedupe keeps it to one introspection of a connection at a time, and no
\* failure leaves a promise in the slot that nothing will settle.
THEOREM OneLiveRequest == CacheSpec => [](OneRoundTrip /\ SlotIsLive)
<1>1. CacheIInv => OneRoundTrip /\ SlotIsLive
  BY DEF CacheIInv
<1> QED
  BY <1>1, CacheInvariantHolds, PTL

\* A forced load that found the slot empty returns a schema read after its call.
THEOREM ForceIsFreshWhenAlone == CacheSpec => []ForcedReachesServer
<1>1. CacheIInv => ForcedReachesServer
  BY DEF CacheIInv
<1> QED
  BY <1>1, CacheInvariantHolds, PTL

\* Callers never see a connection's schema go back.
THEOREM SchemasNeverGoBack == CacheSpec => NeverOlder
<1>1. ASSUME CacheIInv, [CacheNext]_cacheVars
      PROVE  [\A k, l \in Loads :
                lpc[k] = "ok" /\ lpc[l] # "ok" /\ lpc'[l] = "ok" /\ of'[l] = of[k] =>
                  result'[l] >= result[k]]_cacheVars
  <2> USE CacheAssumption, <1>1
      DEF CacheIInv, CacheTypeOK, ReadInOrder, OutIsInSlot, Outstanding, Versions, Hows
  <2>1. ASSUME NEW m \in Loads, NEW c \in Conns, NEW h \in Hows, LoadStep(m, c, h),
               NEW k \in Loads, NEW l \in Loads,
               lpc[k] = "ok", lpc[l] # "ok", lpc'[l] = "ok", of'[l] = of[k]
        PROVE  result'[l] >= result[k]
    BY <2>1 DEF LoadStep, Join, Cached, Send, Called, Served
  <2>2. ASSUME NEW r \in Requests, RequestStep(r), NEW k \in Loads, NEW l \in Loads,
               lpc[k] = "ok", lpc[l] # "ok", lpc'[l] = "ok", of'[l] = of[k]
        PROVE  result'[l] >= result[k]
    BY <2>2 DEF RequestStep, Introspect, Resolve, Reject, Settle, loadVars
  <2>3. ASSUME NEW c \in Conns, Invalidate(c) \/ Change(c)
        PROVE  UNCHANGED lpc
    BY <2>3 DEF Invalidate, Change, loadVars
  <2> QED
    BY <2>1, <2>2, <2>3 DEF CacheNext, cacheVars
<1> QED
  BY <1>1, CacheInvariantHolds, PTL DEF CacheSpec, NeverOlder

-------------------------------------------------------------------------------
(***************************************************************************)
(* Connections, for any profiles and any length of use. The secrets come   *)
(* first: SecretsInv is inductive, and SecretsFollowProfiles follows from  *)
(* it. The stores and the form have parts of their own, and together they  *)
(* make IInv.                                                              *)
(*                                                                         *)
(* Most actions leave the stores alone and at most start a call or drop    *)
(* one that has not landed (Undisturbed). What remains are the landings of *)
(* a write or an erasure, the two ways to save, the end of a deletion, and *)
(* a restart.                                                              *)
(***************************************************************************)

\* The calls c and d are the same to the secrets.
Alike(c, d) == c.do = d.do /\ c.id = d.id /\ c.st = d.st /\ c.raced = d.raced

\* A step that leaves the stores alone.
StoresStay == UNCHANGED <<mirror, disk, inline, ghostVars>> /\ saved \subseteq saved'

\* A step that of the calls ends or starts only what has not landed.
CallsStay ==
  /\ \A d \in calls : d.do = "delete" /\ d.st # "sent" => \E e \in calls' : Alike(d, e)
  /\ \A e \in calls' : e.do \in {"save", "delete"} /\ e.st # "sent" =>
                         \E d \in calls : Alike(d, e)

\* A form that is unmounted changes nothing else of its calls.
LEMMA DesertedAlike ==
  ASSUME NEW cs, cs \subseteq Calls, NEW path
  PROVE  /\ Deserted(cs, path) \subseteq Calls
         /\ \A c \in cs : \E d \in Deserted(cs, path) : Alike(c, d)
         /\ \A d \in Deserted(cs, path) : \E c \in cs : Alike(c, d)
<1>1. ASSUME NEW c \in cs
      PROVE  LET d == [c EXCEPT !.here = FALSE, !.shell = c.shell /\ path = loc.path]
             IN  d \in Calls /\ Alike(c, d)
  <2>1. (c.shell /\ path = loc.path) \in BOOLEAN
    BY DEF Calls
  <2> QED
    BY <2>1 DEF Calls, Alike
<1> QED
  BY <1>1 DEF Deserted

\* Nor does an edit of the form.
LEMMA EditedAlike ==
  ASSUME NEW cs, cs \subseteq Calls, NEW ds,
         ds = {IF c.here THEN [c EXCEPT !.edited = TRUE] ELSE c : c \in cs}
  PROVE  /\ ds \subseteq Calls
         /\ \A c \in cs : \E d \in ds : Alike(c, d)
         /\ \A d \in ds : \E c \in cs : Alike(c, d)
<1>1. ASSUME NEW c \in cs
      PROVE  [c EXCEPT !.edited = TRUE] \in Calls /\ Alike(c, [c EXCEPT !.edited = TRUE])
  BY DEF Calls, Alike
<1>2. \A c : Alike(c, c)
  BY DEF Alike
<1> QED
  BY <1>1, <1>2

\* What the form sends is a call.
LEMMA CallIsCall == CallsOK /\ form.id # None => \A do \in Kinds : Call(do) \in Calls
BY DEF CallsOK, Forms, Calls, Call

\* A call that lands keeps what it is about.
LEMMA SettledIsCall ==
  ASSUME NEW c \in Calls, NEW st \in {"sent", "ok", "failed"}
  PROVE  /\ [c EXCEPT !.st = st] \in Calls
         /\ [c EXCEPT !.st = st].do = c.do
         /\ [c EXCEPT !.st = st].id = c.id
         /\ [c EXCEPT !.st = st].raced = c.raced
         /\ [c EXCEPT !.st = st].st = st
BY DEF Calls

\* Marking calls as raced changes nothing else of them.
LEMMA RacedAlike ==
  ASSUME NEW cs, cs \subseteq Calls, NEW id, NEW kinds
  PROVE  /\ Raced(cs, id, kinds) \subseteq Calls
         /\ \A c \in cs : \E d \in Raced(cs, id, kinds) :
              c.do = d.do /\ c.id = d.id /\ c.st = d.st
         /\ \A d \in Raced(cs, id, kinds) :
              /\ (d.id = id /\ d.do \in kinds) => d.raced
              /\ \E c \in cs : c.do = d.do /\ c.id = d.id /\ c.st = d.st
                               /\ (c.raced => d.raced)
<1>1. ASSUME NEW c \in cs
      PROVE  /\ [c EXCEPT !.raced = TRUE] \in Calls
             /\ [c EXCEPT !.raced = TRUE].do = c.do
             /\ [c EXCEPT !.raced = TRUE].id = c.id
             /\ [c EXCEPT !.raced = TRUE].st = c.st
             /\ [c EXCEPT !.raced = TRUE].raced
  BY DEF Calls
<1> QED
  BY <1>1 DEF Raced

\* Every way to change the form leaves a form.
LEMMA FormsStay ==
  ASSUME CallsOK
  PROVE  /\ NoForm \in Forms
         /\ \A id \in Ids : Mounted(id) \in Forms
         /\ Edited(form) \in Forms
         /\ \A c \in Calls, v \in {"idle", "loading", "ok", "error"} :
              Shown(c, v, c.rev) \in Forms /\ Shown(c, v, None) \in Forms
<1>1. NoForm \in Forms /\ \A id \in Ids : Mounted(id) \in Forms
  BY DEF NoForm, Forms, Mounted, CallsOK
<1>2. Edited(form) \in Forms
  <2>1. gestures + 1 \in Nat
    BY DEF CallsOK
  <2> QED
    BY <2>1 DEF CallsOK, Forms, Edited
<1>3. ASSUME NEW c \in Calls, NEW v \in {"idle", "loading", "ok", "error"},
             NEW about \in {c.rev, None}
      PROVE  Shown(c, v, about) \in Forms
  <2>1. about \in Nat \cup {None} /\ c.edited \in BOOLEAN /\ Pooled(c) \in BOOLEAN
    BY DEF Calls, Pooled
  <2>2. [form EXCEPT !.test = v, !.of = about, !.late = c.edited, !.pooled = Pooled(c)]
          \in Forms
    BY <2>1 DEF CallsOK, Forms
  <2> QED
    BY <2>2 DEF CallsOK, Shown
<1> QED
  BY <1>1, <1>2, <1>3

\* Such a step leaves the secrets in order.
LEMMA Undisturbed ==
  ASSUME SecretsInv, CallsOK',
         StoresStay, CallsStay
  PROVE  SecretsInv'
<1>1. \A id : Erasing(id) <=> Erasing(id)'
  BY DEF Erasing, Alike, CallsStay
<1>2. StoredIsThere'
  BY DEF SecretsInv, StoredIsThere, Alike, CallsStay, StoresStay
<1> QED
  BY <1>1, <1>2 DEF SecretsInv, SecretsAreOwned, LeftoversAreTried, GivenAreMirrored,
     FileAloneIsErasing, StoresStay, ghostVars

\* The fields of a profile, and those that the backend was asked with, are edits.
LEMMA FieldsStayOK ==
  CallsOK /\ [Next]_vars => fields' \in [Ids -> Nat] /\ reached' \in [Ids -> SUBSET Nat]
<1> SUFFICES ASSUME CallsOK, [Next]_vars
             PROVE  fields' \in [Ids -> Nat] /\ reached' \in [Ids -> SUBSET Nat]
  OBVIOUS
<1> USE DEF storeVars, secretVars, backendVars, pageVars
<1>0. fields \in [Ids -> Nat] /\ reached \in [Ids -> SUBSET Nat]
  BY DEF CallsOK
<1>1. \A id \in Ids, rev \in Nat : /\ [fields EXCEPT ![id] = rev] \in [Ids -> Nat]
                                   /\ Asked(id, rev) \in [Ids -> SUBSET Nat]
  BY <1>0 DEF Asked
<1>2. form.id # None => form.id \in Ids
  BY DEF CallsOK, Forms
<1>3. form.rev \in Nat /\ \A c \in calls : c.id \in Ids /\ c.rev \in Nat
  BY DEF CallsOK, Forms, Calls
<1>4. CASE Test
  BY <1>0, <1>1, <1>2, <1>3, <1>4 DEF Test
<1>5. CASE Save
  BY <1>0, <1>1, <1>2, <1>3, <1>5 DEF Save, Upserted
<1>6. ASSUME NEW id \in Ids, PagesAsk(id)
      PROVE  fields' \in [Ids -> Nat] /\ reached' \in [Ids -> SUBSET Nat]
  BY <1>0, <1>1, <1>6 DEF PagesAsk
<1>7. ASSUME NEW c \in calls, TestStored(c) \/ Tried(c)
      PROVE  fields' \in [Ids -> Nat] /\ reached' \in [Ids -> SUBSET Nat]
  BY <1>0, <1>1, <1>3, <1>7 DEF TestStored, Tried
<1>8. ASSUME NEW c \in calls, SaveStored(c)
      PROVE  fields' \in [Ids -> Nat] /\ reached' \in [Ids -> SUBSET Nat]
  BY <1>0, <1>1, <1>3, <1>8 DEF SaveStored, Upserted
<1>9. CASE Restart
  BY <1>0, <1>9 DEF Restart
<1>10. ASSUME NEW c \in calls, SetLands(c) \/ EraseLands(c) \/ Removed(c)
       PROVE  UNCHANGED <<fields, reached>>
  BY <1>10 DEF SetLands, EraseLands, Removed
<1>11. ASSUME NEW path, NEW cid, Visit(path, cid)
       PROVE  UNCHANGED <<fields, reached>>
  BY <1>11 DEF Visit
<1>12. ASSUME NEW id, NEW typed, TogglePinned(id) \/ Edit(typed) \/ AskDelete(id)
       PROVE  UNCHANGED <<fields, reached>>
  BY <1>12 DEF TogglePinned, Edit, AskDelete
<1>13. CASE CancelDelete \/ ConfirmDelete \/ Import \/ UNCHANGED vars
  BY <1>0, <1>13 DEF CancelDelete, ConfirmDelete, Import, vars
<1> QED
  BY <1>0, <1>4, <1>5, <1>6, <1>7, <1>8, <1>9, <1>10, <1>11, <1>12, <1>13 DEF Next

\* Forms and calls keep their shape.
LEMMA CallsStayOK == CallsOK /\ [Next]_vars => CallsOK'
<1> SUFFICES ASSUME CallsOK, [Next]_vars
             PROVE  CallsOK'
  OBVIOUS
<1> USE ConnectionsAssumption
<1>0. fields' \in [Ids -> Nat] /\ reached' \in [Ids -> SUBSET Nat]
  BY FieldsStayOK
<1>1. ASSUME NEW path \in Paths, NEW cid \in Ids \cup {None}, Visit(path, cid)
      PROVE  CallsOK'
  <2>1. cid \in inline => [n |-> gestures, do |-> "migrate", id |-> cid, rev |-> fields[cid],
        here |-> TRUE, shell |-> TRUE, st |-> "sent", edited |-> FALSE,
        raced |-> FALSE] \in Calls
    BY DEF CallsOK, Calls, Kinds
  <2>2. calls' \subseteq Calls
    BY <1>0, <1>1, <2>1, DesertedAlike DEF Visit, CallsOK
  <2>3. form' \in Forms
    BY <1>0, <1>1, FormsStay DEF Visit, CallsOK, ScopedPaths
  <2>4. gestures' \in Nat /\ ask' \in Ids \cup {None}
    BY <1>0, <1>1 DEF Visit, Go, CallsOK, Gesture, FreeGesture
  <2> QED
    BY <1>0, <1>1, <2>2, <2>3, <2>4 DEF Visit, CallsOK
<1>2. ASSUME NEW id \in Ids, TogglePinned(id)
      PROVE  CallsOK'
  BY <1>0, <1>2 DEF TogglePinned, CallsOK, storeVars, pageVars, Gesture, FreeGesture
<1>3. ASSUME NEW typed \in BOOLEAN, Edit(typed)
      PROVE  CallsOK'
  <2>1. [Edited(form) EXCEPT !.typed = typed \/ form.typed] \in Forms
    BY FormsStay DEF Forms, CallsOK
  <2>2. calls' \subseteq Calls
    BY <1>0, <1>3, EditedAlike DEF Edit, CallsOK
  <2> QED
    BY <1>0, <1>3, <2>1, <2>2 DEF Edit, CallsOK, storeVars, Gesture, FreeGesture
<1>4. CASE Test
  <2>1. [form EXCEPT !.test = "loading"] \in Forms
    BY DEF Forms, CallsOK
  <2> QED
    BY <1>0, <1>4, <2>1, CallIsCall DEF Test, CallsOK, Kinds, storeVars, Gesture, FreeGesture
<1>5. CASE Save
  <2>1. CASE form.typed
    BY <1>0, <1>5, <2>1, CallIsCall
       DEF Save, CallsOK, Kinds, storeVars, pageVars, Gesture, FreeGesture
  <2>2. CASE ~form.typed
    BY <1>0, <1>5, <2>2, DesertedAlike, FormsStay
       DEF Save, Upserted, Go, CallsOK, Forms, Gesture, FreeGesture
  <2> QED
    BY <2>1, <2>2
<1>6. ASSUME NEW id \in Ids, AskDelete(id)
      PROVE  CallsOK'
  BY <1>0, <1>6 DEF AskDelete, CallsOK, storeVars, Gesture, FreeGesture
<1>7. CASE CancelDelete
  BY <1>0, <1>7 DEF CancelDelete, CallsOK, storeVars, Gesture
<1>8. CASE ConfirmDelete
  <2>1. [n |-> gestures, do |-> "delete", id |-> ask, rev |-> 0, here |-> FALSE,
        shell |-> TRUE, st |-> "sent", edited |-> FALSE, raced |-> FALSE] \in Calls
    BY <1>0, <1>8 DEF ConfirmDelete, CallsOK, Calls, Kinds
  <2>2. calls' \subseteq Calls
    BY <1>0, <1>8, <2>1 DEF ConfirmDelete, CallsOK
  <2>3. gestures' \in Nat
    BY <1>0, <1>8 DEF ConfirmDelete, CallsOK, Gesture
  <2> QED
    BY <1>0, <1>8, <2>2, <2>3 DEF ConfirmDelete, CallsOK, storeVars, pageVars
<1>9. CASE Import
  BY <1>0, <1>9 DEF Import, CallsOK, pageVars, Gesture, FreeGesture
<1>10. CASE Restart
  BY <1>0, <1>10, FormsStay DEF Restart, CallsOK, storeVars, Gesture
<1>11. ASSUME NEW c \in calls, SetLands(c)
      PROVE  CallsOK'
  <2>1. \A st \in {"ok", "failed"} : [c EXCEPT !.st = st] \in Calls
    BY SettledIsCall DEF CallsOK
  <2> QED
    BY <1>0, <1>11, <2>1 DEF SetLands, CallsOK, storeVars, pageVars
<1>12. ASSUME NEW c \in calls, EraseLands(c)
      PROVE  CallsOK'
  <2>1. \A st \in {"ok", "failed"} : [c EXCEPT !.st = st] \in Calls
    BY SettledIsCall DEF CallsOK
  <2> QED
    BY <1>0, <1>12, <2>1, RacedAlike DEF EraseLands, CallsOK, storeVars, pageVars
<1>13. ASSUME NEW c \in calls, TestStored(c)
      PROVE  CallsOK'
  <2>1. [c EXCEPT !.do = "try", !.st = "sent"] \in Calls
    BY DEF CallsOK, Calls, Kinds
  <2>2. form' \in Forms
    BY <1>0, <1>13, FormsStay DEF TestStored, CallsOK
  <2> QED
    BY <1>0, <1>0, <1>13, <2>1, <2>2 DEF TestStored, CallsOK, storeVars
<1>14. ASSUME NEW c \in calls, Tried(c)
      PROVE  CallsOK'
  <2>1. form' \in Forms
    BY <1>0, <1>14, FormsStay DEF Tried, CallsOK
  <2> QED
    BY <1>0, <1>0, <1>14, <2>1 DEF Tried, CallsOK, storeVars
<1>15. ASSUME NEW c \in calls, SaveStored(c)
      PROVE  CallsOK'
  <2>1. c.id \in Ids
    BY DEF CallsOK, Calls
  <2>2. CASE Refused(c)
    BY <1>0, <1>15, <2>2, FormsStay DEF SaveStored, CallsOK, storeVars
  <2>3. CASE ~Refused(c)
    BY <1>0, <1>15, <2>1, <2>3, DesertedAlike, FormsStay DEF SaveStored, Upserted, Go, CallsOK
  <2> QED
    BY <2>2, <2>3
<1>16. ASSUME NEW c \in calls, Removed(c)
      PROVE  CallsOK'
  <2>1. calls' \subseteq Calls
    BY <1>0, <1>16, DesertedAlike DEF Removed, CallsOK
  <2>2. form' \in Forms /\ ask' \in Ids \cup {None}
    BY <1>0, <1>16, FormsStay DEF Removed, Go, CallsOK
  <2> QED
    BY <1>0, <1>0, <1>16, <2>1, <2>2 DEF Removed, CallsOK
<1>18. ASSUME NEW id \in Ids, PagesAsk(id)
       PROVE  CallsOK'
  BY <1>0, <1>0, <1>18 DEF PagesAsk, CallsOK, storeVars, pageVars, Gesture
<1>17. CASE UNCHANGED vars
  BY <1>0, <1>17 DEF vars, CallsOK, storeVars, pageVars
<1> QED
  BY <1>1, <1>2, <1>3, <1>4, <1>5, <1>6, <1>7, <1>8, <1>9, <1>10,
     <1>11, <1>12, <1>13, <1>14, <1>15, <1>16, <1>17, <1>18
     DEF Next
-----------------------------------------------------------------------------
\* Every action of the user, the page and the backend keeps the invariant.
LEMMA NextSecrets == SecretsInv /\ [Next]_vars => SecretsInv'
<1> SUFFICES ASSUME SecretsInv, [Next]_vars
             PROVE  SecretsInv'
  OBVIOUS
<1> CallsOK /\ CallsOK'
  BY CallsStayOK DEF SecretsInv
<1> USE DEF SecretsInv
<1>1. ASSUME NEW path \in Paths, NEW cid \in Ids \cup {None}, Visit(path, cid)
      PROVE  SecretsInv'
  <2>1. StoresStay
    BY <1>1 DEF StoresStay, Visit, storeVars, secretVars, backendVars
  <2>2. CallsStay
    BY <1>1, DesertedAlike DEF CallsStay, Visit, Alike, CallsOK, pageVars
  <2> QED
    BY <2>1, <2>2, Undisturbed
<1>2. ASSUME NEW id \in Ids, TogglePinned(id)
      PROVE  SecretsInv'
  <2>1. StoresStay
    BY <1>2 DEF StoresStay, TogglePinned, storeVars, secretVars, backendVars
  <2>2. CallsStay
    BY <1>2 DEF CallsStay, TogglePinned, Alike, CallsOK, pageVars
  <2> QED
    BY <2>1, <2>2, Undisturbed
<1>3. ASSUME NEW typed \in BOOLEAN, Edit(typed)
      PROVE  SecretsInv'
  <2>1. StoresStay
    BY <1>3 DEF StoresStay, Edit, storeVars, secretVars, backendVars
  <2>2. /\ \A d \in calls : \E e \in calls' : Alike(d, e)
        /\ \A e \in calls' : \E d \in calls : Alike(d, e)
    BY <1>3, EditedAlike DEF Edit, CallsOK
  <2> QED
    BY <2>1, <2>2, Undisturbed DEF CallsStay, Alike
<1>4. CASE Test
  <2>1. StoresStay
    BY <1>4 DEF StoresStay, Test, Call, storeVars, secretVars, backendVars
  <2>2. CallsStay
    BY <1>4 DEF CallsStay, Test, Call, Alike, CallsOK, pageVars
  <2> QED
    BY <2>1, <2>2, Undisturbed
<1>5. CASE Save
  <2>1. CASE form.typed
    <3>1. StoresStay
      BY <1>5, <2>1 DEF StoresStay, Save, storeVars, secretVars, backendVars
    <3>2. CallsStay
      BY <1>5, <2>1 DEF CallsStay, Save, Call, Alike
    <3> QED
      BY <3>1, <3>2, Undisturbed
  <2>2. CASE ~form.typed
    <3>1. /\ saved' = saved \cup {form.id} /\ inline' = inline \ {form.id}
          /\ UNCHANGED <<mirror, disk, gave, tried>>
          /\ lost' = IF form.id \in inline /\ form.id \notin disk
                      THEN lost \cup {form.id} ELSE lost
          /\ calls' = Deserted(calls, "schema")
      BY <1>5, <2>2 DEF Save, Upserted, secretVars, backendVars
    <3>2. \A id : Erasing(id) <=> Erasing(id)'
      BY <3>1, DesertedAlike DEF Erasing, Alike, CallsOK
    <3>3. StoredIsThere'
      BY <3>1, DesertedAlike DEF StoredIsThere, Alike, CallsOK
    <3> QED
      BY <3>1, <3>2, <3>3 DEF SecretsAreOwned, LeftoversAreTried, GivenAreMirrored, FileAloneIsErasing
  <2> QED
    BY <2>1, <2>2
<1>6. ASSUME NEW id \in Ids, AskDelete(id)
      PROVE  SecretsInv'
  <2>1. StoresStay
    BY <1>6 DEF StoresStay, AskDelete, storeVars, secretVars, backendVars
  <2>2. CallsStay
    BY <1>6 DEF CallsStay, AskDelete, Alike, CallsOK, pageVars
  <2> QED
    BY <2>1, <2>2, Undisturbed
<1>7. CASE CancelDelete
  <2>1. StoresStay
    BY <1>7 DEF StoresStay, CancelDelete, storeVars, secretVars, backendVars
  <2>2. CallsStay
    BY <1>7 DEF CallsStay, CancelDelete, Alike, CallsOK, pageVars
  <2> QED
    BY <2>1, <2>2, Undisturbed
<1>8. CASE ConfirmDelete
  <2>1. StoresStay
    BY <1>8 DEF StoresStay, ConfirmDelete, storeVars, secretVars, backendVars
  <2>2. CallsStay
    BY <1>8 DEF CallsStay, ConfirmDelete, Alike, CallsOK, pageVars
  <2> QED
    BY <2>1, <2>2, Undisturbed
<1>9. CASE Import
  <2>1. StoresStay
    BY <1>9 DEF StoresStay, Import, storeVars, secretVars, backendVars
  <2>2. CallsStay
    BY <1>9 DEF CallsStay, Import, Alike, CallsOK, pageVars
  <2> QED
    BY <2>1, <2>2, Undisturbed
<1>10. CASE Restart
  <2>1. /\ mirror' = disk /\ calls' = {}
        /\ UNCHANGED <<saved, inline, disk, gave, tried>>
        /\ \A id : Erasing(id) => id \in lost'
        /\ lost \subseteq lost'
    BY <1>10 DEF Restart, storeVars, Erasing
  <2>2. \A id : ~Erasing(id)'
    BY <2>1 DEF Erasing
  <2> QED
    BY <2>1, <2>2 DEF SecretsAreOwned, LeftoversAreTried, GivenAreMirrored, FileAloneIsErasing,
       StoredIsThere
<1>11. ASSUME NEW c \in calls, SetLands(c)
      PROVE  SecretsInv'
  <2>1. PICK st \in {"ok", "failed"} :
          /\ \/ mirror' = mirror \cup {c.id} /\ disk' = mirror'
             \/ st = "failed" /\ mirror' = mirror \cup {c.id} /\ disk' = disk
             \/ st = "failed" /\ mirror' = mirror /\ disk' = disk
          /\ calls' = (calls \ {c}) \cup
                      (IF c.do = "migrate" THEN {} ELSE {[c EXCEPT !.st = st]})
          /\ lost' = IF st = "ok" THEN lost \ {c.id} ELSE lost
    BY <1>11 DEF SetLands, secretVars, backendVars
  <2>2. /\ c.st = "sent" /\ c.do \in {"migrate", "test", "save"}
        /\ tried' = tried \cup {c.id}
        /\ UNCHANGED <<saved, inline, gave>>
    BY <1>11 DEF SetLands, Setting, storeVars
  <2>3. /\ [c EXCEPT !.st = st].do = c.do /\ [c EXCEPT !.st = st].id = c.id
        /\ [c EXCEPT !.st = st].st = st
    BY SettledIsCall DEF CallsOK
  <2>4. \A id : Erasing(id) <=> Erasing(id)'
    BY <2>1, <2>2, <2>3 DEF Erasing
  <2>5. StoredIsThere'
    BY <2>1, <2>2, <2>3 DEF StoredIsThere
  <2> QED
    BY <2>1, <2>2, <2>4, <2>5
       DEF SecretsAreOwned, LeftoversAreTried, GivenAreMirrored, FileAloneIsErasing
<1>12. ASSUME NEW c \in calls, EraseLands(c)
      PROVE  SecretsInv'
  <2>1. PICK st \in {"ok", "failed"} :
          /\ \/ Erased(c.id)
             \/ st = "failed" /\ c.id \in mirror /\ mirror' = mirror \ {c.id} /\ disk' = disk
             \/ st = "failed" /\ mirror' = mirror /\ disk' = disk
          /\ calls' = Raced(calls \ {c}, c.id, {"save"}) \cup {[c EXCEPT !.st = st]}
          /\ tried' = IF st = "failed" THEN tried \cup {c.id} ELSE tried \ ({c.id} \cap mirror)
    BY <1>12 DEF EraseLands, secretVars, backendVars
  <2>2. /\ c.st = "sent" /\ c.do = "delete"
        /\ UNCHANGED <<saved, inline, gave, lost>>
    BY <1>12 DEF EraseLands, storeVars
  <2>3. /\ [c EXCEPT !.st = st].do = c.do /\ [c EXCEPT !.st = st].id = c.id
        /\ [c EXCEPT !.st = st].st = st
    BY SettledIsCall DEF CallsOK
  <2> DEFINE rest == calls \ {c}
             marked == Raced(rest, c.id, {"save"})
             answered == [c EXCEPT !.st = st]
  <2>4. /\ \A d \in rest : \E e \in marked : d.do = e.do /\ d.id = e.id /\ d.st = e.st
        /\ \A e \in marked :
             /\ (e.id = c.id /\ e.do \in {"save"}) => e.raced
             /\ \E d \in rest : d.do = e.do /\ d.id = e.id /\ d.st = e.st
                              /\ (d.raced => e.raced)
    BY RacedAlike DEF CallsOK
  <2>5. calls' = marked \cup {answered} /\ answered.do = "delete" /\ answered.id = c.id
        /\ answered.st # "sent"
    BY <2>1, <2>2, <2>3
  <2> HIDE DEF marked, answered
  <2>6. /\ \E e \in calls' : e.do = "delete" /\ e.id = c.id /\ e.st # "sent"
        /\ \A d \in rest : \E e \in calls' : d.do = e.do /\ d.id = e.id /\ d.st = e.st
    BY <2>4, <2>5
  <2>7. \A e \in calls' : \/ e.do = "delete" /\ e.id = c.id
                          \/ /\ (e.id = c.id /\ e.do = "save") => e.raced
                             /\ \E d \in rest : /\ d.do = e.do /\ d.id = e.id /\ d.st = e.st
                                                /\ d.raced => e.raced
    BY <2>4, <2>5
  <2>8. \A id : Erasing(id)' <=> Erasing(id) \/ id = c.id
    BY <2>2, <2>6, <2>7 DEF Erasing
  <2>9. /\ mirror' \cup disk' \subseteq mirror \cup disk
        /\ disk' \ mirror' \subseteq (disk \ mirror) \cup {c.id}
        /\ (disk \cap mirror) \ {c.id} \subseteq disk' \cap mirror'
    BY <2>1 DEF Erased, secretVars, backendVars
  <2>10. /\ tried \ {c.id} \subseteq tried'
         /\ c.id \in mirror' \cup disk' => c.id \in tried'
    BY <2>1 DEF Erased, secretVars, backendVars, LeftoversAreTried
  <2>11. StoredIsThere'
    <3>1. ASSUME NEW e \in calls', e.do = "save" /\ e.st = "ok"
          PROVE  e.raced \/ e.id \in disk' \cap mirror'
      <4> SUFFICES ASSUME ~e.raced PROVE e.id \in disk' \cap mirror'
        OBVIOUS
      <4>1. PICK d \in rest : e.id # c.id /\ d.do = "save" /\ d.id = e.id /\ d.st = "ok" /\ ~d.raced
        BY <2>7, <3>1
      <4>2. d.id \in disk \cap mirror
        BY <4>1 DEF StoredIsThere
      <4> QED
        BY <2>9, <4>1, <4>2
    <3> QED
      BY <3>1 DEF StoredIsThere
  <2>12. SecretsAreOwned'
    BY <2>2, <2>9, <2>10 DEF SecretsAreOwned
  <2>13. LeftoversAreTried'
    BY <2>8, <2>9, <2>10 DEF LeftoversAreTried
  <2>14. GivenAreMirrored'
    BY <2>2, <2>8, <2>9 DEF GivenAreMirrored
  <2>15. FileAloneIsErasing'
    BY <2>2, <2>8, <2>9 DEF FileAloneIsErasing
  <2> QED
    BY <2>11, <2>12, <2>13, <2>14, <2>15
<1>13. ASSUME NEW c \in calls, TestStored(c)
      PROVE  SecretsInv'
  <2>1. /\ c.do = "test" /\ calls \ {c} \subseteq calls'
        /\ calls' \subseteq (calls \ {c}) \cup {[c EXCEPT !.do = "try", !.st = "sent"]}
    BY <1>13 DEF TestStored
  <2>2. [c EXCEPT !.do = "try", !.st = "sent"].do = "try"
    BY DEF CallsOK, Calls
  <2>3. StoresStay
    BY <1>13 DEF StoresStay, TestStored, storeVars, secretVars, backendVars
  <2> QED
    BY <2>1, <2>2, <2>3, Undisturbed DEF CallsStay, Alike
<1>14. ASSUME NEW c \in calls, Tried(c)
      PROVE  SecretsInv'
  <2>1. StoresStay
    BY <1>14 DEF StoresStay, Tried, storeVars, secretVars, backendVars
  <2>2. CallsStay
    BY <1>14 DEF CallsStay, Tried, Alike, CallsOK, pageVars
  <2> QED
    BY <2>1, <2>2, Undisturbed
<1>15. ASSUME NEW c \in calls, SaveStored(c)
      PROVE  SecretsInv'
  <2>1. CASE Refused(c)
    <3>1. StoresStay
      BY <1>15, <2>1 DEF StoresStay, SaveStored, storeVars, secretVars, backendVars
    <3> QED
      BY <1>15, <2>1, <3>1, Undisturbed DEF CallsStay, SaveStored, Alike
  <2>2. CASE ~Refused(c)
    <3>1. /\ c.do = "save" /\ c.st = "ok"
          /\ saved' = saved \cup {c.id} /\ inline' = inline \ {c.id}
          /\ UNCHANGED <<mirror, disk>>
          /\ gave' = gave \cup {c.id}
          /\ tried' = IF c.raced \/ Erasing(c.id) THEN tried ELSE tried \ {c.id}
          /\ lost' = IF c.raced THEN lost \cup {c.id} ELSE lost
          /\ calls' = Deserted(calls \ {c}, "schema")
      BY <1>15, <2>2 DEF SaveStored, Upserted, secretVars, backendVars, Refused, CallsOK, Calls
    <3> DEFINE rest == calls \ {c}
    <3>2. c.do # "delete" /\ UNCHANGED <<mirror, disk>>
      BY <3>1
    <3>3. /\ \A d \in rest : \E e \in calls' : Alike(d, e)
          /\ \A e \in calls' : \E d \in rest : Alike(d, e)
      BY <3>1, DesertedAlike DEF CallsOK
    <3>4. \A id : Erasing(id) <=> Erasing(id)'
      BY <3>2, <3>3 DEF Erasing, Alike
    <3>5. StoredIsThere'
      BY <3>2, <3>3 DEF StoredIsThere, Alike
    <3>6. c.raced \/ c.id \in disk \cap mirror
      BY <3>1 DEF StoredIsThere
    <3> QED
      BY <3>1, <3>4, <3>5, <3>6
         DEF SecretsAreOwned, LeftoversAreTried, GivenAreMirrored, FileAloneIsErasing
  <2> QED
    BY <2>1, <2>2
<1>16. ASSUME NEW c \in calls, Removed(c)
      PROVE  SecretsInv'
  <2>1. /\ c.do = "delete" /\ c.st # "sent"
        /\ saved' = saved \ {c.id} /\ inline' = inline \ {c.id}
        /\ gave' = gave \ {c.id} /\ lost' = lost \ {c.id}
        /\ UNCHANGED <<mirror, disk, tried>>
        /\ calls' \in {calls \ {c}, Deserted(calls \ {c}, "connections")}
    BY <1>16 DEF Removed, secretVars, backendVars
  <2> DEFINE rest == calls \ {c}
  <2>4. /\ \A d \in rest : \E e \in calls' : Alike(d, e)
        /\ \A e \in calls' : \E d \in rest : Alike(d, e)
    <3>1. \A d : Alike(d, d)
      BY DEF Alike
    <3>2. rest \subseteq Calls
      BY DEF CallsOK
    <3> QED
      BY <2>1, <3>1, <3>2, DesertedAlike
  <2>2. /\ Erasing(c.id)
        /\ \A id : Erasing(id)' => Erasing(id)
        /\ \A id : id # c.id /\ Erasing(id) => Erasing(id)'
    BY <2>1, <2>4 DEF Erasing, Alike
  <2>3. StoredIsThere'
    BY <2>1, <2>4 DEF StoredIsThere, Alike
  <2> QED
    BY <2>1, <2>2, <2>3
       DEF SecretsAreOwned, LeftoversAreTried, GivenAreMirrored, FileAloneIsErasing
<1>18. ASSUME NEW id \in Ids, PagesAsk(id)
       PROVE  SecretsInv'
  <2>1. StoresStay
    BY <1>18 DEF StoresStay, PagesAsk, storeVars, secretVars
  <2>2. CallsStay
    BY <1>18 DEF CallsStay, PagesAsk, Alike
  <2> QED
    BY <2>1, <2>2, Undisturbed
<1>17. CASE UNCHANGED vars
  BY <1>17 DEF vars, storeVars, secretVars, backendVars, ghostVars, SecretsAreOwned, LeftoversAreTried,
     GivenAreMirrored, FileAloneIsErasing, StoredIsThere, Erasing
<1> QED
  BY <1>1, <1>2, <1>3, <1>4, <1>5, <1>6, <1>7, <1>8, <1>9, <1>10,
     <1>11, <1>12, <1>13, <1>14, <1>15, <1>16, <1>17, <1>18
     DEF Next

\* Profiles of an earlier version, with and without secrets, satisfy it.
LEMMA InitSecrets == Init => SecretsInv
BY ConnectionsAssumption, FormsStay
   DEF Init, SecretsInv, CallsOK, SecretsAreOwned, LeftoversAreTried, GivenAreMirrored,
       FileAloneIsErasing, StoredIsThere, Erasing, NoForm, Forms

\* The inductive invariant of the secrets.
THEOREM SecretsInvariant == Spec => []SecretsInv
BY InitSecrets, NextSecrets, PTL DEF Spec

\* Through failing writes, late answers and restarts, no password is kept
\* without its profile, and none that was given is lost while its profile stays.
THEOREM SecretsStay == Spec => []SecretsFollowProfiles
<1>1. SecretsInv => SecretsFollowProfiles
  BY DEF SecretsInv, SecretsFollowProfiles, PasswordsAreKept, GivenAreMirrored
<1> QED
  BY <1>1, SecretsInvariant, PTL
-----------------------------------------------------------------------------
\* The order of last use: profiles of S, each at most once.
UsedOK(u, S) == u \in Seq(S) /\ Once(u)

\* An order without id has the others.
LEMMA WithoutOK ==
  ASSUME NEW S, NEW u, UsedOK(u, S), NEW id
  PROVE  UsedOK(Without(u, id), S \ {id})
<1>1. u \in Seq(S) /\ Len(u) \in Nat /\ DOMAIN u = 1..Len(u)
  BY LenProperties DEF UsedOK
<1>2. CASE ~\E k \in DOMAIN u : u[k] = id
  <2>1. \A i \in 1..Len(u) : u[i] \in S \ {id}
    BY <1>1, <1>2, ElementOfSeq
  <2>2. u \in [1..Len(u) -> S \ {id}]
    BY <1>1, <2>1, LenProperties
  <2>3. u \in Seq(S \ {id})
    BY <1>1, <2>2, SeqDef
  <2> QED
    BY <1>2, <2>3 DEF Without, UsedOK
<1>3. CASE \E k \in DOMAIN u : u[k] = id
  <2> DEFINE k == CHOOSE k \in DOMAIN u : u[k] = id
             a == SubSeq(u, 1, k - 1)
             b == SubSeq(u, k + 1, Len(u))
  <2>1. k \in 1..Len(u) /\ u[k] = id
    BY <1>1, <1>3
  <2>2. Without(u, id) = a \o b
    BY <1>3 DEF Without
  <2> HIDE DEF k
  <2>3. ASSUME NEW i \in 1..Len(u), i # k
        PROVE  u[i] \in S \ {id}
    <3>1. u[i] \in S
      BY <1>1, ElementOfSeq
    <3> QED
      BY <1>1, <2>1, <2>3, <3>1 DEF UsedOK, Once
  <2>4. a \in Seq(S \ {id}) /\ Len(a) = k - 1 /\ \A i \in 1..(k - 1) : a[i] = u[i]
    <3>1. \A i \in 1..(k - 1) : u[i] \in S \ {id}
      BY <1>1, <2>1, <2>3
    <3>2. /\ a \in Seq(S \ {id})
          /\ Len(a) = IF 1 <= k - 1 THEN (k - 1) - 1 + 1 ELSE 0
          /\ \A i \in 1..((k - 1) - 1 + 1) : a[i] = u[1 + i - 1]
      BY <2>1, <3>1, SubSeqProperties
    <3> QED
      BY <2>1, <3>2
  <2>5. b \in Seq(S \ {id}) /\ Len(b) = Len(u) - k
        /\ \A i \in 1..(Len(u) - k) : b[i] = u[k + i]
    <3>1. \A i \in (k + 1)..Len(u) : u[i] \in S \ {id}
      BY <1>1, <2>1, <2>3
    <3>2. /\ b \in Seq(S \ {id})
          /\ Len(b) = IF k + 1 <= Len(u) THEN Len(u) - (k + 1) + 1 ELSE 0
          /\ \A i \in 1..(Len(u) - (k + 1) + 1) : b[i] = u[(k + 1) + i - 1]
      BY <1>1, <2>1, <3>1, SubSeqProperties
    <3>3. /\ Len(u) - (k + 1) + 1 = Len(u) - k
          /\ \A i \in 1..(Len(u) - k) : (k + 1) + i - 1 = k + i
          /\ ~(k + 1 <= Len(u)) => Len(u) - k = 0
      <4>1. k \in Int /\ Len(u) \in Int /\ k <= Len(u)
        BY <1>1, <2>1
      <4> QED
        BY <4>1
    <3>4. Len(b) = Len(u) - k
      BY <3>2, <3>3
    <3>5. ASSUME NEW i \in 1..(Len(u) - k)
          PROVE  b[i] = u[k + i]
      <4>1. b[i] = u[(k + 1) + i - 1]
        BY <3>2, <3>3
      <4> QED
        BY <3>3, <4>1
    <3> QED
      BY <3>2, <3>4, <3>5
  <2> HIDE DEF a, b
  <2>6. /\ a \o b \in Seq(S \ {id}) /\ Len(a \o b) = Len(a) + Len(b)
        /\ \A i \in 1 .. Len(a) + Len(b) : (a \o b)[i] =
             IF i <= Len(a) THEN a[i] ELSE b[i - Len(a)]
    BY <2>4, <2>5, ConcatProperties
  <2>7. DOMAIN (a \o b) = 1..(Len(u) - 1)
    <3>1. (k - 1) + (Len(u) - k) = Len(u) - 1
      BY <1>1, <2>1
    <3>2. Len(a \o b) = Len(u) - 1
      BY <2>4, <2>5, <2>6, <3>1
    <3> QED
      BY <2>6, <3>2, LenProperties
  <2>8. ASSUME NEW i \in 1..(Len(u) - 1)
        PROVE  (a \o b)[i] = IF i < k THEN u[i] ELSE u[i + 1]
    <3>1. CASE i < k
      BY <1>1, <2>1, <2>4, <2>5, <2>6, <3>1
    <3>2. CASE ~(i < k)
      <4>1. (a \o b)[i] = b[i - (k - 1)] /\ i - (k - 1) \in 1..(Len(u) - k)
        BY <1>1, <2>1, <2>4, <2>5, <2>6, <3>2
      <4>2. b[i - (k - 1)] = u[k + (i - (k - 1))]
        BY <2>5, <4>1
      <4>3. k + (i - (k - 1)) = i + 1
        BY <2>1
      <4> QED
        BY <3>2, <4>1, <4>2, <4>3
    <3> QED
      BY <3>1, <3>2
  <2>9. Once(a \o b)
    <3> SUFFICES ASSUME NEW i \in 1..(Len(u) - 1), NEW j \in 1..(Len(u) - 1),
                        (a \o b)[i] = (a \o b)[j]
                 PROVE  i = j
      BY <2>7 DEF Once
    <3> DEFINE p == IF i < k THEN i ELSE i + 1
               q == IF j < k THEN j ELSE j + 1
    <3>1. p \in DOMAIN u /\ q \in DOMAIN u /\ u[p] = u[q]
      <4>1. p \in 1..Len(u) /\ q \in 1..Len(u)
        BY <1>1, <2>1
      <4>2. (a \o b)[i] = u[p] /\ (a \o b)[j] = u[q]
        BY <2>8
      <4> QED
        BY <1>1, <4>1, <4>2
    <3>2. p = q
      BY <3>1 DEF UsedOK, Once
    <3> QED
      BY <2>1, <3>2
  <2> QED
    BY <2>2, <2>6, <2>9 DEF UsedOK
<1> QED
  BY <1>2, <1>3

\* An order of some profiles is one of more.
LEMMA UsedOfMore ==
  ASSUME NEW S, NEW T, S \subseteq T, NEW u, UsedOK(u, S)
  PROVE  UsedOK(u, T)
BY SeqMonotonic DEF UsedOK

\* markUsed puts a saved id first, once.
LEMMA MarkedOK ==
  ASSUME NEW S, NEW u, UsedOK(u, S), NEW id
  PROVE  /\ UsedOK(Marked(u, id, S), S)
         /\ id \in S => Marked(u, id, S) # <<>> /\ Head(Marked(u, id, S)) = id
<1>1. CASE id \notin S
  BY <1>1 DEF Marked
<1>2. CASE id \in S
  <2> DEFINE w == Without(u, id)
  <2>1. Marked(u, id, S) = <<id>> \o w
    BY <1>2 DEF Marked
  <2>2. UsedOK(w, S \ {id})
    BY WithoutOK
  <2> HIDE DEF w
  <2>3. w \in Seq(S) /\ Len(w) \in Nat /\ DOMAIN w = 1..Len(w)
        /\ \A i \in 1..Len(w) : w[i] \in S \ {id}
    <3>1. w \in Seq(S \ {id})
      BY <2>2 DEF UsedOK
    <3>2. w \in Seq(S)
      BY <3>1, SeqMonotonic
    <3> QED
      BY <3>1, <3>2, ElementOfSeq, LenProperties
  <2>4. <<id>> \in Seq(S) /\ Len(<<id>>) = 1 /\ <<id>>[1] = id
    BY <1>2
  <2>5. /\ <<id>> \o w \in Seq(S) /\ Len(<<id>> \o w) = 1 + Len(w)
        /\ \A i \in 1..(1 + Len(w)) : (<<id>> \o w)[i] = IF i <= 1 THEN id ELSE w[i - 1]
    <3>1. /\ <<id>> \o w \in Seq(S) /\ Len(<<id>> \o w) = Len(<<id>>) + Len(w)
          /\ \A i \in 1 .. Len(<<id>>) + Len(w) : (<<id>> \o w)[i] =
               IF i <= Len(<<id>>) THEN <<id>>[i] ELSE w[i - Len(<<id>>)]
      BY <2>3, <2>4, ConcatProperties
    <3> QED
      BY <2>3, <2>4, <3>1
  <2>6. DOMAIN (<<id>> \o w) = 1..(1 + Len(w))
    BY <2>5, LenProperties
  <2>7. Once(<<id>> \o w)
    <3> SUFFICES ASSUME NEW i \in 1..(1 + Len(w)), NEW j \in 1..(1 + Len(w)),
                        (<<id>> \o w)[i] = (<<id>> \o w)[j]
                 PROVE  i = j
      BY <2>6 DEF Once
    <3>1. ASSUME NEW h \in 1..(1 + Len(w)), h # 1
          PROVE  h - 1 \in 1..Len(w) /\ (<<id>> \o w)[h] = w[h - 1] /\ w[h - 1] # id
      BY <2>3, <2>5, <3>1
    <3>2. CASE i = 1 \/ j = 1
      BY <2>5, <3>1, <3>2
    <3>3. CASE i # 1 /\ j # 1
      <4>1. i - 1 = j - 1
        BY <2>2, <2>3, <3>1, <3>3 DEF UsedOK, Once
      <4> QED
        BY <4>1
    <3> QED
      BY <3>2, <3>3
  <2>8. <<id>> \o w # <<>> /\ Head(<<id>> \o w) = id
    <3>1. 1 \in 1..(1 + Len(w)) /\ (<<id>> \o w)[1] = id
      BY <2>3, <2>5
    <3> QED
      BY <2>3, <2>5, <3>1
  <2> QED
    BY <2>1, <2>5, <2>7, <2>8 DEF UsedOK
<1> QED
  BY <1>1, <1>2
-----------------------------------------------------------------------------
\* The part of the invariant about the persisted store and the routes.
StoreInv ==
  /\ pinned \subseteq Ids /\ born \subseteq Ids
  /\ mirror \subseteq Ids /\ disk \subseteq Ids
  /\ gave \subseteq Ids /\ tried \subseteq Ids /\ lost \subseteq Ids
  /\ loc \in [path : Paths, cid : Ids \cup {None}, quiet : BOOLEAN]
  /\ gestures <= MaxGestures
  /\ MetaIsOfSaved /\ PagesAreOfSaved /\ UsedIsHere

\* The part about forms and their calls.
FormInv == VerdictIsOfForm /\ CallsAreOfForm /\ FormIsSomewhere /\ BornBeforeSaved

\* A step that leaves store and routes alone.
StoreStays ==
  /\ UNCHANGED <<storeVars, loc, born, gave>>
  /\ mirror' \subseteq Ids /\ disk' \subseteq Ids /\ tried' \subseteq Ids /\ lost' \subseteq Ids
  /\ gestures' <= MaxGestures

LEMMA StoreUndisturbed == StoreInv /\ StoreStays => StoreInv'
BY DEF StoreInv, StoreStays, storeVars, MetaIsOfSaved, PagesAreOfSaved, UsedIsHere

\* A gesture keeps the bound.
LEMMA GestureIsBounded == CallsOK /\ Gesture => gestures' <= MaxGestures
BY ConnectionsAssumption DEF CallsOK, Gesture

\* A new page: the profile on it comes first in the order of last use.
LEMMA GoOK ==
  ASSUME NEW S, S \subseteq Ids, NEW u, UsedOK(u, S), NEW path \in Paths,
         NEW cid \in Ids \cup {None}, Go(path, cid, S, u),
         loc \in [path : Paths, cid : Ids \cup {None}, quiet : BOOLEAN],
         IF path \in ScopedPaths THEN cid \in S ELSE cid = None,
         path = loc.path /\ cid = loc.cid /\ path \in ScopedPaths => u # <<>> /\ Head(u) = cid
  PROVE  /\ loc' \in [path : Paths, cid : Ids \cup {None}, quiet : BOOLEAN]
         /\ loc'.path = path /\ loc'.cid = cid
         /\ UsedOK(used', S) /\ UsedIsHere' /\ ask' \in {ask, None}
<1>1. /\ loc' = [path |-> path, cid |-> cid,
                 quiet |-> path = loc.path /\ (cid # loc.cid \/ loc.quiet)]
      /\ used' = IF path = loc.path \/ path = "home" THEN u ELSE Marked(u, cid, S)
      /\ ask' \in {ask, None}
  BY DEF Go
<1>2. loc' \in [path : Paths, cid : Ids \cup {None}, quiet : BOOLEAN]
  BY <1>1
<1>3. UsedOK(used', S)
  BY <1>1, MarkedOK
<1>4. path \in ScopedPaths => path # "home"
  BY DEF ScopedPaths
<1>5. UsedIsHere'
  <2> SUFFICES ASSUME path \in ScopedPaths, ~loc'.quiet
               PROVE  used' # <<>> /\ Head(used') = cid
    BY <1>1 DEF UsedIsHere
  <2>1. CASE path = loc.path
    <3>1. cid = loc.cid
      BY <1>1, <2>1
    <3> QED
      BY <1>1, <2>1, <3>1
  <2>2. CASE path # loc.path
    BY <1>1, <1>4, <2>2, MarkedOK
  <2> QED
    BY <2>1, <2>2
<1> QED
  BY <1>1, <1>2, <1>3, <1>5

\* What is saved, and what the shell marks when the profiles change.
LEMMA RefreshedOK ==
  ASSUME CallsOK, StoreInv, NEW S, saved \subseteq S, S \subseteq Ids
  PROVE  /\ UsedOK(Refreshed(S), S)
         /\ loc.path \in ScopedPaths => Refreshed(S) # <<>> /\ Head(Refreshed(S)) = loc.cid
<1>1. UsedOK(used, S)
  BY UsedOfMore DEF StoreInv, MetaIsOfSaved, UsedOK
<1>2. loc.path \in ScopedPaths => loc.cid \in S /\ loc.path # "home"
  BY DEF StoreInv, PagesAreOfSaved, ScopedPaths
<1> QED
  BY <1>1, <1>2, MarkedOK DEF Refreshed

\* A saved profile is on the schema page next.
LEMMA UpsertedOK ==
  ASSUME CallsOK, StoreInv, NEW id \in Ids, NEW rev, Upserted(id, rev), gave' \subseteq gave \cup {id},
         tried' \subseteq Ids, lost' \subseteq Ids, gestures' <= MaxGestures
  PROVE  StoreInv' /\ form' = NoForm /\ loc'.path = "schema" /\ ask' \in {ask, None}
<1> DEFINE S == saved \cup {id}
<1>1. /\ saved' = S /\ inline' = inline \ {id} /\ Go("schema", id, S, Refreshed(S))
      /\ form' = NoForm /\ UNCHANGED <<pinned, mirror, disk, born>>
  BY DEF Upserted, secretVars, backendVars
<1>2. saved \subseteq S /\ S \subseteq Ids /\ id \in S
  BY DEF CallsOK
<1> HIDE DEF S
<1>3. UsedOK(Refreshed(S), S)
      /\ (loc.path \in ScopedPaths => Refreshed(S) # <<>> /\ Head(Refreshed(S)) = loc.cid)
  BY <1>2, RefreshedOK
<1>4. "schema" \in Paths /\ "schema" \in ScopedPaths
  BY DEF Paths, ScopedPaths
<1>5. /\ loc' \in [path : Paths, cid : Ids \cup {None}, quiet : BOOLEAN]
      /\ loc'.path = "schema" /\ loc'.cid = id
      /\ UsedOK(used', S) /\ UsedIsHere' /\ ask' \in {ask, None}
  BY <1>1, <1>2, <1>3, <1>4, GoOK DEF StoreInv
<1>6. MetaIsOfSaved' /\ PagesAreOfSaved'
  BY <1>1, <1>2, <1>4, <1>5 DEF StoreInv, MetaIsOfSaved, PagesAreOfSaved, UsedOK
<1> QED
  BY <1>1, <1>2, <1>5, <1>6 DEF StoreInv
-----------------------------------------------------------------------------
\* Every page is of a profile that is there, and its last use is known.
LEMMA NextStore == CallsOK /\ StoreInv /\ FormInv /\ [Next]_vars => StoreInv'
<1> SUFFICES ASSUME CallsOK, StoreInv, FormInv, [Next]_vars
             PROVE  StoreInv'
  OBVIOUS
<1>0. UsedOK(used, saved) /\ saved \subseteq Ids /\ inline \subseteq saved
  BY DEF StoreInv, MetaIsOfSaved, UsedOK, CallsOK
<1>1. ASSUME NEW path \in Paths, NEW cid \in Ids \cup {None}, Visit(path, cid)
      PROVE  StoreInv'
  <2>1. /\ Go(path, cid, saved, used) /\ Gesture
        /\ IF path \in ScopedPaths THEN cid \in saved ELSE cid = None
        /\ ~(path = loc.path /\ cid = loc.cid)
        /\ UNCHANGED <<saved, inline, pinned, mirror, disk, gave, tried, lost>>
        /\ born' \subseteq Ids
    BY <1>1 DEF Visit, FreeGesture, secretVars, backendVars, ghostVars, StoreInv
  <2>2. /\ loc' \in [path : Paths, cid : Ids \cup {None}, quiet : BOOLEAN]
        /\ loc'.path = path /\ loc'.cid = cid /\ UsedOK(used', saved) /\ UsedIsHere'
    BY <1>0, <2>1, GoOK DEF StoreInv
  <2>3. MetaIsOfSaved' /\ PagesAreOfSaved'
    BY <2>1, <2>2 DEF StoreInv, MetaIsOfSaved, PagesAreOfSaved, UsedOK
  <2> QED
    BY <2>1, <2>2, <2>3, GestureIsBounded DEF StoreInv
<1>2. ASSUME NEW id \in Ids, TogglePinned(id)
      PROVE  StoreInv'
  <2>1. /\ Gesture /\ id \in saved /\ pinned' \subseteq pinned \cup {id}
        /\ UNCHANGED <<saved, inline, used, mirror, disk, loc, born, gave, tried, lost>>
    BY <1>2 DEF TogglePinned, FreeGesture, secretVars, backendVars, pageVars, ghostVars
  <2>2. gestures' <= MaxGestures
    BY <2>1, GestureIsBounded
  <2> QED
    BY <2>1, <2>2 DEF StoreInv, MetaIsOfSaved, PagesAreOfSaved, UsedIsHere
<1>3. ASSUME NEW typed \in BOOLEAN, Edit(typed)
      PROVE  StoreInv'
  <2>1. Gesture /\ UNCHANGED <<storeVars, mirror, disk, loc, born, ghostVars>>
    BY <1>3 DEF Edit, secretVars, backendVars, FreeGesture
  <2> QED
    BY <2>1, StoreUndisturbed, GestureIsBounded DEF StoreStays, StoreInv, secretVars, backendVars, ghostVars
<1>4. CASE Test
  <2>1. Gesture /\ UNCHANGED <<storeVars, mirror, disk, loc, born, ghostVars>>
    BY <1>4 DEF Test, secretVars, backendVars, FreeGesture
  <2> QED
    BY <2>1, StoreUndisturbed, GestureIsBounded DEF StoreStays, StoreInv, secretVars, backendVars, ghostVars
<1>5. CASE Save
  <2>1. Gesture /\ form.id \in Ids
    BY <1>5 DEF Save, FreeGesture, CallsOK, Forms
  <2>2. CASE form.typed
    <3>1. UNCHANGED <<storeVars, mirror, disk, loc, born, ghostVars>>
      BY <1>5, <2>2 DEF Save, secretVars, backendVars, pageVars
    <3> QED
      BY <2>1, <3>1, StoreUndisturbed, GestureIsBounded
         DEF StoreStays, StoreInv, secretVars, backendVars, ghostVars
  <2>3. CASE ~form.typed
    <3>1. Upserted(form.id, form.rev) /\ UNCHANGED <<gave, tried>> /\ lost' \subseteq lost \cup {form.id}
      BY <1>5, <2>3 DEF Save
    <3>2. lost' \subseteq Ids /\ tried' \subseteq Ids /\ gestures' <= MaxGestures
      BY <2>1, <3>1, GestureIsBounded DEF StoreInv
    <3> QED
      BY <2>1, <3>1, <3>2, UpsertedOK
  <2> QED
    BY <2>2, <2>3
<1>6. ASSUME NEW id \in Ids, AskDelete(id)
      PROVE  StoreInv'
  <2>1. Gesture /\ UNCHANGED <<storeVars, mirror, disk, loc, born, ghostVars>>
    BY <1>6 DEF AskDelete, secretVars, backendVars, FreeGesture
  <2> QED
    BY <2>1, StoreUndisturbed, GestureIsBounded DEF StoreStays, StoreInv, secretVars, backendVars, ghostVars
<1>7. CASE CancelDelete
  <2>1. Gesture /\ UNCHANGED <<storeVars, mirror, disk, loc, born, ghostVars>>
    BY <1>7 DEF CancelDelete, secretVars, backendVars
  <2> QED
    BY <2>1, StoreUndisturbed, GestureIsBounded DEF StoreStays, StoreInv, secretVars, backendVars, ghostVars
<1>8. CASE ConfirmDelete
  <2>1. Gesture /\ UNCHANGED <<storeVars, mirror, disk, loc, born, ghostVars>>
    BY <1>8 DEF ConfirmDelete, secretVars, backendVars, pageVars
  <2> QED
    BY <2>1, StoreUndisturbed, GestureIsBounded DEF StoreStays, StoreInv, secretVars, backendVars, ghostVars
<1>9. CASE Import
  <2>1. /\ Gesture /\ saved \subseteq saved' /\ saved' \subseteq Ids /\ born' \subseteq Ids
        /\ used' = Refreshed(saved')
        /\ UNCHANGED <<inline, pinned, mirror, disk, loc, gave, tried, lost>>
    BY <1>9 DEF Import, FreeGesture, secretVars, backendVars, pageVars, ghostVars, CallsOK, StoreInv
  <2>2. /\ UsedOK(used', saved')
        /\ loc.path \in ScopedPaths => used' # <<>> /\ Head(used') = loc.cid
    BY <2>1, RefreshedOK
  <2>3. gestures' <= MaxGestures
    BY <2>1, GestureIsBounded
  <2>4. MetaIsOfSaved' /\ PagesAreOfSaved' /\ UsedIsHere'
    BY <2>1, <2>2 DEF StoreInv, MetaIsOfSaved, PagesAreOfSaved, UsedIsHere, UsedOK
  <2> QED
    BY <2>1, <2>3, <2>4 DEF StoreInv
<1>10. CASE Restart
  <2>1. /\ Gesture /\ loc' = [path |-> "home", cid |-> None, quiet |-> FALSE]
        /\ mirror' = disk /\ UNCHANGED <<storeVars, disk, born, gave, tried>>
    BY <1>10 DEF Restart
  <2>2. lost' \subseteq Ids
    BY <1>10 DEF Restart, StoreInv, CallsOK, Calls
  <2>3. loc' \in [path : Paths, cid : Ids \cup {None}, quiet : BOOLEAN]
        /\ PagesAreOfSaved' /\ UsedIsHere'
    BY <2>1 DEF Paths, PagesAreOfSaved, UsedIsHere, ScopedPaths
  <2>4. MetaIsOfSaved'
    BY <2>1 DEF StoreInv, MetaIsOfSaved, storeVars
  <2> QED
    BY <2>1, <2>2, <2>3, <2>4, GestureIsBounded DEF StoreInv, storeVars
<1>11. ASSUME NEW c \in calls, SetLands(c)
       PROVE  StoreInv'
  <2>1. /\ c.id \in Ids /\ UNCHANGED <<storeVars, loc, born, gave, gestures>>
        /\ mirror' \subseteq mirror \cup {c.id} /\ disk' \in {disk, mirror'}
        /\ tried' = tried \cup {c.id} /\ lost' \subseteq lost
    BY <1>11 DEF SetLands, CallsOK, Calls, pageVars, secretVars, backendVars
  <2> QED
    BY <2>1, StoreUndisturbed DEF StoreStays, StoreInv
<1>12. ASSUME NEW c \in calls, EraseLands(c)
       PROVE  StoreInv'
  <2>1. /\ c.id \in Ids /\ UNCHANGED <<storeVars, loc, born, gave, lost, gestures>>
        /\ mirror' \subseteq mirror /\ disk' \in {disk, mirror'}
        /\ tried' \subseteq tried \cup {c.id}
    BY <1>12 DEF EraseLands, Erased, CallsOK, Calls, pageVars, secretVars, backendVars
  <2> QED
    BY <2>1, StoreUndisturbed DEF StoreStays, StoreInv
<1>13. ASSUME NEW c \in calls, TestStored(c) \/ Tried(c)
       PROVE  StoreInv'
  <2>1. UNCHANGED <<storeVars, mirror, disk, loc, born, ghostVars, gestures>>
    BY <1>13 DEF TestStored, Tried, secretVars, backendVars
  <2> QED
    BY <2>1, StoreUndisturbed DEF StoreStays, StoreInv, secretVars, backendVars, ghostVars
<1>14. ASSUME NEW c \in calls, SaveStored(c)
       PROVE  StoreInv'
  <2>1. CASE Refused(c)
    <3>1. UNCHANGED <<storeVars, mirror, disk, loc, born, ghostVars, gestures>>
      BY <1>14, <2>1 DEF SaveStored, secretVars, backendVars
    <3> QED
      BY <3>1, StoreUndisturbed DEF StoreStays, StoreInv, secretVars, backendVars, ghostVars
  <2>2. CASE ~Refused(c)
    <3>1. c.id \in Ids
      BY DEF CallsOK, Calls
    <3>2. /\ Upserted(c.id, c.rev) /\ gave' = gave \cup {c.id} /\ tried' \subseteq tried
          /\ lost' \subseteq lost \cup {c.id} /\ UNCHANGED gestures
      BY <1>14, <2>2 DEF SaveStored
    <3>3. lost' \subseteq Ids /\ tried' \subseteq Ids /\ gestures' <= MaxGestures
      BY <3>1, <3>2 DEF StoreInv
    <3> QED
      BY <3>1, <3>2, <3>3, UpsertedOK
  <2> QED
    BY <2>1, <2>2
<1>15. ASSUME NEW c \in calls, Removed(c)
       PROVE  StoreInv'
  <2>1. /\ saved' = saved \ {c.id} /\ inline' = inline \ {c.id} /\ pinned' = pinned \ {c.id}
        /\ gave' = gave \ {c.id} /\ lost' = lost \ {c.id}
        /\ UNCHANGED <<mirror, disk, born, tried, gestures>>
    BY <1>15 DEF Removed, secretVars, backendVars
  <2>2. UsedOK(Without(used, c.id), saved') /\ saved' \subseteq Ids /\ c.id # None
    BY <1>0, <2>1, WithoutOK, ConnectionsAssumption DEF CallsOK, Calls
  <2>3. CASE loc.cid = c.id
    <3>1. Go("connections", None, saved', Without(used, c.id))
      BY <1>15, <2>3 DEF Removed
    <3>2. "connections" \in Paths /\ "connections" \notin ScopedPaths
      BY DEF Paths, ScopedPaths
    <3>3. /\ loc' \in [path : Paths, cid : Ids \cup {None}, quiet : BOOLEAN]
          /\ loc'.path = "connections" /\ loc'.cid = None
          /\ UsedOK(used', saved') /\ UsedIsHere'
      BY <2>2, <3>1, <3>2, GoOK DEF StoreInv
    <3>4. MetaIsOfSaved' /\ PagesAreOfSaved'
      BY <2>1, <3>2, <3>3 DEF StoreInv, MetaIsOfSaved, PagesAreOfSaved, UsedOK
    <3> QED
      BY <2>1, <3>3, <3>4 DEF StoreInv
  <2>4. CASE loc.cid # c.id
    <3>1. /\ loc' = [loc EXCEPT !.quiet = FALSE]
          /\ used' = IF loc.path = "home" THEN Without(used, c.id)
                     ELSE Marked(Without(used, c.id), loc.cid, saved')
      BY <1>15, <2>4 DEF Removed
    <3>2. /\ loc' \in [path : Paths, cid : Ids \cup {None}, quiet : BOOLEAN]
          /\ loc'.path = loc.path /\ loc'.cid = loc.cid
      BY <3>1 DEF StoreInv
    <3>3. UsedOK(used', saved')
      BY <2>2, <3>1, MarkedOK
    <3>4. loc.path \in ScopedPaths => loc.cid \in saved' /\ loc.path # "home"
      BY <2>1, <2>4 DEF StoreInv, PagesAreOfSaved, ScopedPaths
    <3>5. UsedIsHere'
      BY <2>2, <3>1, <3>2, <3>4, MarkedOK DEF UsedIsHere
    <3>6. MetaIsOfSaved' /\ PagesAreOfSaved'
      BY <2>1, <3>2, <3>3, <3>4 DEF StoreInv, MetaIsOfSaved, PagesAreOfSaved, UsedOK
    <3> QED
      BY <2>1, <3>2, <3>5, <3>6 DEF StoreInv
  <2> QED
    BY <2>3, <2>4
<1>17. ASSUME NEW id \in Ids, PagesAsk(id)
       PROVE  StoreInv'
  <2>1. Gesture /\ UNCHANGED <<storeVars, mirror, disk, loc, born, ghostVars>>
    BY <1>17 DEF PagesAsk, secretVars, pageVars
  <2> QED
    BY <2>1, StoreUndisturbed, GestureIsBounded DEF StoreStays, StoreInv, ghostVars
<1>16. CASE UNCHANGED vars
  <2>1. UNCHANGED <<storeVars, mirror, disk, loc, born, ghostVars, gestures>>
    BY <1>16 DEF vars, secretVars, backendVars, pageVars
  <2> QED
    BY <2>1, StoreUndisturbed DEF StoreStays, StoreInv, secretVars, backendVars, ghostVars
<1> QED
  BY <1>1, <1>2, <1>3, <1>4, <1>5, <1>6, <1>7, <1>8, <1>9, <1>10,
     <1>11, <1>12, <1>13, <1>14, <1>15, <1>16, <1>17
     DEF Next
-----------------------------------------------------------------------------
\* The calls c and d are the same to the form.
SameToForm(c, d) == c.id = d.id /\ c.rev = d.rev /\ c.here = d.here /\ c.edited = d.edited

\* No call of a form that is unmounted reaches one.
LEMMA DesertedReachNobody ==
  ASSUME NEW cs, cs \subseteq Calls, NEW path
  PROVE  \A d \in Deserted(cs, path) : ~d.here /\ \E c \in cs : d.id = c.id
<1>1. ASSUME NEW c \in cs
      PROVE  LET d == [c EXCEPT !.here = FALSE, !.shell = c.shell /\ path = loc.path]
             IN  ~d.here /\ d.id = c.id
  BY DEF Calls
<1> QED
  BY <1>1 DEF Deserted

\* What lands at the backend is the same call to the form.
LEMMA LandedSameToForm ==
  ASSUME NEW c \in Calls
  PROVE  /\ \A st : SameToForm(c, [c EXCEPT !.st = st])
         /\ SameToForm(c, [c EXCEPT !.raced = TRUE])
         /\ SameToForm(c, [c EXCEPT !.do = "try", !.st = "sent"])
BY DEF Calls, SameToForm

\* Calls that are the same to the form, and a form that stays, keep its part.
LEMMA FormUndisturbed ==
  ASSUME FormInv, UNCHANGED <<saved, born, form, loc>>, ask' \in born \cup {None},
         \A d \in calls' : \E c \in calls : SameToForm(c, d)
  PROVE  FormInv'
BY DEF FormInv, VerdictIsOfForm, CallsAreOfForm, FormIsSomewhere, BornBeforeSaved, SameToForm

\* Nor can a step go wrong that unmounts the form.
LEMMA FormGoes ==
  ASSUME FormInv, form' = NoForm, born' = born, saved' \subseteq born, ask' \in born \cup {None},
         \A d \in calls' : ~d.here /\ d.id \in born
  PROVE  FormInv'
BY DEF FormInv, VerdictIsOfForm, CallsAreOfForm, FormIsSomewhere, BornBeforeSaved, NoForm

\* A verdict that reaches the form is of its fields.
LEMMA ShownIsOfForm ==
  ASSUME CallsOK, FormInv, NEW c \in calls, NEW v, NEW about,
         about = c.rev \/ Pooled(c)
  PROVE  LET f == Shown(c, v, about)
         IN  /\ f.id = form.id /\ f.rev = form.rev
             /\ f.test = "ok" => f.of = f.rev \/ f.late \/ f.pooled
<1>1. form \in Forms /\ c \in Calls
  BY DEF CallsOK
<1>2. CASE c.here
  <2>1. c.rev = form.rev \/ c.edited
    BY <1>2 DEF FormInv, CallsAreOfForm
  <2>2. Shown(c, v, about) = [form EXCEPT !.test = v, !.of = about, !.late = c.edited,
                                       !.pooled = Pooled(c)]
    BY <1>2 DEF Shown
  <2> QED
    BY <1>1, <2>1, <2>2 DEF Forms
<1>3. CASE ~c.here
  BY <1>3 DEF Shown, FormInv, VerdictIsOfForm
<1> QED
  BY <1>2, <1>3

\* So a call may end there.
LEMMA ShownStays ==
  ASSUME CallsOK, FormInv, NEW c \in calls, NEW v, NEW about,
         about = c.rev \/ Pooled(c), form' = Shown(c, v, about),
         calls' = calls \ {c}, UNCHANGED <<saved, born, loc, ask>>
  PROVE  FormInv'
<1>1. form'.id = form.id /\ form'.rev = form.rev
      /\ (form'.test = "ok" => form'.of = form'.rev \/ form'.late \/ form'.pooled)
  BY ShownIsOfForm
<1> QED
  BY <1>1 DEF FormInv, VerdictIsOfForm, CallsAreOfForm, FormIsSomewhere, BornBeforeSaved

\* What the form sends is about its fields.
LEMMA SentByForm ==
  ASSUME NEW do
  PROVE  Call(do).id = form.id /\ Call(do).rev = form.rev
BY DEF Call

\* Every call and every verdict is about the form on the screen, or reaches none.
LEMMA NextForm == CallsOK /\ StoreInv /\ FormInv /\ [Next]_vars => FormInv'
<1> SUFFICES ASSUME CallsOK, StoreInv, FormInv, [Next]_vars
             PROVE  FormInv'
  OBVIOUS
<1>0. /\ calls \subseteq Calls /\ form \in Forms /\ saved \subseteq born
      /\ ask \in born \cup {None} /\ \A c \in calls : c.id \in born
      /\ \A c \in calls : SameToForm(c, c)
  BY DEF CallsOK, FormInv, BornBeforeSaved, SameToForm
<1>1. ASSUME NEW path \in Paths, NEW cid \in Ids \cup {None}, Visit(path, cid)
      PROVE  FormInv'
  <2>1. /\ ask' \in {ask, None} /\ saved' = saved /\ loc'.path = path
        /\ path \in ScopedPaths => cid \in saved
    BY <1>1 DEF Visit, Go
  <2>2. CASE path = "edit" /\ loc.path = "edit" /\ form.id # None
    <3>1. UNCHANGED <<form, calls, born>>
      BY <1>1, <2>2 DEF Visit
    <3> QED
      BY <1>0, <2>1, <2>2, <3>1
         DEF FormInv, VerdictIsOfForm, CallsAreOfForm, FormIsSomewhere, BornBeforeSaved
  <2>3. CASE ~(path = "edit" /\ loc.path = "edit" /\ form.id # None)
    <3> DEFINE new == [n |-> gestures, do |-> "migrate", id |-> cid, rev |-> fields[cid],
                       here |-> TRUE, shell |-> TRUE, st |-> "sent", edited |-> FALSE,
                       raced |-> FALSE]
    <3>0. /\ \A id : /\ Mounted(id).id = id /\ Mounted(id).test = "idle"
                     /\ Mounted(id).rev = fields[id]
          /\ NoForm.test = "idle" /\ NoForm.id = None
      BY DEF Mounted, NoForm
    <3>1. /\ IF path = "new" THEN \E id \in Ids \ born :
                                    form' = Mounted(id) /\ born' = born \cup {id}
             ELSE form' = (IF path = "edit" THEN Mounted(cid) ELSE NoForm) /\ born' = born
          /\ calls' = Deserted(calls, path) \cup IF path = "edit" /\ cid \in inline THEN {new} ELSE {}
      BY <1>1, <2>3 DEF Visit
    <3>2. \A d \in Deserted(calls, path) : ~d.here /\ d.id \in born
      BY <1>0, DesertedReachNobody
    <3>3. path = "edit" => cid \in saved
      BY <2>1 DEF ScopedPaths
    <3>4. form'.test = "idle" /\ born \subseteq born'
      BY <3>0, <3>1
    <3>5. path = "edit" => form'.id = cid /\ form'.rev = fields[cid]
      BY <3>0, <3>1
    <3>6. form'.id # None => path \in {"new", "edit"} /\ form'.id \in born'
      BY <1>0, <3>0, <3>1, <3>3
    <3>7. \A d \in calls' : /\ d.id \in born'
                            /\ d.here => form'.id = d.id /\ d.rev = form'.rev
      BY <1>0, <3>1, <3>2, <3>3, <3>4, <3>5
    <3> QED
      BY <1>0, <2>1, <3>4, <3>6, <3>7
         DEF FormInv, VerdictIsOfForm, CallsAreOfForm, FormIsSomewhere, BornBeforeSaved
  <2> QED
    BY <2>2, <2>3
<1>2. ASSUME NEW id \in Ids, TogglePinned(id)
      PROVE  FormInv'
  BY <1>0, <1>2, FormUndisturbed DEF TogglePinned, pageVars
<1>3. ASSUME NEW typed \in BOOLEAN, Edit(typed)
      PROVE  FormInv'
  <2>1. /\ form' = [Edited(form) EXCEPT !.typed = typed \/ form.typed]
        /\ calls' = {IF c.here THEN [c EXCEPT !.edited = TRUE] ELSE c : c \in calls}
        /\ UNCHANGED <<saved, born, loc, ask>>
    BY <1>3 DEF Edit, storeVars
  <2>2. form'.id = form.id /\ form'.test = "idle"
    BY <1>0, <2>1 DEF Edited, Forms
  <2>3. ASSUME NEW c \in calls
        PROVE  [c EXCEPT !.edited = TRUE].id = c.id /\ [c EXCEPT !.edited = TRUE].edited
    BY <1>0 DEF Calls
  <2>4. \A d \in calls' : d.id \in born /\ (d.here => d.id = form.id /\ d.edited)
    <3> SUFFICES ASSUME NEW c \in calls,
                        NEW d, d = IF c.here THEN [c EXCEPT !.edited = TRUE] ELSE c
                 PROVE  d.id \in born /\ (d.here => d.id = form.id /\ d.edited)
      BY <2>1
    <3>1. CASE c.here
      BY <1>0, <2>3, <3>1 DEF FormInv, CallsAreOfForm
    <3>2. CASE ~c.here
      BY <1>0, <3>2
    <3> QED
      BY <3>1, <3>2
  <2> QED
    BY <2>1, <2>2, <2>4
       DEF FormInv, VerdictIsOfForm, CallsAreOfForm, FormIsSomewhere, BornBeforeSaved
<1>4. CASE Test
  <2>1. /\ form.id # None /\ form' = [form EXCEPT !.test = "loading"]
        /\ \E do \in Kinds : calls' = calls \cup {Call(do)}
        /\ UNCHANGED <<saved, born, loc, ask>>
    BY <1>4 DEF Test, storeVars, Kinds
  <2>2. form'.id = form.id /\ form'.rev = form.rev /\ form'.test = "loading"
    BY <1>0, <2>1 DEF Forms
  <2> QED
    BY <2>1, <2>2, SentByForm
       DEF FormInv, VerdictIsOfForm, CallsAreOfForm, FormIsSomewhere, BornBeforeSaved
<1>5. CASE Save
  <2>1. form.id # None /\ form.id \in born
    BY <1>5 DEF Save, FormInv, FormIsSomewhere
  <2>2. CASE form.typed
    <3>1. calls' = calls \cup {Call("save")} /\ UNCHANGED <<saved, born, form, loc, ask>>
      BY <1>5, <2>2 DEF Save, storeVars, pageVars
    <3> QED
      BY <2>1, <3>1, SentByForm
         DEF FormInv, VerdictIsOfForm, CallsAreOfForm, FormIsSomewhere, BornBeforeSaved
  <2>3. CASE ~form.typed
    <3>1. /\ calls' = Deserted(calls, "schema") /\ saved' = saved \cup {form.id} /\ born' = born
          /\ form' = NoForm /\ ask' \in {ask, None}
      BY <1>5, <2>3 DEF Save, Upserted, Go
    <3> QED
      BY <1>0, <2>1, <3>1, DesertedReachNobody, FormGoes
  <2> QED
    BY <2>2, <2>3
<1>6. ASSUME NEW id \in Ids, AskDelete(id)
      PROVE  FormInv'
  BY <1>0, <1>6, FormUndisturbed DEF AskDelete, storeVars
<1>7. CASE CancelDelete
  BY <1>0, <1>7, FormUndisturbed DEF CancelDelete, storeVars
<1>8. CASE ConfirmDelete
  <2> DEFINE new == [n |-> gestures, do |-> "delete", id |-> ask, rev |-> 0, here |-> FALSE,
                     shell |-> TRUE, st |-> "sent", edited |-> FALSE, raced |-> FALSE]
  <2>1. /\ ask \in born /\ calls' = calls \cup {new}
        /\ UNCHANGED <<saved, born, form, loc, ask>>
    BY <1>0, <1>8 DEF ConfirmDelete, storeVars, pageVars
  <2>2. new.id = ask /\ ~new.here
    OBVIOUS
  <2> HIDE DEF new
  <2> QED
    BY <2>1, <2>2
       DEF FormInv, VerdictIsOfForm, CallsAreOfForm, FormIsSomewhere, BornBeforeSaved
<1>9. CASE Import
  <2>1. PICK S \in SUBSET (Ids \ born) : saved' = saved \cup S /\ born' = born \cup S
    BY <1>9 DEF Import
  <2>2. UNCHANGED <<form, calls, loc, ask>>
    BY <1>9 DEF Import, pageVars
  <2> QED
    BY <2>1, <2>2
       DEF FormInv, VerdictIsOfForm, CallsAreOfForm, FormIsSomewhere, BornBeforeSaved
<1>10. CASE Restart
  BY <1>0, <1>10, FormGoes DEF Restart, storeVars
<1>11. ASSUME NEW c \in calls, SetLands(c)
       PROVE  FormInv'
  <2>1. \E st : calls' \subseteq (calls \ {c}) \cup {[c EXCEPT !.st = st]}
    BY <1>11 DEF SetLands
  <2>2. UNCHANGED <<saved, born, form, loc, ask>>
    BY <1>11 DEF SetLands, storeVars, pageVars
  <2>3. \A st : SameToForm(c, [c EXCEPT !.st = st])
    BY <1>0, LandedSameToForm
  <2>4. \A d \in calls' : \E b \in calls : SameToForm(b, d)
    BY <1>0, <2>1, <2>3 DEF SameToForm
  <2> QED
    BY <1>0, <2>2, <2>4, FormUndisturbed
<1>12. ASSUME NEW c \in calls, EraseLands(c)
       PROVE  FormInv'
  <2>1. \E st : calls' = Raced(calls \ {c}, c.id, {"save"}) \cup {[c EXCEPT !.st = st]}
    BY <1>12 DEF EraseLands
  <2>2. UNCHANGED <<saved, born, form, loc, ask>>
    BY <1>12 DEF EraseLands, storeVars, pageVars
  <2>3. \A d \in Raced(calls \ {c}, c.id, {"save"}) : \E b \in calls : SameToForm(b, d)
    BY <1>0, LandedSameToForm DEF Raced
  <2>4. \A st : SameToForm(c, [c EXCEPT !.st = st])
    BY <1>0, LandedSameToForm
  <2> QED
    BY <1>0, <2>1, <2>2, <2>3, <2>4, FormUndisturbed
<1>13. ASSUME NEW c \in calls, TestStored(c)
       PROVE  FormInv'
  <2>1. UNCHANGED <<saved, born, loc, ask>>
    BY <1>13 DEF TestStored, storeVars
  <2>2. CASE c.st = "ok"
    <3>1. /\ calls' = (calls \ {c}) \cup {[c EXCEPT !.do = "try", !.st = "sent"]}
          /\ form' = form
      BY <1>13, <2>2 DEF TestStored
    <3>2. SameToForm(c, [c EXCEPT !.do = "try", !.st = "sent"])
      BY <1>0, LandedSameToForm
    <3> QED
      BY <1>0, <2>1, <3>1, <3>2, FormUndisturbed
  <2>3. CASE c.st # "ok"
    BY <1>13, <2>1, <2>3, ShownStays DEF TestStored
  <2> QED
    BY <2>2, <2>3
<1>14. ASSUME NEW c \in calls, Tried(c)
       PROVE  FormInv'
  BY <1>14, ShownStays DEF Tried, storeVars
<1>15. ASSUME NEW c \in calls, SaveStored(c)
       PROVE  FormInv'
  <2>1. CASE Refused(c)
    BY <1>15, <2>1, ShownStays DEF SaveStored, storeVars
  <2>2. CASE ~Refused(c)
    <3>1. /\ calls' = Deserted(calls \ {c}, "schema") /\ saved' = saved \cup {c.id} /\ born' = born
          /\ form' = NoForm /\ ask' \in {ask, None}
      BY <1>15, <2>2 DEF SaveStored, Upserted, Go
    <3> QED
      BY <1>0, <3>1, DesertedReachNobody, FormGoes
  <2> QED
    BY <2>1, <2>2
<1>16. ASSUME NEW c \in calls, Removed(c)
       PROVE  FormInv'
  <2>1. saved' = saved \ {c.id} /\ born' = born /\ ask' \in {ask, None}
    BY <1>16 DEF Removed, Go
  <2>2. CASE loc.cid = c.id
    <3>1. calls' = Deserted(calls \ {c}, "connections") /\ form' = NoForm
      BY <1>16, <2>2 DEF Removed
    <3> QED
      BY <1>0, <2>1, <3>1, DesertedReachNobody, FormGoes
  <2>3. CASE loc.cid # c.id
    <3>1. calls' = calls \ {c} /\ form' = form /\ loc' = [loc EXCEPT !.quiet = FALSE]
      BY <1>16, <2>3 DEF Removed
    <3>2. loc'.path = loc.path
      BY <3>1 DEF StoreInv
    <3> QED
      BY <1>0, <2>1, <3>1, <3>2
         DEF FormInv, VerdictIsOfForm, CallsAreOfForm, FormIsSomewhere, BornBeforeSaved
  <2> QED
    BY <2>2, <2>3
<1>18. ASSUME NEW id \in Ids, PagesAsk(id)
       PROVE  FormInv'
  BY <1>0, <1>18, FormUndisturbed DEF PagesAsk, storeVars, pageVars
<1>17. CASE UNCHANGED vars
  BY <1>0, <1>17, FormUndisturbed DEF vars, storeVars, pageVars
<1> QED
  BY <1>1, <1>2, <1>3, <1>4, <1>5, <1>6, <1>7, <1>8, <1>9, <1>10,
     <1>11, <1>12, <1>13, <1>14, <1>15, <1>16, <1>17, <1>18
     DEF Next
-----------------------------------------------------------------------------
\* An application that starts with the profiles of an earlier one.
LEMMA InitStore == Init => StoreInv /\ FormInv
<1> SUFFICES ASSUME Init
             PROVE  StoreInv /\ FormInv
  OBVIOUS
<1> USE ConnectionsAssumption
<1>1. /\ saved = born /\ saved \subseteq Ids /\ inline \subseteq saved
      /\ gave \subseteq saved /\ mirror \subseteq saved /\ disk \subseteq saved
  BY DEF Init
<1>2. loc \in [path : Paths, cid : Ids \cup {None}, quiet : BOOLEAN]
      /\ PagesAreOfSaved /\ UsedIsHere
  BY DEF Init, Paths, PagesAreOfSaved, UsedIsHere, ScopedPaths
<1>3. MetaIsOfSaved
  BY <1>1, EmptySeq DEF Init, MetaIsOfSaved, Once
<1>4. FormInv
  BY <1>1 DEF Init, FormInv, VerdictIsOfForm, CallsAreOfForm, FormIsSomewhere, BornBeforeSaved,
     NoForm
<1> QED
  BY <1>1, <1>2, <1>3, <1>4 DEF Init, StoreInv

\* Routes, profiles, forms, calls and secrets stay in order, for any profiles.
THEOREM InvariantHolds == Spec => []IInv
<1>1. Init => SecretsInv /\ StoreInv /\ FormInv
  BY InitSecrets, InitStore
<1>2. SecretsInv /\ StoreInv /\ FormInv /\ [Next]_vars => (SecretsInv /\ StoreInv /\ FormInv)'
  BY NextSecrets, NextStore, NextForm DEF SecretsInv
<1>3. SecretsInv /\ StoreInv /\ FormInv => IInv
  <2>1. MetaIsOfSaved /\ CallsOK => used \in Seq(Ids)
    BY SeqMonotonic DEF MetaIsOfSaved, CallsOK
  <2> QED
    BY <2>1 DEF IInv, TypeOK, StoreInv, FormInv, SecretsInv
<1> QED
  BY <1>1, <1>2, <1>3, PTL DEF Spec

===============================================================================
