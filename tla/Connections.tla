------------------------------ MODULE Connections ------------------------------
(***************************************************************************)
(* Connection profiles, the passwords kept for them in the secrets store,  *)
(* the form that edits one, and the deletion that the sidebar asks for.    *)
(*                                                                         *)
(* A profile lives in localStorage; its password lives in an encrypted     *)
(* file which the backend mirrors in memory. Every write of a password is  *)
(* a command that lands at the backend and returns to the page later, and  *)
(* the page, the form, or the profile may be gone by then.                 *)
(*                                                                         *)
(* Of a password only its presence is kept. The three slots of a profile   *)
(* (password, tunnel password, key passphrase) are treated alike, and the  *)
(* module follows any one of them: a command that goes through the slots   *)
(* may fail before, at or after this one. The fields of a form are told    *)
(* apart by the edit that made them. Left out: what they hold, which       *)
(* password a pool was opened with, the username, whose edits do not reset *)
(* a Test, the discovery of a bastion's key, the labels that say a         *)
(* password is saved, and the text of an import.                           *)
(***************************************************************************)
EXTENDS Naturals, Sequences, FiniteSets

CONSTANTS Ids, MaxGestures, None

ASSUME ConnectionsAssumption ==
  /\ None \notin Ids
  /\ MaxGestures \in Nat

Paths == {"home", "connections", "new", "edit", "sql", "schema"}
ScopedPaths == {"edit", "sql", "schema"}

VARIABLES
  saved,    \* the ids of useConnections.profiles
  inline,   \* those whose password is still in the profile (the older format)
  fields,   \* the edit that made the fields of the saved profile, 0 at first
  pinned,   \* meta[id].pinned
  used,     \* the ids with a lastUsedAt, the latest first
  mirror,   \* the ids with a secret in SecretsStore.cache
  disk,     \* the ids with a secret in its file
  reached,  \* the fields that the backend was asked with since it started
  loc,      \* the route: path, cid, and whether only the cid changed last
  form,     \* the mounted ConnectionForm
  calls,    \* commands that have not returned
  ask,      \* pendingDelete of the shell
  born,     \* ids that newProfile has given out
  gave,     \* saved profiles that a password was given for
  tried,    \* ids that had a secret stored or left since the last save or erasure
  lost,     \* ids saved without the password that was given for them
  gestures

storeVars == <<saved, inline, fields, pinned, used>>
secretVars == <<mirror, disk>>
backendVars == <<secretVars, reached>>
pageVars == <<loc, form, ask>>
ghostVars == <<gave, tried, lost>>
vars == <<storeVars, backendVars, pageVars, calls, born, ghostVars, gestures>>

\* rev is the edit that made the fields; of is the one that the verdict is about,
\* None if they are some other fields of the profile; late says that the form was
\* edited while that Test was out, and pooled that the backend had been asked with
\* other fields before.
NoForm == [id |-> None, typed |-> FALSE, rev |-> 0, test |-> "idle", of |-> 0,
           late |-> FALSE, pooled |-> FALSE]

Kinds == {"migrate", "test", "try", "save", "delete"}

Forms == [id : Ids \cup {None}, typed : BOOLEAN, rev : Nat, of : Nat \cup {None},
          test : {"idle", "loading", "ok", "error"}, late : BOOLEAN, pooled : BOOLEAN]

\* here says that the form of the call is mounted, shell that its shell is.
Calls == [n : Nat, do : Kinds, id : Ids, rev : Nat, here : BOOLEAN, shell : BOOLEAN,
          st : {"sent", "ok", "failed"}, edited : BOOLEAN, raced : BOOLEAN]

\* The part of the types that the calls, the form and a password depend on.
CallsOK ==
  /\ saved \subseteq Ids /\ inline \subseteq saved
  /\ fields \in [Ids -> Nat] /\ reached \in [Ids -> SUBSET Nat]
  /\ form \in Forms /\ calls \subseteq Calls
  /\ ask \in Ids \cup {None}
  /\ gestures \in Nat

TypeOK ==
  /\ CallsOK
  /\ pinned \subseteq Ids /\ used \in Seq(Ids)
  /\ mirror \subseteq Ids /\ disk \subseteq Ids
  /\ loc \in [path : Paths, cid : Ids \cup {None}, quiet : BOOLEAN]
  /\ born \subseteq Ids
  /\ gave \subseteq Ids /\ tried \subseteq Ids /\ lost \subseteq Ids
  /\ gestures <= MaxGestures

Init ==
  /\ \E S \in SUBSET Ids : saved = S /\ born = S
  /\ \E I \in SUBSET saved, D \in SUBSET saved :
       inline = I /\ disk = D /\ mirror = D /\ gave = I \cup D
  /\ fields = [id \in Ids |-> 0] /\ reached = [id \in Ids |-> {}]
  /\ pinned = {} /\ used = <<>>
  /\ loc = [path |-> "home", cid |-> None, quiet |-> FALSE]
  /\ form = NoForm /\ calls = {} /\ ask = None
  /\ tried = {} /\ lost = {} /\ gestures = 0

Gesture == gestures < MaxGestures /\ gestures' = gestures + 1

\* The deletion dialog is modal.
FreeGesture == Gesture /\ ask = None

-----------------------------------------------------------------------------
(* Routes: every page but the home page mounts the shell.                  *)

\* The order of last use without id. As meta is a record, an id is there once.
Without(u, id) ==
  IF \E k \in DOMAIN u : u[k] = id
  THEN LET k == CHOOSE k \in DOMAIN u : u[k] = id
       IN  SubSeq(u, 1, k - 1) \o SubSeq(u, k + 1, Len(u))
  ELSE u

\* The shell's effect: markUsed of the id in the address, if it is saved.
Marked(u, id, S) == IF id \in S THEN <<id>> \o Without(u, id) ELSE u

\* The effect runs again when the profiles change under a mounted shell.
Refreshed(S) == IF loc.path = "home" THEN used ELSE Marked(used, loc.cid, S)

\* The calls of a form that is unmounted no longer reach it, nor those of a shell
\* that is; a page keeps its shell while only the cid changes.
Deserted(cs, path) ==
  {[c EXCEPT !.here = FALSE, !.shell = c.shell /\ path = loc.path] : c \in cs}

Mounted(id) == [NoForm EXCEPT !.id = id, !.rev = fields[id]]

\* Go to another page: a changed path runs the shell's effect, a changed cid
\* alone does not. u is what lastUsedAt holds by then.
Go(path, cid, S, u) ==
  /\ loc' = [path |-> path, cid |-> cid,
             quiet |-> path = loc.path /\ (cid # loc.cid \/ loc.quiet)]
  /\ used' = IF path = loc.path \/ path = "home" THEN u ELSE Marked(u, cid, S)
  /\ ask' = IF path = loc.path THEN ask ELSE None

\* A link to a page, or the palette, which opens over a dialog too. The form of
\* the edit page is not keyed by its profile: it stays when only the cid changes.
Visit(path, cid) ==
  /\ Gesture
  /\ IF path \in ScopedPaths THEN cid \in saved ELSE cid = None
  /\ <<path, cid>> # <<loc.path, loc.cid>>
  /\ Go(path, cid, saved, used)
  /\ IF path = "edit" /\ loc.path = "edit" /\ form.id # None
     THEN UNCHANGED <<form, calls, born>>
     ELSE /\ IF path = "new"
             THEN \E id \in Ids \ born : form' = Mounted(id) /\ born' = born \cup {id}
             ELSE /\ form' = IF path = "edit" THEN Mounted(cid) ELSE NoForm
                  /\ UNCHANGED born
          /\ calls' = Deserted(calls, path) \cup
               (IF path = "edit" /\ cid \in inline
                THEN {[n |-> gestures, do |-> "migrate", id |-> cid, rev |-> fields[cid],
                       here |-> TRUE, shell |-> TRUE, st |-> "sent", edited |-> FALSE,
                       raced |-> FALSE]}
                ELSE {})
  /\ UNCHANGED <<saved, inline, fields, pinned, backendVars, ghostVars>>

\* Pin to top, or unpin.
TogglePinned(id) ==
  /\ FreeGesture
  /\ loc.path # "home" /\ id \in saved
  /\ pinned' = (pinned \ {id}) \cup ({id} \ pinned)
  /\ UNCHANGED <<saved, inline, fields, used, backendVars, pageVars, calls, born,
                 ghostVars>>

-----------------------------------------------------------------------------
(* The secrets store.                                                      *)

\* Calls of another kind for id that are out while one lands.
Raced(cs, id, kinds) ==
  {IF c.id = id /\ c.do \in kinds THEN [c EXCEPT !.raced = TRUE] ELSE c : c \in cs}

Setting == {"migrate", "test", "save"}

\* set_secret, at the backend: a write changes the mirror, then replaces the
\* file with all of it. It can fail before the first or before the second, or
\* the one of a later slot can. Nothing waits for a migration.
SetLands(c) ==
  /\ c.st = "sent" /\ c.do \in Setting
  /\ \E st \in {"ok", "failed"} :
       /\ \/ mirror' = mirror \cup {c.id} /\ disk' = mirror'
          \/ st = "failed" /\ mirror' = mirror \cup {c.id} /\ UNCHANGED disk
          \/ st = "failed" /\ UNCHANGED secretVars
       /\ calls' = (calls \ {c}) \cup
                   (IF c.do = "migrate" THEN {} ELSE {[c EXCEPT !.st = st]})
       /\ lost' = IF st = "ok" THEN lost \ {c.id} ELSE lost
  /\ tried' = tried \cup {c.id}
  /\ UNCHANGED <<storeVars, reached, pageVars, born, gave, gestures>>

\* A slot that the mirror does not hold is not written.
Erased(id) ==
  IF id \in mirror THEN mirror' = mirror \ {id} /\ disk' = mirror'
                   ELSE UNCHANGED secretVars

\* delete_secrets, at the backend: it stops at the first slot that fails.
EraseLands(c) ==
  /\ c.st = "sent" /\ c.do = "delete"
  /\ \E st \in {"ok", "failed"} :
       /\ \/ Erased(c.id)
          \/ st = "failed" /\ c.id \in mirror /\ mirror' = mirror \ {c.id} /\ UNCHANGED disk
          \/ st = "failed" /\ UNCHANGED secretVars
       /\ calls' = Raced(calls \ {c}, c.id, {"save"}) \cup {[c EXCEPT !.st = st]}
       /\ tried' = IF st = "failed" THEN tried \cup {c.id} ELSE tried \ ({c.id} \cap mirror)
  /\ UNCHANGED <<storeVars, reached, pageVars, born, gave, lost, gestures>>

-----------------------------------------------------------------------------
(* The form.                                                               *)

\* A call made by the form, with the fields as they are.
Call(do) == [n |-> gestures, do |-> do, id |-> form.id, rev |-> form.rev,
             here |-> TRUE, shell |-> TRUE, st |-> "sent", edited |-> FALSE,
             raced |-> FALSE]

\* Mutant: an edit leaves the verdict of the last Test.
EditedKeepsVerdict(f) == [f EXCEPT !.rev = gestures + 1]

\* setField and its likes: the verdict is reset.
Edited(f) ==
  [f EXCEPT !.rev = gestures + 1, !.test = "idle", !.of = 0, !.late = FALSE, !.pooled = FALSE]

\* An edit of a field, of the tunnel or of the engine; typed, of the password.
Edit(typed) ==
  /\ FreeGesture
  /\ form.id # None
  /\ form' = [Edited(form) EXCEPT !.typed = typed \/ form.typed]
  /\ calls' = {IF c.here THEN [c EXCEPT !.edited = TRUE] ELSE c : c \in calls}
  /\ UNCHANGED <<storeVars, backendVars, loc, ask, born, ghostVars>>

\* The backend is asked of a profile with the fields of rev.
Asked(id, rev) == [reached EXCEPT ![id] = @ \cup {rev}]

\* onTest. A typed password is stored first, whether the profile is saved or not.
Test ==
  /\ FreeGesture
  /\ form.id # None /\ form.test # "loading"
  /\ form' = [form EXCEPT !.test = "loading"]
  /\ calls' = calls \cup {Call(IF form.typed THEN "test" ELSE "try")}
  /\ reached' = IF form.typed THEN reached ELSE Asked(form.id, form.rev)
  /\ UNCHANGED <<storeVars, secretVars, loc, ask, born, ghostVars>>

\* The pages, the sidebar and the palette work with a saved profile.
PagesAsk(id) ==
  /\ id \in saved /\ fields[id] \notin reached[id]
  /\ reached' = Asked(id, fields[id])
  /\ Gesture
  /\ UNCHANGED <<storeVars, secretVars, pageVars, calls, born, ghostVars>>

\* The backend was asked of this profile with other fields.
Pooled(c) == ~(reached[c.id] \subseteq {c.rev})

\* What a form that may be gone shows of a call's end.
Shown(c, verdict, of) ==
  IF c.here
  THEN [form EXCEPT !.test = verdict, !.of = of, !.late = c.edited, !.pooled = Pooled(c)]
  ELSE form

TestStored(c) ==
  /\ c.do = "test" /\ c.st # "sent"
  /\ IF c.st = "ok"
     THEN calls' = (calls \ {c}) \cup {[c EXCEPT !.do = "try", !.st = "sent"]}
          /\ reached' = Asked(c.id, c.rev)
          /\ UNCHANGED form
     ELSE calls' = calls \ {c} /\ form' = Shown(c, "error", c.rev) /\ UNCHANGED reached
  /\ UNCHANGED <<storeVars, secretVars, loc, ask, born, ghostVars, gestures>>

\* test_connection returns: ping takes the pool that is cached for the id, or
\* opens one through the tunnel that is, whatever fields they were opened with.
\* What an earlier call for the id leaves there, a later one meets.
Tried(c) ==
  /\ c.do = "try"
  /\ \E verdict \in {"ok", "error"}, of \in {c.rev} \cup (IF Pooled(c) THEN {None} ELSE {}) :
       form' = Shown(c, verdict, of)
  /\ calls' = calls \ {c}
  /\ UNCHANGED <<storeVars, backendVars, loc, ask, born, ghostVars, gestures>>

\* upsert(sanitizedProfile()), which carries no password, then the push to the
\* schema page from wherever the user is by now.
Upserted(id, rev) ==
  /\ saved' = saved \cup {id} /\ inline' = inline \ {id}
  /\ fields' = [fields EXCEPT ![id] = rev]
  /\ Go("schema", id, saved', Refreshed(saved'))
  /\ form' = NoForm
  /\ UNCHANGED <<pinned, backendVars, born>>

\* onSave with nothing typed has nothing to wait for.
Save ==
  /\ FreeGesture
  /\ form.id # None
  /\ IF form.typed
     THEN /\ calls' = calls \cup {Call("save")}
          /\ UNCHANGED <<storeVars, backendVars, pageVars, born, ghostVars>>
     ELSE /\ Upserted(form.id, form.rev)
          /\ calls' = Deserted(calls, "schema")
          /\ lost' = IF form.id \in inline /\ form.id \notin disk
                     THEN lost \cup {form.id} ELSE lost
          /\ UNCHANGED <<gave, tried>>

\* The secrets of id were erased and its profile is about to go.
Erasing(id) == \E c \in calls : c.do = "delete" /\ c.id = id /\ c.st # "sent"

\* Mutant: a password that could not be stored does not stop the save.
RefusedNever(c) == FALSE

\* The early return of onSave.
Refused(c) == c.st = "failed"

SaveStored(c) ==
  /\ c.do = "save" /\ c.st # "sent"
  /\ IF Refused(c)
     THEN /\ form' = Shown(c, "error", c.rev) /\ calls' = calls \ {c}
          /\ UNCHANGED <<storeVars, backendVars, loc, ask, born, ghostVars>>
     ELSE /\ Upserted(c.id, c.rev)
          /\ calls' = Deserted(calls \ {c}, "schema")
          /\ gave' = gave \cup {c.id}
          /\ tried' = IF c.raced \/ Erasing(c.id) THEN tried ELSE tried \ {c.id}
          /\ lost' = IF c.raced THEN lost \cup {c.id} ELSE lost
  /\ UNCHANGED gestures

-----------------------------------------------------------------------------
(* Deletion and import.                                                    *)

AskDelete(id) ==
  /\ FreeGesture
  /\ loc.path # "home" /\ id \in saved
  /\ ask' = id
  /\ UNCHANGED <<storeVars, backendVars, loc, form, calls, born, ghostVars>>

CancelDelete ==
  /\ Gesture
  /\ ask # None /\ ask' = None
  /\ UNCHANGED <<storeVars, backendVars, loc, form, calls, born, ghostVars>>

\* confirmDelete, up to its await: the dialog stays.
ConfirmDelete ==
  /\ Gesture
  /\ ask # None
  /\ calls' = calls \cup {[n |-> gestures, do |-> "delete", id |-> ask, rev |-> 0,
                           here |-> FALSE, shell |-> TRUE, st |-> "sent",
                           edited |-> FALSE, raced |-> FALSE]}
  /\ UNCHANGED <<storeVars, backendVars, pageVars, born, ghostVars>>

\* The rest of it, whether or not the secrets went: remove, close the dialog of
\* the shell that asked, and leave the pages of this profile.
Removed(c) ==
  /\ c.do = "delete" /\ c.st # "sent"
  /\ saved' = saved \ {c.id} /\ inline' = inline \ {c.id} /\ pinned' = pinned \ {c.id}
  /\ gave' = gave \ {c.id} /\ lost' = lost \ {c.id}
  /\ IF loc.cid = c.id
     THEN /\ Go("connections", None, saved', Without(used, c.id))
          /\ form' = NoForm
          /\ calls' = Deserted(calls \ {c}, "connections")
     ELSE /\ used' = IF loc.path = "home" THEN Without(used, c.id)
                     ELSE Marked(Without(used, c.id), loc.cid, saved')
          /\ loc' = [loc EXCEPT !.quiet = FALSE]
          /\ ask' = IF c.shell THEN None ELSE ask
          /\ calls' = calls \ {c}
          /\ UNCHANGED form
  /\ UNCHANGED <<fields, backendVars, born, tried, gestures>>

\* apply of ImportConnectionsDialog: new profiles, without passwords.
Import ==
  /\ FreeGesture
  /\ loc.path = "connections"
  /\ \E S \in SUBSET (Ids \ born) :
       S # {} /\ saved' = saved \cup S /\ born' = born \cup S
  /\ used' = Refreshed(saved')
  /\ UNCHANGED <<inline, fields, pinned, backendVars, pageVars, calls, ghostVars>>

\* The application ends and starts again: localStorage and the file are left.
Restart ==
  /\ Gesture
  /\ loc' = [path |-> "home", cid |-> None, quiet |-> FALSE]
  /\ form' = NoForm /\ calls' = {} /\ ask' = None
  /\ mirror' = disk /\ reached' = [id \in Ids |-> {}]
  /\ lost' = lost \cup {c.id : c \in {c \in calls : c.do = "delete" /\ c.st # "sent"}}
  /\ UNCHANGED <<storeVars, disk, born, gave, tried>>

Next ==
  \/ \E path \in Paths, cid \in Ids \cup {None} : Visit(path, cid)
  \/ \E id \in Ids : TogglePinned(id)
  \/ \E id \in Ids : PagesAsk(id)
  \/ \E typed \in BOOLEAN : Edit(typed)
  \/ Test
  \/ Save
  \/ \E id \in Ids : AskDelete(id)
  \/ CancelDelete
  \/ ConfirmDelete
  \/ Import
  \/ Restart
  \/ \E c \in calls : SetLands(c)
  \/ \E c \in calls : EraseLands(c)
  \/ \E c \in calls : TestStored(c)
  \/ \E c \in calls : Tried(c)
  \/ \E c \in calls : SaveStored(c)
  \/ \E c \in calls : Removed(c)

Spec == Init /\ [][Next]_vars

-----------------------------------------------------------------------------
(* Properties.                                                             *)

\* What is known of a profile beside it is of a saved one: pins, last use,
\* inline passwords (store/connections.ts).
Once(u) == \A i, j \in DOMAIN u : u[i] = u[j] => i = j
MetaIsOfSaved ==
  /\ inline \cup pinned \cup gave \subseteq saved
  /\ used \in Seq(saved) /\ Once(used)

\* A page of one connection is never on a connection that is gone.
PagesAreOfSaved ==
  IF loc.path \in ScopedPaths THEN loc.cid \in saved ELSE loc.cid = None

\* The connection on the page is the one that was used last, unless only the
\* cid of the address changed to reach it.
UsedIsHere ==
  loc.path \in ScopedPaths /\ ~loc.quiet => used # <<>> /\ Head(used) = loc.cid

\* "Connection successful." is about the fields as they are, unless the form was
\* edited while the Test was out, or the backend had been asked of the profile
\* with other fields since it started: then their pool, or their tunnel, may
\* have answered.
VerdictIsOfForm == form.test = "ok" => form.of = form.rev \/ form.late \/ form.pooled

\* What the button and its "Connection successful." say: a Test checks the fields
\* that are on the form. It does not hold (VerdictIsOfForm says what does).
TestChecksTheForm == form.test = "ok" => form.of = form.rev \/ form.late

\* A call that reaches the form is of the form's own profile and fields.
CallsAreOfForm ==
  \A c \in calls : c.here =>
    /\ form.id = c.id
    /\ c.rev = form.rev \/ c.edited

FormIsSomewhere ==
  form.id # None => loc.path \in {"new", "edit"} /\ form.id \in born

BornBeforeSaved ==
  saved \subseteq born /\ ask \in born \cup {None} /\ \A c \in calls : c.id \in born

\* No password outlives its profile, in memory or in the file, except one that
\* a form stored since, or one whose erasure failed.
SecretsAreOwned == mirror \cup disk \subseteq saved \cup tried

\* A password that was given for a saved profile is still in the profile or in
\* the file, unless the profile was saved while its inline password was not
\* stored or its deletion was under way, or the program ended in between.
PasswordsAreKept ==
  \A id \in gave \cap saved :
    \/ id \in inline \cup disk \cup lost
    \/ Erasing(id)

\* Every profile that is saved has the secrets that were given for it, and no
\* other secret is kept, through failing writes, late answers and restarts.
SecretsFollowProfiles == SecretsAreOwned /\ PasswordsAreKept

\* What makes SecretsFollowProfiles inductive. A secret that an erasure left, and
\* one that only the file holds, has been tried.
LeftoversAreTried ==
  /\ \A id \in mirror \cup disk : Erasing(id) => id \in tried
  /\ disk \ mirror \subseteq tried

\* The secrets of a given password are in the mirror too, so the next write of
\* the file keeps them.
GivenAreMirrored ==
  \A id \in gave :
    \/ id \in inline \cup (disk \cap mirror) \cup lost
    \/ Erasing(id)

\* Only an erasure takes a given password out of the mirror alone.
FileAloneIsErasing ==
  \A id \in gave : id \in disk \ mirror => Erasing(id) \/ id \in lost

\* A save that stored its password finds it stored, unless an erasure came between.
StoredIsThere ==
  \A c \in calls : c.do = "save" /\ c.st = "ok" =>
    c.raced \/ c.id \in disk \cap mirror

SecretsInv ==
  /\ CallsOK /\ SecretsAreOwned /\ LeftoversAreTried /\ GivenAreMirrored
  /\ FileAloneIsErasing /\ StoredIsThere

\* The order of routes, profiles, forms and calls, and what the secrets rest on.
IInv ==
  /\ TypeOK /\ MetaIsOfSaved /\ PagesAreOfSaved /\ UsedIsHere
  /\ VerdictIsOfForm /\ CallsAreOfForm /\ FormIsSomewhere /\ BornBeforeSaved
  /\ SecretsInv
=============================================================================
