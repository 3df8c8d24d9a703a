----------------------------- MODULE MobileCore -----------------------------
(* The core of the mobile apps: one vault session behind a lock, three     *)
(* caches of decrypted material beside it (the last deleted item, a        *)
(* prepared import, the one-time-password generators of the item on        *)
(* screen), and the requests of the screens, which run on a pool of        *)
(* threads and meet only at the session, the caches and the vault.  Each   *)
(* step below is one critical section or one request to the vault.         *)
EXTENDS Naturals, FiniteSets

CONSTANTS
  Threads,      \* threads that run requests
  Items,        \* identifiers of login items
  Secrets,      \* passwords and one-time-password keys
  Gone,         \* an item that does not exist; an empty cache
  MaxSessions,  \* times the vault is opened
  MaxCalls      \* requests in all

ASSUME MobileAssumption ==
  /\ MaxSessions \in Nat /\ MaxCalls \in Nat

VARIABLES
  core,         \* the vault directory, the session and the three caches
  items,        \* the personal items stored in the vault
  calls,        \* what each thread is doing
  manager,      \* the sync manager and the name it was started with
  used,         \* requests made
  overlapped    \* ghost: a request was running when the caches were cleared

mvars == <<core, items, calls, manager, used, overlapped>>

\* A website and an app; a login lists the ones it is for.
Sites == {"web", "app"}

Logins == [secret : Secrets, sites : SUBSET Sites]

Resting == [kind |-> "none", at |-> "rest", item |-> Gone, seen |-> Gone,
            value |-> Gone, site |-> "web", todo |-> {}, service |-> 0]

Kinds == {"create", "unlock", "seal", "status", "item", "codes", "save", "favorite",
          "delete", "restore", "import", "commit", "replace", "cancel", "fill", "savelogin",
          "syncstart", "syncstop", "pair"}

\* What the arguments of a request range over.
ItemsOf(kind) == IF kind \in {"item", "codes", "save", "favorite", "delete", "import", "fill"}
                 THEN Items ELSE {Gone}
VersionsOf(kind) == CASE kind = "save" -> Logins \cup {Gone} [] kind = "delete" -> Logins
                      [] OTHER -> {Gone}
ValuesOf(kind) == IF kind \in {"save", "import", "savelogin"}
                  THEN {[secret |-> s, sites |-> {"web"}] : s \in Secrets} ELSE {Gone}
SitesOf(kind) == IF kind \in {"fill", "savelogin"} THEN Sites ELSE {"web"}

-----------------------------------------------------------------------------
(* Moving a thread.                                                        *)

On(t, step) == calls[t].at = step

Turns(t, step) == calls' = [calls EXCEPT ![t].at = step]

Returns(t) == calls' = [calls EXCEPT ![t] = Resting]

\* The service in the session answers.
Alive == core.session # 0 /\ ~core.ended

\* live: a session whose lease ran out is dropped before the caches are.
NotLive(t) ==
  /\ ~Alive
  /\ IF core.ended
     THEN core' = [core EXCEPT !.session = 0, !.ended = FALSE] /\ Turns(t, "clear")
     ELSE UNCHANGED core /\ Returns(t)
  /\ UNCHANGED items

\* clear_restore, clear_import and clear_codes.
Cleared(c) == [c EXCEPT !.restore = Gone, !.import = Gone, !.codes = Gone]

-----------------------------------------------------------------------------
(* Requests.  A request begins where its first critical section is.        *)

Begins(kind) ==
  CASE kind \in {"create", "unlock"} -> "exists"
    [] kind = "seal" -> "seal"
    [] kind \in {"status", "codes", "import", "commit", "replace"} -> "live"
    [] kind \in {"item", "favorite", "delete", "fill"} -> "read"
    [] kind = "restore" -> "take"
    [] kind = "cancel" -> "cancel"
    [] kind = "savelogin" -> "list"
    [] OTHER -> kind

\* handle: a save of a new item has no version and reads nothing.
Calls(t, kind) ==
  /\ On(t, "rest") /\ used < MaxCalls
  /\ used' = used + 1
  /\ \E i \in ItemsOf(kind), seen \in VersionsOf(kind), value \in ValuesOf(kind), site \in SitesOf(kind) :
       calls' = [calls EXCEPT ![t] =
         [Resting EXCEPT !.kind = kind, !.item = i, !.seen = seen, !.value = value, !.site = site,
            !.at = IF kind # "save" THEN Begins(kind) ELSE IF seen = Gone THEN "drop" ELSE "read"]]
  /\ UNCHANGED <<core, items, manager, overlapped>>

\* require_live of status, codes, import and commit_import.
Live(t) ==
  /\ On(t, "live")
  /\ \/ NotLive(t)
     \/ /\ Alive
        /\ CASE calls[t].kind = "status" -> Returns(t)
             [] calls[t].kind = "codes" -> Turns(t, "cached")
             [] calls[t].kind = "import" -> Turns(t, "prepare")
             [] OTHER -> calls' = [calls EXCEPT ![t].at = "take", ![t].service = core.session]
        /\ UNCHANGED <<core, items>>
  /\ UNCHANGED <<manager, used, overlapped>>

\* A variant of the expiry path that forgets the generators.
ClearKeepsCodes(t) ==
  /\ On(t, "clear")
  /\ core' = [core EXCEPT !.restore = Gone, !.import = Gone]
  /\ overlapped' = (overlapped \/ \E u \in Threads \ {t} : ~On(u, "rest"))
  /\ IF calls[t].kind = "unlock" THEN Turns(t, "open") ELSE Returns(t)
  /\ UNCHANGED <<items, manager, used>>

\* The caches are cleared after the session's lock is released.
Clear(t) ==
  /\ On(t, "clear")
  /\ core' = Cleared(core)
  /\ overlapped' = (overlapped \/ \E u \in Threads \ {t} : ~On(u, "rest"))
  /\ IF calls[t].kind = "unlock" THEN Turns(t, "open") ELSE Returns(t)
  /\ UNCHANGED <<items, manager, used>>

-----------------------------------------------------------------------------
(* The session.                                                            *)

\* create and unlock look at the directory first; unlock returns when a
\* session is live.  Making the vault can fail, and leaves nothing then.
Exists(t) ==
  /\ On(t, "exists")
  /\ IF calls[t].kind = "create"
     THEN \/ /\ core.vault = "absent"
             /\ core' = [core EXCEPT !.vault = "made"]
             /\ Turns(t, "open")
          \/ Returns(t) /\ UNCHANGED core
     ELSE \/ /\ core.vault # "absent" /\ core.session # 0 /\ core.ended
             /\ core' = [core EXCEPT !.session = 0, !.ended = FALSE]
             /\ Turns(t, "clear")
          \/ /\ core.vault # "absent" /\ core.session = 0
             /\ Turns(t, "open") /\ UNCHANGED core
          \/ Returns(t) /\ UNCHANGED core
  /\ UNCHANGED <<items, manager, used, overlapped>>

\* open: the store's lock admits one service, and a database exists exactly
\* when the vault was opened before.  A creation that fails here discards.
Open(t) ==
  /\ On(t, "open")
  /\ \/ /\ ~Alive /\ core.opened < MaxSessions
        /\ core.vault = IF calls[t].kind = "create" THEN "made" ELSE "ready"
        /\ core' = [core EXCEPT !.vault = "ready", !.session = core.opened + 1,
                                !.ended = FALSE, !.opened = @ + 1]
     \/ core' = IF calls[t].kind = "create" THEN [core EXCEPT !.vault = "absent"] ELSE core
  /\ Returns(t)
  /\ UNCHANGED <<items, manager, used, overlapped>>

\* seal: the service is taken and sealed under the session's lock.
Seals(t) ==
  /\ On(t, "seal")
  /\ core' = [core EXCEPT !.session = 0, !.ended = FALSE]
  /\ Turns(t, "clear")
  /\ UNCHANGED <<items, manager, used, overlapped>>

\* The lease runs out: the service seals itself, the session still holds it.
LeaseEnds ==
  /\ Alive
  /\ core' = [core EXCEPT !.ended = TRUE]
  /\ UNCHANGED <<items, calls, manager, used, overlapped>>

-----------------------------------------------------------------------------
(* Items and one-time passwords.                                           *)

\* What a request that has read its item does next.
AfterRead(t, found) ==
  LET kind == calls[t].kind
      linked == calls[t].site \in found.sites IN
  CASE kind = "item" \/ kind = "codes" -> "cache"
    [] kind \in {"save", "delete"} -> IF found = calls[t].seen THEN "drop" ELSE "rest"
    [] kind = "favorite" -> "drop"
    [] linked -> "give"
    [] calls[t].site = "app" -> "drop"
    [] OTHER -> "rest"

\* read: the item's digest is the version the later write expects.  A login
\* filled into an app it is not linked to is linked first.
Reads(t) ==
  /\ On(t, "read")
  /\ LET found == items[calls[t].item] IN
     \/ NotLive(t)
     \/ /\ Alive /\ found = Gone
        /\ Returns(t) /\ UNCHANGED <<core, items>>
     \/ /\ Alive /\ found # Gone
        /\ IF AfterRead(t, found) = "rest" THEN Returns(t)
           ELSE calls' = [calls EXCEPT
                  ![t].at = AfterRead(t, found),
                  ![t].seen = found,
                  ![t].value = CASE calls[t].kind = "save" -> calls[t].value
                                 [] calls[t].kind = "delete" -> Gone
                                 [] calls[t].kind = "fill" ->
                                      [found EXCEPT !.sites = @ \cup {calls[t].site}]
                                 [] OTHER -> found]
        /\ UNCHANGED <<core, items>>
  /\ UNCHANGED <<manager, used, overlapped>>

\* codes takes the cached generators when they are of the same item.
Cached(t) ==
  /\ On(t, "cached")
  /\ IF core.codes # Gone /\ core.codes.item = calls[t].item
     THEN /\ core' = [core EXCEPT !.codes = Gone]
          /\ calls' = [calls EXCEPT ![t].at = "cache", ![t].value = core.codes.value]
     ELSE Turns(t, "read") /\ UNCHANGED core
  /\ UNCHANGED <<items, manager, used, overlapped>>

\* item and codes leave the generators in the cache.
Caches(t) ==
  /\ On(t, "cache")
  /\ core' = [core EXCEPT !.codes = [item |-> calls[t].item, value |-> calls[t].value]]
  /\ Returns(t)
  /\ UNCHANGED <<items, manager, used, overlapped>>

\* mutate drops the item's generators, then asks the vault.
Drops(t) ==
  /\ On(t, "drop")
  /\ core' = IF core.codes # Gone /\ core.codes.item = calls[t].item
             THEN [core EXCEPT !.codes = Gone] ELSE core
  /\ Turns(t, "put")
  /\ UNCHANGED <<items, manager, used, overlapped>>

\* A variant without it.
UnchangedAlways(t) == TRUE

\* The Check that goes with every mutation.
Unchanged(t) == items[calls[t].item] = calls[t].seen

Stores(t) ==
  /\ On(t, "put")
  /\ \/ NotLive(t)
     \/ /\ Alive /\ Unchanged(t)
        /\ items' = [items EXCEPT ![calls[t].item] = calls[t].value]
        /\ CASE calls[t].kind = "delete" -> Turns(t, "keep")
             [] calls[t].kind = "fill" -> Turns(t, "give")
             [] OTHER -> Returns(t)
        /\ UNCHANGED core
     \/ /\ Alive /\ ~Unchanged(t)
        /\ Returns(t) /\ UNCHANGED <<core, items>>
  /\ UNCHANGED <<manager, used, overlapped>>

\* delete keeps the item it deleted, and restore takes it back.
Keeps(t) ==
  /\ On(t, "keep")
  /\ core' = [core EXCEPT !.restore = [item |-> calls[t].item, value |-> calls[t].seen]]
  /\ Returns(t)
  /\ UNCHANGED <<items, manager, used, overlapped>>

\* fill hands the credentials to the app or the website.
Gives(t) ==
  /\ On(t, "give")
  /\ Returns(t)
  /\ UNCHANGED <<core, items, manager, used, overlapped>>

-----------------------------------------------------------------------------
(* Restoring and importing take their cache before they write.             *)

Takes(t) ==
  /\ On(t, "take")
  /\ LET cache == IF calls[t].kind = "restore" THEN core.restore ELSE core.import IN
     IF cache = Gone THEN Returns(t) /\ UNCHANGED core
     ELSE /\ calls' = [calls EXCEPT ![t].at = IF calls[t].kind = "restore" THEN "drop" ELSE "import",
                                    ![t].item = cache.item, ![t].value = cache.value]
          /\ core' = IF calls[t].kind = "restore" THEN [core EXCEPT !.restore = Gone]
                     ELSE [core EXCEPT !.import = Gone]
  /\ UNCHANGED <<items, manager, used, overlapped>>

\* import: a file that cannot be read or decrypted leaves the last one.
Prepares(t) ==
  /\ On(t, "prepare")
  /\ \/ core' = [core EXCEPT !.import = [item |-> calls[t].item, value |-> calls[t].value]]
     \/ UNCHANGED core
  /\ Returns(t)
  /\ UNCHANGED <<items, manager, used, overlapped>>

\* commit imports without a version: an existing item is kept, or replaced
\* when the user said so.  The service was cloned when the request began.
Imports(t) ==
  /\ On(t, "import")
  /\ items' = IF /\ Alive /\ core.session = calls[t].service
                 /\ items[calls[t].item] = Gone \/ calls[t].kind = "replace"
              THEN [items EXCEPT ![calls[t].item] = calls[t].value] ELSE items
  /\ Returns(t)
  /\ UNCHANGED <<core, manager, used, overlapped>>

Cancels(t) ==
  /\ On(t, "cancel")
  /\ core' = [core EXCEPT !.import = Gone]
  /\ Returns(t)
  /\ UNCHANGED <<items, manager, used, overlapped>>

-----------------------------------------------------------------------------
(* save_login reads the logins one by one.                                 *)

Lists(t) ==
  /\ On(t, "list")
  /\ \/ NotLive(t)
     \/ /\ Alive
        /\ calls' = [calls EXCEPT ![t].at = "scan", ![t].item = Gone,
                                  ![t].todo = {i \in Items : items[i] # Gone}]
        /\ UNCHANGED <<core, items>>
  /\ UNCHANGED <<manager, used, overlapped>>

\* One login of the site is updated, with two of them nothing is; without
\* one the login is added under a new identifier.
Scans(t) ==
  /\ On(t, "scan")
  /\ \/ NotLive(t)
     \/ /\ Alive
        /\ \E i \in calls[t].todo :
             IF items[i] = Gone \/ calls[t].site \notin items[i].sites
             THEN calls' = [calls EXCEPT ![t].todo = @ \ {i}]
             ELSE IF calls[t].item # Gone THEN Returns(t)
             ELSE calls' = [calls EXCEPT ![t].todo = @ \ {i}, ![t].item = i, ![t].seen = items[i]]
        /\ UNCHANGED <<core, items>>
     \/ /\ Alive /\ calls[t].todo = {}
        /\ IF calls[t].item = Gone
           THEN \E i \in Items :
                  /\ items[i] = Gone
                  /\ calls' = [calls EXCEPT ![t].item = i, ![t].seen = Gone, ![t].at = "drop",
                                 ![t].value = [calls[t].value EXCEPT !.sites = {calls[t].site}]]
           ELSE IF calls[t].seen.secret = calls[t].value.secret THEN Returns(t)
           ELSE calls' = [calls EXCEPT ![t].at = "drop",
                            ![t].value = [@ EXCEPT !.sites = calls[t].seen.sites]]
        /\ UNCHANGED <<core, items>>
  /\ UNCHANGED <<manager, used, overlapped>>

-----------------------------------------------------------------------------
(* Sync.                                                                   *)

\* Devices::start needs a vault; it opens the manager at once when this
\* device has paired before.
SyncStarts(t) ==
  /\ On(t, "syncstart")
  /\ manager' = IF core.vault = "absent" THEN manager
                ELSE [manager EXCEPT !.named = TRUE, !.running = @ \/ manager.paired]
  /\ Returns(t)
  /\ UNCHANGED <<core, items, used, overlapped>>

\* Devices::stop takes the manager and then the name.
SyncStops(t) ==
  /\ On(t, "syncstop")
  /\ manager' = [manager EXCEPT !.running = FALSE]
  /\ Turns(t, "forget")
  /\ UNCHANGED <<core, items, used, overlapped>>

Forgets(t) ==
  /\ On(t, "forget")
  /\ manager' = [manager EXCEPT !.named = FALSE]
  /\ Returns(t)
  /\ UNCHANGED <<core, items, used, overlapped>>

\* invite and join: a live session, a started sync, then the manager.
Pairs(t) ==
  /\ On(t, "pair")
  /\ IF Alive /\ manager.named THEN Turns(t, "manager") ELSE Returns(t)
  /\ UNCHANGED <<core, items, manager, used, overlapped>>

OpensManager(t) ==
  /\ On(t, "manager")
  /\ manager' = [manager EXCEPT !.running = TRUE, !.paired = TRUE]
  /\ Returns(t)
  /\ UNCHANGED <<core, items, used, overlapped>>

\* The manager's host runs its commands on the session's service: an item
\* of another device arrives.
SyncArrives(i, value) ==
  /\ manager.running /\ Alive
  /\ items' = [items EXCEPT ![i] = value]
  /\ UNCHANGED <<core, calls, manager, used, overlapped>>

-----------------------------------------------------------------------------
\* A vault that is open, or none yet.
MobileInit ==
  /\ \E vault \in {"ready", "absent"} :
       LET session == IF vault = "ready" THEN 1 ELSE 0 IN
       /\ core = [vault |-> vault, session |-> session, ended |-> FALSE, opened |-> session,
                  restore |-> Gone, import |-> Gone, codes |-> Gone]
       /\ items \in [Items -> {Gone} \cup {[secret |-> s, sites |-> {"web"}] : s \in Secrets}]
       /\ vault = "absent" => \A i \in Items : items[i] = Gone
  /\ calls = [t \in Threads |-> Resting]
  /\ manager = [named |-> FALSE, running |-> FALSE, paired |-> FALSE]
  /\ used = 0 /\ overlapped = FALSE

\* One step of a running request.
Steps(t) ==
  \/ Live(t) \/ Clear(t) \/ Exists(t) \/ Open(t) \/ Seals(t)
  \/ Reads(t) \/ Cached(t) \/ Caches(t) \/ Drops(t) \/ Stores(t) \/ Keeps(t) \/ Gives(t)
  \/ Takes(t) \/ Prepares(t) \/ Imports(t) \/ Cancels(t) \/ Lists(t) \/ Scans(t)
  \/ SyncStarts(t) \/ SyncStops(t) \/ Forgets(t) \/ Pairs(t) \/ OpensManager(t)

-----------------------------------------------------------------------------
(* Properties.                                                             *)

Quiet == \A t \in Threads : On(t, "rest")

\* The type invariant of the mobile core.
MobileTypeOK ==
  /\ core.session \in 0..core.opened /\ core.opened <= MaxSessions
  /\ core.vault \in {"absent", "made", "ready"}
  /\ core.ended => core.session # 0
  /\ items \in [Items -> Logins \cup {Gone}]
  /\ \A cache \in {core.restore, core.import, core.codes} :
       cache = Gone \/ (cache.item \in Items /\ cache.value \in Logins)
  /\ \A t \in Threads : calls[t].kind \in Kinds \cup {"none"}

\* A request other than an import never overwrites or deletes an item in a
\* state its user, or the request itself, has not seen: not when it was
\* changed by another thread or by sync in between, and a restored or new
\* item never replaces one that exists.
NoLostUpdate ==
  \A t \in Threads :
    (On(t, "put") /\ items' # items /\ calls'[t] # calls[t])
      => items[calls[t].item] = calls[t].seen

\* Autofill is handed only a login that the vault holds at that moment as
\* one for this website or app, the password included: a login picked for an
\* app is linked to it in the vault first, and one that changed since it was
\* read is not filled.
FilledIsLinked ==
  \A t \in Threads :
    (calls'[t].at = "give" /\ calls[t].at # "give")
      => /\ items'[calls'[t].item] = calls'[t].value
         /\ calls'[t].site \in calls'[t].value.sites

\* A phone writes and fills only what is current, whichever requests and
\* incoming changes overlap.
CoreIsInformed == [][NoLostUpdate /\ FilledIsLinked]_mvars

\* A session that ends, by request or because its lease ran out and a later
\* request noticed, takes the decrypted caches with it, unless another
\* request was running at that moment.
SealedCoreIsEmpty ==
  (Quiet /\ core.session = 0 /\ ~overlapped)
    => core.restore = Gone /\ core.import = Gone /\ core.codes = Gone

=============================================================================
