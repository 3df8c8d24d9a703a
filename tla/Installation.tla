---------------------------- MODULE Installation ----------------------------
(* The vault at rest and the processes that make, open and destroy it:     *)
(* the root directory with its metadata files, database and lock file, the *)
(* hardware keys that wrap the root secret, and one process per command    *)
(* (factorseal init, agent, grant, destroy, the Desktop worker, the mobile *)
(* core).  Every step a process takes on the disk or the key store is one  *)
(* action, so that the commands interleave and can fail or die between any *)
(* two of them.  Paths are looked up anew at each step, as in the code.    *)
EXTENDS Naturals, FiniteSets

CONSTANTS
  Procs,        \* processes
  Ids,          \* installation identifiers, numbered in the order drawn
  Slots,        \* unlock groups of the policy, each with a wrapping key
  None,         \* no file, no identifier, no process
  Torn,         \* metadata that cannot be read
  MaxStarts,    \* commands started in all
  MaxCrashes    \* processes that die between two steps

ASSUME InstallationAssumption ==
  /\ Slots # {} /\ Slots \subseteq Nat /\ Ids \subseteq Nat
  /\ None \notin Ids /\ None \notin Procs /\ Torn \notin Ids /\ Torn # None
  /\ MaxStarts \in Nat /\ MaxCrashes \in Nat

VARIABLES
  disk,         \* the root directory
  keystore,     \* wrapping keys held by the hardware or platform key store
  procs,        \* the running commands
  makers,       \* ghost: the command that drew each identifier
  mishaps,      \* ghost: what went wrong outside the code's control
  doomed,       \* ghost: installations a discard has begun to delete
  starts, crashes

ivars == <<disk, keystore, procs, makers, mishaps, doomed, starts, crashes>>

-----------------------------------------------------------------------------
(* The root directory.  Metadata is absent, whole (its installation) or    *)
(* torn by an interrupted write; the database grows table by table.        *)

\* The database: no file, an empty file, the schema, the installation row
\* and the device-vault row.
Whole == 4

NoDatabase == [id |-> None, stage |-> 0]

\* The path names no directory.
NoRoot == [made |-> None, pending |-> None, published |-> None,
           database |-> NoDatabase, lock |-> None]

\* What an interrupted remove_dir_all can leave of a root.
Remains(d) ==
  {[d EXCEPT !.pending = p, !.published = q, !.database = b] :
     p \in {d.pending, None}, q \in {d.published, None}, b \in {d.database, NoDatabase}}

\* The metadata a discard goes by: the published file before the pending one.
Stored(d) == IF d.published # None THEN d.published ELSE d.pending

KeysOf(id) == {id} \X Slots

-----------------------------------------------------------------------------
(* Processes.                                                              *)

Creators == {"init", "setup", "create"}
Openers == {"agent", "unlock", "grant"}
Operations == Creators \cup Openers \cup {"destroy"}

Idle == [op |-> "none", at |-> "idle", id |-> None, ok |-> FALSE]

\* Where each command begins.
First(op) ==
  CASE op \in Creators -> "root"
    [] op = "agent" -> "wait"
    [] op = "destroy" -> "check"
    [] OTHER -> "unseal"

Launch(p, op) == procs' = [procs EXCEPT ![p] = [Idle EXCEPT !.op = op, !.at = First(op)]]

At(p, step) == procs[p].at = step

Goes(p, step) == procs' = [procs EXCEPT ![p].at = step]

Ends(p) == procs' = [procs EXCEPT ![p] = Idle]

Finishes(p) == procs' = [procs EXCEPT ![p] = [Idle EXCEPT !.ok = TRUE]]

\* A command that fails: an initializer that has prepared its root discards
\* it, every other command just ends.
Aborts(p) == IF procs[p].op \in Creators THEN Goes(p, "discard") ELSE Ends(p)

\* The store's lock file: closing the store or dying unlocks it.
Unlocked(p) == [disk EXCEPT !.lock = IF @ = p THEN None ELSE @]

Opened(p) == procs[p].at \in {"schema", "verify", "authorize", "seal", "serving"}

Fresh == Cardinality({i \in Ids : makers[i] # "none"}) + 1

-----------------------------------------------------------------------------
(* Creating a vault.                                                       *)

\* A variant that rolls back even when the directory was not its own.
PrepareRootRollsBack(p) ==
  /\ At(p, "root")
  /\ \/ /\ disk.made = None
        /\ Fresh \in Ids
        /\ disk' = [NoRoot EXCEPT !.made = Fresh]
        /\ makers' = [makers EXCEPT ![Fresh] = procs[p].op]
        /\ procs' = [procs EXCEPT ![p].at = "protect", ![p].id = Fresh]
     \/ /\ Goes(p, "rollback")
        /\ UNCHANGED <<disk, makers>>
  /\ UNCHANGED <<keystore, mishaps, doomed, starts, crashes>>

\* prepare_root: making the directory is what excludes other initializers.
PrepareRoot(p) ==
  /\ At(p, "root")
  /\ \/ /\ disk.made = None
        /\ Fresh \in Ids
        /\ disk' = [NoRoot EXCEPT !.made = Fresh]
        /\ makers' = [makers EXCEPT ![Fresh] = procs[p].op]
        /\ procs' = [procs EXCEPT ![p].at = "protect", ![p].id = Fresh]
     \/ /\ Ends(p)
        /\ UNCHANGED <<disk, makers>>
  /\ UNCHANGED <<keystore, mishaps, doomed, starts, crashes>>

\* create_with_protectors: wrapping the secret for one slot makes its key.
Protect(p) ==
  /\ At(p, "protect")
  /\ \/ \E s \in Slots :
          /\ <<procs[p].id, s>> \notin keystore
          /\ \A t \in Slots : t < s => <<procs[p].id, t>> \in keystore
          /\ keystore' = keystore \cup {<<procs[p].id, s>>}
          /\ UNCHANGED procs
     \/ /\ KeysOf(procs[p].id) \subseteq keystore
        /\ Goes(p, "metadata")
        /\ UNCHANGED keystore
     \/ /\ Goes(p, "rollback")
        /\ UNCHANGED keystore
  /\ UNCHANGED <<disk, makers, mishaps, doomed, starts, crashes>>

\* A variant that publishes every vault at once.
MetadataPublished(op, value) ==
  [disk EXCEPT !.published = value]

\* write_vault: the pending file of an initialization that publishes later,
\* the published one for the mobile core.
MetadataWritten(op, value) ==
  IF op = "create" THEN [disk EXCEPT !.published = value]
  ELSE [disk EXCEPT !.pending = value]

WriteVault(p) ==
  /\ At(p, "metadata")
  /\ \/ /\ disk.made # None
        /\ disk' = MetadataWritten(procs[p].op, procs[p].id)
        /\ Goes(p, IF procs[p].op = "setup" THEN "hosts" ELSE "open")
     \/ /\ disk' = IF disk.made = None THEN disk ELSE MetadataWritten(procs[p].op, Torn)
        /\ Goes(p, "rollback")
  /\ UNCHANGED <<keystore, makers, mishaps, doomed, starts, crashes>>

\* prepare_unlock of the Desktop worker: the prepared vault and the host
\* identities arrive together.  A failed identification ends the worker
\* before the scope that discards.
IdentifyHosts(p) ==
  /\ At(p, "hosts")
  /\ \/ Goes(p, "open") /\ UNCHANGED mishaps
     \/ Ends(p) /\ mishaps' = mishaps \cup {"hosts"}
  /\ UNCHANGED <<disk, keystore, makers, doomed, starts, crashes>>

\* The rollback inside creation deletes the keys this process made.
Rollback(p) ==
  /\ At(p, "rollback")
  /\ \E kept \in SUBSET (KeysOf(procs[p].id) \cap keystore) :
       /\ keystore' = (keystore \ KeysOf(procs[p].id)) \cup kept
       /\ mishaps' = IF kept = {} THEN mishaps ELSE mishaps \cup {"cleanup"}
  /\ Goes(p, "remove")
  /\ UNCHANGED <<disk, makers, doomed, starts, crashes>>

-----------------------------------------------------------------------------
(* Opening the store.                                                      *)

\* open_store up to the schema: the exclusive lock, and a database exactly
\* when the vault was made earlier.
OpenStore(p) ==
  /\ At(p, "open")
  /\ \/ /\ disk.made # None /\ disk.lock = None
        /\ (disk.database.stage > 0) # (procs[p].op \in Creators)
        /\ disk' = [disk EXCEPT !.lock = p,
                                !.database.stage = IF @ = 0 THEN 1 ELSE @]
        /\ Goes(p, IF procs[p].op \in Creators THEN "schema" ELSE "verify")
     \/ Aborts(p) /\ UNCHANGED disk
  /\ UNCHANGED <<keystore, makers, mishaps, doomed, starts, crashes>>

\* The schema and the two identity rows are statements of their own.  A
\* database whose directory is gone takes them without leaving a trace.
InitializeStore(p) ==
  /\ At(p, "schema")
  /\ \/ /\ disk.lock = p /\ disk.database.stage < Whole
        /\ disk' = [disk EXCEPT !.database = [id |-> procs[p].id, stage |-> @.stage + 1]]
        /\ UNCHANGED procs
     \/ /\ disk.lock # p \/ disk.database.stage = Whole
        /\ Goes(p, "authorize")
        /\ UNCHANGED disk
     \/ /\ Aborts(p)
        /\ disk' = Unlocked(p)
  /\ UNCHANGED <<keystore, makers, mishaps, doomed, starts, crashes>>

\* migrate_schema and verify_installation_row of an existing database.
VerifyStore(p) ==
  /\ At(p, "verify")
  /\ \/ /\ disk.lock = p => disk.database = [id |-> procs[p].id, stage |-> Whole]
        /\ Goes(p, IF procs[p].op = "agent" THEN "serving" ELSE "authorize")
        /\ UNCHANGED disk
     \/ Aborts(p) /\ disk' = Unlocked(p)
  /\ UNCHANGED <<keystore, makers, mishaps, doomed, starts, crashes>>

\* authorize_cli, authorize_hosts and the mobile core's own grants.
Authorize(p) ==
  /\ At(p, "authorize")
  /\ \/ /\ Goes(p, IF procs[p].op \in {"unlock", "create"} THEN "serving" ELSE "seal")
        /\ UNCHANGED disk
     \/ Aborts(p) /\ disk' = Unlocked(p)
  /\ UNCHANGED <<keystore, makers, mishaps, doomed, starts, crashes>>

\* VaultService::seal closes the store.
SealStore(p) ==
  /\ At(p, "seal")
  /\ disk' = Unlocked(p)
  /\ \/ IF procs[p].op \in Creators THEN Goes(p, "publish") ELSE Finishes(p)
     \/ Aborts(p)
  /\ UNCHANGED <<keystore, makers, mishaps, doomed, starts, crashes>>

\* complete_initialization: one rename makes the prepared vault visible.
Publish(p) ==
  /\ At(p, "publish")
  /\ \/ /\ disk.published = None /\ disk.pending \in Ids
        /\ disk' = [disk EXCEPT !.published = disk.pending, !.pending = None]
        /\ Finishes(p)
     \/ Aborts(p) /\ UNCHANGED disk
  /\ UNCHANGED <<keystore, makers, mishaps, doomed, starts, crashes>>

\* The server loop ends: lease, seal request or lost parent.
StopServing(p) ==
  /\ At(p, "serving")
  /\ disk' = Unlocked(p)
  /\ Finishes(p)
  /\ UNCHANGED <<keystore, makers, mishaps, doomed, starts, crashes>>

-----------------------------------------------------------------------------
(* Unsealing and destroying.                                               *)

\* wait_for_initialization polls for the published file.
SeeVault(p) ==
  /\ At(p, "wait")
  /\ disk.published # None
  /\ Goes(p, "unseal")
  /\ UNCHANGED <<disk, keystore, makers, mishaps, doomed, starts, crashes>>

\* destroy_vault asks the agent first: only a vault nobody serves goes on.
CheckSealed(p) ==
  /\ At(p, "check")
  /\ \/ /\ disk.published \in Ids
        /\ \A q \in Procs : ~At(q, "serving")
        /\ Goes(p, "unseal")
     \/ Ends(p)
  /\ UNCHANGED <<disk, keystore, makers, mishaps, doomed, starts, crashes>>

\* unseal_with_key_protector_group: readable metadata, the slot's key and
\* the right password.
Unseal(p) ==
  /\ At(p, "unseal")
  /\ \/ /\ disk.published \in Ids
        /\ \E s \in Slots : <<disk.published, s>> \in keystore
        /\ procs' = [procs EXCEPT
             ![p].id = disk.published,
             ![p].at = IF procs[p].op = "destroy" THEN "discard" ELSE "open"]
     \/ Ends(p)
  /\ UNCHANGED <<disk, keystore, makers, mishaps, doomed, starts, crashes>>

\* discard_initialization_with_factory, keys first: the metadata is read
\* again, and unreadable metadata leaves its keys behind.
Discard(p) ==
  /\ At(p, "discard")
  /\ LET target == Stored(disk) IN
     \/ /\ disk.made = None
        /\ Ends(p)
        /\ UNCHANGED <<keystore, mishaps, doomed>>
     \/ /\ disk.made # None /\ target \notin Ids
        /\ Goes(p, "remove")
        /\ mishaps' = IF target = Torn THEN mishaps \cup {"cleanup"} ELSE mishaps
        /\ UNCHANGED <<keystore, doomed>>
     \/ /\ disk.made # None /\ target \in Ids
        /\ Goes(p, "remove")
        /\ \E kept \in SUBSET (KeysOf(target) \cap keystore) :
             /\ keystore' = (keystore \ KeysOf(target)) \cup kept
             /\ mishaps' = IF kept = {} THEN mishaps ELSE mishaps \cup {"cleanup"}
        /\ doomed' = doomed \cup {target}
  /\ UNCHANGED <<disk, makers, starts, crashes>>

\* remove_dir_all, the last step of rollback, discard and destruction.
RemoveRoot(p) ==
  /\ At(p, "remove")
  /\ \/ disk' = NoRoot /\ UNCHANGED mishaps
     \/ disk' \in Remains(disk) /\ mishaps' = mishaps \cup {"cleanup"}
  /\ Ends(p)
  /\ UNCHANGED <<keystore, makers, doomed, starts, crashes>>

-----------------------------------------------------------------------------
(* Death of a process, and the whole.                                      *)

\* A process dies between two steps, or in the middle of a file it writes,
\* a directory it removes or the keys it deletes.
Dies(p) ==
  /\ disk' \in CASE At(p, "metadata") /\ disk.made # None -> {disk, MetadataWritten(procs[p].op, Torn)}
                 [] At(p, "remove") /\ disk.made # None -> Remains(disk)
                 [] OTHER -> {Unlocked(p)}
  /\ keystore' \in IF At(p, "rollback") THEN {keystore \ k : k \in SUBSET KeysOf(procs[p].id)}
                   ELSE IF At(p, "discard") /\ Stored(disk) \in Ids
                   THEN {keystore \ k : k \in SUBSET KeysOf(Stored(disk))}
                   ELSE {keystore}
  /\ doomed' = IF At(p, "discard") THEN doomed \cup ({Stored(disk)} \cap Ids) ELSE doomed
  /\ Ends(p)

Crash(p) ==
  /\ crashes < MaxCrashes
  /\ procs[p].at # "idle"
  /\ Dies(p)
  /\ mishaps' = mishaps \cup {"crash"}
  /\ crashes' = crashes + 1
  /\ UNCHANGED <<makers, starts>>

\* The user runs a command.
Start(p, op) ==
  /\ At(p, "idle")
  /\ starts < MaxStarts
  /\ Launch(p, op)
  /\ starts' = starts + 1
  /\ UNCHANGED <<disk, keystore, makers, mishaps, doomed, crashes>>

\* The steps of a running command, apart from the end of its service.
Works(p) ==
  \/ PrepareRoot(p) \/ Protect(p) \/ WriteVault(p) \/ IdentifyHosts(p) \/ Rollback(p)
  \/ OpenStore(p) \/ InitializeStore(p) \/ VerifyStore(p) \/ Authorize(p)
  \/ SealStore(p) \/ Publish(p) \/ SeeVault(p) \/ CheckSealed(p) \/ Unseal(p)
  \/ Discard(p) \/ RemoveRoot(p)

InstallationInit ==
  /\ disk = NoRoot
  /\ keystore = {}
  /\ procs = [p \in Procs |-> Idle]
  /\ makers = [i \in Ids |-> "none"]
  /\ mishaps = {} /\ doomed = {}
  /\ starts = 0 /\ crashes = 0

-----------------------------------------------------------------------------
(* Properties.                                                             *)

Steps == {"idle", "root", "protect", "metadata", "hosts", "rollback", "open", "schema",
          "verify", "authorize", "seal", "publish", "serving", "wait", "check",
          "unseal", "discard", "remove"}

\* The type invariant of the installation's state.
InstallationTypeOK ==
  /\ disk.made \in Ids \cup {None}
  /\ disk.pending \in Ids \cup {None, Torn} /\ disk.published \in Ids \cup {None, Torn}
  /\ disk.database.id \in Ids \cup {None} /\ disk.database.stage \in 0..Whole
  /\ disk.lock \in Procs \cup {None}
  /\ keystore \subseteq Ids \X Slots
  /\ \A p \in Procs : procs[p].at \in Steps /\ procs[p].op \in Operations \cup {"none"}
  /\ doomed \subseteq Ids /\ mishaps \subseteq {"crash", "cleanup", "hosts"}

\* The published file is the signal that the whole vault is ready: as long
\* as nobody set out to destroy that vault, its database holds the schema
\* and both identity rows of the same installation and every unlock group
\* has its key, whatever crashed or failed on the way.  The mobile core,
\* which publishes before it opens the store, is the exception.
PublishedIsReady ==
  \A i \in Ids \ doomed :
    (disk.published = i /\ makers[i] # "create") =>
      /\ disk.database = [id |-> i, stage |-> Whole]
      /\ KeysOf(i) \subseteq keystore

\* No two processes have the same vault's store open, unless that vault is
\* being destroyed under them: the lock file excludes agents, workers,
\* grants and initializers alike.
OneOwner ==
  \A p, q \in Procs :
    (p # q /\ Opened(p) /\ Opened(q) /\ procs[p].id = procs[q].id)
      => procs[p].id \in doomed

\* A command that fails, without a crash, a cleanup error or an unidentified
\* host, leaves nothing behind: a directory without published metadata
\* belongs to a running initializer, so that initialization can be tried
\* again, and every key in the key store to the published vault or to a
\* running command.
NothingLeftBehind ==
  mishaps = {} =>
    /\ (disk.made # None /\ disk.published = None) =>
         \E p \in Procs : procs[p].id = disk.made
    /\ \A k \in keystore : \/ disk.published = k[1]
                           \/ \E p \in Procs : procs[p].id = k[1]

\* A vault on disk is whole, has one owner, or was left by a mishap.
VaultIsWhole == PublishedIsReady /\ OneOwner /\ NothingLeftBehind

\* Only the process that made a vault or has proved one of its factors
\* deletes its keys or its directory.
RemovalIsOwn ==
  [][/\ \A k \in keystore \ keystore' : \E p \in Procs : procs[p].id = k[1]
     /\ (disk.made # None /\ disk'.made = None) =>
          \E p \in Procs : procs[p].id = disk.made]_ivars

=============================================================================
