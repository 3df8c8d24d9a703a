-------------------------------- MODULE Wifi --------------------------------
(* The NetworkManager secret agent and the migration of saved Wi-Fi        *)
(* passwords into the vault, for one connection.  NetworkManager asks for  *)
(* a password, and tells of saved and deleted ones, in calls that run side *)
(* by side with the migration on the adapter's thread.  A lock orders the  *)
(* writes, and a generation taken when a call starts has one that began    *)
(* before a migration of its connection refused.  NetworkManager, its      *)
(* profile and the previous keyring are external.                          *)
EXTENDS Naturals, FiniteSets

CONSTANTS
  WifiSecrets,  \* passwords
  NoSecret,     \* no password stored
  MaxVersions,  \* version of the profile up to which it is edited
  MaxMoves,     \* migrations started
  MaxVaults     \* times the vault is published

ASSUME WifiAssumption ==
  /\ NoSecret \notin WifiSecrets
  /\ MaxVersions \in Nat /\ MaxMoves \in Nat /\ MaxVaults \in Nat

VARIABLES
  profile,      \* NetworkManager's profile: the password's owner, its own copy, and what became of it
  wifi,         \* the password in the vault
  oldring,      \* the password in the previous keyring
  vaultOf,      \* the published vault: 0, or its number
  vaults,       \* vaults published so far
  writing,      \* who holds wifi_writes
  generation,   \* wifi_generation
  moved,        \* the connection's entry of wifi_migrations
  ask,          \* a GetSecrets call
  notices,      \* a SaveSecrets or DeleteSecrets call after an edit, one after an update
  move,         \* the migration
  strays        \* writes of dropped calls

wvars == <<profile, wifi, oldring, vaultOf, vaults, writing, generation, moved, ask, notices,
           move, strays>>

Puts(v) == [put |-> v]
Deletes == [put |-> NoSecret]
Nothing == [put |-> "nothing"]

NoCall == [kind |-> "none", at |-> "none", generation |-> 0, owner |-> "system",
           value |-> NoSecret, write |-> Nothing, early |-> FALSE]
Notifying == {"edit", "update"}
NoMove == [at |-> "none", version |-> 0, vault |-> 0, owner |-> "system", value |-> NoSecret,
           found |-> FALSE, overtaken |-> FALSE]

\* check_generation and check_migration.
Superseded(call) == moved.generation > call.generation
Migrating == moved.active

\* A mutation reaches the vault, which has to be unsealed.
Landed(write) == wifi' = IF write = Nothing \/ vaultOf = 0 THEN wifi ELSE write.put

-----------------------------------------------------------------------------
(* GetSecrets.                                                             *)

\* NetworkManager asks, sending the profile as it is.
AskSecrets ==
  /\ profile.exists /\ ask.at = "none"
  /\ ask' = [NoCall EXCEPT !.kind = "get", !.at = "started", !.generation = generation,
                           !.owner = profile.owner, !.value = profile.system]
  /\ UNCHANGED <<profile, wifi, oldring, vaultOf, vaults, writing, generation, moved, notices,
                 move, strays>>

\* The sender is authenticated; a connection being migrated has no secrets.
AskAdmitted ==
  /\ ask.at = "started"
  /\ ask' = IF Migrating THEN NoCall ELSE [ask EXCEPT !.at = "admitted"]
  /\ UNCHANGED <<profile, wifi, oldring, vaultOf, vaults, writing, generation, moved, notices,
                 move, strays>>

\* The caller is looked up on the bus, and then the request is on the list
\* of those that can be canceled.
AskRegistered ==
  /\ ask.at = "admitted"
  /\ ask' = [ask EXCEPT !.at = "pending"]
  /\ UNCHANGED <<profile, wifi, oldring, vaultOf, vaults, writing, generation, moved, notices,
                 move, strays>>

\* What an answered request writes: a password the agent may not save is
\* deleted, one the user has just entered is stored.
WritesOf(owner, entered) ==
  CASE owner = "system" -> Deletes
    [] entered # NoSecret -> Puts(entered)
    [] OTHER -> Nothing

\* The stored password, the supplied one or the one the user enters.  A
\* locked vault is waited for.
AskAnswered ==
  /\ ask.at = "pending" /\ vaultOf # 0
  /\ \E entered \in WifiSecrets \cup {NoSecret} :
       /\ entered = NoSecret => \/ ask.owner = "agent" /\ wifi # NoSecret
                                \/ ask.value # NoSecret
       /\ ask' = [ask EXCEPT !.at = "answered", !.write = WritesOf(ask.owner, entered)]
  /\ UNCHANGED <<profile, wifi, oldring, vaultOf, vaults, writing, generation, moved, notices,
                 move, strays>>

\* A variant that does not look at the migrations again.
AskLocksFirst ==
  /\ ask.at = "answered" /\ writing = "nobody"
  /\ writing' = "ask"
  /\ ask' = [ask EXCEPT !.at = "writing"]
  /\ UNCHANGED <<profile, wifi, oldring, vaultOf, vaults, generation, moved, notices, move, strays>>

\* The lock, then both checks.
AskLocks ==
  /\ ask.at = "answered" /\ writing = "nobody"
  /\ IF Migrating \/ Superseded(ask)
     THEN ask' = NoCall /\ UNCHANGED writing
     ELSE ask' = [ask EXCEPT !.at = "writing"] /\ writing' = "ask"
  /\ UNCHANGED <<profile, wifi, oldring, vaultOf, vaults, generation, moved, notices, move, strays>>

AskWrites ==
  /\ ask.at = "writing"
  /\ Landed(ask.write)
  /\ ask' = NoCall /\ writing' = "nobody"
  /\ UNCHANGED <<profile, oldring, vaultOf, vaults, generation, moved, notices, move, strays>>

\* A call that is dropped releases the lock.  Its mutation runs on a thread
\* of its own, which nothing stops once it has been started.
Dropped(write) == strays' \in {strays, strays \cup ({write} \ {Nothing})}

Canceled ==
  /\ ask' = NoCall
  /\ IF ask.at = "writing" THEN writing' = "nobody" /\ Dropped(ask.write)
     ELSE UNCHANGED <<writing, strays>>

\* The user dismisses the dialog, NetworkManager cancels, or two minutes
\* pass.
CancelAsk ==
  /\ ask.at \in {"pending", "answered", "writing"}
  /\ Canceled
  /\ UNCHANGED <<profile, wifi, oldring, vaultOf, vaults, generation, moved, notices, move>>

\* The write of a dropped call lands; a migration that is under way does not
\* know of it.
StrayLands ==
  \E write \in strays :
    /\ Landed(write)
    /\ strays' = strays \ {write}
    /\ move' = IF move.at = "none" THEN move ELSE [move EXCEPT !.overtaken = TRUE]
    /\ UNCHANGED <<profile, oldring, vaultOf, vaults, writing, generation, moved, ask, notices>>

-----------------------------------------------------------------------------
(* SaveSecrets and DeleteSecrets, which NetworkManager sends after a       *)
(* profile has been edited, updated or deleted.                            *)

Notice(kind, owner, value) ==
  [NoCall EXCEPT !.kind = kind, !.at = "started", !.generation = generation, !.owner = owner,
                 !.write = IF kind = "save" /\ owner = "agent" THEN Puts(value) ELSE Deletes]

EditProfile ==
  /\ profile.exists /\ profile.version < MaxVersions /\ notices["edit"] = NoCall
  /\ \E owner \in {"system", "agent"}, v \in WifiSecrets :
       /\ profile' = [profile EXCEPT !.version = @ + 1, !.owner = owner, !.moved = FALSE,
                                     !.system = IF owner = "system" THEN v ELSE NoSecret]
       /\ notices' = [notices EXCEPT !["edit"] = Notice("save", owner, v)]
  /\ UNCHANGED <<wifi, oldring, vaultOf, vaults, writing, generation, moved, ask, move, strays>>

DeleteProfile ==
  /\ profile.exists /\ notices["edit"] = NoCall
  /\ profile' = [profile EXCEPT !.exists = FALSE, !.system = NoSecret]
  /\ notices' = [notices EXCEPT !["edit"] = Notice("delete", profile.owner, NoSecret)]
  /\ UNCHANGED <<wifi, oldring, vaultOf, vaults, writing, generation, moved, ask, move, strays>>

\* The sender is authenticated, and a deletion first cancels what is being
\* asked about the connection.
NoticeBegins(n) ==
  /\ notices[n].at = "started"
  /\ notices' = [notices EXCEPT ![n].at = "begun"]
  /\ IF notices[n].kind = "delete" /\ ask.at \in {"pending", "answered", "writing"} THEN Canceled
     ELSE UNCHANGED <<ask, writing, strays>>
  /\ UNCHANGED <<profile, wifi, oldring, vaultOf, vaults, generation, moved, move>>

\* A sealed vault refuses the call; behind the lock, so does a migration that
\* started after it.
NoticeLocks(n) ==
  /\ notices[n].at = "begun"
  /\ \/ /\ vaultOf = 0
        /\ notices' = [notices EXCEPT ![n] = NoCall] /\ UNCHANGED writing
     \/ /\ vaultOf # 0 /\ writing = "nobody"
        /\ IF Superseded(notices[n])
           THEN notices' = [notices EXCEPT ![n] = NoCall] /\ UNCHANGED writing
           ELSE notices' = [notices EXCEPT ![n].at = "writing"] /\ writing' = n
  /\ UNCHANGED <<profile, wifi, oldring, vaultOf, vaults, generation, moved, ask, move, strays>>

NoticeWrites(n) ==
  /\ notices[n].at = "writing"
  /\ Landed(notices[n].write)
  /\ notices' = [notices EXCEPT ![n] = NoCall] /\ writing' = "nobody"
  /\ profile' = IF notices[n].kind = "delete" /\ vaultOf # 0
                THEN [profile EXCEPT !.forgotten = TRUE] ELSE profile
  /\ UNCHANGED <<oldring, vaultOf, vaults, generation, moved, ask, move, strays>>

-----------------------------------------------------------------------------
(* The migration.                                                          *)

Moving(step) == move' = [move EXCEPT !.at = step]

\* The guard and the lock go with the future that holds them.
MoveOver ==
  /\ move' = NoMove
  /\ moved' = [moved EXCEPT !.active = FALSE]
  /\ writing' = IF writing = "move" THEN "nobody" ELSE writing

\* migrate_connection reads the version of the profile, then its settings.
MoveStarts ==
  /\ move.at = "none" /\ generation < MaxMoves /\ vaultOf # 0 /\ profile.exists
  /\ move' = [NoMove EXCEPT !.at = "versioned", !.version = profile.version]
  /\ UNCHANGED <<profile, wifi, oldring, vaultOf, vaults, writing, generation, moved, ask, notices,
                 strays>>

MoveReadsSettings ==
  /\ move.at = "versioned" /\ profile.exists /\ vaultOf # 0
  /\ move' = [move EXCEPT !.at = "settings", !.owner = profile.owner, !.vault = vaultOf]
  /\ UNCHANGED <<profile, wifi, oldring, vaultOf, vaults, writing, generation, moved, ask, notices,
                 strays>>

\* Remembers which calls had begun when a migration took the lock.
MarkEarly ==
  /\ ask' = [ask EXCEPT !.early = ask # NoCall]
  /\ notices' = [n \in Notifying |-> [notices[n] EXCEPT !.early = notices[n] # NoCall]]

\* The lock, and Guard::acquire.
MoveLocks ==
  /\ move.at = "settings" /\ writing = "nobody"
  /\ writing' = "move"
  /\ generation' = generation + 1
  /\ moved' = [generation |-> generation + 1, active |-> TRUE]
  /\ Moving("locked")
  /\ MarkEarly
  /\ UNCHANGED <<profile, wifi, oldring, vaultOf, vaults, strays>>

\* collect: NetworkManager's own password, the previous keyring's when it can
\* be read or, when the agent owns it, the vault's; copies that differ stop
\* the migration.
MoveCollects ==
  /\ move.at = "locked" /\ profile.exists /\ vaultOf = move.vault
  /\ \E old \in {oldring, NoSecret} :
       LET supplied == IF profile.owner = "system" THEN profile.system ELSE NoSecret
           source == CASE supplied # NoSecret -> supplied
                       [] old # NoSecret -> old
                       [] move.owner = "agent" -> wifi
                       [] OTHER -> NoSecret
       IN
       /\ source # NoSecret /\ {wifi, old} \subseteq {NoSecret, source}
       /\ move' = [move EXCEPT !.at = "collected", !.value = source, !.found = old # NoSecret]
  /\ UNCHANGED <<profile, wifi, oldring, vaultOf, vaults, writing, generation, moved, ask, notices,
                 strays>>

MoveWrites ==
  /\ move.at = "collected" /\ vaultOf # 0
  /\ Landed(Puts(move.value))
  /\ Moving("written")
  /\ UNCHANGED <<profile, oldring, vaultOf, vaults, writing, generation, moved, ask, notices, strays>>

\* verify reads the vault back, before and after the profile is updated.
Verified == vaultOf = move.vault /\ wifi = move.value

MoveVerifies ==
  /\ move.at = "written" /\ Verified
  /\ Moving("verified")
  /\ UNCHANGED <<profile, wifi, oldring, vaultOf, vaults, writing, generation, moved, ask, notices,
                 strays>>

\* Update2 with the version the settings were read under.
UpdateAccepted == profile.exists /\ profile.version = move.version

\* NetworkManager hands the password to the agent and gives up its own copy;
\* it tells the agent of it afterwards.
MoveUpdates ==
  /\ move.at = "verified" /\ UpdateAccepted /\ notices["update"] = NoCall
  /\ profile' = [profile EXCEPT !.owner = "agent", !.system = NoSecret, !.version = @ + 1,
                                !.moved = TRUE]
  /\ notices' = [notices EXCEPT !["update"] = Notice("save", "agent", move.value)]
  /\ Moving("updated")
  /\ UNCHANGED <<wifi, oldring, vaultOf, vaults, writing, generation, moved, ask, strays>>

MoveConfirms ==
  /\ move.at = "updated" /\ profile.exists /\ profile.owner = "agent" /\ Verified
  /\ Moving("confirmed")
  /\ UNCHANGED <<profile, wifi, oldring, vaultOf, vaults, writing, generation, moved, ask, notices,
                 strays>>

\* delete_verified takes the old copy away when it is the one that was moved.
MoveCleans ==
  /\ move.at = "confirmed"
  /\ oldring' = IF move.found /\ vaultOf = move.vault /\ oldring = move.value THEN NoSecret
                ELSE oldring
  /\ MoveOver
  /\ UNCHANGED <<profile, wifi, vaultOf, vaults, generation, ask, notices, strays>>

\* Any step may fail, or ninety seconds pass.
MoveFails ==
  /\ move.at # "none"
  /\ IF move.at = "collected" THEN Dropped(Puts(move.value))
     ELSE UNCHANGED strays
  /\ MoveOver
  /\ UNCHANGED <<profile, wifi, oldring, vaultOf, vaults, generation, ask, notices>>

-----------------------------------------------------------------------------
WifiSealed ==
  /\ vaultOf # 0
  /\ vaultOf' = 0
  /\ UNCHANGED <<profile, wifi, oldring, vaults, writing, generation, moved, ask, notices, move,
                 strays>>

WifiPublished ==
  /\ vaultOf = 0 /\ vaults < MaxVaults
  /\ vaultOf' = vaults + 1 /\ vaults' = vaults + 1
  /\ UNCHANGED <<profile, wifi, oldring, writing, generation, moved, ask, notices, move, strays>>

WifiInit ==
  /\ \E v \in WifiSecrets \cup {NoSecret} :
       profile = [exists |-> TRUE, version |-> 1, owner |-> "system", system |-> v,
                  forgotten |-> FALSE, moved |-> FALSE]
  /\ wifi = NoSecret /\ oldring \in WifiSecrets \cup {NoSecret}
  /\ vaultOf = 1 /\ vaults = 1 /\ writing = "nobody" /\ generation = 0
  /\ moved = [generation |-> 0, active |-> FALSE]
  /\ ask = NoCall /\ notices = [n \in Notifying |-> NoCall] /\ move = NoMove /\ strays = {}

Asking == AskSecrets \/ AskAdmitted \/ AskRegistered \/ AskAnswered \/ AskLocks \/ AskWrites \/ CancelAsk

Telling == \E n \in Notifying : NoticeBegins(n) \/ NoticeLocks(n) \/ NoticeWrites(n)

Moves ==
  \/ MoveReadsSettings \/ MoveLocks \/ MoveCollects \/ MoveWrites \/ MoveVerifies
  \/ MoveUpdates \/ MoveConfirms \/ MoveCleans \/ MoveFails

WifiNext ==
  \/ Asking \/ EditProfile \/ DeleteProfile \/ Telling \/ MoveStarts \/ Moves
  \/ StrayLands \/ WifiSealed \/ WifiPublished

WifiSpec == WifiInit /\ [][WifiNext]_wvars

WifiTypeOK ==
  /\ wifi \in WifiSecrets \cup {NoSecret} /\ oldring \in WifiSecrets \cup {NoSecret}
  /\ vaultOf \in 0..vaults /\ writing \in {"nobody", "ask", "move"} \cup Notifying
  /\ moved.generation \in 0..generation
  /\ writing = "ask" <=> ask.at = "writing"
  /\ \A n \in Notifying : writing = n <=> notices[n].at = "writing"

\* When the migration has NetworkManager give up its own copy of a password,
\* the vault holds that password, unless the write of a call canceled before
\* lands late, behind the migration's back.
UpdateKeepsACopy ==
  (/\ move.at = "verified" /\ move'.at = "updated" /\ profile.system # NoSecret
   /\ ~move.overtaken)
    => wifi = profile.system

\* The copy in the previous keyring is deleted last: the vault holds the same
\* password when it goes, with the same exception.
OldCopyGoesLast == (oldring' # oldring /\ ~move.overtaken) => wifi = oldring

\* A call that had begun when a migration took the lock never writes over
\* what the migration has moved, however long it takes.
EarlierCallsUndoNothing ==
  \A call \in {ask, notices["edit"], notices["update"]} :
    (call.at = "writing" /\ call.early /\ profile.moved) => wifi' = wifi

\* A migration loses no password: it gives up a copy only when another holds
\* it, and nothing that began before it undoes it.
MigrationLosesNothing ==
  [][UpdateKeepsACopy /\ OldCopyGoesLast /\ EarlierCallsUndoNothing]_wvars

\* Once the deletion of a connection has been acknowledged its password is
\* gone for good, whatever was being asked or moved at the time.
DeletedStaysDeleted == profile.forgotten => wifi = NoSecret

=============================================================================
