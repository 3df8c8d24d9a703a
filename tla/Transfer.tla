------------------------------ MODULE Transfer ------------------------------
(* Exporting a vault and importing a prepared file, over the requests a    *)
(* manager of permissions may send.  An export is many requests (a         *)
(* revision, pages of the inventory, one value at a time, the revision     *)
(* again) and an import one per record, so writers, expiry and lost        *)
(* replies come in between.                                                *)
EXTENDS Naturals, FiniteSets, FiniteSetsExt

CONSTANTS
  MaxName,      \* entries are named 1..MaxName in the order of their cursors
  Values,    \* values of entries
  NoEntry,      \* no entry
  PageLimit,    \* entries in a page of the inventory
  MaxWrites,    \* writes of other programs
  MaxImports    \* times the prepared file is imported

ASSUME TransferAssumption ==
  /\ MaxName \in Nat /\ PageLimit \in Nat \ {0} /\ NoEntry \notin Values
  /\ MaxWrites \in Nat /\ MaxImports \in Nat

Names == 1..MaxName

VARIABLES
  stock,        \* the stored entries
  timed,        \* the ones with an eviction deadline
  due,          \* the ones whose deadline has passed
  head,         \* revision of the store's head
  export,       \* the export
  import,       \* the import
  writes,       \* writes of other programs so far
  touched       \* ghost: entries written elsewhere or expired since the import began

tvars == <<stock, timed, due, head, export, import, writes, touched>>

NoExport == [at |-> "none", expected |-> 0, cursor |-> 0, page |-> {}, more |-> FALSE,
             got |-> [n \in Names |-> NoEntry]]
NoImport == [at |-> "none", plan |-> [n \in Names |-> NoEntry], todo |-> {}, replace |-> FALSE,
             tries |-> 0]

\* What a reader sees: an entry past its deadline is gone.
Visible == [n \in Names |-> IF n \in due THEN NoEntry ELSE stock[n]]

\* purge_expired commits the evictions, which moves the head.
Purged ==
  /\ stock' = Visible
  /\ head' = IF \E n \in due : stock[n] # NoEntry THEN head + 1 ELSE head
  /\ due' = {} /\ timed' = timed \ due

\* A variant that keeps the deadline of the value before.
StoredStillDue(n, v, deadline) ==
  /\ stock' = [stock EXCEPT ![n] = v]
  /\ head' = head + 1
  /\ due' = due
  /\ timed' = IF deadline /\ v # NoEntry THEN timed \cup {n} ELSE timed \ {n}

\* A record is written with its own deadline, and the head moves.
Stored(n, v, deadline) ==
  /\ stock' = [stock EXCEPT ![n] = v]
  /\ head' = head + 1
  /\ due' = due \ {n}
  /\ timed' = IF deadline /\ v # NoEntry THEN timed \cup {n} ELSE timed \ {n}

-----------------------------------------------------------------------------
(* Other programs, and time.                                               *)

WriteEntry(n, v, deadline) ==
  /\ writes < MaxWrites
  /\ v # Visible[n]
  /\ Stored(n, v, deadline)
  /\ writes' = writes + 1
  /\ touched' = IF import.at = "none" THEN touched ELSE touched \cup {n}
  /\ UNCHANGED <<export, import>>

DeadlinePasses(n) ==
  /\ n \in timed \ due
  /\ due' = due \cup {n}
  /\ touched' = IF import.at = "none" THEN touched ELSE touched \cup {n}
  /\ UNCHANGED <<stock, timed, head, export, import, writes>>

-----------------------------------------------------------------------------
(* read_vault_export.                                                      *)

\* ExportRevision.
Revision == Purged

ExportStarts ==
  /\ export.at \in {"none", "done", "failed"}
  /\ Revision
  /\ export' = [NoExport EXCEPT !.at = "list", !.expected = head']
  /\ UNCHANGED <<import, writes, touched>>

\* ListVaultEntries after the cursor.
ExportLists ==
  /\ export.at = "list"
  /\ Purged
  /\ LET rest == {n \in Names : n > export.cursor /\ stock'[n] # NoEntry}
         page == {n \in rest : Cardinality({m \in rest : m <= n}) <= PageLimit}
     IN export' = [export EXCEPT !.at = "read", !.page = page, !.more = rest # page,
                     !.cursor = IF page = {} THEN @ ELSE Max(page)]
  /\ UNCHANGED <<import, writes, touched>>

\* ExportVaultEntry for the next entry of the page: one that has expired is
\* evicted, and one that has disappeared ends the export.
ExportReads ==
  /\ export.at = "read"
  /\ \E n \in export.page :
       /\ \A m \in export.page : n <= m
       /\ \/ /\ Visible[n] # NoEntry
             /\ export' = [export EXCEPT !.page = @ \ {n}, !.got[n] = Visible[n]]
             /\ UNCHANGED <<stock, timed, due, head>>
          \/ /\ Visible[n] = NoEntry
             /\ export' = [export EXCEPT !.at = "failed"]
             /\ IF stock[n] = NoEntry THEN UNCHANGED <<stock, timed, due, head>>
                ELSE Stored(n, NoEntry, FALSE)
  /\ UNCHANGED <<import, writes, touched>>

ExportTurns ==
  /\ export.at = "read" /\ export.page = {}
  /\ export' = [export EXCEPT !.at = IF export.more THEN "list" ELSE "check"]
  /\ UNCHANGED <<stock, timed, due, head, import, writes, touched>>

\* A variant without the comparison.
SameRevisionAlways(now) == TRUE

SameRevision(now) == now = export.expected

ExportEnds ==
  /\ export.at = "check"
  /\ Revision
  /\ export' = [export EXCEPT !.at = IF SameRevision(head') THEN "done" ELSE "failed"]
  /\ UNCHANGED <<import, writes, touched>>

-----------------------------------------------------------------------------
(* PreparedImport::commit.                                                 *)

\* A file is imported, and imported again after an interruption, the second
\* time with replacement disabled.
ImportStarts(plan, replace) ==
  /\ import.at = "none"
  /\ import' = [at |-> "writing", plan |-> plan, replace |-> replace, tries |-> 1,
                todo |-> {n \in Names : plan[n] # NoEntry}]
  /\ UNCHANGED <<stock, timed, due, head, export, writes, touched>>

ImportRetried ==
  /\ import.at = "interrupted" /\ import.tries < MaxImports
  /\ import' = [import EXCEPT !.at = "writing", !.replace = FALSE, !.tries = @ + 1,
                  !.todo = {n \in Names : import.plan[n] # NoEntry}]
  /\ UNCHANGED <<stock, timed, due, head, export, writes, touched>>

\* A variant that asks only whether a record is stored, expired or not.
KeepsStored(n) == stock[n] # NoEntry /\ ~import.replace

\* An existing entry is kept unless the user chose to replace.
KeepsExisting(n) == Visible[n] # NoEntry /\ ~import.replace

\* ImportVaultEntry, and the reply or its loss.
ImportWrites(n) ==
  /\ import.at = "writing" /\ n \in import.todo
  /\ IF KeepsExisting(n) THEN UNCHANGED <<stock, timed, due, head>>
     ELSE Stored(n, import.plan[n], FALSE)
  /\ \E reply \in {"writing", "interrupted"} :
       import' = [import EXCEPT !.at = reply, !.todo = @ \ {n}]
  /\ UNCHANGED <<export, writes, touched>>

\* The request did not reach the vault.
ImportFails ==
  /\ import.at = "writing" /\ import.todo # {}
  /\ import' = [import EXCEPT !.at = "interrupted"]
  /\ UNCHANGED <<stock, timed, due, head, export, writes, touched>>

ImportEnds ==
  /\ import.at = "writing" /\ import.todo = {}
  /\ import' = [import EXCEPT !.at = "done"]
  /\ UNCHANGED <<stock, timed, due, head, export, writes, touched>>

-----------------------------------------------------------------------------
TransferInit ==
  /\ stock \in [Names -> Values \cup {NoEntry}]
  /\ timed \in SUBSET {n \in Names : stock[n] # NoEntry} /\ due = {}
  /\ head = 0 /\ export = NoExport /\ import = NoImport /\ writes = 0 /\ touched = {}

Exporting == ExportStarts \/ ExportLists \/ ExportReads \/ ExportTurns \/ ExportEnds

Importing ==
  \/ \E n \in Names : ImportWrites(n)
  \/ ImportRetried \/ ImportFails \/ ImportEnds

\* What a prepared file may hold.
Plans == [Names -> Values \cup {NoEntry}]

Elsewhere ==
  \E n \in Names :
    \/ DeadlinePasses(n)
    \/ \E v \in Values \cup {NoEntry}, deadline \in BOOLEAN : WriteEntry(n, v, deadline)

Transfers ==
  \/ Exporting \/ Importing \/ Elsewhere
  \/ \E plan \in Plans, replace \in BOOLEAN : ImportStarts(plan, replace)

TransferSpec == TransferInit /\ [][Transfers]_tvars

\* The type invariant of exports and imports.
TransferTypeOK ==
  /\ stock \in [Names -> Values \cup {NoEntry}] /\ due \subseteq timed
  /\ export.at \in {"none", "list", "read", "check", "done", "failed"}
  /\ import.at \in {"none", "writing", "interrupted", "done"}
  /\ export.cursor \in 0..MaxName /\ import.todo \subseteq Names

\* An export that succeeds holds exactly the entries the vault held when it
\* began, and still holds when it ends, at one point in time: no write and
\* no expiry in between yields a mixture.
ExportIsConsistent ==
  [][(export.at = "check" /\ export'.at = "done") => (export.got = stock' /\ due' = {})]_tvars

\* When an import has succeeded, at the first try or after interruptions and
\* lost replies, every record of the file that nobody else changed meanwhile
\* is in the vault, with the file's value if the user chose to replace.
ImportIsComplete ==
  import.at = "done" =>
    \A n \in Names : (import.plan[n] # NoEntry /\ n \notin touched) =>
      IF import.replace THEN stock[n] = import.plan[n] ELSE Visible[n] # NoEntry

=============================================================================
