------------------------------- MODULE Store -------------------------------
(***************************************************************************)
(* The vault store's worker: one thread that owns the database.  It opens  *)
(* the store by verifying every table against the signed manifest          *)
(* (migrating an old store and finishing an interrupted repack first),     *)
(* sweeps expired records, and then executes one command at a time.  A     *)
(* write loads the current generation, prepares the next one in memory,    *)
(* persists it in one transaction, and truncates the log.  The process may *)
(* die between any two steps; a transaction may fail before or after it    *)
(* took effect; and the tables of one document may be put back to an       *)
(* earlier copy behind the worker's back.                                  *)
(*                                                                         *)
(* A digest, signature or identifier is modelled by the contents it        *)
(* authenticates, a document by its records, so a head is a generation     *)
(* with its records.  The database's transactions are atomic (external).   *)
(***************************************************************************)
EXTENDS Records, FiniteSetsExt

CONSTANTS
    Absent,         \* no row for a document
    Exhausted,      \* u64::MAX, scaled down: the generation that is refused
    Rollbacks,      \* bound: how often tables are put back, 0 or 1
    Restorable      \* the documents an earlier copy is kept of

ASSUME AbsentAssumption == Absent \notin [generation : Nat, content : Content]
ASSUME ExhaustedAssumption == Exhausted \in Nat \ {0, 1}
ASSUME RollbacksAssumption == Rollbacks \in {0, 1} /\ Restorable \subseteq Docs

VARIABLES
    now,        \* the wall clock
    asked,      \* the command being executed, if any
    status,     \* "none", "waiting", "applied" (its commit is on disk), "ok" or "error"
    got,        \* what the last read returned
    schema,     \* "chain" (SCHEMA_VERSION) or "current" (CURRENT_SCHEMA_VERSION)
    rows,       \* table documents
    heads,      \* table document_heads
    snapshots,  \* table document_snapshots
    manifest,   \* current-state-manifest, or what the signed chain attests
    pc,         \* where the worker is
    verified,   \* StoreWorker::verified
    due,        \* the documents a sweep has yet to visit
    dueAt,      \* the time that sweep was started with
    prepared,   \* the PreparedCommit: document, expected and next head
    copies,     \* the head each document had before its last commit
    rolledBack  \* how often tables were put back

disk == <<schema, rows, heads, snapshots, manifest>>
worker == <<pc, verified, due, dueAt, prepared>>
command == <<asked, status, got>>
fault == <<copies, rolledBack>>
vars == <<now, disk, worker, command, fault>>

-----------------------------------------------------------------------------
(* Heads, the manifest and the checks made against it.                     *)

CurrentHead == [generation : 1..(Exhausted - 1), content : Content]
Table == [Docs -> CurrentHead \cup {Absent}]
Manifest == [documents : Table, repack : BOOLEAN]
NoTable == [d \in Docs |-> Absent]
Nothing == [documents |-> NoTable, repack |-> FALSE]
NoCommit == [doc |-> NoRecord, expected |-> Absent, next |-> Absent]

Present(table) == {d \in Docs : table[d] # Absent}
RecordsOf(head) == IF head = Absent THEN Empty ELSE head.content

\* Mutant: the latest deadline schedules the sweep.
NextEvictionLast(content) ==
    LET deadlines == {content[a].evict : a \in {b \in Addrs : content[b] # NoRecord}} \ {Never}
    IN  IF deadlines = {} THEN {} ELSE {Max(deadlines)}

\* The earliest deadline of a document, None (here the empty set) if no
\* record has one.
NextEviction(content) ==
    LET deadlines == {content[a].evict : a \in {b \in Addrs : content[b] # NoRecord}} \ {Never}
    IN  IF deadlines = {} THEN {} ELSE {Min(deadlines)}

\* verify_state_anchor.
Anchored == manifest = verified

\* verify_current_row_sets: no document has gained or lost a head record or a
\* snapshot, and every snapshot is of its row's generation.
RowSets ==
    /\ Cardinality(Present(heads)) = Cardinality(Present(verified.documents))
    /\ Cardinality(Present(snapshots)) = Cardinality(Present(verified.documents))
    /\ \A d \in Present(snapshots) :
          rows[d] # Absent /\ rows[d].generation = snapshots[d].generation

\* verify_live_inventory, with verify_inventory.
LiveInventory == Anchored /\ rows = verified.documents /\ RowSets

\* verify_current_state: every table is exactly what the manifest attests.
CurrentState ==
    /\ heads = manifest.documents
    /\ snapshots = heads
    /\ rows = heads

\* load_head: the row, the snapshot and the head record of one document.
Loads(d) ==
    /\ Anchored
    /\ rows[d] = verified.documents[d]
    /\ rows[d] # Absent => snapshots[d] = verified.documents[d] /\ heads[d] = verified.documents[d]

\* load_document: the records of a document that loads.
Loaded(d) == IF rows[d] = Absent THEN Empty ELSE snapshots[d].content

-----------------------------------------------------------------------------
(* Ways for the worker to stop and to answer.                              *)

Stop ==
    /\ pc' = "closed"
    /\ verified' = Nothing
    /\ due' = {}
    /\ dueAt' = 0
    /\ prepared' = NoCommit

\* The command, if there is one, fails; so does opening the store.
Abandon ==
    /\ status' = IF asked = NoRecord THEN status ELSE "error"
    /\ asked' = NoRecord
    /\ UNCHANGED got

\* send_result with a fatal error: the vault seals and the worker exits.
Fatal == Stop /\ Abandon

\* send_result with a result.
Reply(value) ==
    /\ pc' = "idle"
    /\ status' = "ok"
    /\ got' = value
    /\ asked' = NoRecord

\* Nothing was prepared for the command just answered.
Unprepared == UNCHANGED <<verified, due, dueAt, prepared>>

-----------------------------------------------------------------------------
(* Opening the store.                                                      *)

Open ==
    /\ pc = "closed"
    /\ pc' = "initialize"
    /\ UNCHANGED <<now, disk, verified, due, dueAt, prepared, command, fault>>

\* migrate_current_state: one transaction, which may also fail as a whole,
\* and a checkpoint, which may fail after it.
MigrateCurrentState ==
    /\ pc = "initialize"
    /\ schema = "chain"
    /\ \/ /\ schema' = "current"
          /\ heads' = manifest.documents
          /\ \E repack \in BOOLEAN : manifest' = [manifest EXCEPT !.repack = repack]
          /\ UNCHANGED <<rows, snapshots>>
          /\ (Stop \/ UNCHANGED worker)
       \/ UNCHANGED disk /\ Stop
    /\ UNCHANGED <<now, command, fault>>

\* initialize_current_state, and purge_expired finding what is due.
InitializeCurrentState ==
    /\ pc = "initialize"
    /\ schema = "current"
    /\ \/ /\ CurrentState
          /\ verified' = manifest
          /\ pc' = IF manifest.repack THEN "repack" ELSE "inventory"
          /\ UNCHANGED <<due, dueAt, prepared>>
       \/ ~CurrentState /\ Stop
    /\ UNCHANGED <<now, disk, command, fault>>

\* finish_migration_repack: the database is verified again after VACUUM, and
\* the manifest is signed without the marker.
FinishMigrationRepack ==
    /\ pc = "repack"
    /\ \/ /\ CurrentState /\ LiveInventory
          /\ manifest' = [verified EXCEPT !.repack = FALSE]
          /\ UNCHANGED <<schema, rows, heads, snapshots>>
          /\ \/ /\ verified' = manifest'
                /\ pc' = "inventory"
                /\ UNCHANGED <<due, dueAt, prepared>>
             \/ Stop
       \/ UNCHANGED disk /\ Stop
    /\ UNCHANGED <<now, command, fault>>

-----------------------------------------------------------------------------
(* Sweeping, when the store opens and as a command.                        *)

\* purge_expired: the due documents, from the verified deadlines, at the time
\* the command carries or, when the store opens, at the clock's.
FindDue ==
    /\ pc = "inventory"
    /\ \/ /\ LiveInventory
          /\ dueAt' = IF asked = NoRecord THEN now ELSE asked.at
          /\ due' = {d \in Present(verified.documents) :
                       \E t \in NextEviction(verified.documents[d].content) : t <= dueAt'}
          /\ pc' = "sweep"
          /\ UNCHANGED <<verified, prepared, command>>
       \/ ~LiveInventory /\ Fatal
    /\ UNCHANGED <<now, disk, fault>>

\* prepare_commit: the next generation, or none once they are exhausted.
PrepareCommit(d, content) ==
    LET generation == IF rows[d] = Absent THEN 1 ELSE rows[d].generation + 1
    IN  IF generation = Exhausted THEN Fatal
        ELSE /\ prepared' = [doc |-> d, expected |-> rows[d],
                             next |-> [generation |-> generation, content |-> content]]
             /\ pc' = "persist"
             /\ UNCHANGED <<verified, due, dueAt, command>>

\* The loop of purge_expired visits the due documents one by one.
SweepDocument ==
    /\ pc = "sweep"
    /\ \E d \in due :
          \/ /\ Loads(d)
             /\ Loaded(d) # Unexpired(Loaded(d), dueAt)
             /\ PrepareCommit(d, Unexpired(Loaded(d), dueAt))
          \/ /\ Loads(d)
             /\ Loaded(d) = Unexpired(Loaded(d), dueAt)
             /\ due' = due \ {d}
             /\ UNCHANGED <<pc, verified, dueAt, prepared, command>>
          \/ ~Loads(d) /\ Fatal
    /\ UNCHANGED <<now, disk, fault>>

\* The store is open, or the PurgeExpired command is answered.
FinishSweep ==
    /\ pc = "sweep"
    /\ due = {}
    /\ dueAt' = 0
    /\ IF asked = NoRecord THEN pc' = "idle" /\ UNCHANGED command ELSE Reply(NoRecord)
    /\ UNCHANGED <<verified, due, prepared>>
    /\ UNCHANGED <<now, disk, fault>>

-----------------------------------------------------------------------------
(* Commands.                                                               *)

\* run_worker receives the next command.
Receive ==
    /\ pc = "idle"
    /\ asked' \in Commands(Mutations, now)
    /\ status' = "waiting"
    /\ got' = NoRecord
    /\ pc' = IF asked'.kind = "sweep" THEN "inventory" ELSE "execute"
    /\ UNCHANGED <<now, disk, verified, due, dueAt, prepared, fault>>

\* StoreWorker::get: an expired record is deleted before the read is answered.
Get ==
    /\ asked.kind = "get"
    /\ IF Due(Loaded(asked.doc)[asked.addr], asked.at)
       THEN PrepareCommit(asked.doc, [Loaded(asked.doc) EXCEPT ![asked.addr] = NoRecord])
       ELSE Reply(Visible(asked, Loaded(asked.doc))) /\ Unprepared

\* StoreWorker::get_many never writes.
GetMany == asked.kind = "read" /\ Reply(Visible(asked, Loaded(asked.doc))) /\ Unprepared

\* SecretDocument::apply changes nothing when every step deletes nothing.
Unchanging(content) ==
    \A i \in 1..Len(asked.steps) :
       asked.steps[i].kind = "delete" /\ content[asked.steps[i].addr] = NoRecord

\* StoreWorker::put, mutate and delete.
Mutate ==
    /\ asked.kind = "mutate"
    /\ IF Unchanging(Loaded(asked.doc)) THEN Reply(NoRecord) /\ Unprepared
       ELSE PrepareCommit(asked.doc, Effect(asked, Loaded(asked.doc)))

\* StoreWorker::clear.
Clear ==
    /\ asked.kind = "clear"
    /\ IF Loaded(asked.doc) = Empty THEN Reply(NoRecord) /\ Unprepared
       ELSE PrepareCommit(asked.doc, Empty)

\* execute_command: load, then the operation.  A command may also be refused
\* for what it carries (an invalid record, a limit), changing nothing.
Execute ==
    /\ pc = "execute"
    /\ \/ Loads(asked.doc) /\ (Get \/ GetMany \/ Mutate \/ Clear)
       \/ ~Loads(asked.doc) /\ Fatal
       \/ /\ Loads(asked.doc)
          /\ pc' = "idle"
          /\ Abandon
          /\ Unprepared
    /\ UNCHANGED <<now, disk, fault>>

-----------------------------------------------------------------------------
(* Committing a generation.                                                *)

\* Mutant: the inventory to sign is read back from the tables.
SignedFromTables == [documents |-> [heads EXCEPT ![prepared.doc] = prepared.next], repack |-> FALSE]

\* The signed inventory of the next state: the trusted one with one new head.
Signed == [documents |-> [verified.documents EXCEPT ![prepared.doc] = prepared.next], repack |-> FALSE]

\* Mutant: the manifest is left to a second transaction that may not happen.
PersistWithoutManifest ==
    /\ rows' = [rows EXCEPT ![prepared.doc] = prepared.next]
    /\ snapshots' = [snapshots EXCEPT ![prepared.doc] = prepared.next]
    /\ heads' = [heads EXCEPT ![prepared.doc] = prepared.next]
    /\ manifest' \in {manifest, Signed}
    /\ UNCHANGED <<schema, fault>>

\* The transaction takes effect on disk.
Persist ==
    /\ rows' = [rows EXCEPT ![prepared.doc] = prepared.next]
    /\ snapshots' = [snapshots EXCEPT ![prepared.doc] = prepared.next]
    /\ heads' = [heads EXCEPT ![prepared.doc] = prepared.next]
    /\ manifest' = Signed
    /\ UNCHANGED schema
    /\ copies' = IF prepared.doc \notin Restorable THEN copies
                 ELSE [copies EXCEPT ![prepared.doc] = prepared.expected]
    /\ UNCHANGED rolledBack

\* persist_commit: the checks, the compare-and-set on the row, the tables and
\* the manifest in one transaction, which may fail without effect.
PersistCommit ==
    /\ pc = "persist"
    /\ \/ /\ LiveInventory /\ rows[prepared.doc] = prepared.expected
          /\ Persist
          /\ status' = IF asked # NoRecord /\ asked.kind \in {"mutate", "clear"} THEN "applied" ELSE status
          /\ pc' = "committed"
          /\ UNCHANGED <<verified, due, dueAt, prepared, asked, got>>
       \/ UNCHANGED <<disk, fault>> /\ Fatal
    /\ UNCHANGED now

\* The trusted inventory advances only after the commit; then checkpoint, and
\* the rest of the command.  The write stays on disk when the commit is
\* reported failed or the checkpoint fails.
Checkpoint ==
    /\ pc = "committed"
    /\ \/ /\ verified' = Signed
          /\ prepared' = NoCommit
          /\ \/ due = {} /\ Reply(NoRecord) /\ UNCHANGED <<due, dueAt>>
             \/ /\ due # {}
                /\ due' = due \ {prepared.doc}
                /\ pc' = "sweep"
                /\ UNCHANGED <<dueAt, command>>
       \/ Fatal
    /\ UNCHANGED <<now, disk, fault>>

-----------------------------------------------------------------------------
(* The environment.                                                        *)

\* The process dies, or the vault seals: a result that is ready is withheld.
Crash ==
    /\ pc # "closed"
    /\ Fatal
    /\ UNCHANGED <<now, disk, fault>>

\* Some of the tables get back the rows one document had before its last
\* commit.  The signed manifest is not among them.
PutBack ==
    /\ rolledBack < Rollbacks
    /\ schema = "current"
    /\ \E d \in Restorable, tables \in SUBSET {"rows", "heads", "snapshots"} :
          /\ tables # {}
          /\ rows' = IF "rows" \in tables THEN [rows EXCEPT ![d] = copies[d]] ELSE rows
          /\ heads' = IF "heads" \in tables THEN [heads EXCEPT ![d] = copies[d]] ELSE heads
          /\ snapshots' = IF "snapshots" \in tables THEN [snapshots EXCEPT ![d] = copies[d]] ELSE snapshots
    /\ rolledBack' = rolledBack + 1
    /\ UNCHANGED <<now, schema, manifest, worker, command, copies>>

Tick ==
    /\ now < MaxTime
    /\ now' = now + 1
    /\ UNCHANGED <<disk, worker, command, fault>>

-----------------------------------------------------------------------------
\* A store of either schema with documents in their first generation, the
\* old one as its signed chain left it.
Init ==
    /\ now = 0
    /\ schema \in {"chain", "current"}
    /\ rows \in [Docs -> [generation : {1}, content : Content] \cup {Absent}]
    /\ snapshots = rows
    /\ heads = IF schema = "chain" THEN NoTable ELSE rows
    /\ manifest = [documents |-> rows, repack |-> FALSE]
    /\ pc = "closed"
    /\ verified = Nothing
    /\ due = {}
    /\ dueAt = 0
    /\ prepared = NoCommit
    /\ asked = NoRecord /\ status = "none" /\ got = NoRecord
    /\ copies = NoTable
    /\ rolledBack = 0

Next ==
    \/ Open \/ MigrateCurrentState \/ InitializeCurrentState \/ FinishMigrationRepack
    \/ FindDue \/ SweepDocument \/ FinishSweep
    \/ Receive \/ Execute \/ PersistCommit \/ Checkpoint
    \/ Crash \/ PutBack \/ Tick

Spec == Init /\ [][Next]_vars

-----------------------------------------------------------------------------
(* Properties.                                                             *)

\* Every variable keeps its type; a command is pending exactly while its
\* status is open.
TypeOK ==
    /\ now \in 0..MaxTime
    /\ schema \in {"chain", "current"}
    /\ rows \in Table /\ heads \in Table /\ snapshots \in Table /\ copies \in Table
    /\ manifest \in Manifest /\ verified \in Manifest
    /\ pc \in {"closed", "initialize", "repack", "inventory", "sweep", "idle",
               "execute", "persist", "committed"}
    /\ due \subseteq Docs
    /\ dueAt \in 0..MaxTime
    /\ prepared = NoCommit \/ prepared \in [doc : Docs, expected : CurrentHead \cup {Absent}, next : CurrentHead]
    /\ asked = NoRecord \/ \E t \in 0..MaxTime : asked \in Commands(Mutations, t)
    /\ status \in {"none", "waiting", "applied", "ok", "error"}
    /\ (status \in {"waiting", "applied"}) <=> (asked # NoRecord)
    /\ got \in Values \cup {NoRecord}
    /\ rolledBack \in 0..Rollbacks

\* The documents the store attests: what it promises about is these.
Certified == [d \in Docs |-> RecordsOf(manifest.documents[d])]

Promised == INSTANCE Documents WITH documents <- Certified

\* The store implements Documents: whatever crashes, failed transactions,
\* failed checkpoints, restarts, migrations and put-back tables happen in
\* between, commands take effect on the attested documents as a whole, "ok"
\* is answered only for what is durable, reads return neither due nor stale
\* records, and a sweep answered "ok" left nothing due (worker.rs, get to
\* clear; mutation.rs, commit_mutation).
Promise == Promised!ASpec

\* As long as nobody put tables back, what is on disk is accepted by the next
\* open, at every step at which the process may die, and the worker's trusted
\* inventory is the attested one, so no check raises a false alarm
\* (state.rs, verify_current_state; integrity.rs, verify_live_inventory).
StoreStaysReadable ==
    rolledBack = 0 =>
       /\ schema = "current" => CurrentState
       /\ pc \notin {"closed", "initialize", "committed"} =>
             LiveInventory /\ \A d \in Docs : Loads(d)

\* A later write certifies no rolled-back document: a newly signed manifest
\* attests one document's next generation and every other document as before
\* (docs/architecture.md: "a partial document rollback cannot be certified by
\* a later write"; mutation.rs, persist_commit).
CertifiedStateAdvances ==
    [][\A d \in Docs : manifest'.documents[d] # manifest.documents[d] =>
          /\ manifest'.documents[d] # Absent
          /\ manifest'.documents[d].generation =
                IF manifest.documents[d] = Absent THEN 1 ELSE manifest.documents[d].generation + 1
          /\ \A e \in Docs \ {d} : manifest'.documents[e] = manifest.documents[e]]_vars

=============================================================================
