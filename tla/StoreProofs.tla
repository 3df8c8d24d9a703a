---------------------------- MODULE StoreProofs ----------------------------
(***************************************************************************)
(* Proofs about Store for any documents, addresses, values, deadlines and  *)
(* any generation limit: the worker's state is well typed, a store nobody  *)
(* put back always verifies, and every newly signed manifest attests one   *)
(* document's next generation.                                             *)
(*                                                                         *)
(* StoreStaysReadable is not inductive: it says nothing about the step     *)
(* between the transaction and the in-memory advance, nor about the commit *)
(* that was prepared.  Sound adds both.                                    *)
(***************************************************************************)
EXTENDS Store, TLAPS

Successor(head) == IF head = Absent THEN 1 ELSE head.generation + 1

\* What is prepared is the next generation of a document; a command that is
\* executing is there and is not a sweep.
Prepared ==
    /\ pc \in {"persist", "committed"} =>
          /\ prepared \in [doc : Docs, expected : CurrentHead \cup {Absent}, next : CurrentHead]
          /\ prepared.next.generation = Successor(prepared.expected)
    /\ pc = "execute" => asked # NoRecord /\ asked.kind # "sweep"

\* Disk and memory agree as far as the step the worker is at allows.
Agree ==
    /\ schema = "chain" => pc \in {"closed", "initialize"}
    /\ rolledBack = 0 =>
         /\ rows = manifest.documents /\ snapshots = rows
         /\ schema = "current" => heads = rows
         /\ pc \notin {"closed", "initialize", "committed"} => verified = manifest
         /\ pc = "committed" => manifest = Signed

Sound == TypeOK /\ Prepared /\ Agree

-----------------------------------------------------------------------------
(* Types of the operators.                                                 *)

\* One step of a mutation (SecretDocument::apply) yields a document.
LEMMA ChangeType ==
    ASSUME NEW c \in Content, NEW s \in Put \cup Delete
    PROVE  Change(c, s) \in Content
<1>1. s.addr \in Addrs
  BY Zenon DEF Put, Delete
<1>2. s.kind = "put" => s.record \in Record
  BY Zenon DEF Put, Delete
<1> QED BY <1>1, <1>2, Zenon DEF Change, Content

\* A mutating command yields a document.
LEMMA EffectType ==
    ASSUME NEW c \in Content, NEW x, x.kind # "clear" => x.steps \in Mutations
    PROVE  Effect(x, c) \in Content
<1>1. CASE x.kind = "clear"
  BY <1>1, Zenon DEF Effect, Empty, Content
<1>2. CASE x.kind # "clear" /\ \E s \in Put \cup Delete : x.steps = <<s>>
  <2>1. PICK s \in Put \cup Delete : x.steps = <<s>>
    BY <1>2, Zenon
  <2> QED BY <1>2, <2>1, ChangeType DEF Effect
<1>3. CASE x.kind # "clear" /\ \E s, u \in Put \cup Delete : x.steps = <<s, u>>
  <2>1. PICK s \in Put \cup Delete, u \in Put \cup Delete : x.steps = <<s, u>>
    BY <1>3, Zenon
  <2>2. Change(c, s) \in Content
    BY ChangeType, Zenon
  <2>3. Change(Change(c, s), u) \in Content
    BY <2>2, ChangeType, Zenon
  <2> QED BY <1>3, <2>1, <2>3 DEF Effect
<1> QED BY <1>1, <1>2, <1>3 DEF Mutations

\* Removing due records yields a document.
LEMMA UnexpiredType ==
    ASSUME NEW c \in Content, NEW t
    PROVE  Unexpired(c, t) \in Content
BY Zenon DEF Unexpired, Content

\* The fields of a pending command.
LEMMA AskedFields ==
    ASSUME TypeOK, asked # NoRecord
    PROVE  /\ asked.at \in 0..MaxTime
           /\ asked.kind \in {"mutate", "clear", "get", "read", "sweep"}
           /\ asked.kind # "sweep" => asked.doc \in Docs
           /\ asked.kind = "mutate" => asked.steps \in Mutations
           /\ asked.kind \in {"get", "read"} => asked.addr \in Addrs
BY Zenon DEF TypeOK, Commands

\* A document that loads has a well-typed content.
LEMMA LoadedType ==
    ASSUME TypeOK, NEW d \in Docs, Loads(d)
    PROVE  Loaded(d) \in Content
BY Zenon DEF TypeOK, Loads, Loaded, Table, CurrentHead, Content, Empty

\* What a read returns.
LEMMA VisibleType ==
    ASSUME NEW c \in Content, NEW x, x.addr \in Addrs
    PROVE  Visible(x, c) \in Values \cup {NoRecord}
BY Zenon DEF Visible, Content, Record

\* The manifest to be signed is well typed.
LEMMA SignedType ==
    ASSUME TypeOK, Prepared, pc \in {"persist", "committed"}
    PROVE  Signed \in Manifest
BY Zenon DEF TypeOK, Prepared, Signed, Manifest, Table

-----------------------------------------------------------------------------
(* Sound is preserved.                                                     *)

\* Stopping is always sound, whatever happened to the pending command.
LEMMA FatalSound ==
    ASSUME Sound, Fatal, UNCHANGED <<now, disk, fault>>
    PROVE  Sound'
<1>0. Nothing \in Manifest
  BY Zenon DEF Nothing, NoTable, Manifest, Table
<1>a. /\ verified' \in Manifest /\ due' = {} /\ dueAt' = 0 /\ prepared' = NoCommit
      /\ pc' = "closed"
  BY <1>0, Zenon DEF Fatal, Stop
<1>b. /\ asked' = NoRecord
      /\ status' \in {"none", "ok", "error"}
      /\ got' = got
  BY Zenon DEF Sound, TypeOK, Fatal, Abandon
<1>c. 0 \in 0..MaxTime
  BY DeadlineAssumption
<1>1. TypeOK'
  BY <1>a, <1>b, <1>c, Zenon DEF Sound, TypeOK, disk, fault
<1>2. Prepared'
  BY Zenon DEF Fatal, Stop, Prepared
<1>3. Agree'
  BY Zenon DEF Sound, Agree, Fatal, Stop, disk, fault
<1> QED BY <1>1, <1>2, <1>3, Zenon DEF Sound

\* Answering a command for which nothing was written.
LEMMA ReplySound ==
    ASSUME Sound, NEW v \in Values \cup {NoRecord}, Reply(v), Unprepared,
           pc \in {"execute", "sweep"}, UNCHANGED <<now, disk, fault>>
    PROVE  Sound'
<1>1. TypeOK'
  BY Zenon DEF Sound, TypeOK, Reply, Unprepared, disk, fault
<1>2. Prepared'
  BY Zenon DEF Reply, Prepared
<1>3. Agree'
  BY Zenon DEF Sound, Agree, Reply, Unprepared, disk, fault
<1> QED BY <1>1, <1>2, <1>3, Zenon DEF Sound

\* prepare_commit yields the next generation of the document, or stops.
LEMMA PrepareSound ==
    ASSUME Sound, NEW d \in Docs, NEW c \in Content, PrepareCommit(d, c),
           pc \in {"execute", "sweep"}, UNCHANGED <<now, disk, fault>>
    PROVE  Sound'
<1> DEFINE g == Successor(rows[d])
<1>1. CASE g = Exhausted
  BY <1>1, FatalSound, Zenon DEF PrepareCommit, Successor
<1>2. CASE g # Exhausted
  <2>1. /\ prepared' = [doc |-> d, expected |-> rows[d], next |-> [generation |-> g, content |-> c]]
        /\ pc' = "persist"
        /\ UNCHANGED <<verified, due, dueAt, command>>
    BY <1>2, Zenon DEF PrepareCommit, Successor
  <2>2. rows[d] \in CurrentHead \cup {Absent}
    BY Zenon DEF Sound, TypeOK, Table
  <2>3. g \in 1..(Exhausted - 1)
    BY <1>2, <2>2, ExhaustedAssumption DEF Successor, CurrentHead
  <2>4. prepared' \in [doc : Docs, expected : CurrentHead \cup {Absent}, next : CurrentHead]
    BY <2>1, <2>2, <2>3, Zenon DEF CurrentHead
  <2>5. Prepared'
    <3>1. prepared'.next.generation = g /\ prepared'.expected = rows[d]
      BY <2>1, Zenon
    <3> QED BY <2>1, <2>4, <3>1, Zenon DEF Prepared, Successor
  <2>6. TypeOK'
    BY <2>1, <2>4, ZenonT(60) DEF Sound, TypeOK, disk, fault, command
  <2>7. Agree'
    BY <2>1, Zenon DEF Sound, Agree, disk, fault
  <2> QED BY <2>5, <2>6, <2>7, Zenon DEF Sound
<1> QED BY <1>1, <1>2, Zenon

\* The four operations of execute_command.
LEMMA OperationSound ==
    ASSUME Sound, pc = "execute", Loads(asked.doc), Get \/ GetMany \/ Mutate \/ Clear,
           UNCHANGED <<now, disk, fault>>
    PROVE  Sound'
<1> USE DEF Sound
<1>1. asked # NoRecord /\ asked.kind # "sweep"
  BY Zenon DEF Prepared
<1>2. asked.doc \in Docs
  BY <1>1, AskedFields, Zenon
<1>3. Loaded(asked.doc) \in Content
  BY <1>2, LoadedType, Zenon
<1> DEFINE c == Loaded(asked.doc)
<1>4. CASE Get
  <2>1. asked.addr \in Addrs
    BY <1>1, <1>4, AskedFields, Zenon DEF Get
  <2>2. Visible(asked, c) \in Values \cup {NoRecord}
    BY <1>3, <2>1, VisibleType, Zenon
  <2>3. [c EXCEPT ![asked.addr] = NoRecord] \in Content
    BY <1>3, Zenon DEF Content
  <2>4. CASE Due(c[asked.addr], asked.at)
    BY <1>2, <1>4, <2>3, <2>4, PrepareSound, Zenon DEF Get
  <2>5. CASE ~Due(c[asked.addr], asked.at)
    BY <1>4, <2>2, <2>5, ReplySound, Zenon DEF Get
  <2> QED BY <2>4, <2>5, Zenon
<1>5. CASE GetMany
  <2>1. asked.addr \in Addrs
    BY <1>1, <1>5, AskedFields, Zenon DEF GetMany
  <2>2. Visible(asked, c) \in Values \cup {NoRecord}
    BY <1>3, <2>1, VisibleType, Zenon
  <2> QED BY <1>5, <2>2, ReplySound, Zenon DEF GetMany
<1>6. CASE Mutate
  <2>1. Effect(asked, c) \in Content
    BY <1>1, <1>3, <1>6, AskedFields, EffectType, Zenon DEF Mutate
  <2>2. CASE Unchanging(c)
    BY <1>6, <2>2, ReplySound, Zenon DEF Mutate
  <2>3. CASE ~Unchanging(c)
    BY <1>2, <1>6, <2>1, <2>3, PrepareSound, Zenon DEF Mutate
  <2> QED BY <2>2, <2>3, Zenon
<1>7. CASE Clear
  <2>1. Empty \in Content
    BY Zenon DEF Empty, Content
  <2>2. CASE c = Empty
    BY <1>7, <2>2, ReplySound, Zenon DEF Clear
  <2>3. CASE c # Empty
    BY <1>2, <1>7, <2>1, <2>3, PrepareSound, Zenon DEF Clear
  <2> QED BY <2>2, <2>3, Zenon
<1> QED BY <1>4, <1>5, <1>6, <1>7, Zenon

\* The transaction of persist_commit: the tables and the manifest move together.
LEMMA PersistSound ==
    ASSUME Sound, pc = "persist", LiveInventory, rows[prepared.doc] = prepared.expected, Persist,
           status' = IF asked # NoRecord /\ asked.kind \in {"mutate", "clear"} THEN "applied" ELSE status,
           pc' = "committed", UNCHANGED <<verified, due, dueAt, prepared, asked, got, now>>
    PROVE  Sound'
<1> USE DEF Sound
<1>1. prepared \in [doc : Docs, expected : CurrentHead \cup {Absent}, next : CurrentHead]
  BY Zenon DEF Prepared
<1>2. rows' \in Table /\ snapshots' \in Table /\ heads' \in Table /\ copies' \in Table
  BY <1>1, Zenon DEF Persist, TypeOK, Table
<1>3. manifest' \in Manifest
  BY SignedType, Zenon DEF Persist
<1>4. (status' \in {"waiting", "applied"}) <=> (asked' # NoRecord)
  BY Zenon DEF TypeOK
<1>5. status' \in {"none", "waiting", "applied", "ok", "error"}
  BY Zenon DEF TypeOK
<1>6. TypeOK'
  BY <1>1, <1>2, <1>3, <1>4, <1>5, ZenonT(60) DEF TypeOK, Persist
<1>7. Prepared'
  BY Zenon DEF Prepared, Successor
<1>8. Agree'
  <2>1. schema' = schema /\ schema # "chain" /\ rolledBack' = rolledBack
    BY Zenon DEF Agree, Persist
  <2>2. Signed' = Signed /\ manifest' = Signed
    BY Zenon DEF Signed, Persist
  <2>3. SUFFICES ASSUME rolledBack = 0
                 PROVE  rows' = manifest'.documents /\ snapshots' = rows' /\ heads' = rows'
    BY <2>1, <2>2, Zenon DEF Agree
  <2>4. verified.documents = rows /\ snapshots = rows /\ heads = rows
    BY <2>1, <2>3, Zenon DEF Agree, TypeOK
  <2>5. manifest'.documents = [verified.documents EXCEPT ![prepared.doc] = prepared.next]
    BY <2>2, Zenon DEF Signed
  <2> QED BY <2>4, <2>5, Zenon DEF Persist
<1> QED BY <1>6, <1>7, <1>8, Zenon

\* The advance of the trusted inventory.
LEMMA CheckpointSound ==
    ASSUME Sound, Checkpoint
    PROVE  Sound'
<1> USE DEF Sound
<1>1. CASE Fatal
  BY <1>1, FatalSound, Zenon DEF Checkpoint
<1>2. CASE ~Fatal
  <2>1. /\ verified' = Signed /\ prepared' = NoCommit /\ pc = "committed"
        /\ UNCHANGED <<now, disk, fault>>
    BY <1>2, Zenon DEF Checkpoint
  <2>2. verified' \in Manifest
    BY <2>1, SignedType, Zenon
  <2>3. CASE due = {} /\ Reply(NoRecord) /\ UNCHANGED <<due, dueAt>>
    <3>1. TypeOK'
      BY <2>1, <2>2, <2>3, Zenon DEF TypeOK, Reply, disk, fault
    <3>2. Prepared' /\ Agree'
      BY <2>1, <2>3, Zenon DEF Prepared, Agree, Reply, disk, fault
    <3> QED BY <3>1, <3>2, Zenon
  <2>4. CASE due' = due \ {prepared.doc} /\ pc' = "sweep" /\ UNCHANGED <<dueAt, command>>
    <3>1. TypeOK'
      BY <2>1, <2>2, <2>4, ZenonT(60) DEF TypeOK, command, disk, fault
    <3>2. Prepared' /\ Agree'
      BY <2>1, <2>4, Zenon DEF Prepared, Agree, disk, fault
    <3> QED BY <3>1, <3>2, Zenon
  <2> QED BY <1>2, <2>3, <2>4, Zenon DEF Checkpoint
<1> QED BY <1>1, <1>2, Zenon

\* Opening the store: migration, verification and the end of a repack.
LEMMA OpeningSound ==
    ASSUME Sound, Open \/ MigrateCurrentState \/ InitializeCurrentState \/ FinishMigrationRepack
    PROVE  Sound'
<1> USE DEF Sound
<1>0. Nothing \in Manifest /\ 0 \in 0..MaxTime
  BY DeadlineAssumption DEF Nothing, NoTable, Manifest, Table
<1>1. CASE Open
  BY <1>1 DEF Open, TypeOK, Prepared, Agree, disk, command, fault
<1>2. CASE MigrateCurrentState
  <2>1. /\ pc' \in {"closed", "initialize"} /\ verified' \in Manifest
        /\ due' \subseteq Docs /\ dueAt' \in 0..MaxTime
        /\ prepared' = NoCommit \/ prepared' = prepared
    BY <1>0, <1>2, Zenon DEF MigrateCurrentState, Stop, worker, TypeOK
  <2>2. /\ rows' = rows /\ snapshots' = snapshots
        /\ (schema' = "current" /\ heads' = manifest.documents) \/ UNCHANGED <<schema, heads>>
        /\ manifest' \in Manifest /\ manifest'.documents = manifest.documents
    <3>1. CASE UNCHANGED disk
      BY <3>1, Zenon DEF disk, TypeOK
    <3>2. CASE ~UNCHANGED disk
      <4>1. PICK repack \in BOOLEAN : manifest' = [manifest EXCEPT !.repack = repack]
        BY <1>2, <3>2, Zenon DEF MigrateCurrentState
      <4>2. manifest' \in Manifest /\ manifest'.documents = manifest.documents
        BY <4>1, Zenon DEF TypeOK, Manifest
      <4> QED BY <1>2, <3>2, <4>2, Zenon DEF MigrateCurrentState
    <3> QED BY <3>1, <3>2, Zenon
  <2>3. heads' \in Table
    BY <2>2, Zenon DEF TypeOK, Manifest
  <2>4. UNCHANGED <<now, command, fault>>
    BY <1>2, Zenon DEF MigrateCurrentState
  <2>5. TypeOK'
    BY <2>1, <2>2, <2>3, <2>4 DEF TypeOK, command, fault
  <2>6. Prepared'
    BY <2>1, Zenon DEF Prepared
  <2>7. Agree'
    BY <2>1, <2>2, <2>4, Zenon DEF Agree, fault
  <2> QED BY <2>5, <2>6, <2>7, Zenon
<1>3. CASE InitializeCurrentState
  <2>1. CASE CurrentState /\ verified' = manifest
             /\ pc' = (IF manifest.repack THEN "repack" ELSE "inventory")
             /\ UNCHANGED <<due, dueAt, prepared>>
    <3>1. pc' \in {"repack", "inventory"}
      BY <2>1, Zenon
    <3>2. TypeOK'
      BY <1>3, <2>1, <3>1, ZenonT(60) DEF InitializeCurrentState, TypeOK, disk, command, fault
    <3>3. Prepared' /\ Agree'
      BY <1>3, <2>1, <3>1, ZenonT(60)
         DEF InitializeCurrentState, Prepared, Agree, disk, command, fault
    <3> QED BY <3>2, <3>3, Zenon
  <2>2. CASE Stop
    BY <1>0, <1>3, <2>2, ZenonT(60)
       DEF InitializeCurrentState, Stop, TypeOK, Prepared, Agree, disk, command, fault
  <2> QED BY <1>3, <2>1, <2>2, Zenon DEF InitializeCurrentState
<1>4. CASE FinishMigrationRepack
  <2>1. pc = "repack" /\ UNCHANGED <<now, command, fault>>
    BY <1>4, Zenon DEF FinishMigrationRepack
  <2>2. CASE UNCHANGED disk /\ Stop
    BY <1>0, <2>1, <2>2, ZenonT(60) DEF Stop, TypeOK, Prepared, Agree, disk, command, fault
  <2>3. CASE /\ Anchored
             /\ manifest' = [verified EXCEPT !.repack = FALSE]
             /\ UNCHANGED <<schema, rows, heads, snapshots>>
             /\ \/ verified' = manifest' /\ pc' = "inventory" /\ UNCHANGED <<due, dueAt, prepared>>
                \/ Stop
    <3>1. manifest' \in Manifest /\ manifest'.documents = manifest.documents
      BY <2>3, ZenonT(60) DEF TypeOK, Manifest, Anchored
    <3>2. /\ (pc' = "inventory" /\ verified' = manifest') \/ pc' = "closed"
          /\ verified' \in Manifest
          /\ due' \subseteq Docs /\ dueAt' \in 0..MaxTime
          /\ prepared' = NoCommit \/ prepared' = prepared
      BY <1>0, <2>3, <3>1, ZenonT(60) DEF Stop, TypeOK
    <3>3. TypeOK'
      BY <2>1, <2>3, <3>1, <3>2, ZenonT(60) DEF TypeOK, command, fault
    <3>4. Prepared' /\ Agree'
      BY <2>1, <2>3, <3>1, <3>2, Zenon DEF Prepared, Agree, fault
    <3> QED BY <3>3, <3>4, Zenon
  <2> QED BY <1>4, <2>2, <2>3, Zenon DEF FinishMigrationRepack, LiveInventory
<1> QED BY <1>1, <1>2, <1>3, <1>4, Zenon

\* Sweeping: finding what is due, one document at a time, and the end.
LEMMA SweepingSound ==
    ASSUME Sound, FindDue \/ SweepDocument \/ FinishSweep
    PROVE  Sound'
<1> USE DEF Sound
<1>1. CASE FindDue
  <2>1. CASE Fatal
    BY <1>1, <2>1, FatalSound, Zenon DEF FindDue
  <2>2. CASE ~Fatal
    <3>1. dueAt' \in 0..MaxTime
      BY <1>1, <2>2, AskedFields, Zenon DEF FindDue, TypeOK
    <3>2. due' \subseteq Docs
      BY <1>1, <2>2, Zenon DEF FindDue, Present
    <3>3. TypeOK'
      BY <1>1, <2>2, <3>1, <3>2, ZenonT(60) DEF FindDue, TypeOK, disk, command, fault
    <3>4. Prepared' /\ Agree'
      BY <1>1, <2>2, Zenon DEF FindDue, Prepared, Agree, disk, command, fault
    <3> QED BY <3>3, <3>4, Zenon
  <2> QED BY <2>1, <2>2, Zenon
<1>2. CASE SweepDocument
  <2>1. PICK d \in due :
          \/ /\ Loads(d)
             /\ PrepareCommit(d, Unexpired(Loaded(d), dueAt))
          \/ due' = due \ {d} /\ UNCHANGED <<pc, verified, dueAt, prepared, command>>
          \/ Fatal
    BY <1>2, Zenon DEF SweepDocument
  <2>2. d \in Docs
    BY Zenon DEF TypeOK
  <2>3. pc = "sweep" /\ UNCHANGED <<now, disk, fault>>
    BY <1>2, Zenon DEF SweepDocument
  <2>4. CASE Loads(d) /\ PrepareCommit(d, Unexpired(Loaded(d), dueAt))
    BY <2>2, <2>3, <2>4, LoadedType, UnexpiredType, PrepareSound, Zenon
  <2>5. CASE due' = due \ {d} /\ UNCHANGED <<pc, verified, dueAt, prepared, command>>
    <3>1. TypeOK'
      BY <2>3, <2>5, ZenonT(60) DEF TypeOK, disk, command, fault
    <3>2. Prepared' /\ Agree'
      BY <2>3, <2>5, Zenon DEF Prepared, Agree, disk, command, fault
    <3> QED BY <3>1, <3>2, Zenon
  <2>6. CASE Fatal
    BY <2>3, <2>6, FatalSound, Zenon
  <2> QED BY <2>1, <2>4, <2>5, <2>6, Zenon
<1>3. CASE FinishSweep
  <2>1. 0 \in 0..MaxTime
    BY DeadlineAssumption
  <2>2. TypeOK'
    BY <1>3, <2>1, ZenonT(60) DEF FinishSweep, Reply, TypeOK, disk, command, fault
  <2>3. Prepared' /\ Agree'
    BY <1>3, Zenon DEF FinishSweep, Reply, Prepared, Agree, disk, command, fault
  <2> QED BY <2>2, <2>3, Zenon
<1> QED BY <1>1, <1>2, <1>3, Zenon

\* Receiving and executing a command, and committing what it prepared.
LEMMA CommandSound ==
    ASSUME Sound, Receive \/ Execute \/ PersistCommit
    PROVE  Sound'
<1> USE DEF Sound
<1>1. CASE Receive
  <2>1. asked' \in Commands(Mutations, now)
    BY <1>1, Zenon DEF Receive, Commands
  <2>2. now \in 0..MaxTime /\ asked' # NoRecord
    BY <2>1, NoRecordAssumption, ZenonT(60) DEF TypeOK
  <2>3. TypeOK'
    BY <1>1, <2>1, <2>2, ZenonT(60) DEF Receive, TypeOK, disk, fault
  <2>4. Prepared' /\ Agree'
    BY <1>1, <2>2, Zenon DEF Receive, Prepared, Agree, disk, fault
  <2> QED BY <2>3, <2>4, Zenon
<1>2. CASE Execute
  <2>1. pc = "execute" /\ UNCHANGED <<now, disk, fault>>
    BY <1>2, Zenon DEF Execute
  <2>2. CASE Loads(asked.doc) /\ (Get \/ GetMany \/ Mutate \/ Clear)
    BY <2>1, <2>2, OperationSound, Zenon
  <2>3. CASE Fatal
    BY <2>1, <2>3, FatalSound, ZenonT(60)
  <2>4. CASE pc' = "idle" /\ Abandon /\ Unprepared
    <3>1. /\ asked' = NoRecord /\ status' \in {"none", "ok", "error"}
          /\ got' = got
      BY <2>4, Zenon DEF Abandon, TypeOK
    <3>2. TypeOK'
      BY <2>1, <2>4, <3>1, ZenonT(60) DEF Unprepared, TypeOK, disk, fault
    <3>3. Prepared' /\ Agree'
      BY <2>1, <2>4, Zenon DEF Unprepared, Prepared, Agree, disk, fault
    <3> QED BY <3>2, <3>3, Zenon
  <2> QED BY <1>2, <2>2, <2>3, <2>4, Zenon DEF Execute
<1>3. CASE PersistCommit
  <2>1. CASE UNCHANGED <<disk, fault>> /\ Fatal
    BY <1>3, <2>1, FatalSound, Zenon DEF PersistCommit
  <2>2. CASE ~(UNCHANGED <<disk, fault>> /\ Fatal)
    BY <1>3, <2>2, PersistSound, Zenon DEF PersistCommit
  <2> QED BY <2>1, <2>2, Zenon
<1> QED BY <1>1, <1>2, <1>3, Zenon

\* Crashes, put-back tables and time.
LEMMA EnvironmentSound ==
    ASSUME Sound, Crash \/ PutBack \/ Tick
    PROVE  Sound'
<1> USE DEF Sound
<1>1. CASE Crash
  BY <1>1, FatalSound, Zenon DEF Crash
<1>2. CASE PutBack
  <2>1. rows' \in Table /\ heads' \in Table /\ snapshots' \in Table
    <3>1. rows \in Table /\ heads \in Table /\ snapshots \in Table /\ copies \in Table
      BY Zenon DEF TypeOK
    <3>2. PICK d \in Docs :
             /\ rows' = rows \/ rows' = [rows EXCEPT ![d] = copies[d]]
             /\ heads' = heads \/ heads' = [heads EXCEPT ![d] = copies[d]]
             /\ snapshots' = snapshots \/ snapshots' = [snapshots EXCEPT ![d] = copies[d]]
      BY <1>2, RollbacksAssumption, Zenon DEF PutBack
    <3>3. ASSUME NEW T \in Table
          PROVE  [T EXCEPT ![d] = copies[d]] \in Table
      BY <3>1, Zenon DEF Table
    <3> QED BY <3>1, <3>2, <3>3, Zenon
  <2>2. rolledBack' \in 0..Rollbacks /\ rolledBack' # 0
    BY <1>2, RollbacksAssumption DEF PutBack, TypeOK
  <2>3. TypeOK'
    BY <1>2, <2>1, <2>2 DEF PutBack, TypeOK, worker, command
  <2>4. Prepared' /\ Agree'
    BY <1>2, <2>2, Zenon DEF PutBack, Prepared, Agree, worker, command
  <2> QED BY <2>3, <2>4, Zenon
<1>3. CASE Tick
  <2>1. now' \in 0..MaxTime
    BY <1>3, DeadlineAssumption DEF Tick, TypeOK
  <2>2. TypeOK'
    BY <1>3, <2>1 DEF Tick, TypeOK, disk, worker, command, fault
  <2>3. Prepared' /\ Agree'
    BY <1>3, Zenon DEF Tick, Prepared, Agree, Signed, disk, worker, command, fault
  <2> QED BY <2>2, <2>3, Zenon
<1> QED BY <1>1, <1>2, <1>3, Zenon

\* Sound holds initially.
LEMMA InitSound == Init => Sound
<1> SUFFICES ASSUME Init PROVE Sound
  BY Zenon
<1>1. NoTable \in Table
  BY Zenon DEF NoTable, Table
<1>2. 1 \in 1..(Exhausted - 1)
  BY ExhaustedAssumption
<1>3. rows \in Table
  BY <1>2, Zenon DEF Init, Table, CurrentHead
<1>4. manifest \in Manifest /\ Nothing \in Manifest
  BY <1>1, <1>3, Zenon DEF Init, Manifest, Nothing
<1>5. 0 \in 0..MaxTime /\ 0 \in 0..Rollbacks
  BY DeadlineAssumption, RollbacksAssumption
<1>6. TypeOK
  BY <1>1, <1>3, <1>4, <1>5, Zenon DEF Init, TypeOK
<1>7. Prepared /\ Agree
  BY Zenon DEF Init, Prepared, Agree
<1> QED BY <1>6, <1>7, Zenon DEF Sound

\* Every step of the worker and its environment preserves Sound.
LEMMA NextSound == Sound /\ [Next]_vars => Sound'
<1> SUFFICES ASSUME Sound, [Next]_vars PROVE Sound'
  BY Zenon
<1>1. CASE UNCHANGED vars
  BY <1>1 DEF vars, Sound, TypeOK, Prepared, Agree, Signed, disk, worker, command, fault
<1>2. CASE Next
  BY <1>2, OpeningSound, SweepingSound, CommandSound, CheckpointSound, EnvironmentSound, Zenon
     DEF Next
<1> QED BY <1>1, <1>2, Zenon

-----------------------------------------------------------------------------
(* The theorems.                                                           *)

\* Sound is an invariant of the worker.
THEOREM AlwaysSound == Spec => []Sound
BY InitSound, NextSound, PTL DEF Spec

\* Every reachable state of the worker is well typed; in particular no
\* document ever reaches the refused generation (mutation.rs, prepare_commit).
THEOREM TypeCorrect == Spec => []TypeOK
<1>1. Sound => TypeOK
  BY Zenon DEF Sound
<1> QED BY <1>1, AlwaysSound, PTL

\* A store nobody put back verifies at every step at which the process may
\* die, and no check of the running worker fails (state.rs,
\* verify_current_state; integrity.rs, verify_live_inventory).
THEOREM AlwaysReadable == Spec => []StoreStaysReadable
<1>1. Sound => StoreStaysReadable
  <2> SUFFICES ASSUME Sound, rolledBack = 0
               PROVE  /\ schema = "current" => CurrentState
                      /\ pc \notin {"closed", "initialize", "committed"} =>
                            LiveInventory /\ \A d \in Docs : Loads(d)
    BY Zenon DEF StoreStaysReadable
  <2>1. schema = "current" => CurrentState
    BY Zenon DEF Sound, Agree, CurrentState
  <2>2. ASSUME pc \notin {"closed", "initialize", "committed"}
        PROVE  LiveInventory /\ \A d \in Docs : Loads(d)
    <3>1. verified = manifest /\ rows = verified.documents /\ snapshots = rows /\ heads = rows
      BY <2>2, Zenon DEF Sound, Agree, TypeOK
    <3>2. RowSets
      BY <3>1, Zenon DEF RowSets, Present
    <3> QED BY <3>1, <3>2, Zenon DEF LiveInventory, Anchored, Loads
  <2> QED BY <2>1, <2>2, Zenon
<1> QED BY <1>1, AlwaysSound, PTL

\* Whatever tables are put back and whenever, a newly signed manifest attests
\* one document's next generation and every other document as before
\* (mutation.rs, persist_commit).
THEOREM RollbackNeverCertified == Spec => CertifiedStateAdvances
<1> DEFINE Advances ==
      \A d \in Docs : manifest'.documents[d] # manifest.documents[d] =>
          /\ manifest'.documents[d] # Absent
          /\ manifest'.documents[d].generation =
                IF manifest.documents[d] = Absent THEN 1 ELSE manifest.documents[d].generation + 1
          /\ \A e \in Docs \ {d} : manifest'.documents[e] = manifest.documents[e]
<1>1. Sound /\ [Next]_vars => [Advances]_vars
  <2> SUFFICES ASSUME Sound, Next PROVE Advances
    BY Zenon
  <2>1. CASE manifest'.documents = manifest.documents
    BY <2>1, Zenon
  <2>2. CASE PersistCommit /\ manifest' # manifest
    <3>1. /\ LiveInventory /\ rows[prepared.doc] = prepared.expected
          /\ Persist /\ pc = "persist"
      BY <2>2, Zenon DEF PersistCommit, disk
    <3>2. /\ prepared \in [doc : Docs, expected : CurrentHead \cup {Absent}, next : CurrentHead]
          /\ prepared.next.generation = Successor(prepared.expected)
      BY <3>1, Zenon DEF Sound, Prepared
    <3>3. manifest.documents = rows /\ verified.documents = rows /\ rows \in Table
      BY <3>1, Zenon DEF LiveInventory, Anchored, Sound, TypeOK
    <3>4. manifest'.documents = [rows EXCEPT ![prepared.doc] = prepared.next]
      BY <3>1, <3>3, Zenon DEF Persist, Signed
    <3>5. prepared.next # Absent
      <4>1. prepared.next \in [generation : Nat, content : Content]
        BY <3>2, ExhaustedAssumption DEF CurrentHead
      <4> QED BY <4>1, AbsentAssumption, Zenon
    <3>6. prepared.next.generation =
             IF rows[prepared.doc] = Absent THEN 1 ELSE rows[prepared.doc].generation + 1
      BY <3>1, <3>2, Zenon DEF Successor
    <3> QED BY <3>2, <3>3, <3>4, <3>5, <3>6 DEF Table
  <2>3. ASSUME ~PersistCommit PROVE manifest'.documents = manifest.documents
    <3>1. CASE MigrateCurrentState
      BY <3>1, ZenonT(60) DEF MigrateCurrentState, disk, Sound, TypeOK, Manifest
    <3>2. CASE FinishMigrationRepack
      BY <3>2, Zenon
         DEF FinishMigrationRepack, LiveInventory, Anchored, disk, Sound, TypeOK, Manifest
    <3>3. CASE ~MigrateCurrentState /\ ~FinishMigrationRepack
      <4>1. manifest' = manifest
        BY <2>3, <3>3, Zenon
           DEF Next, Open, InitializeCurrentState, FindDue, SweepDocument, FinishSweep,
           Receive, Execute, Checkpoint, Crash, PutBack, Tick, disk
      <4> QED BY <4>1, Zenon
    <3> QED BY <3>1, <3>2, <3>3, Zenon
  <2> QED BY <2>1, <2>2, <2>3, Zenon
<1> QED BY <1>1, AlwaysSound, PTL DEF Spec, CertifiedStateAdvances

=============================================================================
