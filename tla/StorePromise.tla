---------------------------- MODULE StorePromise ----------------------------
(***************************************************************************)
(* The store implements Documents, for any documents, addresses, values,   *)
(* deadlines and any generation limit.  A step of the worker is a step of  *)
(* Documents on the attested records, or leaves them and the command       *)
(* alone.  Which step it is depends on what the worker has done since the  *)
(* command arrived: Serves relates the prepared generation to the command, *)
(* and a sweep to the documents it has already visited.                    *)
(***************************************************************************)
EXTENDS StoreProofs, WellFoundedInduction

\* The sweep running at dueAt, for the opening store or for a command.
Sweeping == asked = NoRecord \/ asked.kind = "sweep"

\* What persist_commit writes, and for which command.
Intended ==
    LET before == RecordsOf(prepared.expected)
        after == prepared.next.content
    IN  /\ Sweeping => prepared.doc \in due /\ after = Unexpired(before, dueAt)
        /\ ~Sweeping =>
              /\ due = {} /\ prepared.doc = asked.doc
              /\ asked.kind \in {"mutate", "clear", "get"}
              /\ asked.kind \in {"mutate", "clear"} => after = Effect(asked, before)
              /\ asked.kind = "get" =>
                    /\ Due(before[asked.addr], asked.at)
                    /\ after = [before EXCEPT ![asked.addr] = NoRecord]

\* The command and the worker's place belong together.
InStep ==
    /\ pc \in {"closed", "initialize", "repack", "idle"} => asked = NoRecord
    /\ pc \in {"inventory", "sweep"} => Sweeping
    /\ pc = "execute" => ~Sweeping
    /\ pc \notin {"sweep", "persist", "committed"} => due = {}
    /\ (asked # NoRecord /\ ~(pc = "committed" /\ asked.kind \in {"mutate", "clear"})) => status = "waiting"
    /\ (asked # NoRecord /\ pc = "committed" /\ asked.kind \in {"mutate", "clear"}) => status = "applied"

\* A sweep has left nothing due in the documents it does not list any more.
SweptSoFar ==
    (pc \in {"sweep", "persist", "committed"} /\ Sweeping) =>
       /\ asked # NoRecord => dueAt = asked.at
       /\ \A d \in Docs \ due : Unexpired(Certified[d], dueAt) = Certified[d]

Serves ==
    /\ dueAt <= now /\ (asked # NoRecord => asked.at <= now)
    /\ InStep
    /\ pc \in {"persist", "committed"} => Intended
    /\ pc = "committed" => manifest = Signed
    /\ SweptSoFar

-----------------------------------------------------------------------------
(* Records and deadlines.                                                  *)

\* Every non-empty set of deadlines has an earliest one.
LEMMA LeastNatural ==
    ASSUME NEW S \in SUBSET Nat, S # {}
    PROVE  \E m \in S : \A n \in S : m <= n
<1> DEFINE R == OpToRel(<, Nat)
<1>1. IsWellFoundedOn(R, Nat)
  BY NatLessThanWellFounded, Zenon
<1>2. \A n, m \in Nat : n < m => <<n, m>> \in R
  BY Zenon DEF OpToRel
<1> HIDE DEF R
<1>3. PICK m \in S : \A n \in S : ~(<<n, m>> \in R)
  BY <1>1, WFMin, Zenon
<1>4. \A n \in S : n \in Nat /\ m \in Nat /\ ~(n < m)
  BY <1>2, <1>3, Zenon
<1> QED BY <1>4

\* A document whose earliest deadline is still to come has nothing due.
LEMMA NothingDue ==
    ASSUME NEW c \in Content, NEW t \in Nat, \A u \in NextEviction(c) : ~(u <= t)
    PROVE  Unexpired(c, t) = c
<1> DEFINE S == {c[a].evict : a \in {b \in Addrs : c[b] # NoRecord}} \ {Never}
<1>1. S \in SUBSET Nat
  BY DeadlineAssumption, Zenon DEF Content, Record
<1>2. ASSUME NEW a \in Addrs PROVE ~Due(c[a], t)
  <2> SUFFICES ASSUME Due(c[a], t) PROVE FALSE
    BY Zenon
  <2>0. c[a] # NoRecord /\ c[a].evict # Never /\ c[a].evict <= t
    BY Zenon DEF Due
  <2>1. c[a].evict \in S
    <3>1. a \in {b \in Addrs : c[b] # NoRecord}
      BY <2>0, Zenon
    <3>2. c[a].evict \in {c[x].evict : x \in {b \in Addrs : c[b] # NoRecord}}
      BY <3>1, Zenon
    <3> QED BY <2>0, <3>2, ZenonT(60)
  <2> HIDE DEF S
  <2>2. PICK m \in S : \A n \in S : m <= n
    BY <1>1, <2>1, LeastNatural, Zenon
  <2>3. Min(S) \in S /\ \A n \in S : Min(S) <= n
    BY <2>2, Zenon DEF Min
  <2>4. Min(S) <= t
    <3>1. Min(S) \in Nat /\ c[a].evict \in Nat /\ Min(S) <= c[a].evict
      BY <1>1, <2>1, <2>3, ZenonT(60)
    <3> QED BY <2>0, <3>1
  <2>5. S # {}
    BY <2>1, Zenon
  <2>6. NextEviction(c) = {Min(S)}
    BY <2>5, ZenonT(60) DEF NextEviction, S
  <2> QED BY <2>4, <2>6, Zenon
<1> QED BY <1>2, Zenon DEF Unexpired, Content

\* Sweeping a document twice is sweeping it once.
LEMMA UnexpiredTwice ==
    ASSUME NEW c \in Content, NEW t
    PROVE  Unexpired(Unexpired(c, t), t) = Unexpired(c, t)
<1>1. \A a \in Addrs : ~Due(Unexpired(c, t)[a], t)
  BY Zenon DEF Unexpired, Due
<1> QED BY <1>1, Zenon DEF Unexpired

\* A document that loads is the attested one.
LEMMA LoadedCertified ==
    ASSUME TypeOK, NEW d \in Docs, Loads(d)
    PROVE  /\ Loaded(d) = Certified[d] /\ Loaded(d) = RecordsOf(rows[d])
           /\ rows[d] = manifest.documents[d] /\ Certified[d] \in Content
<1>1. Loaded(d) = RecordsOf(rows[d]) /\ rows[d] = manifest.documents[d]
  BY Zenon DEF Loads, Loaded, Anchored, RecordsOf
<1>2. Certified[d] = RecordsOf(manifest.documents[d])
  BY Zenon DEF Certified
<1>3. Loaded(d) \in Content
  BY LoadedType, ZenonT(60)
<1> QED BY <1>1, <1>2, <1>3, ZenonT(60)

\* The attested records are documents.
LEMMA CertifiedType == TypeOK => Certified \in [Docs -> Content]
<1>1. Empty \in Content
  BY Zenon DEF Empty, Content
<1> QED BY <1>1, ZenonT(60) DEF TypeOK, Manifest, Table, CurrentHead, RecordsOf, Certified

\* A mutation whose steps delete nothing has no effect.
LEMMA UnchangingEffect ==
    ASSUME TypeOK, asked # NoRecord, asked.kind = "mutate", NEW c \in Content, Unchanging(c)
    PROVE  Effect(asked, c) = c
<1>1. asked.steps \in Mutations
  BY AskedFields, Zenon
<1>2. \A s \in Put \cup Delete : (s.kind = "delete" /\ c[s.addr] = NoRecord) => Change(c, s) = c
  BY Zenon DEF Change, Content, Put, Delete
<1>3. CASE \E s \in Put \cup Delete : asked.steps = <<s>>
  <2>1. PICK s \in Put \cup Delete : asked.steps = <<s>>
    BY <1>3, Zenon
  <2>2. Len(asked.steps) = 1 /\ asked.steps[1] = s
    BY <2>1
  <2>3. s.kind = "delete" /\ c[s.addr] = NoRecord
    BY <2>2 DEF Unchanging
  <2> QED BY <1>2, <2>2, <2>3, ZenonT(60) DEF Effect
<1>4. CASE \E s, u \in Put \cup Delete : asked.steps = <<s, u>>
  <2>1. PICK s \in Put \cup Delete, u \in Put \cup Delete : asked.steps = <<s, u>>
    BY <1>4, Zenon
  <2>2. Len(asked.steps) = 2 /\ asked.steps[1] = s /\ asked.steps[2] = u
    BY <2>1, SMTT(60)
  <2>3. s.kind = "delete" /\ c[s.addr] = NoRecord /\ u.kind = "delete" /\ c[u.addr] = NoRecord
    BY <2>2 DEF Unchanging
  <2>4. Change(c, s) = c /\ Change(c, u) = c
    BY <1>2, <2>3, Zenon
  <2> QED BY <2>2, <2>4, Zenon DEF Effect
<1> QED BY <1>1, <1>3, <1>4, SMTT(60) DEF Mutations

\* The transaction attests the prepared generation and nothing else.
LEMMA PersistCertified ==
    ASSUME Sound, pc = "persist", LiveInventory, rows[prepared.doc] = prepared.expected, Persist
    PROVE  /\ prepared.doc \in Docs /\ prepared.next.content \in Content
           /\ Certified[prepared.doc] = RecordsOf(prepared.expected)
           /\ Certified' = [Certified EXCEPT ![prepared.doc] = prepared.next.content]
<1>1. prepared \in [doc : Docs, expected : CurrentHead \cup {Absent}, next : CurrentHead]
  BY Zenon DEF Sound, Prepared
<1>2. verified = manifest /\ rows = manifest.documents /\ manifest \in Manifest
  BY Zenon DEF LiveInventory, Anchored, Sound, TypeOK
<1>3. manifest'.documents = [manifest.documents EXCEPT ![prepared.doc] = prepared.next]
  BY <1>2, ZenonT(60) DEF Persist, Signed
<1>4. prepared.next # Absent
  <2>1. prepared.next \in [generation : Nat, content : Content]
    BY <1>1, ExhaustedAssumption DEF CurrentHead
  <2> QED BY <2>1, AbsentAssumption, ZenonT(60)
<1>5. manifest.documents \in Table
  BY <1>2, Zenon DEF Manifest
<1>6. ASSUME NEW d \in Docs
      PROVE  Certified'[d] = IF d = prepared.doc THEN prepared.next.content ELSE Certified[d]
  BY <1>1, <1>3, <1>4, <1>5, Zenon DEF Certified, RecordsOf, Table
<1>7. Certified' = [d \in Docs |-> Certified'[d]] /\ Certified = [d \in Docs |-> Certified[d]]
  BY Zenon DEF Certified
<1>8. Certified' = [Certified EXCEPT ![prepared.doc] = prepared.next.content]
  BY <1>1, <1>6, <1>7, Zenon
<1> QED BY <1>1, <1>2, <1>8, Zenon DEF Certified, CurrentHead

-----------------------------------------------------------------------------
(* Serves is preserved.                                                    *)

\* The attested records are a matter of the manifest alone.
LEMMA SameCertified ==
    ASSUME manifest'.documents = manifest.documents
    PROVE  Certified' = Certified
BY Zenon DEF Certified

\* Stopping leaves no command behind.
LEMMA FatalServes ==
    ASSUME Sound, Serves, Fatal, UNCHANGED <<now, disk>>
    PROVE  Serves'
<1>1. /\ pc' = "closed" /\ due' = {} /\ dueAt' = 0 /\ asked' = NoRecord /\ now' = now
  BY Zenon DEF Fatal, Stop, Abandon
<1>2. dueAt' <= now'
  BY <1>1 DEF Sound, TypeOK
<1> QED BY <1>1, <1>2, ZenonT(60) DEF Serves, InStep, SweptSoFar

\* A command that is answered or refused without a write.
LEMMA AnsweredServes ==
    ASSUME Sound, Serves, pc = "execute", pc' = "idle", asked' = NoRecord, Unprepared,
           UNCHANGED <<now, disk>>
    PROVE  Serves'
<1>1. due = {} /\ due' = due /\ dueAt' = dueAt /\ now' = now
  BY Zenon DEF Serves, InStep, Unprepared
<1> QED BY <1>1, Zenon DEF Serves, InStep, SweptSoFar

\* What prepare_commit leaves, for a command and for a sweep.
LEMMA PreparedServes ==
    ASSUME Sound, Serves, NEW d \in Docs, NEW c \in Content, PrepareCommit(d, c), Loads(d),
           UNCHANGED <<now, disk>>,
           \/ /\ pc = "sweep" /\ d \in due /\ c = Unexpired(Loaded(d), dueAt)
           \/ /\ pc = "execute" /\ d = asked.doc /\ asked.kind \in {"mutate", "clear", "get"}
              /\ asked.kind \in {"mutate", "clear"} => c = Effect(asked, Loaded(d))
              /\ asked.kind = "get" =>
                    /\ Due(Loaded(d)[asked.addr], asked.at)
                    /\ c = [Loaded(d) EXCEPT ![asked.addr] = NoRecord]
    PROVE  Serves'
<1> DEFINE g == Successor(rows[d])
<1>1. CASE g = Exhausted
  BY <1>1, FatalServes, Zenon DEF PrepareCommit, Successor
<1>2. CASE g # Exhausted
  <2>1. /\ prepared' = [doc |-> d, expected |-> rows[d], next |-> [generation |-> g, content |-> c]]
        /\ pc' = "persist" /\ due' = due /\ dueAt' = dueAt /\ now' = now /\ verified' = verified
        /\ asked' = asked /\ status' = status /\ manifest' = manifest
    BY <1>2, Zenon DEF PrepareCommit, Successor, command, disk
  <2>2. RecordsOf(prepared'.expected) = Loaded(d) /\ prepared'.next.content = c /\ prepared'.doc = d
    BY <2>1, LoadedCertified, ZenonT(60) DEF Sound
  <2>3. Certified' = Certified
    BY <2>1, SameCertified, ZenonT(60)
  <2>4. Intended'
    BY <2>1, <2>2, ZenonT(60) DEF Intended, Sweeping, Serves, InStep
  <2>5. InStep'
    BY <2>1, Zenon DEF InStep, Sweeping, Serves
  <2>6. SweptSoFar'
    BY <2>1, <2>3, ZenonT(60) DEF SweptSoFar, Sweeping, Serves, InStep
  <2> QED BY <2>1, <2>4, <2>5, <2>6, Zenon DEF Serves
<1> QED BY <1>1, <1>2, Zenon

\* The operations of execute_command.
LEMMA OperationServes ==
    ASSUME Sound, Serves, pc = "execute", Loads(asked.doc), Get \/ GetMany \/ Mutate \/ Clear,
           UNCHANGED <<now, disk>>
    PROVE  Serves'
<1>1. asked # NoRecord /\ asked.kind # "sweep"
  BY Zenon DEF Sound, Prepared
<1>2. asked.doc \in Docs
  BY <1>1, AskedFields, ZenonT(60) DEF Sound
<1> DEFINE c == Loaded(asked.doc)
<1>3. c \in Content
  BY <1>2, LoadedType, Zenon DEF Sound
<1>4. CASE Get
  <2>1. asked.kind = "get" /\ asked.addr \in Addrs
    BY <1>1, <1>4, AskedFields, ZenonT(60) DEF Get, Sound
  <2>2. [c EXCEPT ![asked.addr] = NoRecord] \in Content
    BY <1>3, Zenon DEF Content
  <2>3. CASE Due(c[asked.addr], asked.at)
    BY <1>2, <1>4, <2>1, <2>2, <2>3, PreparedServes, ZenonT(60) DEF Get
  <2>4. CASE ~Due(c[asked.addr], asked.at)
    BY <1>4, <2>4, AnsweredServes, ZenonT(60) DEF Get, Reply
  <2> QED BY <2>3, <2>4, Zenon
<1>5. CASE GetMany
  BY <1>5, AnsweredServes, ZenonT(60) DEF GetMany, Reply
<1>6. CASE Mutate
  <2>1. Effect(asked, c) \in Content
    BY <1>1, <1>3, <1>6, AskedFields, EffectType, ZenonT(60) DEF Mutate, Sound
  <2>2. CASE Unchanging(c)
    BY <1>6, <2>2, AnsweredServes, ZenonT(60) DEF Mutate, Reply
  <2>3. CASE ~Unchanging(c)
    BY <1>2, <1>6, <2>1, <2>3, PreparedServes, ZenonT(60) DEF Mutate
  <2> QED BY <2>2, <2>3, Zenon
<1>7. CASE Clear
  <2>1. Empty \in Content /\ Effect(asked, c) = Empty
    BY <1>7, ZenonT(60) DEF Empty, Content, Effect, Clear
  <2>2. CASE c = Empty
    BY <1>7, <2>2, AnsweredServes, ZenonT(60) DEF Clear, Reply
  <2>3. CASE c # Empty
    BY <1>2, <1>7, <2>1, <2>3, PreparedServes, ZenonT(60) DEF Clear
  <2> QED BY <2>2, <2>3, ZenonT(60)
<1> QED BY <1>4, <1>5, <1>6, <1>7, ZenonT(60)

\* Opening the store, with no command about.
LEMMA OpeningServes ==
    ASSUME Sound, Serves,
           Open \/ MigrateCurrentState \/ InitializeCurrentState \/ FinishMigrationRepack
    PROVE  Serves'
<1>1. /\ pc' \in {"closed", "initialize", "repack", "inventory"}
      /\ asked' = NoRecord /\ now' = now
  BY Zenon DEF Open, MigrateCurrentState, InitializeCurrentState, FinishMigrationRepack, Stop, worker,
     command, Serves, InStep
<1>2. due' = {} /\ (dueAt' = dueAt \/ dueAt' = 0)
  BY ZenonT(60) DEF Open, MigrateCurrentState, InitializeCurrentState, FinishMigrationRepack, Stop, worker,
     Serves, InStep
<1>3. dueAt' <= now'
  BY <1>1, <1>2, SMTT(60) DEF Sound, TypeOK, Serves
<1> QED BY <1>1, <1>2, <1>3, ZenonT(60) DEF Serves, InStep, Sweeping, SweptSoFar

\* What purge_expired does not list has nothing due.
LEMMA FindServes ==
    ASSUME Sound, Serves, FindDue
    PROVE  Serves'
<1>1. CASE Fatal
  BY <1>1, FatalServes, Zenon DEF FindDue
<1>2. CASE ~Fatal
  <2>1. /\ pc = "inventory" /\ pc' = "sweep" /\ now' = now /\ asked' = asked /\ status' = status
        /\ dueAt' = (IF asked = NoRecord THEN now ELSE asked.at)
        /\ due' = {d \in Present(verified.documents) :
                      \E t \in NextEviction(verified.documents[d].content) : t <= dueAt'}
        /\ verified = manifest /\ manifest' = manifest
    BY <1>2, Zenon DEF FindDue, LiveInventory, Anchored, command, disk
  <2>2. dueAt' <= now' /\ dueAt' \in Nat
    BY <2>1, AskedFields, DeadlineAssumption, SMTT(60) DEF Serves, Sound, TypeOK
  <2>3. Certified' = Certified
    BY <2>1, SameCertified, Zenon
  <2>4. ASSUME NEW d \in Docs \ due' PROVE Unexpired(Certified[d], dueAt') = Certified[d]
    <3>1. Certified[d] \in Content
      BY CertifiedType, Zenon DEF Sound
    <3>2. CASE manifest.documents[d] = Absent
      BY <3>2, Zenon DEF Certified, RecordsOf, Unexpired, Empty, Due
    <3>3. CASE manifest.documents[d] # Absent
      <4>1. Certified[d] = manifest.documents[d].content
        BY <3>3, ZenonT(60) DEF Certified, RecordsOf
      <4>2. \A u \in NextEviction(Certified[d]) : ~(u <= dueAt')
        BY <2>1, <3>3, <4>1, ZenonT(60) DEF Present
      <4> QED BY <2>2, <3>1, <4>2, NothingDue, ZenonT(60)
    <3> QED BY <3>2, <3>3, Zenon
  <2>5. InStep'
    BY <2>1, ZenonT(60) DEF InStep, Sweeping, Serves
  <2>6. SweptSoFar'
    BY <2>1, <2>3, <2>4, ZenonT(60) DEF SweptSoFar
  <2> QED BY <2>1, <2>2, <2>5, <2>6, Zenon DEF Serves
<1> QED BY <1>1, <1>2, Zenon

\* The loop of a sweep, and its end.
LEMMA SweepingServes ==
    ASSUME Sound, Serves, SweepDocument \/ FinishSweep
    PROVE  Serves'
<1>1. CASE SweepDocument
  <2>1. PICK d \in due :
          \/ Loads(d) /\ PrepareCommit(d, Unexpired(Loaded(d), dueAt))
          \/ /\ Loads(d) /\ Loaded(d) = Unexpired(Loaded(d), dueAt)
             /\ due' = due \ {d} /\ UNCHANGED <<pc, verified, dueAt, prepared, command>>
          \/ Fatal
    BY <1>1, ZenonT(60) DEF SweepDocument
  <2>2. pc = "sweep" /\ UNCHANGED <<now, disk>> /\ d \in Docs
    BY <1>1, ZenonT(60) DEF SweepDocument, Sound, TypeOK
  <2>3. CASE Loads(d) /\ PrepareCommit(d, Unexpired(Loaded(d), dueAt))
    <3>1. Unexpired(Loaded(d), dueAt) \in Content
      BY <2>2, <2>3, LoadedType, UnexpiredType, ZenonT(60) DEF Sound
    <3> QED BY <2>2, <2>3, <3>1, PreparedServes, ZenonT(60)
  <2>4. CASE /\ Loads(d) /\ Loaded(d) = Unexpired(Loaded(d), dueAt)
             /\ due' = due \ {d} /\ UNCHANGED <<pc, verified, dueAt, prepared, command>>
    <3>1. Certified' = Certified
      BY <2>2, SameCertified, ZenonT(60) DEF disk
    <3>2. Unexpired(Certified[d], dueAt) = Certified[d]
      BY <2>2, <2>4, LoadedCertified, ZenonT(60) DEF Sound
    <3>3. UNCHANGED <<asked, status, pc, dueAt, now>>
      BY <2>2, <2>4, ZenonT(60) DEF command
    <3>4. SweptSoFar'
      BY <2>2, <2>4, <3>1, <3>2, <3>3, ZenonT(60) DEF SweptSoFar, Sweeping, Serves
    <3>5. InStep'
      BY <2>2, <3>3, ZenonT(60) DEF InStep, Sweeping, Serves
    <3> QED BY <2>2, <3>3, <3>4, <3>5, ZenonT(60) DEF Serves
  <2>5. CASE Fatal
    BY <2>2, <2>5, FatalServes, Zenon
  <2> QED BY <2>1, <2>3, <2>4, <2>5, ZenonT(60)
<1>2. CASE FinishSweep
  <2>1. /\ pc' = "idle" /\ due' = {} /\ dueAt' = 0 /\ asked' = NoRecord /\ now' = now
    BY <1>2, Zenon DEF FinishSweep, Reply, command
  <2>2. dueAt' <= now'
    BY <2>1 DEF Sound, TypeOK
  <2> QED BY <2>1, <2>2, Zenon DEF Serves, InStep, SweptSoFar
<1> QED BY <1>1, <1>2, ZenonT(60)

\* The transaction, and the advance after it.
LEMMA CommittingServes ==
    ASSUME Sound, Serves, PersistCommit \/ Checkpoint
    PROVE  Serves'
<1>1. CASE Fatal /\ UNCHANGED <<now, disk>>
  BY <1>1, FatalServes, Zenon
<1>2. CASE PersistCommit /\ ~(Fatal /\ UNCHANGED <<now, disk>>)
  <2>1. /\ pc = "persist" /\ pc' = "committed" /\ now' = now /\ asked' = asked
        /\ LiveInventory /\ rows[prepared.doc] = prepared.expected /\ Persist
        /\ UNCHANGED <<verified, due, dueAt, prepared>>
        /\ status' = IF asked # NoRecord /\ asked.kind \in {"mutate", "clear"} THEN "applied" ELSE status
    BY <1>2, Zenon DEF PersistCommit
  <2>2. manifest' = Signed'
    BY <2>1, Zenon DEF Persist, Signed
  <2>3. Intended'
    BY <2>1, Zenon DEF Intended, Sweeping, Serves
  <2>4. InStep'
    BY <2>1, Zenon DEF InStep, Sweeping, Serves
  <2>5. /\ Certified' = [Certified EXCEPT ![prepared.doc] = prepared.next.content]
        /\ Certified \in [Docs -> Content]
    BY <2>1, PersistCertified, CertifiedType, Zenon DEF Sound
  <2>6. SweptSoFar'
    BY <2>1, <2>5, Zenon DEF SweptSoFar, Sweeping, Serves, Intended
  <2> QED BY <2>1, <2>2, <2>3, <2>4, <2>6, Zenon DEF Serves
<1>3. CASE Checkpoint /\ ~(Fatal /\ UNCHANGED <<now, disk>>)
  <2>1. pc = "committed" /\ now' = now /\ manifest' = manifest
    BY <1>3, Zenon DEF Checkpoint, disk
  <2>2. CASE due = {} /\ Reply(NoRecord) /\ UNCHANGED <<due, dueAt>>
    BY <2>1, <2>2, Zenon DEF Reply, Serves, InStep, SweptSoFar
  <2>3. CASE /\ due # {} /\ due' = due \ {prepared.doc} /\ pc' = "sweep"
             /\ UNCHANGED <<dueAt, command>>
    <3>1. Sweeping /\ prepared.next.content = Unexpired(RecordsOf(prepared.expected), dueAt)
      BY <2>1, <2>3, Zenon DEF Serves, Intended
    <3>2. Certified' = Certified
      BY <2>1, SameCertified, Zenon
    <3>3. Unexpired(Certified[prepared.doc], dueAt) = Certified[prepared.doc]
      <4>1. prepared \in [doc : Docs, expected : CurrentHead \cup {Absent}, next : CurrentHead]
        BY <2>1, Zenon DEF Sound, Prepared
      <4>2. prepared.next # Absent
        <5>1. prepared.next \in [generation : Nat, content : Content]
          BY <4>1, ExhaustedAssumption, SMTT(60) DEF CurrentHead
        <5> QED BY <5>1, AbsentAssumption, Zenon
      <4>3. manifest.documents = [verified.documents EXCEPT ![prepared.doc] = prepared.next]
            /\ verified.documents \in Table
        BY <2>1 DEF Serves, Signed, Sound, TypeOK, Manifest
      <4>4. Certified[prepared.doc] = prepared.next.content
        BY <4>1, <4>2, <4>3, Zenon DEF Certified, RecordsOf, Table
      <4>5. RecordsOf(prepared.expected) \in Content
        BY <4>1, Zenon DEF RecordsOf, CurrentHead, Empty, Content
      <4> QED BY <3>1, <4>4, <4>5, UnexpiredTwice, Zenon
    <3>4. UNCHANGED <<asked, status, dueAt>>
      BY <2>3, Zenon DEF command
    <3>5. SweptSoFar'
      BY <2>1, <2>3, <3>1, <3>2, <3>3, <3>4, ZenonT(60) DEF SweptSoFar, Sweeping, Serves
    <3>6. InStep'
      BY <2>1, <2>3, <3>1, <3>4, Zenon DEF InStep, Sweeping, Serves
    <3> QED BY <2>1, <2>3, <3>4, <3>5, <3>6, ZenonT(60) DEF Serves
  <2> QED BY <1>3, <2>2, <2>3, Zenon DEF Checkpoint
<1> QED BY <1>1, <1>2, <1>3, Zenon

\* Commands arriving and executing, and the environment.
LEMMA RestServes ==
    ASSUME Sound, Serves, Receive \/ Execute \/ Crash \/ PutBack \/ Tick \/ UNCHANGED vars
    PROVE  Serves'
<1>1. CASE Receive
  <2>1. /\ asked' \in Commands(Mutations, now) /\ now \in 0..MaxTime /\ now' = now
        /\ status' = "waiting" /\ pc' = IF asked'.kind = "sweep" THEN "inventory" ELSE "execute"
        /\ due' = due /\ dueAt' = dueAt /\ pc = "idle"
    BY <1>1, Zenon DEF Receive, Sound, TypeOK
  <2>2. asked' # NoRecord /\ asked'.at = now
    BY <2>1, NoRecordAssumption, Zenon DEF Commands
  <2>3. InStep'
    BY <2>1, <2>2, Zenon DEF Serves, InStep, Sweeping
  <2>4. pc' \notin {"sweep", "persist", "committed"}
    BY <2>1, Zenon
  <2> QED BY <2>1, <2>2, <2>3, <2>4, SMTT(60) DEF Serves, SweptSoFar
<1>2. CASE Execute
  <2>1. pc = "execute" /\ UNCHANGED <<now, disk>>
    BY <1>2, Zenon DEF Execute
  <2>2. CASE Loads(asked.doc) /\ (Get \/ GetMany \/ Mutate \/ Clear)
    BY <2>1, <2>2, OperationServes, Zenon
  <2>3. CASE Fatal
    BY <2>1, <2>3, FatalServes, Zenon
  <2>4. CASE pc' = "idle" /\ Abandon /\ Unprepared
    BY <2>1, <2>4, AnsweredServes, Zenon DEF Abandon
  <2> QED BY <1>2, <2>2, <2>3, <2>4, Zenon DEF Execute
<1>3. CASE Crash
  BY <1>3, FatalServes, Zenon DEF Crash
<1>4. CASE PutBack \/ Tick \/ UNCHANGED vars
  <2>1. UNCHANGED <<manifest, pc, verified, due, dueAt, prepared, asked, status>>
    BY <1>4, Zenon DEF PutBack, Tick, vars, worker, command, disk
  <2>2. now' = now \/ now' = now + 1
    BY <1>4, Zenon DEF PutBack, Tick, vars
  <2>3. dueAt' <= now' /\ (asked' # NoRecord => asked'.at <= now')
    BY <2>1, <2>2, AskedFields, SMTT(60) DEF Serves, Sound, TypeOK
  <2>4. Certified' = Certified /\ Signed' = Signed
    BY <2>1, Zenon DEF Certified, Signed
  <2>5. InStep' /\ (pc \in {"persist", "committed"} => Intended')
    BY <2>1, Zenon DEF Serves, InStep, Intended, Sweeping
  <2>6. SweptSoFar'
    BY <2>1, <2>4, Zenon DEF Serves, SweptSoFar, Sweeping
  <2> QED BY <2>1, <2>3, <2>4, <2>5, <2>6, Zenon DEF Serves
<1> QED BY <1>1, <1>2, <1>3, <1>4, Zenon

\* Serves is an invariant of the worker.
THEOREM AlwaysServes == Spec => []Serves
<1>1. Init => Serves
  BY DEF Init, Serves, InStep, SweptSoFar
<1>2. Sound /\ Serves /\ [Next]_vars => Serves'
  BY OpeningServes, FindServes, SweepingServes, CommittingServes, RestServes, Zenon DEF Next
<1> QED BY <1>1, <1>2, AlwaysSound, PTL DEF Spec

-----------------------------------------------------------------------------
(* Every step is a step of Documents.                                      *)

\* Both modules mean the same records.
LEMMA SameRecords ==
    /\ Promised!Empty = Empty /\ Promised!Mutations = Mutations /\ Promised!Content = Content
    /\ \A s, x : Promised!Commands(s, x) = Commands(s, x)
    /\ \A r, x : Promised!Due(r, x) = Due(r, x)
    /\ \A c, x : Promised!Unexpired(c, x) = Unexpired(c, x)
    /\ \A x, c : Promised!Effect(x, c) = Effect(x, c)
    /\ \A x, c : Promised!Visible(x, c) = Visible(x, c)
BY Zenon DEF Promised!Empty, Empty, Promised!Mutations, Mutations, Promised!Content, Content,
   Promised!Commands, Commands, Promised!Due, Due, Promised!Unexpired, Unexpired,
   Promised!Effect, Effect, Promised!Visible, Visible, Promised!Change, Change,
   Promised!Put, Put, Promised!Delete, Delete, Promised!Record, Record

\* A stop fails the command, if there is one.
LEMMA FatalFails ==
    ASSUME Sound, Abandon, UNCHANGED <<now, manifest>>
    PROVE  [Promised!ANext]_(Promised!abstract)
<1>1. Certified' = Certified
  BY SameCertified, Zenon
<1>2. CASE asked = NoRecord
  BY <1>1, <1>2, Zenon DEF Abandon, Promised!abstract
<1>3. CASE asked # NoRecord
  <2>1. status \in {"waiting", "applied"}
    BY <1>3, Zenon DEF Sound, TypeOK
  <2>2. Promised!AFail
    BY <1>1, <1>3, <2>1, Zenon DEF Abandon, Promised!AFail
  <2> QED BY <2>2, Zenon DEF Promised!ANext
<1> QED BY <1>2, <1>3, Zenon

\* A step that touches neither the manifest nor the command.
LEMMA QuietStutters ==
    ASSUME UNCHANGED <<now, asked, status, got>>, manifest'.documents = manifest.documents
    PROVE  [Promised!ANext]_(Promised!abstract)
BY SameCertified, Zenon DEF Promised!abstract

\* An answer is given for what the attested documents hold.
LEMMA ReplyAnswers ==
    ASSUME Sound, NEW v, Reply(v), asked # NoRecord, UNCHANGED <<now, manifest>>,
           asked.kind \in {"mutate", "clear"} =>
              status = "applied" \/ Effect(asked, Certified[asked.doc]) = Certified[asked.doc],
           asked.kind = "sweep" => \A d \in Docs : Unexpired(Certified[d], asked.at) = Certified[d],
           v = IF asked.kind \in {"get", "read"} THEN Visible(asked, Certified[asked.doc]) ELSE NoRecord
    PROVE  [Promised!ANext]_(Promised!abstract)
<1>1. Certified' = Certified
  BY SameCertified, Zenon
<1>2. status \in {"waiting", "applied"}
  BY Zenon DEF Sound, TypeOK
<1>3. Promised!AAnswer
  BY <1>1, <1>2, SameRecords, Zenon DEF Reply, Promised!AAnswer
<1> QED BY <1>3, Zenon DEF Promised!ANext

\* The four operations.
LEMMA OperationAnswers ==
    ASSUME Sound, Serves, pc = "execute", Loads(asked.doc), Get \/ GetMany \/ Mutate \/ Clear,
           UNCHANGED <<now, disk>>
    PROVE  [Promised!ANext]_(Promised!abstract)
<1>1. asked # NoRecord /\ asked.kind # "sweep" /\ manifest' = manifest /\ now' = now
  BY Zenon DEF Sound, Prepared, disk
<1>2. asked.doc \in Docs
  BY <1>1, AskedFields, Zenon DEF Sound
<1>3. Loaded(asked.doc) = Certified[asked.doc] /\ Certified[asked.doc] \in Content
  BY <1>2, LoadedCertified, Zenon DEF Sound
<1>4. ASSUME NEW d, NEW c, PrepareCommit(d, c)
      PROVE  [Promised!ANext]_(Promised!abstract)
  <2>1. CASE Fatal
    BY <1>1, <2>1, FatalFails, Zenon DEF Fatal
  <2>2. CASE UNCHANGED command
    BY <1>1, <2>2, QuietStutters, Zenon DEF command
  <2> QED BY <1>4, <2>1, <2>2, Zenon DEF PrepareCommit
<1>5. CASE Get \/ GetMany
  <2>1. \/ \E d, c : PrepareCommit(d, c)
        \/ Reply(Visible(asked, Certified[asked.doc])) /\ asked.kind \in {"get", "read"}
    BY <1>3, <1>5, ZenonT(60) DEF Get, GetMany
  <2> QED BY <1>1, <1>4, <2>1, ReplyAnswers, Zenon
<1>6. CASE Mutate
  <2>1. CASE Unchanging(Loaded(asked.doc))
    <3>1. Effect(asked, Certified[asked.doc]) = Certified[asked.doc]
      BY <1>1, <1>3, <1>6, <2>1, UnchangingEffect, Zenon DEF Mutate, Sound
    <3> QED BY <1>1, <1>6, <2>1, <3>1, ReplyAnswers, Zenon DEF Mutate
  <2> QED BY <1>4, <1>6, <2>1, Zenon DEF Mutate
<1>7. CASE Clear
  <2>1. CASE Loaded(asked.doc) = Empty
    <3>1. Effect(asked, Certified[asked.doc]) = Certified[asked.doc]
      BY <1>3, <1>7, <2>1, Zenon DEF Clear, Effect
    <3> QED BY <1>1, <1>7, <2>1, <3>1, ReplyAnswers, Zenon DEF Clear
  <2> QED BY <1>4, <1>7, <2>1, Zenon DEF Clear
<1> QED BY <1>5, <1>6, <1>7, Zenon

\* The transaction applies the command, or removes what is due.
LEMMA CommitApplies ==
    ASSUME Sound, Serves, PersistCommit
    PROVE  [Promised!ANext]_(Promised!abstract)
<1>1. CASE UNCHANGED disk /\ Fatal
  BY <1>1, FatalFails, Zenon DEF PersistCommit, Fatal, disk
<1>2. CASE ~(UNCHANGED disk /\ Fatal)
  <2>1. /\ pc = "persist" /\ now' = now /\ asked' = asked /\ got' = got
        /\ LiveInventory /\ rows[prepared.doc] = prepared.expected /\ Persist
        /\ status' = IF asked # NoRecord /\ asked.kind \in {"mutate", "clear"} THEN "applied" ELSE status
    BY <1>2, Zenon DEF PersistCommit
  <2> DEFINE d == prepared.doc
             before == Certified[d]
             after == prepared.next.content
  <2>2. /\ d \in Docs /\ after \in Content /\ before = RecordsOf(prepared.expected)
        /\ Certified' = [Certified EXCEPT ![d] = after]
        /\ Certified \in [Docs -> Content]
    BY <2>1, PersistCertified, CertifiedType, Zenon DEF Sound
  <2>3. Intended
    BY <2>1, Zenon DEF Serves
  <2>4. CASE ~Sweeping /\ asked.kind \in {"mutate", "clear"}
    <3>1. d = asked.doc /\ after = Effect(asked, before) /\ status = "waiting" /\ asked # NoRecord
      BY <2>1, <2>2, <2>3, <2>4, Zenon DEF Intended, Serves, InStep, Sweeping
    <3>2. Certified' = [Certified EXCEPT ![asked.doc] = Effect(asked, @)]
      BY <2>2, <3>1, Zenon
    <3>3. Promised!AApply
      BY <2>1, <2>4, <3>1, <3>2, SameRecords, Zenon DEF Promised!AApply
    <3> QED BY <3>3, Zenon DEF Promised!ANext
  <2>5. ASSUME NEW at \in 0..now, NEW gone \in SUBSET Addrs,
               \A a \in gone : Due(before[a], at),
               after = [a \in Addrs |-> IF a \in gone THEN NoRecord ELSE before[a]],
               status' = status
        PROVE  [Promised!ANext]_(Promised!abstract)
    <3>1. Certified' = [Certified EXCEPT ![d] = [a \in Addrs |-> IF a \in gone THEN NoRecord ELSE @[a]]]
      BY <2>2, <2>5, Zenon
    <3>2. \A a \in gone : Promised!Due(Certified[d][a], at)
      BY <2>5, SameRecords, Zenon
    <3>3. \E i \in 0..now, g \in SUBSET Addrs :
            /\ \A a \in g : Promised!Due(Certified[d][a], i)
            /\ Certified' = [Certified EXCEPT ![d] = [a \in Addrs |-> IF a \in g THEN NoRecord ELSE @[a]]]
      BY <2>5, <3>1, <3>2, Zenon
    <3> HIDE DEF d
    <3>4. Promised!AExpire
      BY <2>1, <2>2, <2>5, <3>3, Zenon DEF Promised!AExpire
    <3> QED BY <3>4, Zenon DEF Promised!ANext
  <2>6. CASE Sweeping
    <3> DEFINE gone == {a \in Addrs : Due(before[a], dueAt)}
    <3>1. after = Unexpired(before, dueAt) /\ dueAt \in 0..now /\ status' = status
      BY <2>1, <2>2, <2>3, <2>6, DeadlineAssumption, SMTT(60) DEF Intended, Serves, Sound, TypeOK, Sweeping
    <3>2. after = [a \in Addrs |-> IF a \in gone THEN NoRecord ELSE before[a]]
      BY <3>1, Zenon DEF Unexpired
    <3> QED BY <2>5, <3>1, <3>2, Zenon
  <2>7. CASE ~Sweeping /\ asked.kind = "get"
    <3> DEFINE gone == {asked.addr}
    <3>1. /\ Due(before[asked.addr], asked.at) /\ asked # NoRecord
          /\ after = [before EXCEPT ![asked.addr] = NoRecord]
      BY <2>2, <2>3, <2>7, Zenon DEF Intended, Sweeping
    <3>2. asked.at \in 0..now /\ asked.addr \in Addrs /\ status' = status
      BY <2>1, <2>7, <3>1, AskedFields, DeadlineAssumption, SMTT(60) DEF Serves, Sound, TypeOK
    <3>3. after = [a \in Addrs |-> IF a \in gone THEN NoRecord ELSE before[a]]
      BY <2>2, <3>1, <3>2, Zenon DEF Content
    <3>4. gone \in SUBSET Addrs /\ \A a \in gone : Due(before[a], asked.at)
      BY <3>1, <3>2, Zenon
    <3> HIDE DEF gone, before, after
    <3> QED BY <2>5, <3>2, <3>3, <3>4, Zenon
  <2> QED BY <2>3, <2>4, <2>6, <2>7, Zenon DEF Intended
<1> QED BY <1>1, <1>2, Zenon

\* The advance after the transaction answers the command, or goes on sweeping.
LEMMA CheckpointAnswers ==
    ASSUME Sound, Serves, Checkpoint
    PROVE  [Promised!ANext]_(Promised!abstract)
<1>1. pc = "committed" /\ now' = now /\ manifest' = manifest
  BY Zenon DEF Checkpoint, disk
<1>2. CASE Fatal
  BY <1>1, <1>2, FatalFails, Zenon DEF Fatal
<1>3. CASE UNCHANGED command
  BY <1>1, <1>3, QuietStutters, Zenon DEF command
<1>4. CASE due = {} /\ Reply(NoRecord)
  <2>1. Intended /\ ~Sweeping
    BY <1>1, <1>4, Zenon DEF Serves, Intended
  <2>2. asked # NoRecord /\ asked.kind \in {"mutate", "clear", "get"} /\ prepared.doc = asked.doc
    BY <2>1, Zenon DEF Intended, Sweeping
  <2>3. asked.kind \in {"mutate", "clear"} => status = "applied"
    BY <1>1, <2>2, Zenon DEF Serves, InStep
  <2>4. ASSUME asked.kind = "get" PROVE Visible(asked, Certified[asked.doc]) = NoRecord
    <3>1. prepared \in [doc : Docs, expected : CurrentHead \cup {Absent}, next : CurrentHead]
      BY <1>1, Zenon DEF Sound, Prepared
    <3>2. prepared.next # Absent
      <4>1. prepared.next \in [generation : Nat, content : Content]
        BY <3>1, ExhaustedAssumption, SMTT(60) DEF CurrentHead
      <4> QED BY <4>1, AbsentAssumption, Zenon
    <3>3. manifest.documents = [verified.documents EXCEPT ![prepared.doc] = prepared.next]
          /\ verified.documents \in Table
      BY <1>1, SMTT(60) DEF Serves, Signed, Sound, TypeOK, Manifest
    <3>4. Certified[asked.doc] = prepared.next.content
      BY <2>2, <3>1, <3>2, <3>3, ZenonT(60) DEF Certified, RecordsOf, Table
    <3>5. RecordsOf(prepared.expected) \in Content
      BY <3>1, Zenon DEF RecordsOf, CurrentHead, Empty, Content
    <3>6. asked.addr \in Addrs
      BY <2>2, <2>4, AskedFields, Zenon DEF Sound
    <3>7. prepared.next.content[asked.addr] = NoRecord
      BY <2>1, <2>4, <3>5, <3>6, Zenon DEF Intended, Content
    <3> QED BY <3>4, <3>7, Zenon DEF Visible
  <2> QED BY <1>1, <1>4, <2>2, <2>3, <2>4, ReplyAnswers, ZenonT(60)
<1> QED BY <1>2, <1>3, <1>4, Zenon DEF Checkpoint

\* Every step of the worker and its environment is one of Documents.
LEMMA StepPromised ==
    ASSUME Sound, Serves, [Next]_vars
    PROVE  [Promised!ANext]_(Promised!abstract)
<1>1. CASE Open \/ MigrateCurrentState \/ InitializeCurrentState \/ FinishMigrationRepack
           \/ PutBack \/ UNCHANGED vars
  <2>1. manifest'.documents = manifest.documents
    <3>1. CASE MigrateCurrentState
      BY <3>1, Zenon DEF MigrateCurrentState, disk, Sound, TypeOK, Manifest
    <3>2. CASE FinishMigrationRepack
      BY <3>2, Zenon
         DEF FinishMigrationRepack, LiveInventory, Anchored, disk, Sound, TypeOK, Manifest
    <3>3. CASE Open \/ InitializeCurrentState \/ PutBack \/ UNCHANGED vars
      BY <3>3, Zenon DEF Open, InitializeCurrentState, PutBack, vars, disk
    <3> QED BY <1>1, <3>1, <3>2, <3>3, ZenonT(60)
  <2>2. UNCHANGED <<now, asked, status, got>>
    BY <1>1, Zenon
       DEF Open, MigrateCurrentState, InitializeCurrentState, FinishMigrationRepack, PutBack,
       vars, command
  <2> QED BY <2>1, <2>2, QuietStutters, Zenon
<1>2. CASE FindDue \/ SweepDocument
  <2>1. UNCHANGED <<now, manifest>> /\ (Fatal \/ UNCHANGED command)
    BY <1>2, Zenon DEF FindDue, SweepDocument, PrepareCommit, disk
  <2> QED BY <2>1, FatalFails, QuietStutters, Zenon DEF Fatal, command
<1>3. CASE FinishSweep
  <2>1. UNCHANGED <<now, manifest>> /\ pc = "sweep" /\ due = {}
    BY <1>3, Zenon DEF FinishSweep, disk
  <2>2. CASE asked = NoRecord
    BY <1>3, <2>1, <2>2, QuietStutters, Zenon DEF FinishSweep, command
  <2>3. CASE asked # NoRecord
    <3>1. asked.kind = "sweep" /\ \A d \in Docs : Unexpired(Certified[d], asked.at) = Certified[d]
      BY <2>1, <2>3, Zenon DEF Serves, InStep, SweptSoFar, Sweeping
    <3> QED BY <1>3, <2>1, <2>3, <3>1, ReplyAnswers, ZenonT(60) DEF FinishSweep
  <2> QED BY <2>2, <2>3, Zenon
<1>4. CASE Receive
  <2>1. status \in {"none", "ok", "error"}
    BY <1>4, Zenon DEF Receive, Serves, InStep, Sound, TypeOK
  <2>2. Certified' = Certified
    BY <1>4, SameCertified, Zenon DEF Receive, disk
  <2>3. Promised!AAsk
    BY <1>4, <2>1, <2>2, SameRecords, Zenon DEF Receive, Promised!AAsk
  <2> QED BY <2>3, Zenon DEF Promised!ANext
<1>5. CASE Execute
  <2>1. pc = "execute" /\ UNCHANGED <<now, disk>> /\ manifest' = manifest
    BY <1>5, Zenon DEF Execute, disk
  <2>2. CASE Loads(asked.doc) /\ (Get \/ GetMany \/ Mutate \/ Clear)
    BY <2>1, <2>2, OperationAnswers, Zenon
  <2>3. CASE Abandon
    BY <2>1, <2>3, FatalFails, ZenonT(60)
  <2> QED BY <1>5, <2>2, <2>3, Zenon DEF Execute, Fatal
<1>6. CASE PersistCommit
  BY <1>6, CommitApplies, Zenon
<1>7. CASE Checkpoint
  BY <1>7, CheckpointAnswers, Zenon
<1>8. CASE Crash
  BY <1>8, FatalFails, Zenon DEF Crash, Fatal, disk
<1>9. CASE Tick
  <2>1. Certified' = Certified
    BY <1>9, SameCertified, Zenon DEF Tick, disk
  <2>2. Promised!ATick
    BY <1>9, <2>1, Zenon DEF Tick, Promised!ATick, command
  <2> QED BY <2>2, Zenon DEF Promised!ANext
<1> QED BY <1>1, <1>2, <1>3, <1>4, <1>5, <1>6, <1>7, <1>8, <1>9, ZenonT(60) DEF Next

\* The store implements Documents, whatever the documents, addresses, values,
\* deadlines and the generation limit are, and whatever crashes, failures,
\* migrations and put-back tables come in between: commands take effect on the
\* attested documents as a whole, "ok" means durable, reads return neither due
\* nor stale records, and a sweep answered "ok" left nothing due (worker.rs,
\* get to clear; mutation.rs, commit_mutation).
THEOREM StoreKeepsPromise == Spec => Promise
<1>1. Init => Promised!AInit
  <2> SUFFICES ASSUME Init PROVE Promised!AInit
    BY Zenon
  <2>1. Certified \in [Docs -> Content]
    BY InitSound, CertifiedType, Zenon DEF Sound
  <2> QED BY <2>1, SameRecords, Zenon DEF Init, Promised!AInit
<1>2. Sound /\ Serves /\ [Next]_vars => [Promised!ANext]_(Promised!abstract)
  BY StepPromised, Zenon
<1> QED BY <1>1, <1>2, AlwaysSound, AlwaysServes, PTL DEF Spec, Promise, Promised!ASpec

=============================================================================
