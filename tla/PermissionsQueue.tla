-------------------------- MODULE PermissionsQueue --------------------------
(***************************************************************************)
(* The queue of permission requests and its listings, for every set of     *)
(* callers, entries and watchers and any limits: RequestsAreKept and       *)
(* RevisionNamesListing.                                                   *)
(*                                                                         *)
(* One outcome per request and the limits are facts about a queue that     *)
(* every operation on it keeps; the durable copy is what waits because a   *)
(* queue that differs from it is marked unsaved.  A revision names one     *)
(* listing because the last listing at the current revision still is what  *)
(* a listing would return (ListingsCurrent) and older ones agree among     *)
(* themselves.                                                             *)
(***************************************************************************)
EXTENDS PermissionsProofs, FiniteSetTheorems

\* OneOutcome of any queue.
Distinct(q) ==
    /\ \A o \in q.resolved, r \in q.records : o.id # r.id
    /\ \A o, p \in q.resolved : o.id = p.id => o = p

\* The limits, of any set of requests.
Within(requests) ==
    /\ IsFiniteSet(requests)
    /\ Cardinality(requests) <= MaxPending
    /\ \A c \in Callers : Cardinality({r \in requests : r.caller = c}) <= MaxPendingPerCaller

\* Requests that share an id are one request.
UniqueIds(requests) == \A r, t \in requests : r.id = t.id => r = t

-----------------------------------------------------------------------------
(* What the operations on a queue keep.                                    *)

\* purge_expired gives each due request its one outcome.
LEMMA PurgeDistinct ==
    ASSUME NEW q \in PendingApprovals, Distinct(q), UniqueIds(q.records)
    PROVE  Distinct(PurgeExpired(q))
<1> DEFINE due == {r \in q.records : r.expires <= now}
           rev == IF due = {} THEN q.revision ELSE q.revision + 1
           outcome(r) == Outcome(r, "expired", r.expires + ApprovalTTL, rev)
           outcomes == {outcome(r) : r \in due}
           p == PurgeExpired(q)
<1>1. p.records = q.records \ due /\ p.resolved \subseteq q.resolved \cup outcomes
  BY Zenon DEF PurgeExpired, Newest
<1>2. \A r \in due : outcome(r).id = r.id
  BY Zenon DEF Outcome
<1> HIDE DEF outcome, p
<1>3. \A o \in outcomes : \E r \in due : o = outcome(r) /\ o.id = r.id
  BY <1>2, ZenonT(60)
<1> HIDE DEF outcomes
<1>4. \A o \in p.resolved, r \in p.records : o.id # r.id
  BY <1>1, <1>3 DEF Distinct, UniqueIds
<1>5. \A o, s \in p.resolved : o.id = s.id => o = s
  BY <1>1, <1>3 DEF Distinct, UniqueIds
<1> QED BY <1>4, <1>5, Zenon DEF Distinct, p

\* approve and deny give the request they resolve its one outcome.
LEMMA ResolveDistinct ==
    ASSUME NEW q \in PendingApprovals, Distinct(q), UniqueIds(q.records),
           NEW record \in q.records, NEW status, NEW until
    PROVE  Distinct(Resolve(q, record, status, until))
<1> DEFINE outcome == Outcome(record, status, until, q.revision + 1)
           p == Resolve(q, record, status, until)
<1>1. p.records = q.records \ {record} /\ p.resolved \subseteq q.resolved \cup {outcome}
  BY Zenon DEF Resolve, Newest
<1>2. outcome.id = record.id
  BY Zenon DEF Outcome
<1> HIDE DEF outcome, p
<1> QED BY <1>1, <1>2, ZenonT(60) DEF Distinct, UniqueIds, p

\* create_at takes an id that has no outcome.
LEMMA CreateDistinct ==
    ASSUME NEW q \in PendingApprovals, Distinct(q), NEW caller \in Callers,
           NEW address \in Addresses, NEW op \in Operations, NEW context \in Contexts,
           now \in Nat, nextId \in Nat, \A o \in q.resolved : o.id < nextId
    PROVE  Distinct(Create(q, caller, address, op, context))
<1> DEFINE p == Create(q, caller, address, op, context)
<1>1. /\ p.resolved = q.resolved
      /\ p.records = q.records \/ \E r \in ApprovalRecord : r.id = nextId /\ p.records = q.records \cup {r}
  BY CreateFacts
<1> HIDE DEF p
<1>2. \A o \in q.resolved : o.id # nextId
  BY DEF PendingApprovals, ResolvedRecord
<1> QED BY <1>1, <1>2, ZenonT(60) DEF Distinct, p

\* Fewer requests stay within the limits.
LEMMA WithinSubset ==
    ASSUME NEW S, Within(S), NEW T \in SUBSET S
    PROVE  Within(T)
<1>1. IsFiniteSet(T) /\ Cardinality(T) <= Cardinality(S)
      /\ Cardinality(T) \in Nat /\ Cardinality(S) \in Nat
  BY FS_Subset, FS_CardinalityType, Zenon DEF Within
<1>2. ASSUME NEW c \in Callers
      PROVE  Cardinality({r \in T : r.caller = c}) <= MaxPendingPerCaller
  <2> DEFINE s == {r \in S : r.caller = c}
             t == {r \in T : r.caller = c}
  <2>1. s \subseteq S /\ t \subseteq s
    BY Zenon
  <2> HIDE DEF s, t
  <2>2. IsFiniteSet(s)
    BY <2>1, FS_Subset, Zenon DEF Within
  <2>3. IsFiniteSet(t) /\ Cardinality(t) <= Cardinality(s)
    BY <2>1, <2>2, FS_Subset, ZenonT(60)
  <2>4. Cardinality(s) \in Nat /\ Cardinality(t) \in Nat
    BY <2>2, <2>3, FS_CardinalityType, ZenonT(60)
  <2>5. Cardinality(s) <= MaxPendingPerCaller
    BY Zenon DEF Within, s
  <2>6. Cardinality(t) <= MaxPendingPerCaller
    BY <2>3, <2>4, <2>5, LimitAssumption
  <2> QED BY <2>6, ZenonT(60) DEF t
<1> QED BY <1>1, <1>2, LimitAssumption DEF Within

\* create_at refuses at the limits what would pass them.
LEMMA CreateWithin ==
    ASSUME NEW q \in PendingApprovals, Within(q.records), NEW caller \in Callers,
           NEW address \in Addresses, NEW op \in Operations, NEW context \in Contexts
    PROVE  Within(Create(q, caller, address, op, context).records)
<1> DEFINE windowed == [q EXCEPT !.recent = {e \in @ : now - e.at < RateWindow}]
           fresh == [id |-> nextId, caller |-> caller, address |-> address, op |-> op,
                     context |-> context, expires |-> now + ApprovalTTL]
           mine(set) == {r \in set : r.caller = caller}
           p == Create(q, caller, address, op, context)
<1>1. windowed.records = q.records
  BY Zenon DEF PendingApprovals
<1>2. p.records = q.records \/ (p.records = q.records \cup {fresh} /\ ~Limited(windowed, caller))
  BY <1>1, Zenon DEF Create
<1>3. CASE p.records = q.records
  BY <1>3, Zenon DEF p
<1>4. CASE p.records = q.records \cup {fresh} /\ ~Limited(windowed, caller)
  <2> HIDE DEF windowed, p
  <2>0. fresh.caller = caller
    BY Zenon
  <2> HIDE DEF fresh
  <2>1. ~(Cardinality(q.records) >= MaxPending) /\ ~(Cardinality(mine(q.records)) >= MaxPendingPerCaller)
    BY <1>1, <1>4, ZenonT(60) DEF Limited
  <2>2. IsFiniteSet(q.records) /\ IsFiniteSet(mine(q.records))
    BY FS_Subset, Zenon DEF Within
  <2>3. Cardinality(q.records) \in Nat /\ Cardinality(mine(q.records)) \in Nat
    BY <2>2, FS_CardinalityType, ZenonT(60)
  <2>4. IsFiniteSet(p.records) /\ Cardinality(p.records) <= Cardinality(q.records) + 1
    <3>1. /\ IsFiniteSet(q.records \cup {fresh})
          /\ Cardinality(q.records \cup {fresh}) \in {Cardinality(q.records), Cardinality(q.records) + 1}
      BY <2>2, FS_AddElement, Zenon
    <3> QED BY <1>4, <2>3, <3>1
  <2>5. Cardinality(p.records) \in Nat
    BY <2>4, FS_CardinalityType, ZenonT(60)
  <2>6. Cardinality(p.records) <= MaxPending
    BY <2>1, <2>3, <2>4, <2>5, LimitAssumption, SMTT(60)
  <2>7. ASSUME NEW c \in Callers
        PROVE  Cardinality({r \in p.records : r.caller = c}) <= MaxPendingPerCaller
    <3>1. CASE c = caller
      <4>1. {r \in p.records : r.caller = c} = mine(q.records) \cup {fresh}
        BY <1>4, <2>0, <3>1, ZenonT(60)
      <4> HIDE DEF mine
      <4>2. /\ IsFiniteSet(mine(q.records) \cup {fresh})
            /\ Cardinality(mine(q.records) \cup {fresh}) <= Cardinality(mine(q.records)) + 1
        <5>1. /\ IsFiniteSet(mine(q.records) \cup {fresh})
              /\ Cardinality(mine(q.records) \cup {fresh})
                    \in {Cardinality(mine(q.records)), Cardinality(mine(q.records)) + 1}
          BY <2>2, FS_AddElement, Zenon
        <5> QED BY <2>3, <5>1
      <4>3. Cardinality(mine(q.records) \cup {fresh}) \in Nat
        BY <4>2, FS_CardinalityType, ZenonT(60)
      <4> QED BY <2>1, <2>3, <4>1, <4>2, <4>3, LimitAssumption, SMTT(60)
    <3>2. CASE c # caller
      <4>1. {r \in p.records : r.caller = c} = {r \in q.records : r.caller = c}
        BY <1>4, <2>0, <3>2, ZenonT(60)
      <4> QED BY <4>1, ZenonT(60) DEF Within
    <3> QED BY <3>1, <3>2, ZenonT(60)
  <2> QED BY <2>4, <2>6, <2>7, ZenonT(60) DEF Within, p
<1> QED BY <1>2, <1>3, <1>4, ZenonT(60)

-----------------------------------------------------------------------------
(* What a request leaves of the queue.                                     *)

\* The queue q, made of the one before, is in memory; a save may have taken it
\* to the store.
Served(q) ==
    /\ q \in PendingApprovals
    /\ unsealed /\ UNCHANGED <<now, unsealed>>
    /\ approvals'.records = q.records /\ approvals'.resolved = q.resolved
    /\ approvals'.revision = q.revision
    /\ saved' = saved \/ saved' = q.records
    /\ approvals'.unsaved \/ saved' = q.records \/ (saved' = saved /\ ~q.unsaved)
    /\ q.unsaved \/ (~approvals.unsaved /\ q.records = approvals.records)
    /\ q.revision >= approvals.revision
    /\ q.revision = approvals.revision => q.records = approvals.records

\* The queue invariants before a step, as the operations need them.
QueueKept == TypeOK /\ IdsNameRequests /\ OneOutcome /\ Within(approvals.records) /\ Within(saved)

\* The purged queue, from which every request starts.
LEMMA PurgedFacts ==
    ASSUME QueueKept
    PROVE  LET p == PurgeExpired(approvals) IN
           /\ p \in PendingApprovals /\ Distinct(p) /\ Within(p.records) /\ UniqueIds(p.records)
           /\ p.records \subseteq approvals.records
           /\ \A o \in p.resolved : o.id < nextId
           /\ p.unsaved \/ (~approvals.unsaved /\ p.records = approvals.records)
           /\ p.revision >= approvals.revision
           /\ p.revision = approvals.revision => p.records = approvals.records
<1> DEFINE p == PurgeExpired(approvals)
<1>0. approvals \in PendingApprovals /\ now \in Nat /\ Distinct(approvals) /\ UniqueIds(approvals.records)
  BY Zenon DEF QueueKept, TypeOK, OneOutcome, Distinct, IdsNameRequests, UniqueIds
<1>1. /\ p \in PendingApprovals
      /\ p.records = {r \in approvals.records : r.expires > now}
      /\ \A o \in p.resolved : o \in approvals.resolved \/ \E r \in approvals.records : o.id = r.id
      /\ \/ p.revision = approvals.revision /\ p.records = approvals.records
         \/ p.revision = approvals.revision + 1 /\ p.unsaved
      /\ p.unsaved = (approvals.unsaved \/ p.records # approvals.records)
  BY <1>0, PurgeFacts
<1>2. Distinct(p)
  BY <1>0, PurgeDistinct, Zenon
<1> HIDE DEF p
<1>3. p.records \subseteq approvals.records
  BY <1>1, Zenon
<1>4. Within(p.records) /\ UniqueIds(p.records)
  BY <1>0, <1>3, WithinSubset, Zenon DEF QueueKept, UniqueIds
<1>5. \A o \in p.resolved : o.id < nextId
  BY <1>1, Zenon DEF QueueKept, IdsNameRequests
<1>6. p.unsaved \/ (~approvals.unsaved /\ p.records = approvals.records)
  BY <1>1, Zenon
<1>7. approvals.revision \in Nat
  BY <1>0, Zenon DEF PendingApprovals
<1>8. /\ p.revision >= approvals.revision
      /\ p.revision = approvals.revision => p.records = approvals.records
  BY <1>1, <1>7
<1> QED BY <1>1, <1>2, <1>3, <1>4, <1>5, <1>6, <1>8, ZenonT(60) DEF p

\* Every request, listing and poll leaves such a queue, with one outcome per
\* request and within the limits.
LEMMA ServedStep ==
    ASSUME QueueKept,
           \/ \E c \in Callers, a \in Addresses, op \in Operations, x \in Contexts : Request(c, a, op, x)
           \/ \E r \in approvals.records, d \in Durations \cup {Never}, once \in BOOLEAN :
                 Approve(r, d, once)
           \/ \E r \in approvals.records : Deny(r)
           \/ \E w \in Watchers : List(w)
           \/ Poll
    PROVE  \E q : Served(q) /\ Distinct(q) /\ Within(q.records)
<1> DEFINE p == PurgeExpired(approvals)
<1>0. /\ p \in PendingApprovals /\ Distinct(p) /\ Within(p.records) /\ UniqueIds(p.records)
      /\ p.records \subseteq approvals.records
      /\ \A o \in p.resolved : o.id < nextId
      /\ p.unsaved \/ (~approvals.unsaved /\ p.records = approvals.records)
      /\ p.revision >= approvals.revision
      /\ p.revision = approvals.revision => p.records = approvals.records
      /\ p.revision \in Nat /\ approvals.revision \in Nat
  BY PurgedFacts, ZenonT(60) DEF PendingApprovals, QueueKept, TypeOK
<1>t. now \in Nat /\ nextId \in Nat /\ approvals.records \subseteq ApprovalRecord
  BY Zenon DEF QueueKept, TypeOK, PendingApprovals
<1> HIDE DEF p
<1>1. ASSUME NEW c \in Callers, NEW a \in Addresses, NEW op \in Operations,
             NEW x \in Contexts, Request(c, a, op, x)
      PROVE  \E q : Served(q) /\ Distinct(q) /\ Within(q.records)
  <2> DEFINE q == Create(p, c, a, op, x)
  <2>1. /\ q \in PendingApprovals
        /\ \/ q.records = p.records /\ q.revision = p.revision /\ q.unsaved = p.unsaved
           \/ q.revision = p.revision + 1 /\ q.unsaved
    BY <1>0, <1>t, CreateFacts
  <2>2. Distinct(q) /\ Within(q.records)
    BY <1>0, <1>t, CreateDistinct, CreateWithin, Zenon
  <2>3. /\ unsealed /\ UNCHANGED <<now, unsealed>>
        /\ IF q.revision # approvals.revision THEN Save(q) ELSE approvals' = q /\ saved' = saved
    BY <1>1, Zenon DEF Request, p
  <2> HIDE DEF q
  <2>4. /\ q.unsaved \/ (~approvals.unsaved /\ q.records = approvals.records)
        /\ q.revision >= approvals.revision
        /\ q.revision = approvals.revision => q.records = approvals.records
    BY <1>0, <2>1
  <2>5. CASE Save(q)
    BY <2>1, <2>2, <2>3, <2>4, <2>5, SaveFacts, Zenon DEF Served
  <2>6. CASE approvals' = q /\ saved' = saved
    BY <2>1, <2>2, <2>3, <2>4, <2>6, ZenonT(60) DEF Served
  <2> QED BY <2>3, <2>5, <2>6, ZenonT(60)
<1>2. ASSUME NEW r \in p.records, NEW until \in Nat, NEW status \in {"granted", "denied"},
             Save(Resolve(p, r, status, until)), unsealed, UNCHANGED <<now, unsealed>>
      PROVE  \E q : Served(q) /\ Distinct(q) /\ Within(q.records)
  <2> DEFINE q == Resolve(p, r, status, until)
  <2>1. /\ q \in PendingApprovals /\ q.records = p.records \ {r}
        /\ q.revision = p.revision + 1 /\ q.unsaved
    BY <1>0, ResolveFacts
  <2>2. Distinct(q)
    BY <1>0, ResolveDistinct, Zenon
  <2> HIDE DEF q
  <2>3. Within(q.records)
    BY <1>0, <2>1, WithinSubset, Zenon
  <2>4. q.revision >= approvals.revision /\ q.revision # approvals.revision
    BY <1>0, <2>1
  <2>5. Save(q)
    BY <1>2, Zenon DEF q
  <2> QED BY <1>2, <2>1, <2>2, <2>3, <2>4, <2>5, SaveFacts, ZenonT(60) DEF Served
<1>3. ASSUME NEW r \in approvals.records, NEW d \in Durations \cup {Never},
             NEW once \in BOOLEAN, Approve(r, d, once)
      PROVE  \E q : Served(q) /\ Distinct(q) /\ Within(q.records)
  <2>1. now + ApprovalTTL \in Nat
    BY <1>t, DurationAssumption
  <2> QED BY <1>2, <1>3, <2>1, Zenon DEF Approve, p
<1>4. ASSUME NEW r \in approvals.records, Deny(r)
      PROVE  \E q : Served(q) /\ Distinct(q) /\ Within(q.records)
  <2>1. r.expires + ApprovalTTL \in Nat
    BY <1>t, DurationAssumption DEF ApprovalRecord
  <2> QED BY <1>2, <1>4, <2>1, Zenon DEF Deny, p
<1>5. ASSUME NEW w \in Watchers, List(w)
      PROVE  \E q : Served(q) /\ Distinct(q) /\ Within(q.records)
  <2> DEFINE rev == IF Live(registry) = shown THEN p.revision ELSE p.revision + 1
             q == [p EXCEPT !.revision = rev]
  <2>1. rev \in Nat /\ rev >= p.revision
    BY <1>0
  <2>2. Save(q) /\ unsealed /\ UNCHANGED <<now, unsealed>>
    BY <1>5, Zenon DEF List, p
  <2> HIDE DEF rev
  <2>3. /\ q \in PendingApprovals /\ q.records = p.records /\ q.resolved = p.resolved
        /\ q.revision = rev /\ q.unsaved = p.unsaved
    BY <1>0, <2>1, Zenon DEF PendingApprovals
  <2> HIDE DEF q
  <2>4. Distinct(q) /\ Within(q.records)
    BY <1>0, <2>3, ZenonT(60) DEF Distinct
  <2>5. /\ q.revision >= approvals.revision
        /\ q.revision = approvals.revision => q.records = approvals.records
    BY <1>0, <2>1, <2>3, SMTT(60)
  <2> QED BY <1>0, <2>2, <2>3, <2>4, <2>5, SaveFacts, Zenon DEF Served
<1>6. CASE Poll
  <2>1. unsealed /\ approvals' = p /\ UNCHANGED <<now, unsealed, saved>>
    BY <1>6, Zenon DEF Poll, durable, p
  <2> QED BY <1>0, <2>1, Zenon DEF Served
<1> QED BY <1>1, <1>3, <1>4, <1>5, <1>6, Zenon

-----------------------------------------------------------------------------
(* RequestsAreKept.                                                        *)

\* What waits and is not due, here and in the store.
Waiting(requests, instant) == {r \in requests : r.expires > instant}

\* Requests that were waiting at one instant and agree, agree at a later one.
LEMMA WaitingLater ==
    ASSUME NEW S \in SUBSET ApprovalRecord, NEW T \in SUBSET ApprovalRecord,
           NEW i \in Nat, Waiting(S, i) = Waiting(T, i)
    PROVE  Waiting(S, i + 1) = Waiting(T, i + 1)
<1>1. \A r \in ApprovalRecord : r.expires \in Nat /\ (r.expires > i + 1 => r.expires > i)
  BY DEF ApprovalRecord
<1>2. ASSUME NEW U \in SUBSET ApprovalRecord
      PROVE  Waiting(U, i + 1) = {r \in Waiting(U, i) : r.expires > i + 1}
  BY <1>1, Zenon DEF Waiting
<1> QED BY <1>2, Zenon

\* Evicting the durable copy loses nothing that waits.
LEMMA SweptFacts ==
    ASSUME TypeOK, Within(saved)
    PROVE  /\ SweptApprovals \subseteq saved /\ SweptApprovals \subseteq ApprovalRecord
           /\ Within(SweptApprovals)
           /\ Waiting(SweptApprovals, now) = Waiting(saved, now)
<1>1. SweptApprovals \subseteq saved /\ SweptApprovals \subseteq ApprovalRecord
  BY Zenon DEF SweptApprovals, TypeOK
<1>2. Waiting(SweptApprovals, now) = Waiting(saved, now)
  BY Zenon DEF SweptApprovals, Waiting
<1> QED BY <1>1, <1>2, WithinSubset, ZenonT(60)

\* One outcome, the durable copy and the limits survive every step.
LEMMA KeptStep ==
    ASSUME QueueKept, WriteThrough, [Next]_vars
    PROVE  OneOutcome' /\ WriteThrough' /\ Within(approvals'.records) /\ Within(saved')
<1>0. /\ now \in Nat /\ approvals \in PendingApprovals /\ saved \subseteq ApprovalRecord
      /\ approvals.records \subseteq ApprovalRecord /\ approvals.revision \in Nat
      /\ Within(approvals.records) /\ Within(saved) /\ OneOutcome /\ TypeOK
  BY Zenon DEF QueueKept, TypeOK, PendingApprovals
<1>a. ASSUME Distinct(approvals') PROVE OneOutcome'
  BY <1>a, Zenon DEF Distinct, OneOutcome
<1>b. ASSUME unsealed' /\ ~approvals'.unsaved => Waiting(saved', now') = Waiting(approvals'.records, now')
      PROVE  WriteThrough'
  BY <1>b, Zenon DEF Waiting, WriteThrough
<1>c. unsealed /\ ~approvals.unsaved => Waiting(saved, now) = Waiting(approvals.records, now)
  BY Zenon DEF Waiting, WriteThrough
<1>d. Distinct(approvals)
  BY <1>0, Zenon DEF Distinct, OneOutcome
<1>1. ASSUME NEW q, Served(q), Distinct(q), Within(q.records)
      PROVE  OneOutcome' /\ WriteThrough' /\ Within(approvals'.records) /\ Within(saved')
  <2>1. Distinct(approvals') /\ Within(approvals'.records) /\ Within(saved')
    BY <1>0, <1>1, Zenon DEF Served, Distinct
  <2>2. ~approvals'.unsaved => Waiting(saved', now') = Waiting(approvals'.records, now')
    <3>1. CASE saved' = q.records
      BY <1>1, <3>1, ZenonT(60) DEF Served
    <3>2. CASE saved' = saved /\ ~q.unsaved
      BY <1>1, <1>c, <3>2, ZenonT(60) DEF Served
    <3> QED BY <1>1, <3>1, <3>2, ZenonT(60) DEF Served
  <2> QED BY <1>a, <1>b, <2>1, <2>2, ZenonT(60)
<1>2. CASE UNCHANGED <<now, unsealed, approvals, saved>>
  BY <1>0, <1>2, ZenonT(60) DEF OneOutcome, WriteThrough
<1>3. ASSUME NEW e \in registry, Revoke(e)
      PROVE  OneOutcome' /\ WriteThrough' /\ Within(approvals'.records) /\ Within(saved')
  <2>1. /\ approvals'.records = approvals.records /\ approvals'.resolved = approvals.resolved
        /\ approvals'.unsaved = approvals.unsaved
        /\ UNCHANGED <<now, unsealed, saved>>
    BY <1>0, <1>3, ZenonT(60) DEF Revoke, PendingApprovals
  <2> QED BY <1>0, <1>a, <1>b, <1>c, <1>d, <2>1, ZenonT(60) DEF Distinct
<1>4. CASE SweepApprovals
  BY <1>0, <1>4, <1>a, <1>b, <1>c, <1>d, SweptFacts, ZenonT(60) DEF SweepApprovals
<1>5. CASE Seal
  <2>1. approvals'.records = {} /\ approvals'.resolved = {} /\ ~unsealed' /\ saved' = saved
    BY <1>5, ZenonT(60) DEF Seal, NoApprovals, durable
  <2>2. Within(approvals'.records)
    BY <1>0, <2>1, WithinSubset, ZenonT(60)
  <2> QED BY <1>0, <1>a, <1>b, <2>1, <2>2, ZenonT(60) DEF Distinct
<1>6. CASE Unseal
  <2> DEFINE q == [NoApprovals EXCEPT !.records = SweptApprovals]
  <2>1. /\ q \in PendingApprovals /\ q.records = SweptApprovals /\ q.resolved = {}
        /\ SweptApprovals \subseteq saved /\ Within(SweptApprovals)
    BY <1>0, SweptFacts, ZenonT(60) DEF NoApprovals, PendingApprovals
  <2>2. approvals' = PurgeExpired(q) /\ saved' = SweptApprovals /\ now' = now
    BY <1>6, ZenonT(60) DEF Unseal
  <2> HIDE DEF q
  <2>3. approvals'.records = Waiting(SweptApprovals, now)
    BY <1>0, <2>1, <2>2, PurgeFacts, ZenonT(60) DEF Waiting
  <2>4. Distinct(approvals')
    <3>1. UniqueIds(q.records) /\ Distinct(q)
      BY <2>1, ZenonT(60) DEF UniqueIds, Distinct, QueueKept, IdsNameRequests
    <3> QED BY <2>1, <2>2, <3>1, PurgeDistinct, ZenonT(60)
  <2>5. Within(approvals'.records)
    BY <2>1, <2>3, WithinSubset, ZenonT(60) DEF Waiting
  <2>6. Waiting(saved', now') = Waiting(approvals'.records, now')
    BY <2>2, <2>3, ZenonT(60) DEF Waiting
  <2> QED BY <1>a, <1>b, <2>1, <2>2, <2>4, <2>5, <2>6, ZenonT(60)
<1>7. CASE Tick
  <2>1. now' = now + 1 /\ UNCHANGED <<unsealed, approvals, saved>>
    BY <1>7, ZenonT(60) DEF Tick, durable
  <2>2. unsealed /\ ~approvals.unsaved =>
           Waiting(saved, now + 1) = Waiting(approvals.records, now + 1)
    BY <1>0, <1>c, WaitingLater, ZenonT(60)
  <2> QED BY <1>0, <1>a, <1>b, <1>d, <2>1, <2>2, ZenonT(60)
<1>8. CASE \/ \E c \in Callers, a \in Addresses : SpendingWrite(c, a)
           \/ \E c \in Callers, t \in TrustedTargets, op \in Operations, d \in Durations \cup {Never} :
                 Authorize(c, t, op, d)
           \/ SweepGrants \/ UNCHANGED vars
  BY <1>2, <1>8, ZenonT(60) DEF SpendingWrite, Authorize, SweepGrants, vars
<1>9. CASE \/ \E c \in Callers, a \in Addresses, op \in Operations, x \in Contexts : Request(c, a, op, x)
           \/ \E r \in approvals.records, d \in Durations \cup {Never}, once \in BOOLEAN :
                 Approve(r, d, once)
           \/ \E r \in approvals.records : Deny(r)
           \/ \E w \in Watchers : List(w)
           \/ Poll
  BY <1>1, <1>9, ServedStep, Zenon
<1>10. CASE \E e \in registry : Revoke(e)
  BY <1>3, <1>10, Zenon
<1>11. CASE Next
  BY <1>4, <1>5, <1>6, <1>7, <1>8, <1>9, <1>10, <1>11, Zenon DEF Next
<1>12. CASE UNCHANGED vars
  BY <1>2, <1>12, ZenonT(60) DEF vars
<1> QED BY <1>11, <1>12, Zenon

\* The queue invariants hold in every reachable state.
THEOREM QueueInvariant == Spec => [](QueueKept /\ WriteThrough)
<1> DEFINE Kept == OneOutcome /\ WriteThrough /\ Within(approvals.records) /\ Within(saved)
<1>1. Init => Kept
  <2> SUFFICES ASSUME Init PROVE Kept
    BY Zenon
  <2>1. approvals.records = {} /\ approvals.resolved = {} /\ saved = {} /\ ~unsealed
    BY Zenon DEF Init, NoApprovals
  <2>2. Within({})
    <3>1. \A c \in Callers : {r \in {} : r.caller = c} = {}
      BY Zenon
    <3> QED BY <3>1, FS_EmptySet, LimitAssumption, SMTT(60) DEF Within
  <2> QED BY <2>1, <2>2, ZenonT(60) DEF OneOutcome, WriteThrough
<1>2. Kept /\ TypeOK /\ IdsNameRequests /\ [Next]_vars => Kept'
  BY KeptStep, Zenon DEF QueueKept, Within
<1>3. Kept /\ TypeOK /\ IdsNameRequests => QueueKept /\ WriteThrough
  BY Zenon DEF QueueKept
<1> HIDE DEF Kept
<1> QED BY <1>1, <1>2, <1>3, TypeCorrect, IdsAgree, PTL DEF Spec

\* RequestsAreKept, for any callers, limits and watchers: purge_expired,
\* create_at, approve and deny give a request one outcome and keep the limits,
\* and save, load and the eviction sweep keep what waits, through failed saves,
\* seals and crashes.
THEOREM QueueStaysKept == Spec => []RequestsAreKept
<1>1. QueueKept /\ WriteThrough => RequestsAreKept
  BY Zenon DEF QueueKept, RequestsAreKept, BoundedQueue, Within
<1> QED BY <1>1, QueueInvariant, PTL

-----------------------------------------------------------------------------
(* RevisionNamesListing.                                                   *)

\* Listings of one revision agree, also those no longer current.
ListingsAgree ==
    \A v, w \in Watchers : \A l \in watched[v], m \in watched[w] : l.revision = m.revision => l = m

\* What list_permissions returns to one watcher: it agrees with every earlier
\* listing of its revision and is current.
LEMMA ListFacts ==
    ASSUME QueueKept, ListingsCurrent, NEW w \in Watchers, List(w)
    PROVE  \E new \in Listing :
              /\ watched' = [watched EXCEPT ![w] = {new}]
              /\ unsealed' /\ approvals'.revision = new.revision
              /\ new.pending = approvals'.records /\ new.granted = shown'
              /\ \A v \in Watchers : \A l \in watched[v] :
                    l.revision <= new.revision /\ (l.revision = new.revision => l = new)
<1> DEFINE p == PurgeExpired(approvals)
           rev == IF Live(registry) = shown THEN p.revision ELSE p.revision + 1
           q == [p EXCEPT !.revision = rev]
           new == [revision |-> rev, pending |-> p.records, granted |-> Live(registry)]
<1>1. /\ p \in PendingApprovals /\ p.revision \in Nat /\ approvals.revision \in Nat
      /\ p.records \subseteq ApprovalRecord
      /\ p.revision >= approvals.revision
      /\ p.revision = approvals.revision => p.records = approvals.records
  BY PurgedFacts, ZenonT(60) DEF PendingApprovals, QueueKept, TypeOK
<1>2. /\ rev \in Nat /\ rev >= approvals.revision
      /\ rev = approvals.revision => p.records = approvals.records /\ Live(registry) = shown
  BY <1>1
<1>3. /\ unsealed /\ unsealed' = unsealed /\ Save(q) /\ shown' = Live(registry)
      /\ watched' = [watched EXCEPT ![w] = {new}]
  BY <1>1, Zenon DEF List, PendingApprovals
<1> HIDE DEF rev, p
<1>4. q \in PendingApprovals /\ q.records = p.records /\ q.revision = rev
  BY <1>1, <1>2, ZenonT(60) DEF PendingApprovals
<1> HIDE DEF q
<1>5. approvals'.records = p.records /\ approvals'.revision = rev
  BY <1>3, <1>4, SaveFacts, ZenonT(60)
<1>6. Live(registry) \subseteq StoredPermission
  BY Zenon DEF Live, QueueKept, TypeOK
<1>7. new \in Listing /\ new.revision = rev /\ new.pending = p.records /\ new.granted = Live(registry)
  BY <1>1, <1>2, <1>6, ZenonT(60) DEF Listing
<1>8. ASSUME NEW v \in Watchers, NEW l \in watched[v]
      PROVE  l.revision <= rev /\ (l.revision = rev => l = new)
  <2>1. l \in Listing /\ l.revision \in Nat
    BY DEF QueueKept, TypeOK, Listing
  <2>2. /\ l.revision <= approvals.revision
        /\ l.revision = approvals.revision => l.pending = approvals.records /\ l.granted = shown
    BY Zenon DEF ListingsCurrent
  <2>3. l.revision <= rev
    BY <1>1, <1>2, <2>1, <2>2, SMTT(60)
  <2>4. ASSUME l.revision = rev PROVE l = new
    <3>1. rev = approvals.revision
      BY <1>1, <1>2, <2>1, <2>2, <2>4, SMTT(60)
    <3>2. l.pending = p.records /\ l.granted = Live(registry)
      BY <1>2, <2>2, <2>4, <3>1, ZenonT(60)
    <3>3. l = [revision |-> l.revision, pending |-> l.pending, granted |-> l.granted]
      BY <2>1, ZenonT(60) DEF Listing
    <3> QED BY <2>4, <3>2, <3>3, Zenon
  <2> QED BY <2>3, <2>4, ZenonT(60)
<1> HIDE DEF new
<1> QED BY <1>3, <1>5, <1>7, <1>8, Zenon

\* Listings stay current and in agreement.
LEMMA ListingsStep ==
    ASSUME QueueKept, ListingsCurrent, ListingsAgree, [Next]_vars
    PROVE  /\ ListingsCurrent' /\ ListingsAgree'
           /\ \A v, w \in Watchers : \A old \in watched[v], new \in watched'[w] :
                 old.revision = new.revision => old = new
<1> DEFINE Steady == \A v, w \in Watchers : \A old \in watched[v], new \in watched'[w] :
                        old.revision = new.revision => old = new
<1>0. /\ approvals.revision \in Nat
      /\ watched \in [Watchers -> SUBSET Listing]
      /\ \A w \in Watchers : \A l \in watched[w] : l.revision \in Nat
  BY DEF QueueKept, TypeOK, PendingApprovals, Listing
<1>1. ASSUME UNCHANGED <<watched, unsealed, shown>>, approvals'.revision \in Nat,
             approvals'.revision >= approvals.revision,
             approvals'.revision = approvals.revision => approvals'.records = approvals.records
      PROVE  ListingsCurrent' /\ ListingsAgree' /\ Steady
  <2>1. ListingsAgree' /\ Steady
    BY <1>1, ZenonT(60) DEF ListingsAgree
  <2>2. ASSUME NEW w \in Watchers, NEW l \in watched'[w]
        PROVE  /\ unsealed' /\ l.revision <= approvals'.revision
               /\ l.revision = approvals'.revision => l.pending = approvals'.records /\ l.granted = shown'
    <3>1. /\ unsealed /\ l.revision <= approvals.revision /\ l.revision \in Nat
          /\ l.revision = approvals.revision => l.pending = approvals.records /\ l.granted = shown
      BY <1>0, <1>1, <2>2, ZenonT(60) DEF ListingsCurrent
    <3>2. l.revision <= approvals'.revision
          /\ (l.revision = approvals'.revision => approvals'.revision = approvals.revision)
      BY <1>0, <1>1, <3>1, SMTT(60)
    <3> QED BY <1>1, <3>1, <3>2, ZenonT(60)
  <2>3. ListingsCurrent'
    BY <2>2, ZenonT(60) DEF ListingsCurrent
  <2> QED BY <2>1, <2>3, Zenon
<1>2. ASSUME NEW w \in Watchers, List(w)
      PROVE  ListingsCurrent' /\ ListingsAgree' /\ Steady
  <2>1. PICK new \in Listing :
              /\ watched' = [watched EXCEPT ![w] = {new}]
              /\ unsealed' /\ approvals'.revision = new.revision
              /\ new.pending = approvals'.records /\ new.granted = shown'
              /\ \A v \in Watchers : \A l \in watched[v] :
                    l.revision <= new.revision /\ (l.revision = new.revision => l = new)
    BY <1>2, ListFacts, ZenonT(60)
  <2>2. new.revision \in Nat
    BY Zenon DEF Listing
  <2>3. \A v \in Watchers : \A l \in watched'[v] : l = new \/ l \in watched[v]
    BY <1>0, <2>1, ZenonT(60)
  <2>4. ListingsAgree' /\ Steady
    BY <2>1, <2>3, SMTT(60) DEF ListingsAgree
  <2>5. ListingsCurrent'
    BY <2>1, <2>2, <2>3, SMTT(60) DEF ListingsCurrent
  <2> QED BY <2>4, <2>5, ZenonT(60)
<1>3. ASSUME \A w \in Watchers : watched'[w] = {}
      PROVE  ListingsCurrent' /\ ListingsAgree' /\ Steady
  BY <1>3, ZenonT(60) DEF ListingsCurrent, ListingsAgree
<1>4. ASSUME NEW q, Served(q), UNCHANGED <<watched, shown>>
      PROVE  ListingsCurrent' /\ ListingsAgree' /\ Steady
  BY <1>1, <1>4, ZenonT(60) DEF Served, PendingApprovals
<1>5. CASE \/ \E c \in Callers, a \in Addresses, op \in Operations, x \in Contexts : Request(c, a, op, x)
           \/ \E r \in approvals.records, d \in Durations \cup {Never}, once \in BOOLEAN :
                 Approve(r, d, once)
           \/ \E r \in approvals.records : Deny(r)
           \/ Poll
  <2>1. UNCHANGED <<watched, shown>>
    <3>1. ASSUME NEW c, NEW a, NEW op, NEW x, Request(c, a, op, x)
          PROVE  UNCHANGED <<watched, shown>>
      BY <3>1, Zenon DEF Request
    <3>2. ASSUME NEW r, NEW d, NEW once, Approve(r, d, once)
          PROVE  UNCHANGED <<watched, shown>>
      BY <3>2, Zenon DEF Approve
    <3>3. ASSUME NEW r, Deny(r)
          PROVE  UNCHANGED <<watched, shown>>
      BY <3>3, Zenon DEF Deny
    <3>4. ASSUME Poll
          PROVE  UNCHANGED <<watched, shown>>
      BY <3>4, Zenon DEF Poll
    <3> QED BY <1>5, <3>1, <3>2, <3>3, <3>4, Zenon
  <2>2. PICK q : Served(q)
    BY <1>5, ServedStep, Zenon
  <2> QED BY <1>4, <2>1, <2>2, ZenonT(60)
<1>6. ASSUME NEW e \in registry, Revoke(e)
      PROVE  ListingsCurrent' /\ ListingsAgree' /\ Steady
  <2>1. approvals'.revision = approvals.revision + 1 /\ UNCHANGED <<watched, unsealed, shown>>
    BY <1>6, Zenon DEF Revoke, QueueKept, TypeOK, PendingApprovals
  <2> QED BY <1>0, <1>1, <2>1, SMTT(60)
<1>7. CASE Seal
  BY <1>3, <1>7, ZenonT(60) DEF Seal
<1>8. CASE Unseal
  <2>1. watched' = watched /\ ~unsealed
    BY <1>8, Zenon DEF Unseal
  <2>2. \A w \in Watchers : watched'[w] = {}
    BY <2>1, Zenon DEF ListingsCurrent
  <2> QED BY <1>3, <2>2, Zenon
<1>9. CASE \/ \E c \in Callers, a \in Addresses : SpendingWrite(c, a)
           \/ \E c \in Callers, t \in TrustedTargets, op \in Operations, d \in Durations \cup {Never} :
                 Authorize(c, t, op, d)
           \/ SweepGrants \/ SweepApprovals \/ Tick \/ UNCHANGED vars
  <2>1. UNCHANGED <<watched, unsealed, shown, approvals>>
    BY <1>9, ZenonT(60) DEF SpendingWrite, Authorize, SweepGrants, SweepApprovals, Tick, vars
  <2> QED BY <1>0, <1>1, <2>1, SMTT(60)
<1>10. CASE \E w \in Watchers : List(w)
  BY <1>2, <1>10, Zenon
<1>11. CASE \E e \in registry : Revoke(e)
  BY <1>6, <1>11, Zenon
<1> HIDE DEF Steady
<1> QED BY <1>5, <1>7, <1>8, <1>9, <1>10, <1>11, ZenonT(60) DEF Next, Steady

\* RevisionNamesListing, for any number of watchers: list_permissions moves
\* the revision whenever what it returns differs from what was last returned,
\* so a watcher that is handed a revision it knows has missed nothing.
THEOREM RevisionsNameListings == Spec => RevisionNamesListing
<1> DEFINE Listings == ListingsCurrent /\ ListingsAgree
           Steady == \A v, w \in Watchers : \A old \in watched[v], new \in watched'[w] :
                        old.revision = new.revision => old = new
<1>1. Init => Listings
  BY Zenon DEF Init, ListingsCurrent, ListingsAgree
<1>2. QueueKept /\ Listings /\ [Next]_vars => Listings' /\ [Steady]_vars
  BY ListingsStep, Zenon
<1> HIDE DEF Listings
<1>3. Spec => []Listings
  BY <1>1, <1>2, QueueInvariant, PTL DEF Spec
<1> QED BY <1>2, <1>3, QueueInvariant, PTL DEF Spec, RevisionNamesListing
=============================================================================
