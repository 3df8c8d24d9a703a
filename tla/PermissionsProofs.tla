------------------------- MODULE PermissionsProofs -------------------------
(***************************************************************************)
(* What Permissions guarantees for every set of callers, entries and       *)
(* limits.  The helper lemmas say what each queue operation does to the    *)
(* records it is given; the invariant proofs use only them.                *)
(***************************************************************************)
EXTENDS Permissions, TLAPS

\* What purge_expired returns: a queue whose records are those not yet due,
\* under a new revision exactly when some were due.
LEMMA PurgeFacts ==
    ASSUME NEW q \in PendingApprovals, now \in Nat
    PROVE  /\ PurgeExpired(q) \in PendingApprovals
           /\ PurgeExpired(q).records = {r \in q.records : r.expires > now}
           /\ \A o \in PurgeExpired(q).resolved :
                 \/ o \in q.resolved
                 \/ \E r \in q.records : r.expires <= now /\ o.id = r.id
           /\ PurgeExpired(q).recent = q.recent
           /\ \/ PurgeExpired(q).revision = q.revision /\ PurgeExpired(q).records = q.records
              \/ PurgeExpired(q).revision = q.revision + 1 /\ PurgeExpired(q).unsaved
           /\ PurgeExpired(q).unsaved = (q.unsaved \/ PurgeExpired(q).records # q.records)
<1> DEFINE due == {r \in q.records : r.expires <= now}
           rev == IF due = {} THEN q.revision ELSE q.revision + 1
           outcomes == {Outcome(r, "expired", r.expires + ApprovalTTL, rev) : r \in due}
           kept == {o \in Newest(q.resolved \cup outcomes) : o.until > now}
<1>1. PurgeExpired(q) = [records |-> q.records \ due, resolved |-> kept, revision |-> rev,
                         recent |-> q.recent, unsaved |-> q.unsaved \/ due # {}]
  BY Zenon DEF PurgeExpired
<1>2. rev \in Nat
  BY DEF PendingApprovals
<1>3. outcomes \subseteq ResolvedRecord
  <2> SUFFICES ASSUME NEW r \in due PROVE Outcome(r, "expired", r.expires + ApprovalTTL, rev) \in ResolvedRecord
    BY Zenon
  <2> HIDE DEF rev
  <2>1. r \in ApprovalRecord
    BY Zenon DEF PendingApprovals
  <2> QED BY <2>1, <1>2, DurationAssumption DEF Outcome, ResolvedRecord, ApprovalRecord
<1>4. kept \subseteq q.resolved \cup outcomes
  BY Zenon DEF Newest
<1>5. kept \subseteq ResolvedRecord
  BY <1>3, <1>4, Zenon DEF PendingApprovals
<1>6. \A o \in outcomes : \E r \in q.records : r.expires <= now /\ o.id = r.id
  BY DEF Outcome
<1>7. q.records \ due = {r \in q.records : r.expires > now}
  BY DEF PendingApprovals, ApprovalRecord
<1> HIDE DEF kept, outcomes
<1>8. PurgeExpired(q) \in PendingApprovals
  BY <1>1, <1>2, <1>5 DEF PendingApprovals
<1>9. due # {} <=> q.records \ due # q.records
  BY Zenon
<1>10. \A o \in kept : o \in q.resolved \/ \E r \in q.records : r.expires <= now /\ o.id = r.id
  BY <1>4, <1>6, Zenon
<1>11. \/ rev = q.revision /\ q.records \ due = q.records
       \/ rev = q.revision + 1 /\ (q.unsaved \/ due # {})
  BY Zenon
<1> HIDE DEF due, rev
<1>12. /\ PurgeExpired(q).records = q.records \ due
       /\ PurgeExpired(q).resolved = kept
       /\ PurgeExpired(q).revision = rev
       /\ PurgeExpired(q).recent = q.recent
  BY <1>1
<1>13. PurgeExpired(q).unsaved = (q.unsaved \/ due # {})
  BY <1>1
<1>14. PurgeExpired(q).unsaved = (q.unsaved \/ q.records \ due # q.records)
  BY <1>9, <1>13, Zenon
<1> QED BY <1>7, <1>8, <1>10, <1>11, <1>12, <1>13, <1>14, Zenon

\* What deny and approve leave in the queue: everything but the record they
\* resolve, under the next revision.
LEMMA ResolveFacts ==
    ASSUME NEW q \in PendingApprovals, NEW record \in q.records, NEW until \in Nat,
           NEW status \in {"granted", "denied"}
    PROVE  LET n == Resolve(q, record, status, until) IN
           /\ n \in PendingApprovals
           /\ n.records = q.records \ {record}
           /\ \A o \in n.resolved : o \in q.resolved \/ o.id = record.id
           /\ n.revision = q.revision + 1
           /\ n.unsaved
<1> DEFINE n == Resolve(q, record, status, until)
           outcome == Outcome(record, status, until, q.revision + 1)
           kept == Newest(q.resolved \cup {outcome})
<1>1. n = [records |-> q.records \ {record}, resolved |-> kept, revision |-> q.revision + 1,
           recent |-> q.recent, unsaved |-> TRUE]
  BY Zenon DEF Resolve
<1>2. outcome \in ResolvedRecord /\ outcome.id = record.id
  BY DEF Outcome, ResolvedRecord, PendingApprovals, ApprovalRecord
<1> HIDE DEF outcome
<1>3. kept \subseteq q.resolved \cup {outcome}
  BY Zenon DEF Newest
<1> HIDE DEF kept, n
<1>4. n \in PendingApprovals
  BY <1>1, <1>2, <1>3 DEF PendingApprovals
<1> QED BY <1>1, <1>2, <1>3, <1>4 DEF n

\* What create_at leaves in the queue: the same records, or one more with a
\* fresh id under the next revision.
LEMMA CreateFacts ==
    ASSUME NEW q \in PendingApprovals, NEW caller \in Callers, NEW address \in Addresses,
           NEW op \in Operations, NEW context \in Contexts, now \in Nat, nextId \in Nat
    PROVE  LET n == Create(q, caller, address, op, context) IN
           /\ n \in PendingApprovals
           /\ n.resolved = q.resolved
           /\ \/ n.records = q.records /\ n.revision = q.revision /\ n.unsaved = q.unsaved
              \/ /\ \E r \in ApprovalRecord : r.id = nextId /\ n.records = q.records \cup {r}
                 /\ n.revision = q.revision + 1
                 /\ n.unsaved
<1> DEFINE n == Create(q, caller, address, op, context)
           recent == {e \in q.recent : now - e.at < RateWindow}
           windowed == [q EXCEPT !.recent = recent]
           fresh == [id |-> nextId, caller |-> caller, address |-> address, op |-> op,
                     context |-> context, expires |-> now + ApprovalTTL]
           creation == [id |-> nextId, caller |-> caller, at |-> now]
           grown == [records |-> q.records \cup {fresh}, resolved |-> q.resolved,
                     revision |-> q.revision + 1, recent |-> recent \cup {creation},
                     unsaved |-> TRUE]
<1>1. fresh \in ApprovalRecord /\ fresh.id = nextId
  BY DurationAssumption DEF ApprovalRecord
<1>2. creation \in Creation
  BY Zenon DEF Creation
<1>3. /\ windowed \in PendingApprovals
      /\ windowed.records = q.records /\ windowed.resolved = q.resolved
      /\ windowed.revision = q.revision /\ windowed.unsaved = q.unsaved
      /\ windowed.recent = recent
  BY Zenon DEF PendingApprovals
<1>4. n = q \/ n = windowed \/ n = grown
  BY <1>3, Zenon DEF Create
<1> HIDE DEF n, windowed, fresh, creation, recent
<1>5. recent \subseteq Creation
  BY Zenon DEF recent, PendingApprovals
<1>6. grown \in PendingApprovals
  BY <1>1, <1>2, <1>5 DEF PendingApprovals
<1>7. CASE n = q
  BY <1>7, Zenon DEF n
<1>8. CASE n = windowed
  BY <1>3, <1>8, Zenon DEF n
<1>9. CASE n = grown
  <2>1. /\ n.records = q.records \cup {fresh} /\ n.resolved = q.resolved
        /\ n.revision = q.revision + 1 /\ n.unsaved
    BY <1>9, Zenon
  <2> HIDE DEF grown
  <2> QED BY <1>1, <1>6, <1>9, <2>1, Zenon DEF n
<1> QED BY <1>4, <1>7, <1>8, <1>9, Zenon

\* A best-effort save changes nothing in the queue but its unsaved mark, and
\* clears that mark only after the records reached the store.
LEMMA SaveFacts ==
    ASSUME NEW q \in PendingApprovals, Save(q)
    PROVE  /\ approvals' \in PendingApprovals
           /\ approvals'.records = q.records
           /\ approvals'.resolved = q.resolved
           /\ approvals'.revision = q.revision
           /\ saved' = saved \/ saved' = q.records
           /\ approvals'.unsaved \/ saved' = q.records \/ (saved' = saved /\ ~q.unsaved)
<1>1. CASE saved' = q.records /\ approvals' = [q EXCEPT !.unsaved = FALSE]
  BY <1>1, Zenon DEF PendingApprovals
<1>2. CASE saved' = saved /\ approvals' = q
  BY <1>2, Zenon DEF PendingApprovals
<1> QED BY <1>1, <1>2, Zenon DEF Save

-----------------------------------------------------------------------------

\* Every request finds the state well typed: the grant records, the registry,
\* both copies of the queue and what the listings returned.
THEOREM TypeCorrect == Spec => []TypeOK
<1>1. Init => TypeOK
  <2>1. NoApprovals \in PendingApprovals
    BY Zenon DEF NoApprovals, PendingApprovals
  <2> SUFFICES ASSUME Init PROVE TypeOK
    BY Zenon
  <2>2. grants \in [GrantAddress -> AccessGrant \cup {NoGrant}]
    BY Zenon DEF Init
  <2>3. signed \in [ProjectGrantAddress -> Nat] /\ written \in [ProjectGrantAddress -> Nat]
    BY Zenon DEF Init
  <2>4. watched \in [Watchers -> SUBSET Listing]
    BY Zenon DEF Init
  <2> QED BY <2>1, <2>2, <2>3, <2>4, Zenon DEF Init, TypeOK
<1>2. TypeOK /\ [Next]_vars => TypeOK'
  <2> SUFFICES ASSUME TypeOK, [Next]_vars PROVE TypeOK'
    BY Zenon
  <2> DEFINE purged == PurgeExpired(approvals)
  <2>0. now \in Nat /\ approvals \in PendingApprovals /\ purged \in PendingApprovals
        /\ purged.records \subseteq ApprovalRecord
    BY PurgeFacts, Zenon DEF TypeOK, PendingApprovals
  <2> HIDE DEF purged
  <2>1. ASSUME NEW c \in Callers, NEW a \in Addresses, NEW op \in Operations,
               NEW x \in Contexts, Request(c, a, op, x)
        PROVE TypeOK'
    <3> DEFINE q == Create(purged, c, a, op, x)
    <3>1. q \in PendingApprovals /\ q.records \subseteq ApprovalRecord
      BY <2>0, CreateFacts, ZenonT(60) DEF TypeOK, PendingApprovals
    <3> HIDE DEF q
    <3>2. approvals' \in PendingApprovals /\ (saved' = saved \/ saved' = q.records)
      BY <2>1, <3>1, SaveFacts, Zenon DEF Request, q, purged
    <3> QED BY <2>1, <3>1, <3>2 DEF Request, TypeOK, history
  <2>2. ASSUME NEW c \in Callers, NEW a \in Addresses, SpendingWrite(c, a)
        PROVE TypeOK'
    <3>1. grants' \in [GrantAddress -> AccessGrant \cup {NoGrant}] /\ registry' \subseteq StoredPermission
      BY <2>2, Zenon DEF SpendingWrite, ConsumeGrant, TypeOK, Live
    <3>2. written' \in [ProjectGrantAddress -> Nat]
      BY <2>2 DEF SpendingWrite, TypeOK
    <3> QED BY <2>2, <3>1, <3>2, Zenon DEF SpendingWrite, TypeOK
  <2>3. ASSUME NEW r \in approvals.records, NEW d \in Durations \cup {Never},
               NEW once \in BOOLEAN, Approve(r, d, once)
        PROVE TypeOK'
    <3> DEFINE lifetime == IF once THEN SingleUseSeconds ELSE d
               expires == IF lifetime = Never THEN Never ELSE now + lifetime
               q == Resolve(purged, r, "granted", now + ApprovalTTL)
               grant == [expires |-> expires, single_use |-> once]
    <3>1. r \in purged.records /\ r \in ApprovalRecord
      BY <2>0, <2>3, Zenon DEF Approve, purged
    <3>2. q \in PendingApprovals /\ q.records \subseteq ApprovalRecord
      <4>1. now + ApprovalTTL \in Nat
        BY <2>0, DurationAssumption
      <4> QED BY <2>0, <3>1, <4>1, ResolveFacts, ZenonT(60) DEF PendingApprovals
    <3>3. approvals' \in PendingApprovals /\ (saved' = saved \/ saved' = q.records)
      BY <2>3, <3>2, SaveFacts, Zenon DEF Approve, purged
    <3>4. grant \in AccessGrant /\ grant.expires \in Expiry /\ grant.single_use \in BOOLEAN
      <4>1. lifetime \in Nat \/ lifetime = Never
        BY DurationAssumption, Zenon
      <4>2. expires \in Expiry
        BY <2>0, <4>1 DEF Expiry
      <4> HIDE DEF expires
      <4>3. grant.expires \in Expiry /\ grant.single_use \in BOOLEAN
        BY <4>2, Zenon
      <4> QED BY <4>2, <4>3, Zenon DEF AccessGrant
    <3>5. Key(r) \in ProjectGrantAddress /\ Key(r) \in GrantAddress
      BY <3>1, Zenon DEF Key, ApprovalRecord, ProjectGrantAddress, GrantAddress, Targets
    <3>6. Promote(r.id, Key(r), grant)
      BY <2>3, Zenon DEF Approve
    <3> HIDE DEF grant, q
    <3>7. grants' \in [GrantAddress -> AccessGrant \cup {NoGrant}]
      BY <3>4, <3>5, <3>6, Zenon DEF Promote, TypeOK
    <3>8. registry' \subseteq StoredPermission
      BY <3>1, <3>4, <3>5, <3>6, SMTT(60) DEF Promote, TypeOK, Live, StoredPermission, ApprovalRecord
    <3>9. signed' \in [ProjectGrantAddress -> Nat]
      BY <2>3, <3>5 DEF Approve, TypeOK
    <3> QED BY <2>3, <3>2, <3>3, <3>7, <3>8, <3>9, Zenon DEF Approve, TypeOK
  <2>4. ASSUME NEW r \in approvals.records, Deny(r)
        PROVE TypeOK'
    <3> DEFINE q == Resolve(purged, r, "denied", r.expires + ApprovalTTL)
    <3>1. r \in purged.records /\ r.expires + ApprovalTTL \in Nat
      BY <2>0, <2>4, DurationAssumption DEF Deny, purged, ApprovalRecord
    <3>2. q \in PendingApprovals /\ q.records \subseteq ApprovalRecord
      BY <2>0, <3>1, ResolveFacts, ZenonT(60) DEF PendingApprovals
    <3>3. approvals' \in PendingApprovals /\ (saved' = saved \/ saved' = q.records)
      BY <2>4, <3>2, SaveFacts, Zenon DEF Deny, purged
    <3> HIDE DEF q
    <3> QED BY <2>4, <3>2, <3>3, Zenon DEF Deny, TypeOK, history
  <2>5. ASSUME NEW e \in registry, Revoke(e)
        PROVE TypeOK'
    <3>1. approvals' \in PendingApprovals
      BY <2>0, <2>5 DEF Revoke, PendingApprovals
    <3>2. e.key \in GrantAddress
      BY Zenon DEF TypeOK, StoredPermission, ProjectGrantAddress, GrantAddress, Targets
    <3> QED BY <2>5, <3>1, <3>2, Zenon DEF Revoke, RemoveEntry, Live, TypeOK, history
  <2>6. ASSUME NEW w \in Watchers, List(w)
        PROVE TypeOK'
    <3> DEFINE rev == IF Live(registry) = shown THEN purged.revision ELSE purged.revision + 1
               listed == [purged EXCEPT !.revision = rev]
               listing == [revision |-> rev, pending |-> purged.records, granted |-> Live(registry)]
    <3>1. rev \in Nat
      BY <2>0 DEF PendingApprovals
    <3> HIDE DEF rev
    <3>2. /\ listed \in PendingApprovals
          /\ listed.records = purged.records
          /\ listed.revision = rev
      BY <2>0, <3>1, Zenon DEF PendingApprovals
    <3>3. Live(registry) \subseteq StoredPermission
      BY Zenon DEF Live, TypeOK
    <3>4. listing \in Listing
      BY <2>0, <3>1, <3>3, Zenon DEF Listing
    <3>5. Save(listed) /\ watched' = [watched EXCEPT ![w] = {listing}]
      BY <2>6, <3>2, Zenon DEF List, rev, purged
    <3>6. approvals' \in PendingApprovals /\ saved' \subseteq ApprovalRecord
      BY <2>0, <3>2, <3>5, SaveFacts, ZenonT(60) DEF TypeOK
    <3>7. watched' \in [Watchers -> SUBSET Listing]
      BY <3>4, <3>5, Zenon DEF TypeOK
    <3> QED BY <2>6, <3>3, <3>6, <3>7, Zenon DEF List, TypeOK, history
  <2>7. ASSUME NEW c \in Callers, NEW t \in TrustedTargets, NEW op \in Operations,
               NEW d \in Durations \cup {Never},
               Authorize(c, t, op, d)
        PROVE TypeOK'
    <3>1. (IF d = Never THEN Never ELSE now + d) \in Expiry
      BY <2>0, DurationAssumption DEF Expiry
    <3> QED BY <2>7, <3>1, Zenon DEF Authorize, TypeOK, AccessGrant, history
  <2>8. CASE Poll
    BY <2>0, <2>8, Zenon DEF Poll, TypeOK, durable, history, purged
  <2>9. CASE SweepGrants
    BY <2>9, Zenon DEF SweepGrants, Swept, TypeOK, history
  <2>10. CASE SweepApprovals
    BY <2>10, Zenon DEF SweepApprovals, SweptApprovals, TypeOK, history
  <2>11. CASE Seal
    BY <2>11, Zenon DEF Seal, TypeOK, NoApprovals, PendingApprovals, durable, history
  <2>12. CASE Unseal
    <3> DEFINE q == [NoApprovals EXCEPT !.records = SweptApprovals]
    <3>1. SweptApprovals \subseteq ApprovalRecord
      BY Zenon DEF SweptApprovals, TypeOK
    <3>2. q \in PendingApprovals
      BY <3>1, Zenon DEF NoApprovals, PendingApprovals
    <3>3. approvals' \in PendingApprovals
      BY <2>0, <2>12, <3>2, PurgeFacts, Zenon DEF Unseal
    <3> QED BY <2>12, <3>1, <3>3, Zenon DEF Unseal, Swept, TypeOK, history
  <2>13. CASE Tick
    BY <2>13 DEF Tick, TypeOK, durable, history
  <2>14. CASE UNCHANGED vars
    BY <2>14, Zenon DEF vars, TypeOK
  <2> QED BY <2>1, <2>2, <2>3, <2>4, <2>5, <2>6, <2>7, <2>8, <2>9, <2>10, <2>11, <2>12,
             <2>13, <2>14, Zenon DEF Next
<1> QED BY <1>1, <1>2, PTL DEF Spec

-----------------------------------------------------------------------------

\* A step that hands out no id and only drops requests and registry entries,
\* or resolves requests, keeps ids unambiguous.
LEMMA IdsShrink ==
    ASSUME IdsNameRequests, nextId' = nextId,
           approvals'.records \cup saved' \subseteq approvals.records \cup saved,
           registry' \subseteq registry,
           \A o \in approvals'.resolved :
              o \in approvals.resolved \/ \E r \in approvals.records \cup saved : o.id = r.id
    PROVE  IdsNameRequests'
BY ZenonT(60) DEF IdsNameRequests, Key

\* Ids stay unambiguous across the queue, its durable copy and the registry,
\* whatever saves fail and wherever the process dies.
THEOREM IdsAgree == Spec => []IdsNameRequests
<1>1. Init => IdsNameRequests
  BY DEF Init, IdsNameRequests, NoApprovals
<1>2. IdsNameRequests /\ TypeOK /\ [Next]_vars => IdsNameRequests'
  <2> SUFFICES ASSUME IdsNameRequests, TypeOK, [Next]_vars PROVE IdsNameRequests'
    BY Zenon
  <2> DEFINE purged == PurgeExpired(approvals)
             pending == approvals.records \cup saved
  <2>0. /\ now \in Nat /\ approvals \in PendingApprovals /\ purged \in PendingApprovals
        /\ purged.records \subseteq approvals.records
        /\ approvals.records \subseteq ApprovalRecord
        /\ \A o \in purged.resolved : o \in approvals.resolved \/ \E r \in approvals.records : o.id = r.id
    BY PurgeFacts DEF TypeOK, PendingApprovals
  <2> HIDE DEF purged
  <2>1. ASSUME NEW c \in Callers, NEW a \in Addresses, NEW op \in Operations,
               NEW x \in Contexts, Request(c, a, op, x)
        PROVE IdsNameRequests'
    <3> DEFINE q == Create(purged, c, a, op, x)
    <3>1. /\ q \in PendingApprovals
          /\ q.resolved = purged.resolved
          /\ \/ q.records = purged.records
             \/ \E r \in ApprovalRecord : r.id = nextId /\ q.records = purged.records \cup {r}
      BY <2>0, CreateFacts DEF TypeOK
    <3> HIDE DEF q
    <3>2. /\ approvals'.records = q.records /\ approvals'.resolved = q.resolved
          /\ saved' = saved \/ saved' = q.records
          /\ registry' = registry
          /\ nextId' = IF \E r \in q.records : r.id = nextId THEN nextId + 1 ELSE nextId
      BY <2>1, <3>1, SaveFacts, Zenon DEF Request, q, purged
    <3>3. \A r \in purged.records : r.id \in Nat /\ r.id < nextId
      BY <2>0, ZenonT(60) DEF IdsNameRequests, ApprovalRecord
    <3>4. CASE q.records = purged.records
      <4>1. nextId' = nextId
        BY <3>2, <3>3, <3>4 DEF TypeOK
      <4> QED BY <2>0, <3>1, <3>2, <3>4, <4>1, IdsShrink, ZenonT(60)
    <3>5. CASE \E r \in ApprovalRecord : r.id = nextId /\ q.records = purged.records \cup {r}
      <4> PICK fresh \in ApprovalRecord : fresh.id = nextId /\ q.records = purged.records \cup {fresh}
        BY <3>5, Zenon
      <4>1. nextId' = nextId + 1
        BY <3>2, Zenon
      <4>2. approvals'.records \cup saved' \subseteq pending \cup {fresh}
        BY <2>0, <3>2, Zenon
      <4>3. \A o \in approvals'.resolved : o \in approvals.resolved \/ \E r \in approvals.records : o.id = r.id
        BY <2>0, <3>1, <3>2, Zenon
      <4>4. \A r \in pending \cup registry \cup approvals.resolved : r.id \in Nat /\ r.id < nextId
        BY Zenon DEF IdsNameRequests, TypeOK, PendingApprovals, ApprovalRecord, StoredPermission, ResolvedRecord
      <4> QED BY <3>2, <4>1, <4>2, <4>3, <4>4 DEF IdsNameRequests, TypeOK, Key
    <3> QED BY <3>1, <3>4, <3>5, Zenon
  <2>2. ASSUME NEW c \in Callers, NEW a \in Addresses, SpendingWrite(c, a)
        PROVE IdsNameRequests'
    BY <2>2, IdsShrink, Zenon DEF SpendingWrite, ConsumeGrant, Live
  <2>3. ASSUME NEW r \in approvals.records, NEW d \in Durations \cup {Never},
               NEW once \in BOOLEAN, Approve(r, d, once)
        PROVE IdsNameRequests'
    <3> DEFINE q == Resolve(purged, r, "granted", now + ApprovalTTL)
    <3>1. r \in purged.records /\ now + ApprovalTTL \in Nat
      BY <2>0, <2>3, DurationAssumption DEF Approve, purged
    <3>2. /\ q \in PendingApprovals /\ q.records \subseteq approvals.records
          /\ \A o \in q.resolved : o \in purged.resolved \/ o.id = r.id
      BY <2>0, <3>1, ResolveFacts
    <3>3. Save(q) /\ nextId' = nextId
      BY <2>3, Zenon DEF Approve, purged
    <3> HIDE DEF q
    <3>4. /\ approvals'.records \cup saved' \subseteq pending
          /\ \A o \in approvals'.resolved : o \in approvals.resolved \/ \E t \in pending : o.id = t.id
      BY <2>0, <3>2, <3>3, SaveFacts, ZenonT(60)
    <3> PICK grant : Promote(r.id, Key(r), grant)
      BY <2>3, Zenon DEF Approve
    <3> PICK entry : /\ entry.id = r.id /\ entry.key = Key(r)
                     /\ registry' = {e \in Live(registry) : e.id # r.id} \cup {entry}
      BY Zenon DEF Promote
    <3>5. \A e \in registry' : (e \in registry /\ e.id # r.id) \/ (e.id = r.id /\ e.key = Key(r))
      BY Zenon DEF Live
    <3>6. \A e, f \in registry' : e.id = f.id => e = f
      BY ZenonT(60) DEF Live, IdsNameRequests
    <3> QED BY <3>3, <3>4, <3>5, <3>6, SMTT(60) DEF IdsNameRequests, Key
  <2>4. ASSUME NEW r \in approvals.records, Deny(r)
        PROVE IdsNameRequests'
    <3> DEFINE q == Resolve(purged, r, "denied", r.expires + ApprovalTTL)
    <3>1. r \in purged.records /\ r.expires + ApprovalTTL \in Nat
      BY <2>0, <2>4, DurationAssumption, SMTT(60) DEF Deny, purged, ApprovalRecord
    <3>2. /\ q \in PendingApprovals /\ q.records \subseteq approvals.records
          /\ \A o \in q.resolved : o \in purged.resolved \/ o.id = r.id
      BY <2>0, <3>1, ResolveFacts
    <3>3. Save(q) /\ nextId' = nextId /\ registry' = registry
      BY <2>4, Zenon DEF Deny, purged
    <3> HIDE DEF q
    <3> QED BY <2>0, <3>2, <3>3, SaveFacts, IdsShrink, ZenonT(60)
  <2>5. ASSUME NEW e \in registry, Revoke(e)
        PROVE IdsNameRequests'
    <3>1. approvals'.records = approvals.records /\ approvals'.resolved = approvals.resolved
      BY <2>0, <2>5, Zenon DEF Revoke, PendingApprovals
    <3> QED BY <2>5, <3>1, IdsShrink, Zenon DEF Revoke, RemoveEntry, Live
  <2>6. ASSUME NEW w \in Watchers, List(w)
        PROVE IdsNameRequests'
    <3> DEFINE rev == IF Live(registry) = shown THEN purged.revision ELSE purged.revision + 1
               listed == [purged EXCEPT !.revision = rev]
    <3>1. rev \in Nat
      BY <2>0 DEF PendingApprovals
    <3>2. Save(listed) /\ nextId' = nextId /\ registry' = registry
      BY <2>6, Zenon DEF List, purged
    <3> HIDE DEF rev
    <3>3. listed \in PendingApprovals /\ listed.records = purged.records /\ listed.resolved = purged.resolved
      BY <2>0, <3>1, Zenon DEF PendingApprovals
    <3> HIDE DEF listed
    <3> QED BY <2>0, <3>2, <3>3, SaveFacts, IdsShrink
  <2>7. ASSUME NEW c \in Callers, NEW t \in TrustedTargets, NEW op \in Operations,
               NEW d \in Durations \cup {Never},
               Authorize(c, t, op, d)
        PROVE IdsNameRequests'
    BY <2>7, IdsShrink, Zenon DEF Authorize
  <2>8. CASE Poll
    BY <2>0, <2>8, IdsShrink, Zenon DEF Poll, durable, purged
  <2>9. CASE SweepGrants
    BY <2>9, IdsShrink, Zenon DEF SweepGrants
  <2>10. CASE SweepApprovals
    BY <2>10, IdsShrink, Zenon DEF SweepApprovals, SweptApprovals
  <2>11. CASE Seal
    BY <2>11, IdsShrink, Zenon DEF Seal, NoApprovals, durable
  <2>12. CASE Unseal
    <3> DEFINE q == [NoApprovals EXCEPT !.records = SweptApprovals]
    <3>1. SweptApprovals \subseteq saved
      BY Zenon DEF SweptApprovals
    <3>2. q \in PendingApprovals /\ q.records \subseteq saved /\ q.resolved = {}
      BY <3>1, Zenon DEF NoApprovals, PendingApprovals, TypeOK
    <3>3. approvals' = PurgeExpired(q) /\ nextId' = nextId /\ registry' = registry /\ saved' = SweptApprovals
      BY <2>12, Zenon DEF Unseal
    <3> HIDE DEF q
    <3>4. /\ approvals'.records \subseteq q.records
          /\ \A o \in approvals'.resolved : o \in q.resolved \/ \E r \in q.records : o.id = r.id
      BY <2>0, <3>2, <3>3, PurgeFacts
    <3> QED BY <3>1, <3>2, <3>3, <3>4, IdsShrink, ZenonT(60)
  <2>13. CASE Tick
    BY <2>13, IdsShrink, Zenon DEF Tick, durable
  <2>14. CASE UNCHANGED vars
    BY <2>14, IdsShrink, Zenon DEF vars
  <2> QED BY <2>1, <2>2, <2>3, <2>4, <2>5, <2>6, <2>7, <2>8, <2>9, <2>10, <2>11, <2>12,
             <2>13, <2>14, Zenon DEF Next
<1> QED BY <1>1, <1>2, TypeCorrect, PTL DEF Spec

-----------------------------------------------------------------------------

\* A step under which the clock does not go back, project grants only
\* disappear, and the entry of each one that stays live stays.
LEMMA GrantsKept ==
    ASSUME GrantsRevocable, now \in Nat, now' \in Nat, now <= now',
           grants \in [GrantAddress -> AccessGrant \cup {NoGrant}],
           \A k \in ProjectGrantAddress : grants'[k] = grants[k] \/ grants'[k] = NoGrant,
           \A k \in ProjectGrantAddress, e \in registry :
              grants'[k] # NoGrant /\ e.key = k /\ Unexpired(e.expires) => e \in registry'
    PROVE  GrantsRevocable'
<1> SUFFICES ASSUME NEW k \in ProjectGrantAddress, Satisfies(k)'
             PROVE  \E e \in registry' : e.key = k /\ Terms(e) = grants'[k]
  BY Zenon DEF GrantsRevocable, Terms
<1>1. grants'[k] = grants[k] /\ grants[k] # NoGrant
  BY Zenon DEF Satisfies
<1>2. k \in GrantAddress /\ grants[k] \in AccessGrant
  BY <1>1, Zenon DEF ProjectGrantAddress, GrantAddress, Targets
<1>3. Unexpired(grants[k].expires)
  BY <1>1, <1>2 DEF Satisfies, Unexpired, AccessGrant, Expiry
<1>4. PICK e \in registry : e.key = k /\ Terms(e) = grants[k]
  BY <1>1, <1>3, Zenon DEF GrantsRevocable, Satisfies
<1>5. Unexpired(e.expires)
  BY <1>3, <1>4 DEF Terms
<1> QED BY <1>1, <1>4, <1>5, Zenon

\* Every live grant a person signed is listed with its own terms and can be
\* revoked, for any number of callers, entries and overlapping requests and
\* through any seal, crash, failed save or sweep.
THEOREM LiveGrantsRevocable == Spec => []GrantsRevocable
<1>1. Init => GrantsRevocable
  BY ZenonT(60) DEF Init, GrantsRevocable, Satisfies, ProjectGrantAddress, GrantAddress, Targets
<1>2. GrantsRevocable /\ IdsNameRequests /\ TypeOK /\ [Next]_vars => GrantsRevocable'
  <2> SUFFICES ASSUME GrantsRevocable, IdsNameRequests, TypeOK, [Next]_vars
               PROVE  GrantsRevocable'
    BY Zenon
  <2>0. now \in Nat /\ grants \in [GrantAddress -> AccessGrant \cup {NoGrant}]
    BY Zenon DEF TypeOK
  <2>1. ASSUME UNCHANGED <<now, grants, registry>>
        PROVE  GrantsRevocable'
    BY <2>0, <2>1, GrantsKept
  <2>2. ASSUME NEW c \in Callers, NEW a \in Addresses, SpendingWrite(c, a)
        PROVE GrantsRevocable'
    <3> DEFINE k == <<c, a, "put">>
    <3>1. UNCHANGED now /\ ConsumeGrant(k)
      BY <2>2, Zenon DEF SpendingWrite
    <3>2. ProjectGrantAddress \subseteq GrantAddress
      BY Zenon DEF ProjectGrantAddress, GrantAddress, Targets
    <3> HIDE DEF k
    <3> QED BY <2>0, <3>1, <3>2, GrantsKept DEF ConsumeGrant, Live
  <2>3. ASSUME NEW r \in approvals.records, NEW d \in Durations \cup {Never},
               NEW once \in BOOLEAN, Approve(r, d, once)
        PROVE GrantsRevocable'
    <3> PICK grant \in AccessGrant : Promote(r.id, Key(r), grant)
      <4> DEFINE lifetime == IF once THEN SingleUseSeconds ELSE d
                 expires == IF lifetime = Never THEN Never ELSE now + lifetime
      <4>1. expires \in Expiry
        BY <2>0, DurationAssumption DEF Expiry
      <4>2. Promote(r.id, Key(r), [expires |-> expires, single_use |-> once])
        BY <2>3, Zenon DEF Approve
      <4> HIDE DEF expires
      <4>3. [expires |-> expires, single_use |-> once] \in AccessGrant
        BY <4>1, Zenon DEF AccessGrant
      <4> QED BY <4>2, <4>3, Zenon
    <3> DEFINE entry == [id |-> r.id, key |-> Key(r), expires |-> grant.expires,
                         single_use |-> grant.single_use]
    <3>1. /\ grants' = [grants EXCEPT ![Key(r)] = grant]
          /\ registry' = {e \in Live(registry) : e.id # r.id} \cup {entry}
          /\ now' = now
      BY <2>3, Zenon DEF Promote, Approve
    <3>2. entry.key = Key(r) /\ Terms(entry) = grant
      BY Zenon DEF Terms, AccessGrant
    <3> HIDE DEF entry
    <3>3. Key(r) \in GrantAddress
      BY Zenon DEF Key, TypeOK, PendingApprovals, ApprovalRecord, GrantAddress, Targets
    <3> SUFFICES ASSUME NEW k \in ProjectGrantAddress, Satisfies(k)'
                 PROVE  \E e \in registry' : e.key = k /\ Terms(e) = grants'[k]
      BY Zenon DEF GrantsRevocable, Terms
    <3>4. CASE k = Key(r)
      BY <2>0, <3>1, <3>2, <3>3, <3>4, Zenon
    <3>5. CASE k # Key(r)
      <4>1. grants'[k] = grants[k] /\ Satisfies(k)
        <5>1. k \in GrantAddress
          BY Zenon DEF ProjectGrantAddress, GrantAddress, Targets
        <5> QED BY <2>0, <3>1, <3>3, <3>5, <5>1, Zenon DEF Satisfies, Unexpired
      <4>2. PICK e \in registry : e.key = k /\ Terms(e) = grants[k]
        BY <4>1, Zenon DEF GrantsRevocable
      <4>3. Unexpired(e.expires)
        BY <4>1, <4>2 DEF Satisfies, Terms
      <4>4. e.id # r.id
        BY <3>5, <4>2, Zenon DEF IdsNameRequests
      <4> QED BY <3>1, <4>1, <4>2, <4>3, <4>4, Zenon DEF Live
    <3> QED BY <3>4, <3>5, Zenon
  <2>4. ASSUME NEW e \in registry, Revoke(e)
        PROVE GrantsRevocable'
    <3>1. UNCHANGED now /\ RemoveEntry(e)
      BY <2>4, Zenon DEF Revoke
    <3>2. e.key \in GrantAddress
      BY Zenon DEF TypeOK, StoredPermission, ProjectGrantAddress, GrantAddress, Targets
    <3> QED BY <2>0, <3>1, <3>2, GrantsKept DEF RemoveEntry, Live
  <2>5. ASSUME NEW c \in Callers, NEW t \in TrustedTargets, NEW op \in Operations,
               NEW d \in Durations \cup {Never},
               Authorize(c, t, op, d)
        PROVE GrantsRevocable'
    <3>1. \A k \in ProjectGrantAddress : grants'[k] = grants[k]
      BY <2>0, <2>5, TargetAssumption
      DEF Authorize, ProjectGrantAddress, GrantAddress, Targets
    <3>2. now' = now /\ registry' = registry
      BY <2>5, Zenon DEF Authorize
    <3> QED BY <2>0, <3>1, <3>2, GrantsKept
  <2>6. CASE SweepGrants
    BY <2>0, <2>6, GrantsKept
    DEF SweepGrants, Swept, ProjectGrantAddress, GrantAddress, Targets
  <2>7. CASE Unseal
    BY <2>0, <2>7, GrantsKept
    DEF Unseal, Swept, ProjectGrantAddress, GrantAddress, Targets
  <2>8. CASE Tick
    BY <2>0, <2>8, GrantsKept, SMTT(60) DEF Tick, durable
  <2>9. CASE \E c \in Callers, a \in Addresses, op \in Operations, x \in Contexts : Request(c, a, op, x)
    BY <2>1, <2>9 DEF Request
  <2>10. CASE \E r \in approvals.records : Deny(r)
    BY <2>1, <2>10, Zenon DEF Deny
  <2>11. CASE \E w \in Watchers : List(w)
    BY <2>1, <2>11, Zenon DEF List
  <2>12. CASE Poll \/ SweepApprovals \/ Seal \/ UNCHANGED vars
    BY <2>1, <2>12, Zenon DEF Poll, SweepApprovals, Seal, durable, vars
  <2> QED BY <2>2, <2>3, <2>4, <2>5, <2>6, <2>7, <2>8, <2>9, <2>10, <2>11, <2>12, Zenon DEF Next
<1> QED BY <1>1, <1>2, IdsAgree, TypeCorrect, PTL DEF Spec

-----------------------------------------------------------------------------

\* A step that leaves the counters and only removes project grants opens no
\* new single-use write.
LEMMA WritesKept ==
    ASSUME SingleUseWritesOnce, UNCHANGED <<signed, written>>,
           signed \in [ProjectGrantAddress -> Nat], written \in [ProjectGrantAddress -> Nat],
           \A k \in ProjectGrantAddress : grants'[k] = grants[k] \/ grants'[k] = NoGrant
    PROVE  SingleUseWritesOnce'
BY DEF SingleUseWritesOnce

\* A single-use approval stores at most one value, for any number of
\* approvals of the same grant and through any seal, crash or failed write.
THEOREM SingleUseIsSingle == Spec => []SingleUseWritesOnce
<1>1. Init => SingleUseWritesOnce
  BY DEF Init, SingleUseWritesOnce, ProjectGrantAddress, GrantAddress, Targets
<1>2. SingleUseWritesOnce /\ TypeOK /\ [Next]_vars => SingleUseWritesOnce'
  <2> SUFFICES ASSUME SingleUseWritesOnce, TypeOK, [Next]_vars
               PROVE  SingleUseWritesOnce'
    BY Zenon
  <2>0. /\ grants \in [GrantAddress -> AccessGrant \cup {NoGrant}]
        /\ signed \in [ProjectGrantAddress -> Nat] /\ written \in [ProjectGrantAddress -> Nat]
        /\ ProjectGrantAddress \subseteq GrantAddress
    BY Zenon DEF TypeOK, ProjectGrantAddress, GrantAddress, Targets
  <2>1. ASSUME UNCHANGED <<grants, signed, written>>
        PROVE  SingleUseWritesOnce'
    BY <2>0, <2>1, WritesKept, Zenon
  <2>2. ASSUME NEW c \in Callers, NEW a \in Addresses, SpendingWrite(c, a)
        PROVE SingleUseWritesOnce'
    <3> DEFINE k == <<c, a, "put">>
    <3>1. /\ grants' = [grants EXCEPT ![k] = NoGrant]
          /\ grants[k] # NoGrant /\ grants[k].single_use
          /\ signed' = signed
          /\ written' = [written EXCEPT ![k] = @ + 1] \/ written' = written
      BY <2>2, Zenon DEF SpendingWrite, ConsumeGrant, SingleUse, Satisfies
    <3> HIDE DEF k
    <3> SUFFICES ASSUME NEW j \in ProjectGrantAddress
                 PROVE  written'[j] + (IF grants'[j] # NoGrant /\ grants'[j].single_use THEN 1 ELSE 0)
                           <= signed'[j]
      BY Zenon DEF SingleUseWritesOnce
    <3>2. written[j] + (IF grants[j] # NoGrant /\ grants[j].single_use THEN 1 ELSE 0) <= signed[j]
      BY Zenon DEF SingleUseWritesOnce
    <3>3. CASE j = k
      BY <2>0, <3>1, <3>2, <3>3
    <3>4. CASE j # k
      BY <2>0, <3>1, <3>2, <3>4, Zenon
    <3> QED BY <3>3, <3>4, Zenon
  <2>3. ASSUME NEW r \in approvals.records, NEW d \in Durations \cup {Never},
               NEW once \in BOOLEAN, Approve(r, d, once)
        PROVE SingleUseWritesOnce'
    <3> PICK expires : Promote(r.id, Key(r), [expires |-> expires, single_use |-> once])
      BY <2>3, Zenon DEF Approve
    <3>1. /\ grants' = [grants EXCEPT ![Key(r)] = [expires |-> expires, single_use |-> once]]
          /\ signed' = IF once THEN [signed EXCEPT ![Key(r)] = @ + 1] ELSE signed
          /\ written' = written
      BY <2>3, Zenon DEF Approve, Promote
    <3> SUFFICES ASSUME NEW j \in ProjectGrantAddress
                 PROVE  written'[j] + (IF grants'[j] # NoGrant /\ grants'[j].single_use THEN 1 ELSE 0)
                           <= signed'[j]
      BY Zenon DEF SingleUseWritesOnce
    <3>2. written[j] + (IF grants[j] # NoGrant /\ grants[j].single_use THEN 1 ELSE 0) <= signed[j]
      BY Zenon DEF SingleUseWritesOnce
    <3>3. CASE j = Key(r)
      <4>1. grants'[j].single_use = once
        BY <2>0, <3>1, <3>3, Zenon
      <4>2. written[j] <= signed[j] /\ written[j] \in Nat /\ signed[j] \in Nat
        BY <2>0, <3>2, SMTT(60)
      <4>3. CASE once
        <5>1. signed'[j] = signed[j] + 1
          BY <2>0, <3>1, <3>3, <4>3, Zenon
        <5> QED BY <3>1, <4>2, <5>1
      <4>4. CASE ~once
        BY <3>1, <4>1, <4>2, <4>4
      <4> QED BY <4>3, <4>4, Zenon
    <3>4. CASE j # Key(r)
      <4>1. grants'[j] = grants[j] /\ signed'[j] = signed[j] /\ written'[j] = written[j]
        BY <2>0, <3>1, <3>4, Zenon
      <4> QED BY <3>2, <4>1, Zenon
    <3> QED BY <3>3, <3>4, Zenon
  <2>4. ASSUME NEW e \in registry, Revoke(e)
        PROVE SingleUseWritesOnce'
    BY <2>0, <2>4, WritesKept, Zenon DEF Revoke, RemoveEntry, history
  <2>5. ASSUME NEW c \in Callers, NEW t \in TrustedTargets, NEW op \in Operations,
               NEW d \in Durations \cup {Never},
               Authorize(c, t, op, d)
        PROVE SingleUseWritesOnce'
    <3>1. \A k \in ProjectGrantAddress : grants'[k] = grants[k]
      BY <2>0, <2>5, TargetAssumption DEF Authorize, ProjectGrantAddress
    <3>2. UNCHANGED <<signed, written>>
      BY <2>5, Zenon DEF Authorize, history
    <3> QED BY <2>0, <3>1, <3>2, WritesKept, Zenon
  <2>6. CASE SweepGrants
    BY <2>0, <2>6, WritesKept, Zenon DEF SweepGrants, Swept, history
  <2>7. CASE Unseal
    BY <2>0, <2>7, WritesKept, Zenon DEF Unseal, Swept, history
  <2>8. CASE \E c \in Callers, a \in Addresses, op \in Operations, x \in Contexts : Request(c, a, op, x)
    BY <2>1, <2>8 DEF Request, history
  <2>9. CASE \E r \in approvals.records : Deny(r)
    BY <2>1, <2>9, Zenon DEF Deny, history
  <2>10. CASE \E w \in Watchers : List(w)
    BY <2>1, <2>10, Zenon DEF List, history
  <2>11. CASE Poll \/ SweepApprovals \/ Seal \/ Tick \/ UNCHANGED vars
    BY <2>1, <2>11, Zenon DEF Poll, SweepApprovals, Seal, Tick, durable, history, vars
  <2> QED BY <2>2, <2>3, <2>4, <2>5, <2>6, <2>7, <2>8, <2>9, <2>10, <2>11, Zenon DEF Next
<1> QED BY <1>1, <1>2, TypeCorrect, PTL DEF Spec

=============================================================================
