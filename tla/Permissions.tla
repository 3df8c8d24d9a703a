---------------------------- MODULE Permissions ----------------------------
(***************************************************************************)
(* The permission life cycle of one vault: a denied request becomes a      *)
(* pending approval, a person approves or denies it, an approval becomes a *)
(* durable grant with an entry in the permission registry, and the grant   *)
(* ends by expiry, revocation or, for a single-use grant, by the write it  *)
(* authorizes.  Models service/approvals.rs, grant.rs and the approval     *)
(* half of service/state.rs, with the vault sealing or the process dying   *)
(* between any two store commits.                                          *)
(*                                                                         *)
(* Every request runs under the ServiceState mutex, so a handler is one    *)
(* action; what can come between two handlers is a seal, a crash, a failed *)
(* best-effort save, the eviction sweep, and time.  An Address stands for  *)
(* what a ProjectEntry target is made of (scope, namespace, address,       *)
(* project, base directory); a Context for the rest of what makes two      *)
(* requests different (profile, reason, requested duration, and whether a  *)
(* write expires).                                                         *)
(***************************************************************************)
EXTENDS Integers, FiniteSets

CONSTANTS
    Callers,            \* authenticated executables
    Addresses,          \* entries that can be requested
    CacheAddresses,     \* those of the SecretSpec provider cache
    Operations,         \* the GrantPermission of a request: "get", "put", ...
    Watchers,           \* permission managers that list and watch
    Contexts,           \* application contexts, as far as they tell requests apart
    TrustedTargets,     \* Entry, Namespace and Kind targets of in-process hosts
    Coverage,           \* the addresses each trusted target covers
    Durations,          \* lifetimes a person may sign, besides Never
    Never,              \* expires_at: None
    NoGrant,            \* no record at a grant address
    ApprovalTTL,        \* APPROVAL_TTL_SECONDS
    SingleUseSeconds,   \* SINGLE_USE_GRANT_SECONDS
    RateWindow,         \* APPROVAL_RATE_WINDOW
    MaxPending,         \* MAX_PENDING_APPROVALS
    MaxPendingPerCaller,    \* MAX_PENDING_PER_CALLER
    MaxNewPerCaller,    \* MAX_NEW_APPROVALS_PER_CALLER
    MaxNew,             \* MAX_NEW_APPROVALS
    MaxTime,            \* bound: the last instant of the wall clock
    MaxIds,             \* bound: approvals ever created
    MaxApproved         \* bound: single-use approvals ever signed, per grant address

ASSUME NeverAssumption == Never \notin Nat
ASSUME NoGrantAssumption == NoGrant \notin [expires : Nat \cup {Never}, single_use : BOOLEAN]
ASSUME AddressAssumption == CacheAddresses \subseteq Addresses
ASSUME TargetAssumption ==
    TrustedTargets \cap Addresses = {} /\ Coverage \in [TrustedTargets -> SUBSET Addresses]
ASSUME DurationAssumption == Durations \subseteq Nat /\ ApprovalTTL \in Nat /\ SingleUseSeconds \in Nat
ASSUME LimitAssumption == MaxPending \in Nat /\ MaxPendingPerCaller \in Nat

VARIABLES
    now,        \* the wall clock
    grants,     \* durable: the grant record at each grant address
    registry,   \* durable: PermissionRegistry
    saved,      \* durable: StoredApprovals
    unsealed,   \* a ServiceState exists and serves requests
    approvals,  \* in memory: PendingApprovals
    shown,      \* in memory: the granted permissions of the last listing
    nextId,     \* source of fresh permission ids
    signed,     \* history: single-use approvals promoted, per grant address
    written,    \* history: writes a single-use grant authorized
    watched     \* history: what each watcher's last listing in this lease returned

durable == <<grants, registry, saved>>
history == <<signed, written>>
vars == <<now, grants, registry, saved, unsealed, approvals, shown, nextId, signed, written, watched>>

-----------------------------------------------------------------------------
(* Grant addresses, grant terms and their lifetime.                        *)

\* A ProjectEntry target is written as its Address; the wider targets, which
\* only trusted in-process hosts authorize, are TrustedTargets.
Targets == Addresses \cup TrustedTargets
GrantAddress == Callers \X Targets \X Operations
ProjectGrantAddress == Callers \X Addresses \X Operations
Expiry == Nat \cup {Never}
AccessGrant == [expires : Expiry, single_use : BOOLEAN]

Unexpired(expires) == expires # Never => expires > now

\* grant_satisfies, for the record at its own address.
Satisfies(k) == grants[k] # NoGrant /\ Unexpired(grants[k].expires)

\* The addresses find_grant reads for one requirement.
Candidates(caller, address, op) ==
    {<<caller, t, op>> : t \in {address} \cup {w \in TrustedTargets : address \in Coverage[w]}}

Reusable(caller, address, op) ==
    \E k \in Candidates(caller, address, op) : Satisfies(k) /\ ~grants[k].single_use

\* Only a ProjectEntry grant is ever single-use, so it is the one to spend.
SingleUse(caller, address, op) ==
    LET k == <<caller, address, op>> IN Satisfies(k) /\ grants[k].single_use

\* Only a write to the provider cache goes through require_grant_consuming.
Consumes(address, op) == address \in CacheAddresses /\ op = "put"

Authorized(caller, address, op) ==
    \/ Reusable(caller, address, op)
    \/ Consumes(address, op) /\ SingleUse(caller, address, op)

-----------------------------------------------------------------------------
(* The permission registry.                                                *)

StoredPermission == [id : Nat, key : ProjectGrantAddress, expires : Expiry, single_use : BOOLEAN]

Live(entries) == {e \in entries : Unexpired(e.expires)}

\* promote_permission's registry, grant record and its single generation.
Promote(id, key, grant) ==
    /\ grants' = [grants EXCEPT ![key] = grant]
    /\ registry' = {e \in Live(registry) : e.id # id}
          \cup {[id |-> id, key |-> key, expires |-> grant.expires, single_use |-> grant.single_use]}

\* consume_grant: every entry of this grant address goes with the record.
ConsumeGrant(key) ==
    /\ grants' = [grants EXCEPT ![key] = NoGrant]
    /\ registry' = {e \in Live(registry) : e.key # key}

\* Mutant of RemoveEntry: the grant record outlives its entry.
RemoveEntryOnly(entry) ==
    /\ grants' = grants
    /\ registry' = Live(registry \ {entry})

\* revoke_permission: one entry by id, and the record at its address.
RemoveEntry(entry) ==
    /\ grants' = [grants EXCEPT ![entry.key] = NoGrant]
    /\ registry' = Live(registry \ {entry})

-----------------------------------------------------------------------------
(* PendingApprovals.  Queue order is id order, ids being handed out in     *)
(* creation order; a resolved outcome carries the revision of the step     *)
(* that pushed it, which with its id is its place in that queue.           *)

ApprovalRecord == [id : Nat, caller : Callers, address : Addresses, op : Operations,
                   context : Contexts, expires : Nat]
ResolvedRecord == [id : Nat, caller : Callers, status : {"granted", "denied", "expired"},
                   until : Nat, revision : Nat]
Creation == [id : Nat, caller : Callers, at : Nat]
PendingApprovals == [records : SUBSET ApprovalRecord, resolved : SUBSET ResolvedRecord,
                     revision : Nat, recent : SUBSET Creation, unsaved : BOOLEAN]

NoApprovals == [records |-> {}, resolved |-> {}, revision |-> 0, recent |-> {}, unsaved |-> FALSE]

Key(record) == <<record.caller, record.address, record.op>>

Outcome(record, status, until, revision) ==
    [id |-> record.id, caller |-> record.caller, status |-> status,
     until |-> until, revision |-> revision]

PushedAfter(o, p) == o.revision > p.revision \/ (o.revision = p.revision /\ o.id > p.id)

\* push_resolved: the queue keeps the MaxPending outcomes pushed last.
Newest(outcomes) ==
    {p \in outcomes : Cardinality({o \in outcomes : PushedAfter(o, p)}) < MaxPending}

PurgeExpired(q) ==
    LET due == {r \in q.records : r.expires <= now}
        revision == IF due = {} THEN q.revision ELSE q.revision + 1
        outcomes == {Outcome(r, "expired", r.expires + ApprovalTTL, revision) : r \in due}
    IN  [records |-> q.records \ due,
         resolved |-> {o \in Newest(q.resolved \cup outcomes) : o.until > now},
         revision |-> revision,
         recent |-> q.recent,
         unsaved |-> q.unsaved \/ due # {}]

\* The tail shared by deny and approve: the record leaves the queue.
Resolve(q, record, status, until) ==
    [records |-> q.records \ {record},
     resolved |-> Newest(q.resolved \cup {Outcome(record, status, until, q.revision + 1)}),
     revision |-> q.revision + 1,
     recent |-> q.recent,
     unsaved |-> TRUE]

Equivalent(record, caller, address, op, context) ==
    Key(record) = <<caller, address, op>> /\ record.context = context

Limited(q, caller) ==
    \/ Cardinality(q.records) >= MaxPending
    \/ Cardinality({r \in q.records : r.caller = caller}) >= MaxPendingPerCaller
    \/ Cardinality(q.recent) >= MaxNew
    \/ Cardinality({e \in q.recent : e.caller = caller}) >= MaxNewPerCaller

\* Mutant of Create: a new request is not marked as unsaved.
CreateUnmarked(q, caller, address, op, context) ==
    IF (\E r \in q.records : Equivalent(r, caller, address, op, context)) \/ Limited(q, caller) THEN q
    ELSE [q EXCEPT !.records = @ \cup
             {[id |-> nextId, caller |-> caller, address |-> address, op |-> op,
               context |-> context, expires |-> now + ApprovalTTL]},
          !.revision = @ + 1]

\* create_at after its purge: an equivalent request keeps its id and expiry
\* even at the limits, a limited one leaves the queue as it was.
Create(q, caller, address, op, context) ==
    LET windowed == [q EXCEPT !.recent = {e \in @ : now - e.at < RateWindow}]
    IN  IF \E r \in q.records : Equivalent(r, caller, address, op, context) THEN q
        ELSE IF Limited(windowed, caller) THEN windowed
        ELSE [records |-> q.records \cup
                 {[id |-> nextId, caller |-> caller, address |-> address, op |-> op,
                   context |-> context, expires |-> now + ApprovalTTL]},
              resolved |-> q.resolved,
              revision |-> q.revision + 1,
              recent |-> windowed.recent \cup {[id |-> nextId, caller |-> caller, at |-> now]},
              unsaved |-> TRUE]

\* save_approvals: best effort, so a needed write may fail and leave the
\* queue unsaved.
Save(q) ==
    \/ /\ q.unsaved
       /\ saved' = q.records
       /\ approvals' = [q EXCEPT !.unsaved = FALSE]
    \/ saved' = saved /\ approvals' = q

-----------------------------------------------------------------------------
(* Requests.                                                               *)

Init ==
    /\ now = 0
    /\ grants = [k \in GrantAddress |-> NoGrant]
    /\ registry = {}
    /\ saved = {}
    /\ unsealed = FALSE
    /\ approvals = NoApprovals
    /\ shown = {}
    /\ nextId = 1
    /\ signed = [k \in ProjectGrantAddress |-> 0]
    /\ written = [k \in ProjectGrantAddress |-> 0]
    /\ watched = [w \in Watchers |-> {}]

\* An operation no grant allows: create_approval, which saves whenever the
\* revision moved (the purge alone may have moved it).
Request(caller, address, op, context) ==
    LET q == Create(PurgeExpired(approvals), caller, address, op, context) IN
    /\ unsealed
    /\ ~Authorized(caller, address, op)
    /\ IF q.revision # approvals.revision THEN Save(q) ELSE approvals' = q /\ UNCHANGED saved
    /\ nextId' = IF \E r \in q.records : r.id = nextId THEN nextId + 1 ELSE nextId
    /\ nextId' <= MaxIds + 1
    /\ UNCHANGED <<now, grants, registry, unsealed, shown, history, watched>>

\* Mutant of SpendingWrite: the value is stored first, and the grant outlives
\* a failure of its own generation.
SpendAfterWriting(caller, address) ==
    LET k == <<caller, address, "put">> IN
    /\ unsealed
    /\ Consumes(address, "put")
    /\ SingleUse(caller, address, "put")
    /\ ~Reusable(caller, address, "put")
    /\ written' = [written EXCEPT ![k] = @ + 1]
    /\ ConsumeGrant(k) \/ UNCHANGED <<grants, registry>>
    /\ UNCHANGED <<now, saved, unsealed, approvals, shown, nextId, signed, watched>>

\* put_secret_spec on a single-use grant.  The grant is consumed in one
\* generation and the value stored in another: either a later check or the
\* store fails, or the write is done.
SpendingWrite(caller, address) ==
    LET k == <<caller, address, "put">> IN
    /\ unsealed
    /\ Consumes(address, "put")
    /\ SingleUse(caller, address, "put")
    /\ ~Reusable(caller, address, "put")
    /\ ConsumeGrant(k)
    /\ \/ written' = [written EXCEPT ![k] = @ + 1]
       \/ UNCHANGED written
    /\ UNCHANGED <<now, saved, unsealed, approvals, shown, nextId, signed, watched>>

\* approve: the grant is promoted in one generation, then the record leaves
\* the queue, then the queue is saved in another.
Approve(record, duration, single_use) ==
    LET q == PurgeExpired(approvals)
        k == Key(record)
        lifetime == IF single_use THEN SingleUseSeconds ELSE duration
        expires == IF lifetime = Never THEN Never ELSE now + lifetime
    IN
    /\ unsealed
    /\ record \in q.records
    /\ single_use => Consumes(record.address, record.op)
    /\ Unexpired(expires)
    /\ single_use => signed[k] < MaxApproved
    /\ Promote(record.id, k, [expires |-> expires, single_use |-> single_use])
    /\ Save(Resolve(q, record, "granted", now + ApprovalTTL))
    /\ signed' = IF single_use THEN [signed EXCEPT ![k] = @ + 1] ELSE signed
    /\ UNCHANGED <<now, unsealed, shown, nextId, written, watched>>

Deny(record) ==
    LET q == PurgeExpired(approvals) IN
    /\ unsealed
    /\ record \in q.records
    /\ Save(Resolve(q, record, "denied", record.expires + ApprovalTTL))
    /\ UNCHANGED <<now, grants, registry, unsealed, shown, nextId, history, watched>>

\* status, which waiters poll, and an approve or deny that is refused: they
\* purge the queue and neither save nor notify.
Poll ==
    /\ unsealed
    /\ PurgeExpired(approvals) # approvals
    /\ approvals' = PurgeExpired(approvals)
    /\ UNCHANGED <<now, durable, unsealed, shown, nextId, history, watched>>

Revoke(entry) ==
    /\ unsealed
    /\ entry \in registry
    /\ RemoveEntry(entry)
    /\ approvals' = [approvals EXCEPT !.revision = @ + 1]
    /\ UNCHANGED <<now, saved, unsealed, shown, nextId, history, watched>>

\* Mutant of List: granted permissions that changed do not move the revision.
ListAtOldRevision(watcher) ==
    LET q == PurgeExpired(approvals) IN
    /\ unsealed
    /\ Save(q)
    /\ shown' = Live(registry)
    /\ watched' = [watched EXCEPT ![watcher] =
          {[revision |-> q.revision, pending |-> q.records, granted |-> Live(registry)]}]
    /\ UNCHANGED <<now, grants, registry, unsealed, nextId, history>>

\* list_permissions: the pending queue and the live registry entries, under
\* a revision that moves when either differs from what was last shown.
List(watcher) ==
    LET q == PurgeExpired(approvals)
        granted == Live(registry)
        listed == [q EXCEPT !.revision = IF granted = shown THEN @ ELSE @ + 1]
    IN
    /\ unsealed
    /\ Save(listed)
    /\ shown' = granted
    /\ watched' = [watched EXCEPT ![watcher] =
          {[revision |-> listed.revision, pending |-> q.records, granted |-> granted]}]
    /\ UNCHANGED <<now, grants, registry, unsealed, nextId, history>>

\* authorize_batch: a trusted host writes one grant outside the registry.
Authorize(caller, target, op, duration) ==
    LET k == <<caller, target, op>>
        expires == IF duration = Never THEN Never ELSE now + duration
        grant == [expires |-> expires, single_use |-> FALSE]
    IN
    /\ unsealed
    /\ Unexpired(expires)
    /\ grants[k] # grant
    /\ grants' = [grants EXCEPT ![k] = grant]
    /\ UNCHANGED <<now, registry, saved, unsealed, approvals, shown, nextId, history, watched>>

-----------------------------------------------------------------------------
(* The eviction sweep, sealing, unsealing and time.                        *)

Swept == [k \in GrantAddress |-> IF Satisfies(k) THEN grants[k] ELSE NoGrant]

\* The pending document is one record, evicted with its last request.
SweptApprovals == IF \E r \in saved : r.expires > now THEN saved ELSE {}

\* purge_expired commits once per document, so a failure or a crash leaves
\* the other document as it was; the sweep of an open that fails runs sealed.
SweepGrants ==
    /\ Swept # grants
    /\ grants' = Swept
    /\ UNCHANGED <<now, registry, saved, unsealed, approvals, shown, nextId, history, watched>>

SweepApprovals ==
    /\ SweptApprovals # saved
    /\ saved' = SweptApprovals
    /\ UNCHANGED <<now, grants, registry, unsealed, approvals, shown, nextId, history, watched>>

\* Sealing and dying are the same here: nothing is saved on the way out.
Seal ==
    /\ unsealed
    /\ unsealed' = FALSE
    /\ approvals' = NoApprovals
    /\ shown' = {}
    /\ watched' = [w \in Watchers |-> {}]
    /\ UNCHANGED <<now, durable, nextId, history>>

\* VaultStore::open sweeps, then ServiceState::new loads what was saved.
Unseal ==
    /\ ~unsealed
    /\ unsealed' = TRUE
    /\ grants' = Swept
    /\ saved' = SweptApprovals
    /\ approvals' = PurgeExpired([NoApprovals EXCEPT !.records = SweptApprovals])
    /\ UNCHANGED <<now, registry, shown, nextId, history, watched>>

Tick ==
    /\ now < MaxTime
    /\ now' = now + 1
    /\ UNCHANGED <<durable, unsealed, approvals, shown, nextId, history, watched>>

Next ==
    \/ \E c \in Callers, a \in Addresses, op \in Operations, x \in Contexts : Request(c, a, op, x)
    \/ \E c \in Callers, a \in Addresses : SpendingWrite(c, a)
    \/ \E r \in approvals.records, d \in Durations \cup {Never}, once \in BOOLEAN : Approve(r, d, once)
    \/ \E r \in approvals.records : Deny(r)
    \/ \E e \in registry : Revoke(e)
    \/ \E c \in Callers, t \in TrustedTargets, op \in Operations, d \in Durations \cup {Never} :
          Authorize(c, t, op, d)
    \/ \E w \in Watchers : List(w)
    \/ Poll \/ SweepGrants \/ SweepApprovals \/ Seal \/ Unseal \/ Tick

Spec == Init /\ [][Next]_vars

-----------------------------------------------------------------------------
(* Properties.                                                             *)

Listing == [revision : Nat, pending : SUBSET ApprovalRecord, granted : SUBSET StoredPermission]

\* Type invariant.
TypeOK ==
    /\ now \in Nat
    /\ grants \in [GrantAddress -> AccessGrant \cup {NoGrant}]
    /\ registry \subseteq StoredPermission
    /\ saved \subseteq ApprovalRecord
    /\ unsealed \in BOOLEAN
    /\ approvals \in PendingApprovals
    /\ shown \subseteq StoredPermission
    /\ nextId \in Nat
    /\ signed \in [ProjectGrantAddress -> Nat]
    /\ written \in [ProjectGrantAddress -> Nat]
    /\ watched \in [Watchers -> SUBSET Listing]

Terms(entry) == [expires |-> entry.expires, single_use |-> entry.single_use]

\* Every grant a person signed and that still authorizes is in the registry
\* with the terms it has, so it is listed and can be revoked: approval,
\* revocation, consumption and expiry pruning (grant.rs) never leave a live
\* grant behind that no registry entry names.
GrantsRevocable ==
    \A k \in ProjectGrantAddress :
        Satisfies(k) => \E e \in registry : e.key = k /\ Terms(e) = grants[k]

\* One signed single-use approval stores at most one value: the writes done
\* plus the write a live single-use grant still allows never exceed the
\* single-use approvals promoted (require_grant_consuming, put_secret_spec).
SingleUseWritesOnce ==
    \A k \in ProjectGrantAddress :
        LET open == IF grants[k] # NoGrant /\ grants[k].single_use THEN 1 ELSE 0
        IN  written[k] + open <= signed[k]

\* A request has one outcome per lease: its id is never pending once it is
\* resolved and never resolved twice, so a waiter that polls status is not
\* told two different answers.
OneOutcome ==
    /\ \A o \in approvals.resolved, r \in approvals.records : o.id # r.id
    /\ \A o, p \in approvals.resolved : o.id = p.id => o = p

\* While nothing is unsaved, the durable copy holds exactly the requests
\* that are waiting, so sealing or dying loses none (save, load).
WriteThrough ==
    unsealed /\ ~approvals.unsaved =>
        {r \in saved : r.expires > now} = {r \in approvals.records : r.expires > now}

\* The queue never passes its limits, also not after it is loaded back.
BoundedQueue ==
    \A queue \in {approvals.records, saved} :
        /\ Cardinality(queue) <= MaxPending
        /\ \A c \in Callers : Cardinality({r \in queue : r.caller = c}) <= MaxPendingPerCaller

\* Within a lease a revision names one listing: a watcher that is handed a
\* revision it or another watcher already has is handed the same listing
\* (list_permissions, the conflict check of ListPermissionsPage).
RevisionNamesListing ==
    [][\A v, w \in Watchers : \A old \in watched[v], new \in watched'[w] :
          old.revision = new.revision => old = new]_vars

\* An id names one request wherever it is kept: the queue, its durable copy
\* and the registry agree on what it asks for, and it was handed out.  This
\* is what makes approving again after a crash between the two commits of
\* an approval replace the registry entry instead of adding one.
IdsNameRequests ==
    LET pending == approvals.records \cup saved IN
    /\ \A r \in pending \cup registry \cup approvals.resolved : r.id < nextId
    /\ \A r, t \in pending : r.id = t.id => r = t
    /\ \A e \in registry, r \in pending : e.id = r.id => e.key = Key(r)
    /\ \A e, f \in registry : e.id = f.id => e = f

\* What the queue of requests promises a client that waits, across failed
\* saves, seals and crashes: one outcome, a durable copy of what waits, its
\* limits, and ids that name one request everywhere.
RequestsAreKept == TypeOK /\ OneOutcome /\ WriteThrough /\ BoundedQueue /\ IdsNameRequests

\* The last listing at the current revision is still what a listing would
\* return, except for what has expired since.
ListingsCurrent ==
    \A w \in Watchers : \A l \in watched[w] :
        /\ unsealed
        /\ l.revision <= approvals.revision
        /\ l.revision = approvals.revision => l.pending = approvals.records /\ l.granted = shown

\* What the comment on the grant format says: one permission's lifetime or
\* revocation never ends another permission that is still listed.
ListedPermissionsHold ==
    \A e \in Live(registry) : Satisfies(e.key)

=============================================================================
