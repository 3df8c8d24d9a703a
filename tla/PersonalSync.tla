---------------------------- MODULE PersonalSync ----------------------------
(***************************************************************************)
(* Personal sync: devices that edit replicated items, publish encrypted     *)
(* packets through a ciphertext spool, pull one another's packets, and       *)
(* apply them.                                                              *)
(*                                                                          *)
(* A device has two halves.  The vault's worker keeps, in one document that  *)
(* commits as a whole, the change history of every item, the record it is    *)
(* read from, the pending items, the prepared publication, the receipts and  *)
(* the pinned membership.  The courier outlives the unsealed vault: it keeps  *)
(* a public membership and the spool.  A background pass carries bytes       *)
(* between the two, and can stop after any step.                             *)
(*                                                                          *)
(* A change is its index in `changes`; a packet is what it authenticates:    *)
(* its membership certificate, its author, its item and the complete change  *)
(* history.  Certificates are their index in `certs`.                        *)
(***************************************************************************)
EXTENDS Integers, Sequences, FiniteSets

CONSTANTS
    Devices,
    Items,
    Values,          \* what an item can hold
    Deleted,         \* the tombstone, and the absence of a record
    Kept,            \* a change that only removes the losers of a conflict
    None,            \* nothing prepared
    Founders,        \* the members of the first certificate
    Joiners,         \* devices whose owner asks to join a group
    Sealed,          \* devices whose vault stays sealed
    Links,           \* pairs of devices that can reach each other
    InviterAnswers,  \* does the inviter of a pending join answer?
    MaxChanges,      \* bound: changes made, in all
    MaxCerts,        \* bound: certificates signed, in all
    MaxReceipts,     \* 4096 in receive_personal
    MaxSpool         \* MAX_OBJECTS of the spool

ASSUME MarkerAssumption == Deleted \notin Values /\ Kept \notin Values \cup {Deleted}
ASSUME BoundAssumption ==
    /\ {MaxChanges, MaxCerts, MaxReceipts, MaxSpool} \subseteq Nat
    /\ MaxCerts >= 1
ASSUME GroupAssumption ==
    /\ Founders \subseteq Devices /\ Joiners \subseteq Devices /\ Sealed \subseteq Devices
    /\ Links \subseteq Devices \X Devices /\ InviterAnswers \in BOOLEAN

VARIABLES
    changes,   \* every change made: item, assignments it removes, value
    certs,     \* every certificate signed: members, and its line of ancestors
    history,   \* worker: the changes of its replicas
    record,    \* worker: the record reads and listings are served from
    pending,   \* worker: items with something to publish
    prepared,  \* worker: PreparedPublication
    receipts,  \* worker: packets received
    pinned,    \* worker: its certificate, 0 before pairing
    joining,   \* worker: a join was asked for and is not decided
    group,     \* courier: its certificate, 0 before pairing
    spool,     \* courier: packets stored
    step,      \* background pass: where it is
    shown      \* the histories a person last reviewed, per item

worker == <<history, record, pending, prepared, receipts, pinned, joining>>
courier == <<group, spool>>
vars == <<changes, certs, worker, courier, step, shown>>

-----------------------------------------------------------------------------
(* Automerge, as the replica uses it *)

Change == [item : Items, over : SUBSET (1..MaxChanges), value : Values \cup {Deleted, Kept}]
Certificate == [members : SUBSET Devices, line : SUBSET (1..MaxCerts)]
Packet == [cert : 1..MaxCerts, author : Devices, item : Items, history : SUBSET (1..MaxChanges)]
ASSUME NoneAssumption == None \notin Packet

\* The changes of one item.  A head is a hash over a change and all before it, so
\* equal heads are equal histories: PersonalReplica::heads is modelled by this set.
Of(set, i) == {c \in set : changes[c].item = i}

\* get_all: the assignments no known change has removed.
Assignments(set) ==
    {c \in set : changes[c].value # Kept /\ \A e \in set : c \notin changes[e].over}

\* PersonalReplica::values.
ValuesOf(set) == {changes[c].value : c \in Assignments(set)}

\* More than one value: ensure_personal_unconflicted.
Conflicted(set) == Cardinality(ValuesOf(set)) > 1

\* materialize_sync_value: some live candidate, or none when all are deletions.
Materialized(values) == IF values \subseteq {Deleted} THEN {Deleted} ELSE values \ {Deleted}

-----------------------------------------------------------------------------
(* Membership *)

\* Mutant: any certificate of the same group is taken for an extension.
AcceptsAny(ours, incoming) == ours # incoming

\* accept_extension: ours is the incoming certificate or an ancestor of it.
Accepts(ours, incoming) == ours \in certs[incoming].line

\* VerifiedPacket::verify under a membership.
Valid(packet, cert) ==
    cert # 0 /\ packet.cert = cert /\ packet.author \in certs[cert].members

-----------------------------------------------------------------------------
TypeOK ==
    /\ changes \in Seq(Change) /\ Len(changes) <= MaxChanges
    /\ certs \in Seq(Certificate) /\ Len(certs) <= MaxCerts
    /\ history \in [Devices -> SUBSET (1..Len(changes))]
    /\ record \in [Devices -> [Items -> Values \cup {Deleted}]]
    /\ pending \in [Devices -> SUBSET Items]
    /\ prepared \in [Devices -> Packet \cup {None}]
    /\ receipts \in [Devices -> SUBSET Packet]
    /\ spool \in [Devices -> SUBSET Packet]
    /\ pinned \in [Devices -> 0..Len(certs)]
    /\ joining \in [Devices -> BOOLEAN]
    /\ group \in [Devices -> 0..Len(certs)]
    /\ step \in [Devices -> {"idle", "publish", "sealed", "stored", "apply"}]
    /\ shown \in [Devices -> [Items -> SUBSET (1..Len(changes))]]

Init ==
    /\ changes = <<>>
    /\ certs = <<[members |-> Founders, line |-> {1}]>>
    /\ history = [d \in Devices |-> {}]
    /\ record = [d \in Devices |-> [i \in Items |-> Deleted]]
    /\ pending = [d \in Devices |-> {}]
    /\ prepared = [d \in Devices |-> None]
    /\ receipts = [d \in Devices |-> {}]
    /\ pinned = [d \in Devices |-> IF d \in Founders THEN 1 ELSE 0]
    /\ joining = [d \in Devices |-> FALSE]
    /\ group = pinned
    /\ spool = [d \in Devices |-> {}]
    /\ step = [d \in Devices |-> "idle"]
    /\ shown = [d \in Devices |-> [i \in Items |-> {}]]

-----------------------------------------------------------------------------
(* What a person does *)

\* One committed local change: replica.set, ReplicaCatalog::store(.., true) and
\* the record, in one mutation.
Commit(d, i, over, change, value) ==
    /\ Len(changes) < MaxChanges
    /\ changes' = Append(changes, [item |-> i, over |-> over, value |-> change])
    /\ history' = [history EXCEPT ![d] = @ \cup {Len(changes) + 1}]
    /\ record' = [record EXCEPT ![d][i] = value]
    /\ pending' = [pending EXCEPT ![d] = @ \cup {i}]
    /\ UNCHANGED <<certs, prepared, receipts, pinned, joining, courier, step, shown>>

\* put_uncommitted and delete_uncommitted: refused while conflicted; writing what
\* is there, or deleting nothing, records no change.
Edit(d, i, v) ==
    /\ d \notin Sealed
    /\ ~Conflicted(Of(history[d], i))
    /\ v # record[d][i]
    /\ Commit(d, i, Assignments(Of(history[d], i)), v, v)

\* sync_conflicts: the candidates and their heads, for review.
Review(d, i) ==
    /\ d \notin Sealed
    /\ Conflicted(Of(history[d], i))
    /\ shown' = [shown EXCEPT ![d][i] = Of(history[d], i)]
    /\ UNCHANGED <<changes, certs, worker, courier, step>>

\* Mutant: the expected heads are not compared.
ShownOnce(d, i) == TRUE

\* The reviewed heads are still the heads: set(.., Some(expected)).
StillShown(d, i) == shown[d][i] = Of(history[d], i)

\* resolve_personal with the reviewed heads.  Automerge writes the chosen value,
\* or removes only the losers when it is the winner's.
Resolve(d, i, v) ==
    LET known == Of(history[d], i)
    IN  /\ d \notin Sealed
        /\ Conflicted(known)
        /\ shown[d][i] # {} /\ StillShown(d, i)
        /\ \/ Commit(d, i, Assignments(known), v, v)
           \/ \E winner \in Assignments(known) :
                 /\ changes[winner].value = v
                 /\ Commit(d, i, Assignments(known) \ {winner}, Kept, v)

\* A join is asked for, and given up.
Join(d) ==
    /\ d \in Joiners \ Sealed /\ ~joining[d] /\ step[d] = "idle"
    /\ joining' = [joining EXCEPT ![d] = TRUE]
    /\ UNCHANGED <<changes, certs, history, record, pending, prepared, receipts, pinned,
                   courier, step, shown>>

Cancel(d) ==
    /\ d \notin Sealed /\ joining[d] /\ step[d] = "idle"
    /\ joining' = [joining EXCEPT ![d] = FALSE]
    /\ UNCHANGED <<changes, certs, history, record, pending, prepared, receipts, pinned,
                   courier, step, shown>>

\* SyncCommand::Pairing, after a new membership was installed: prepared bytes are
\* for the old readers, so they go, and every replica is to be published again.
Requeue(d, cert) ==
    /\ pinned' = [pinned EXCEPT ![d] = cert]
    /\ prepared' = [prepared EXCEPT ![d] = None]
    /\ pending' = [pending EXCEPT ![d] = {i \in Items : Of(history[d], i) # {}}]

\* PairingCommand::Approve: the worker signs and pins a successor that adds the
\* joining device.  The courier follows in the next pass.
Approve(d, e) ==
    /\ d \notin Sealed /\ step[d] = "idle" /\ pinned[d] # 0
    /\ joining[e] /\ pinned[e] = 0
    /\ e \notin certs[pinned[d]].members
    /\ Len(certs) < MaxCerts
    /\ certs' = Append(certs, [members |-> certs[pinned[d]].members \cup {e},
                               line |-> certs[pinned[d]].line \cup {Len(certs) + 1}])
    /\ Requeue(d, Len(certs) + 1)
    /\ UNCHANGED <<changes, history, record, receipts, joining, courier, step, shown>>

-----------------------------------------------------------------------------
(* The background pass: Inner::local, one host command at a time *)

\* The joining device stages its request and the inviter answers with a group
\* that enrols it: Accept.
Enroll(d, e) ==
    /\ d \notin Sealed /\ step[d] = "idle" /\ pinned[d] = 0 /\ joining[d]
    /\ InviterAnswers /\ <<d, e>> \in Links
    /\ group[e] # 0 /\ d \in certs[group[e]].members
    /\ Requeue(d, group[e])
    /\ joining' = [joining EXCEPT ![d] = FALSE]
    /\ UNCHANGED <<changes, certs, history, record, receipts, courier, step, shown>>

\* A pending join asks the inviter first; no answer ends the pass.
PassGoesOn(d) == joining[d] => InviterAnswers

\* The pass begins by bringing worker and courier to the newer of their
\* memberships.  Where neither extends the other it fails.
StartPass(d) ==
    /\ d \notin Sealed /\ step[d] = "idle" /\ pinned[d] # 0
    /\ \/ /\ group[d] # 0 /\ Accepts(pinned[d], group[d])
          /\ IF pinned[d] = group[d] THEN UNCHANGED <<pinned, prepared, pending, joining>>
             ELSE /\ Requeue(d, group[d])
                  /\ joining' = [joining EXCEPT ![d] = FALSE]
          /\ UNCHANGED group
       \/ /\ \/ group[d] = 0
             \/ group[d] # 0 /\ ~Accepts(pinned[d], group[d]) /\ Accepts(group[d], pinned[d])
          /\ group' = [group EXCEPT ![d] = pinned[d]]
          /\ UNCHANGED <<pinned, prepared, pending, joining>>
    /\ step' = [step EXCEPT ![d] = IF PassGoesOn(d) THEN "publish" ELSE "idle"]
    /\ UNCHANGED <<changes, certs, history, record, receipts, spool, shown>>

\* Mutant: bytes that were prepared before a restart are not handed out again.
PrepareOnce(d) ==
    /\ step[d] = "publish" /\ prepared[d] = None
    /\ \E i \in pending[d] :
          prepared' = [prepared EXCEPT ![d] =
              [cert |-> pinned[d], author |-> d, item |-> i, history |-> Of(history[d], i)]]
    /\ step' = [step EXCEPT ![d] = "sealed"]
    /\ UNCHANGED <<changes, certs, history, record, pending, receipts, pinned, joining,
                   courier, shown>>

\* SyncCommand::Prepare: the bytes prepared before, or the history of a pending
\* item sealed for the current membership.
Prepare(d) ==
    /\ step[d] = "publish"
    /\ \/ /\ prepared[d] # None
          /\ UNCHANGED prepared
       \/ /\ prepared[d] = None
          /\ \E i \in pending[d] :
                prepared' = [prepared EXCEPT ![d] =
                    [cert |-> pinned[d], author |-> d, item |-> i, history |-> Of(history[d], i)]]
    /\ step' = [step EXCEPT ![d] = "sealed"]
    /\ UNCHANGED <<changes, certs, history, record, pending, receipts, pinned, joining,
                   courier, shown>>

\* Nothing is left to prepare.
Published(d) ==
    /\ step[d] = "publish" /\ prepared[d] = None /\ pending[d] = {}
    /\ step' = [step EXCEPT ![d] = "apply"]
    /\ UNCHANGED <<changes, certs, worker, courier, shown>>

\* CiphertextSpool::put: needs the courier's membership and room.
Fits(packet, d) ==
    /\ Valid(packet, group[d])
    /\ packet \in spool[d] \/ Cardinality(spool[d]) < MaxSpool

SpoolPut(d) ==
    /\ step[d] = "sealed"
    /\ \/ /\ Fits(prepared[d], d)
          /\ spool' = [spool EXCEPT ![d] = @ \cup {prepared[d]}]
          /\ step' = [step EXCEPT ![d] = "stored"]
       \/ /\ ~Fits(prepared[d], d)
          /\ step' = [step EXCEPT ![d] = "idle"]
          /\ UNCHANGED spool
    /\ UNCHANGED <<changes, certs, worker, group, shown>>

\* Mutant: an edit made meanwhile is not noticed.
SettledAnyway(d) == TRUE

\* The item is published when it has not changed since it was prepared.
Settled(d) == Of(history[d], prepared[d].item) = prepared[d].history

\* SyncCommand::Stored.
Stored(d) ==
    /\ step[d] = "stored"
    /\ pending' = [pending EXCEPT ![d] = IF Settled(d) THEN @ \ {prepared[d].item} ELSE @]
    /\ prepared' = [prepared EXCEPT ![d] = None]
    /\ step' = [step EXCEPT ![d] = "publish"]
    /\ UNCHANGED <<changes, certs, history, record, receipts, pinned, joining, courier, shown>>

\* The incoming packet carries everything known of the item.
Carries(packet, merged) == Of(merged, packet.item) = packet.history

\* Mutant: the incoming packet alone decides the record.
ShowIncoming(packet, merged) == Materialized(ValuesOf(packet.history))

\* What is shown after a merge.
Show(packet, merged) == Materialized(ValuesOf(Of(merged, packet.item)))

\* receive_personal does not refuse the packet, nor has it a receipt for it.
Receivable(d, packet) ==
    /\ Valid(packet, group[d]) /\ Valid(packet, pinned[d])
    /\ packet \notin receipts[d]
    /\ Cardinality(receipts[d]) < MaxReceipts

\* SyncCommand::Receive for a packet of the spool: merge, keep a receipt, and
\* show the merged value if anything was new.
Receive(d, packet) ==
    LET merged == history[d] \cup packet.history
        i == packet.item
    IN  /\ step[d] = "apply"
        /\ packet \in spool[d] /\ Receivable(d, packet)
        /\ history' = [history EXCEPT ![d] = merged]
        /\ receipts' = [receipts EXCEPT ![d] = @ \cup {packet}]
        /\ pending' = [pending EXCEPT ![d] = IF Carries(packet, merged) THEN @ \ {i} ELSE @]
        /\ IF merged = history[d] THEN UNCHANGED record
           ELSE \E value \in Show(packet, merged) :
                   record' = [record EXCEPT ![d][i] = value]
        /\ UNCHANGED <<changes, certs, prepared, pinned, joining, courier, step, shown>>

\* Nothing is left to apply, or receipts are full.
NothingToApply(d) == \A packet \in spool[d] : ~Receivable(d, packet)

Applied(d) ==
    /\ step[d] = "apply" /\ NothingToApply(d)
    /\ step' = [step EXCEPT ![d] = "idle"]
    /\ UNCHANGED <<changes, certs, worker, courier, shown>>

\* The process dies, the vault seals or a command fails in the middle; or the
\* page of packets ends before one that came later.  Where the pass ends anyway,
\* SpoolPut and Applied end it.
Stop(d) ==
    /\ step[d] # "idle"
    /\ step[d] = "sealed" => Fits(prepared[d], d)
    /\ step[d] = "apply" => ~NothingToApply(d)
    /\ step' = [step EXCEPT ![d] = "idle"]
    /\ UNCHANGED <<changes, certs, worker, courier, shown>>

-----------------------------------------------------------------------------
(* Couriers, sealed or not: Inner::exchange and what it asks of a peer *)

\* Request::Update: whoever holds the older membership installs the newer.
CatchUp(d, e) ==
    /\ <<d, e>> \in Links
    /\ group[d] # 0 /\ group[e] # 0 /\ group[d] # group[e]
    /\ Accepts(group[d], group[e])
    /\ {d, e} \subseteq certs[group[e]].members
    /\ group' = [group EXCEPT ![d] = group[e]]
    /\ UNCHANGED <<changes, certs, worker, spool, step, shown>>

\* Mutant: only the author of a packet serves it.
PullFromAuthor(d, e, packet) ==
    /\ <<d, e>> \in Links
    /\ group[d] # 0 /\ group[d] = group[e]
    /\ {d, e} \subseteq certs[group[d]].members
    /\ packet \in spool[e] \ spool[d]
    /\ Valid(packet, group[d]) /\ packet.author = e
    /\ Cardinality(spool[d]) < MaxSpool
    /\ spool' = [spool EXCEPT ![d] = @ \cup {packet}]
    /\ UNCHANGED <<changes, certs, worker, group, step, shown>>

\* CiphertextCourier::pull of one packet.
Pull(d, e, packet) ==
    /\ <<d, e>> \in Links
    /\ group[d] # 0 /\ group[d] = group[e]
    /\ {d, e} \subseteq certs[group[d]].members
    /\ packet \in spool[e] \ spool[d]
    /\ Valid(packet, group[d])
    /\ Cardinality(spool[d]) < MaxSpool
    /\ spool' = [spool EXCEPT ![d] = @ \cup {packet}]
    /\ UNCHANGED <<changes, certs, worker, group, step, shown>>

-----------------------------------------------------------------------------
Next ==
    \/ \E d \in Devices, i \in Items, v \in Values \cup {Deleted} : Edit(d, i, v)
    \/ \E d \in Devices, i \in Items : Review(d, i)
    \/ \E d \in Devices, i \in Items, v \in Values \cup {Deleted} : Resolve(d, i, v)
    \/ \E d \in Devices : Join(d)
    \/ \E d \in Devices : Cancel(d)
    \/ \E d, e \in Devices : Approve(d, e)
    \/ \E d, e \in Devices : Enroll(d, e)
    \/ \E d \in Devices : StartPass(d)
    \/ \E d \in Devices : Prepare(d)
    \/ \E d \in Devices : Published(d)
    \/ \E d \in Devices : SpoolPut(d)
    \/ \E d \in Devices : Stored(d)
    \/ \E d \in Devices : \E packet \in spool[d] : Receive(d, packet)
    \/ \E d \in Devices : Applied(d)
    \/ \E d \in Devices : Stop(d)
    \/ \E d, e \in Devices : CatchUp(d, e)
    \/ \E d, e \in Devices : \E packet \in spool[e] : Pull(d, e, packet)

Spec == Init /\ [][Next]_vars

\* The next step of a device's pass.
Pass(d) ==
    \/ StartPass(d) \/ Prepare(d) \/ Published(d) \/ SpoolPut(d) \/ Stored(d)
    \/ \E packet \in spool[d] : Receive(d, packet)
    \/ Applied(d)

\* poll runs a pass every few seconds on an unsealed device, from some time on
\* without being stopped in the middle; a linked peer is reached again and
\* again.  Nothing is assumed of people.
Fairness ==
    /\ \A d \in Devices \ Sealed : WF_vars(Pass(d))
    /\ \A d, e \in Devices :
          WF_vars(CatchUp(d, e) \/ \E packet \in spool[e] : Pull(d, e, packet))
    /\ <>[][\A d \in Devices : ~Stop(d)]_vars

FairSpec == Spec /\ Fairness

-----------------------------------------------------------------------------
(* Properties *)

\* An item that is not pending has nothing unpublished: packets that the current
\* readers can open, in the device's own spool, hold every change it knows.
\* Stored clears the mark after a receipt, receive_personal when the incoming
\* packet carries everything, and a membership change sets it again; edits come
\* between any two of these.
NothingUnpublished ==
    \A d \in Devices : \A i \in Items \ pending[d] : \A c \in Of(history[d], i) :
        \E packet \in spool[d] : Valid(packet, pinned[d]) /\ c \in packet.history

\* Prepared bytes are sealed for the current membership, so that Prepare, which
\* verifies them before it hands them out again, never refuses its own packet,
\* and readers that were added can open what is published after their coming.
PreparedIsCurrent ==
    \A d \in Devices : prepared[d] # None => Valid(prepared[d], pinned[d])

\* The record an item is read from is what the replicated history says: the one
\* value, or a live candidate of a conflict (which get_with_deadline refuses to
\* read), whichever edits, resolutions and merges in whichever order led there.
RecordMatchesHistory ==
    \A d \in Devices, i \in Items :
        record[d][i] \in Materialized(ValuesOf(Of(history[d], i)))

\* A choice between conflicting values removes only values that were reviewed:
\* resolve_personal compares heads, so a candidate merged after the review is
\* not thrown away unseen.
RemovedWhatWasShown ==
    \A d \in Devices, i \in Items :
        (Len(changes') > Len(changes) /\ history'[d] # history[d]
           /\ changes'[Len(changes')].item = i /\ Conflicted(Of(history[d], i)))
        => changes'[Len(changes')].over \subseteq shown[d][i]

ResolutionsAreInformed == [][RemovedWhatWasShown]_vars

\* Neither half of a device ever leaves its line of memberships: accept_extension
\* guards every way to a new one, so a fork is refused by both.
MovesForward ==
    \A d \in Devices :
        /\ pinned[d] # 0 => pinned'[d] # 0 /\ pinned[d] \in certs'[pinned'[d]].line
        /\ group[d] # 0 => group'[d] # 0 /\ group[d] \in certs'[group'[d]].line

MembershipsMoveForward == [][MovesForward]_vars

\* Every edit of a paired, unsealed device is eventually published, although
\* passes stop anywhere and edits keep coming (as long as changes are allowed).
EditsArePublished ==
    \A d \in Founders \ Sealed, i \in Items : i \in pending[d] ~> i \notin pending[d]

\* A device that waits to join another group goes on publishing to its own, until
\* the join is cancelled: "Only membership changes require this device to be
\* available and unlocked; ordinary edits and replication remain fully
\* peer-to-peer."  local asks the inviter before it publishes.
JoiningDeviceSyncs ==
    \A d \in Founders \ Sealed, i \in Items :
        joining[d] /\ i \in pending[d] ~> ~joining[d] \/ i \notin pending[d]

\* When edits stop, unsealed paired devices come to the same histories, by way of
\* sealed ones if they have to.
DevicesConverge ==
    <>[](\A d, e \in Devices \ Sealed :
            pinned[d] # 0 /\ pinned[e] # 0 => history[d] = history[e])

=============================================================================
