------------------------- MODULE PersonalSyncProofs -------------------------
(***************************************************************************)
(* Proofs about PersonalSync for any devices, items, values, links, limits *)
(* and numbers of changes and certificates.                                *)
(*                                                                         *)
(* None of its invariants is inductive alone.  Structure collects what     *)
(* they share: changes and certificates only refer to earlier ones, a      *)
(* packet holds changes of its own item, a device is a member of the       *)
(* groups it holds, and the pass is at a step only when what the step      *)
(* needs is there.                                                         *)
(***************************************************************************)
EXTENDS PersonalSync, TLAPS

\* A packet holds changes that were made, to its own item.
Genuine(packet) ==
    \A k \in packet.history : k \in 1..Len(changes) /\ changes[k].item = packet.item

\* What the background pass of a device relies on.
PassReady(d) ==
    /\ step[d] # "idle" => pinned[d] # 0
    /\ step[d] \in {"sealed", "stored"} => prepared[d] # None
    /\ step[d] = "stored" => prepared[d] \in spool[d]

Structure ==
    /\ TypeOK
    /\ \A k \in 1..Len(changes) : changes[k].over \subseteq 1..Len(changes)
    /\ \A k \in 1..Len(certs) : k \in certs[k].line
    /\ \A d \in Devices :
          /\ pinned[d] # 0 => d \in certs[pinned[d]].members
          /\ group[d] # 0 => d \in certs[group[d]].members
          /\ \A packet \in spool[d] : Genuine(packet)
          /\ prepared[d] # None => Genuine(prepared[d])
          /\ PassReady(d)
    /\ PreparedIsCurrent

-----------------------------------------------------------------------------
(* Changes and certificates are only ever added. *)

\* A local change (record_personal_change) is added behind the others.
LEMMA CommitGrows ==
    ASSUME TypeOK, NEW d \in Devices, NEW i \in Items, NEW over \in SUBSET (1..Len(changes)),
           NEW change \in Values \cup {Deleted, Kept}, NEW value,
           Commit(d, i, over, change, value)
    PROVE  /\ Len(changes') = Len(changes) + 1
           /\ Len(changes') <= MaxChanges
           /\ changes' \in Seq(Change)
           /\ \A k \in 1..Len(changes) : changes'[k] = changes[k]
           /\ changes'[Len(changes) + 1] = [item |-> i, over |-> over, value |-> change]
<1> DEFINE new == [item |-> i, over |-> over, value |-> change]
<1>1. new \in Change
  BY BoundAssumption DEF Change, TypeOK
<1>2. changes \in Seq(Change) /\ changes' = Append(changes, new) /\ Len(changes) < MaxChanges
  BY Zenon DEF TypeOK, Commit
<1>3. Len(changes) \in Nat /\ MaxChanges \in Nat
  BY <1>2, BoundAssumption
<1> HIDE DEF new
<1>4. /\ Len(changes') = Len(changes) + 1
      /\ changes' \in Seq(Change)
      /\ \A k \in 1..Len(changes) : changes'[k] = changes[k]
      /\ changes'[Len(changes) + 1] = new
  BY <1>1, <1>2
<1> QED BY <1>2, <1>3, <1>4 DEF new

\* A certificate (PairingCommand::Approve) is added behind the others.
LEMMA ApproveGrows ==
    ASSUME TypeOK, NEW d \in Devices, NEW e \in Devices, Approve(d, e)
    PROVE  /\ Len(certs') = Len(certs) + 1
           /\ Len(certs') <= MaxCerts
           /\ certs' \in Seq(Certificate)
           /\ \A k \in 1..Len(certs) : certs'[k] = certs[k]
           /\ certs'[Len(certs) + 1].members = certs[pinned[d]].members \cup {e}
           /\ certs'[Len(certs) + 1].line = certs[pinned[d]].line \cup {Len(certs) + 1}
<1> DEFINE new == [members |-> certs[pinned[d]].members \cup {e},
                   line |-> certs[pinned[d]].line \cup {Len(certs) + 1}]
<1>1. certs \in Seq(Certificate) /\ certs' = Append(certs, new) /\ Len(certs) < MaxCerts
  BY Zenon DEF TypeOK, Approve
<1>2. Len(certs) \in Nat /\ MaxCerts \in Nat /\ pinned[d] \in 1..Len(certs)
  BY <1>1, BoundAssumption, SMTT(60) DEF TypeOK, Approve
<1>3. certs[pinned[d]] \in Certificate
  BY <1>1, <1>2
<1>4. new \in Certificate
  BY <1>1, <1>2, <1>3 DEF Certificate
<1>5. /\ new.members = certs[pinned[d]].members \cup {e}
      /\ new.line = certs[pinned[d]].line \cup {Len(certs) + 1}
  BY Zenon
<1> HIDE DEF new
<1>6. /\ Len(certs') = Len(certs) + 1
      /\ certs' \in Seq(Certificate)
      /\ \A k \in 1..Len(certs) : certs'[k] = certs[k]
      /\ certs'[Len(certs) + 1] = new
  BY <1>1, <1>4
<1> QED BY <1>1, <1>2, <1>5, <1>6

\* Edits and resolutions are commits of a local change.
LEMMA LocalChange ==
    ASSUME TypeOK, NEW d \in Devices, NEW i \in Items, NEW v \in Values \cup {Deleted},
           Edit(d, i, v) \/ Resolve(d, i, v)
    PROVE  \E over \in SUBSET Of(history[d], i), change \in Values \cup {Deleted, Kept} :
              Commit(d, i, over, change, v)
<1>1. Assignments(Of(history[d], i)) \subseteq Of(history[d], i)
  BY Zenon DEF Assignments
<1>2. CASE Edit(d, i, v)
  BY <1>1, <1>2, Zenon DEF Edit
<1>3. CASE Resolve(d, i, v)
  <2>1. CASE Commit(d, i, Assignments(Of(history[d], i)), v, v)
    BY <1>1, <2>1, Zenon
  <2>2. CASE \E winner \in Assignments(Of(history[d], i)) :
                Commit(d, i, Assignments(Of(history[d], i)) \ {winner}, Kept, v)
    BY <1>1, <2>2, Zenon
  <2> QED BY <1>3, <2>1, <2>2, Zenon DEF Resolve
<1> QED BY <1>2, <1>3, Zenon

-----------------------------------------------------------------------------
(* Structure holds initially, and every step keeps it. *)

\* The first state: one certificate, nothing made, nothing stored.
LEMMA StructureInit == Init => Structure
<1> SUFFICES ASSUME Init PROVE Structure
  BY Zenon
<1>1. Len(changes) = 0 /\ changes \in Seq(Change)
  BY DEF Init
<1>2. /\ certs \in Seq(Certificate) /\ Len(certs) = 1
      /\ certs[1].members = Founders /\ certs[1].line = {1}
  <2> DEFINE first == [members |-> Founders, line |-> {1}]
  <2>1. first \in Certificate
    BY BoundAssumption, GroupAssumption DEF Certificate
  <2>2. first.members = Founders /\ first.line = {1}
    BY Zenon
  <2>3. certs = <<first>>
    BY Zenon DEF Init
  <2> HIDE DEF first
  <2> QED BY <2>1, <2>2, <2>3
<1>3. TypeOK
  BY <1>1, <1>2, BoundAssumption, GroupAssumption DEF Init, TypeOK
<1> QED BY <1>1, <1>2, <1>3 DEF Init, Structure, PassReady, PreparedIsCurrent

\* Edits and resolutions keep Structure: what packets hold is still the same.
LEMMA StructureCommit ==
    ASSUME Structure, NEW d \in Devices, NEW i \in Items, NEW v \in Values \cup {Deleted},
           Edit(d, i, v) \/ Resolve(d, i, v)
    PROVE  Structure'
<1>1. TypeOK
  BY Zenon DEF Structure
<1>2. PICK over \in SUBSET Of(history[d], i), change \in Values \cup {Deleted, Kept} :
         Commit(d, i, over, change, v)
  BY <1>1, LocalChange, Zenon
<1>3. over \in SUBSET (1..Len(changes))
  BY <1>1, Zenon DEF Of, TypeOK
<1>4. /\ Len(changes') = Len(changes) + 1
      /\ Len(changes') <= MaxChanges
      /\ changes' \in Seq(Change)
      /\ \A k \in 1..Len(changes) : changes'[k] = changes[k]
      /\ changes'[Len(changes) + 1] = [item |-> i, over |-> over, value |-> change]
  BY <1>1, <1>2, <1>3, CommitGrows, ZenonT(60)
<1>5. Len(changes) \in Nat
  BY <1>1, SMTT(60) DEF TypeOK
<1>6. TypeOK'
  <2>1. history' \in [Devices -> SUBSET (1..Len(changes'))]
    BY <1>1, <1>2, <1>4, <1>5, SMTT(60) DEF TypeOK, Commit
  <2>2. record' \in [Devices -> [Items -> Values \cup {Deleted}]]
    BY <1>1, <1>2, Zenon DEF TypeOK, Commit
  <2>3. shown' \in [Devices -> [Items -> SUBSET (1..Len(changes'))]]
    <3>1. \A S \in SUBSET (1..Len(changes)) : S \in SUBSET (1..Len(changes'))
      BY <1>4, <1>5
    <3> QED BY <1>1, <1>2, <3>1 DEF TypeOK, Commit
  <2> QED BY <1>1, <1>2, <1>4, <2>1, <2>2, <2>3, SMTT(60) DEF TypeOK, Commit, courier
<1>7. \A k \in 1..Len(changes') : changes'[k].over \subseteq 1..Len(changes')
  BY <1>3, <1>4, <1>5 DEF Structure
<1>8. ASSUME NEW packet, Genuine(packet) PROVE Genuine(packet)'
  BY <1>4, <1>5, <1>8 DEF Genuine
<1>9. UNCHANGED <<certs, prepared, pinned, group, spool, step>>
  BY <1>2, Zenon DEF Commit, courier
<1>10. PreparedIsCurrent'
  BY <1>9, Zenon DEF Structure, PreparedIsCurrent, Valid
<1> QED BY <1>6, <1>7, <1>8, <1>9, <1>10, ZenonT(60) DEF Structure, PassReady

\* What steps that change neither changes nor certificates have to show.
LEMMA StructureFrame ==
    ASSUME Structure, TypeOK', UNCHANGED <<changes, certs>>,
           ASSUME NEW d \in Devices
           PROVE  /\ pinned'[d] # 0 => d \in certs[pinned'[d]].members
                  /\ group'[d] # 0 => d \in certs[group'[d]].members
                  /\ \A packet \in spool'[d] : Genuine(packet)
                  /\ prepared'[d] # None =>
                        Genuine(prepared'[d]) /\ Valid(prepared'[d], pinned'[d])
                  /\ PassReady(d)'
    PROVE  Structure'
<1>1. \A packet : Genuine(packet) <=> Genuine(packet)'
  BY Zenon DEF Genuine
<1>2. PreparedIsCurrent'
  BY Zenon DEF PreparedIsCurrent, Valid
<1> QED BY <1>1, <1>2, Zenon DEF Structure

\* A signed successor (Approve) keeps Structure: the signer is one of its members,
\* and nothing prepared for the old readers is left.
LEMMA StructureApprove ==
    ASSUME Structure, NEW d \in Devices, NEW e \in Devices, Approve(d, e)
    PROVE  Structure'
<1>1. TypeOK
  BY Zenon DEF Structure
<1>2. /\ Len(certs') = Len(certs) + 1
      /\ Len(certs') <= MaxCerts
      /\ certs' \in Seq(Certificate)
      /\ \A k \in 1..Len(certs) : certs'[k] = certs[k]
      /\ certs'[Len(certs) + 1].members = certs[pinned[d]].members \cup {e}
      /\ certs'[Len(certs) + 1].line = certs[pinned[d]].line \cup {Len(certs) + 1}
  BY <1>1, ApproveGrows, Zenon
<1>3. Len(certs) \in Nat
  BY <1>1 DEF TypeOK
<1>4. /\ pinned' = [pinned EXCEPT ![d] = Len(certs) + 1]
      /\ prepared' = [prepared EXCEPT ![d] = None]
      /\ pending' = [pending EXCEPT ![d] = {i \in Items : Of(history[d], i) # {}}]
      /\ UNCHANGED <<changes, history, record, receipts, joining, group, spool, step, shown>>
      /\ step[d] = "idle"
  BY Zenon DEF Approve, Requeue, courier
<1>5. TypeOK'
  <2>1. pinned' \in [Devices -> 0..Len(certs')] /\ group' \in [Devices -> 0..Len(certs')]
    BY <1>1, <1>2, <1>3, <1>4, SMTT(60) DEF TypeOK
  <2>2. pending' \in [Devices -> SUBSET Items]
    BY <1>1, <1>4, Zenon DEF TypeOK
  <2>3. prepared' \in [Devices -> Packet \cup {None}]
    BY <1>1, <1>4, Zenon DEF TypeOK
  <2> QED BY <1>1, <1>2, <1>4, <2>1, <2>2, <2>3, Zenon DEF TypeOK
<1>6. \A k \in 1..Len(certs') : k \in certs'[k].line
  BY <1>2, <1>3 DEF Structure
<1>7. ASSUME NEW f \in Devices
      PROVE  /\ pinned'[f] # 0 => f \in certs'[pinned'[f]].members
             /\ group'[f] # 0 => f \in certs'[group'[f]].members
  <2>0. group[f] \in 0..Len(certs) /\ pinned[f] \in 0..Len(certs)
    BY <1>1, Zenon DEF TypeOK
  <2>1. group[f] # 0 => group[f] \in 1..Len(certs)
    BY <1>3, <2>0
  <2>2. pinned[f] # 0 => pinned[f] \in 1..Len(certs)
    BY <1>3, <2>0
  <2>3. CASE f = d
    <3>1. pinned'[d] = Len(certs) + 1 /\ group'[d] = group[d]
      BY <1>1, <1>4, Zenon DEF TypeOK
    <3>2. /\ pinned[d] # 0 /\ d \in certs[pinned[d]].members
          /\ group[d] # 0 => d \in certs[group[d]].members
      BY Zenon DEF Approve, Structure
    <3> QED BY <1>2, <2>1, <2>3, <3>1, <3>2, Zenon
  <2>4. CASE f # d
    BY <1>1, <1>2, <1>4, <2>1, <2>2, <2>4, Zenon DEF Structure, TypeOK
  <2> QED BY <2>3, <2>4, Zenon
<1>8. \A packet : Genuine(packet) <=> Genuine(packet)'
  BY <1>4, Zenon DEF Genuine
<1>9. ASSUME NEW f \in Devices
      PROVE  /\ prepared'[f] # None => Genuine(prepared'[f]) /\ Valid(prepared[f], pinned[f])'
             /\ PassReady(f)'
  <2>1. CASE f = d
    BY <1>1, <1>4, <2>1, Zenon DEF TypeOK, PassReady
  <2>2. CASE f # d
    <3>1. prepared'[f] = prepared[f] /\ pinned'[f] = pinned[f]
      BY <1>1, <1>4, <2>2, Zenon DEF TypeOK
    <3>2. pinned[f] # 0 => certs'[pinned[f]] = certs[pinned[f]]
      BY <1>1, <1>2, <1>3, SMTT(60) DEF TypeOK
    <3> QED BY <1>4, <3>1, <3>2, ZenonT(60) DEF Structure, PassReady, PreparedIsCurrent, Valid
  <2> QED BY <2>1, <2>2, Zenon
<1>10. PreparedIsCurrent'
  BY <1>9, Zenon DEF PreparedIsCurrent
<1> QED BY <1>4, <1>5, <1>6, <1>7, <1>8, <1>9, <1>10, Zenon DEF Structure

\* A membership that is accepted into the worker (Enroll, StartPass) keeps what
\* it needs, as nothing stays prepared.
LEMMA RequeueFrame ==
    ASSUME Structure, NEW d \in Devices, NEW cert \in 1..Len(certs),
           d \in certs[cert].members, Requeue(d, cert), step[d] = "idle",
           UNCHANGED <<spool, changes, certs>>,
           \A f \in Devices \ {d} : step'[f] = step[f],
           step'[d] \in {"idle", "publish"}
    PROVE  /\ pinned' \in [Devices -> 0..Len(certs)]
           /\ prepared' \in [Devices -> Packet \cup {None}]
           /\ pending' \in [Devices -> SUBSET Items]
           /\ \A f \in Devices :
                /\ pinned'[f] # 0 => f \in certs[pinned'[f]].members
                /\ prepared'[f] # None =>
                      Genuine(prepared'[f]) /\ Valid(prepared'[f], pinned'[f])
                /\ PassReady(f)'
<1>1. TypeOK
  BY Zenon DEF Structure
<1>2. /\ pinned' = [pinned EXCEPT ![d] = cert]
      /\ prepared' = [prepared EXCEPT ![d] = None]
      /\ pending' = [pending EXCEPT ![d] = {i \in Items : Of(history[d], i) # {}}]
  BY Zenon DEF Requeue
<1>3. /\ pinned' \in [Devices -> 0..Len(certs)]
      /\ prepared' \in [Devices -> Packet \cup {None}]
      /\ pending' \in [Devices -> SUBSET Items]
  BY <1>1, <1>2 DEF TypeOK
<1>4. ASSUME NEW f \in Devices
      PROVE  /\ pinned'[f] # 0 => f \in certs[pinned'[f]].members
             /\ prepared'[f] # None =>
                   Genuine(prepared'[f]) /\ Valid(prepared'[f], pinned'[f])
             /\ PassReady(f)'
  <2>1. CASE f = d
    BY <1>1, <1>2, <2>1 DEF TypeOK, PassReady
  <2>2. CASE f # d
    <3>1. prepared'[f] = prepared[f] /\ pinned'[f] = pinned[f]
      BY <1>1, <1>2, <2>2, Zenon DEF TypeOK
    <3> QED BY <2>2, <3>1, ZenonT(60) DEF Structure, PassReady, PreparedIsCurrent
  <2> QED BY <2>1, <2>2, Zenon
<1> QED BY <1>3, <1>4, Zenon

\* Every step keeps Structure.
LEMMA StructureNext == Structure /\ [Next]_vars => Structure'
<1> SUFFICES ASSUME Structure, [Next]_vars PROVE Structure'
  BY Zenon
<1> USE DEF worker, courier
<1>1. TypeOK
  BY Zenon DEF Structure
<1>2. /\ Len(certs) \in Nat
      /\ \A f \in Devices : pinned[f] # 0 => pinned[f] \in 1..Len(certs)
      /\ \A f \in Devices : group[f] # 0 => group[f] \in 1..Len(certs)
  BY <1>1 DEF TypeOK
<1>3. ASSUME NEW f \in Devices
      PROVE  /\ pinned[f] # 0 => f \in certs[pinned[f]].members
             /\ group[f] # 0 => f \in certs[group[f]].members
             /\ \A packet \in spool[f] : Genuine(packet)
             /\ prepared[f] # None => Genuine(prepared[f]) /\ Valid(prepared[f], pinned[f])
             /\ PassReady(f)
  BY Zenon DEF Structure, PreparedIsCurrent
<1>4. CASE \E d \in Devices, i \in Items, v \in Values \cup {Deleted} :
              Edit(d, i, v) \/ Resolve(d, i, v)
  BY <1>4, StructureCommit, Zenon
<1>5. ASSUME NEW d \in Devices, NEW i \in Items, Review(d, i) PROVE Structure'
  <2>1. TypeOK'
    <3>1. Of(history[d], i) \in SUBSET (1..Len(changes))
      BY <1>1, Zenon DEF Of, TypeOK
    <3> QED BY <1>1, <1>5, <3>1, Zenon DEF Review, TypeOK
  <2>2. UNCHANGED <<changes, certs, pinned, group, spool, prepared, step>>
    BY <1>5, Zenon DEF Review
  <2>3. \A f \in Devices : PassReady(f)'
    BY <1>3, <2>2, Zenon DEF PassReady
  <2> QED BY <1>3, <2>1, <2>2, <2>3, StructureFrame, Zenon
<1>6. ASSUME NEW d \in Devices, Join(d) \/ Cancel(d) PROVE Structure'
  <2>1. TypeOK'
    BY <1>1, <1>6, Zenon DEF Join, Cancel, TypeOK
  <2>2. UNCHANGED <<changes, certs, pinned, group, spool, prepared, step>>
    BY <1>6, Zenon DEF Join, Cancel
  <2>3. \A f \in Devices : PassReady(f)'
    BY <1>3, <2>2, Zenon DEF PassReady
  <2> QED BY <1>3, <2>1, <2>2, <2>3, StructureFrame, Zenon
<1>7. CASE \E d, e \in Devices : Approve(d, e)
  BY <1>7, StructureApprove, Zenon
<1>8. ASSUME NEW d \in Devices, NEW e \in Devices, Enroll(d, e) PROVE Structure'
  <2>1. /\ group[e] \in 1..Len(certs) /\ d \in certs[group[e]].members
        /\ Requeue(d, group[e]) /\ step[d] = "idle"
        /\ UNCHANGED <<changes, certs, history, record, receipts, group, spool, step, shown>>
        /\ joining' = [joining EXCEPT ![d] = FALSE]
    BY <1>2, <1>8, Zenon DEF Enroll
  <2>2. /\ pinned' \in [Devices -> 0..Len(certs)]
        /\ prepared' \in [Devices -> Packet \cup {None}]
        /\ pending' \in [Devices -> SUBSET Items]
        /\ \A f \in Devices :
             /\ pinned'[f] # 0 => f \in certs[pinned'[f]].members
             /\ prepared'[f] # None =>
                   Genuine(prepared'[f]) /\ Valid(prepared'[f], pinned'[f])
             /\ PassReady(f)'
    BY <2>1, RequeueFrame, Zenon
  <2>3. TypeOK'
    BY <1>1, <2>1, <2>2, Zenon DEF TypeOK
  <2> QED BY <1>3, <2>1, <2>2, <2>3, StructureFrame, Zenon
<1>9. ASSUME NEW d \in Devices, StartPass(d) PROVE Structure'
  <2>1. /\ step[d] = "idle" /\ pinned[d] # 0
        /\ step' = [step EXCEPT ![d] = IF PassGoesOn(d) THEN "publish" ELSE "idle"]
        /\ UNCHANGED <<changes, certs, history, record, receipts, spool, shown>>
    BY <1>9, Zenon DEF StartPass
  <2>2. /\ step' \in [Devices -> {"idle", "publish", "sealed", "stored", "apply"}]
        /\ \A f \in Devices \ {d} : step'[f] = step[f]
        /\ step'[d] \in {"idle", "publish"}
    BY <1>1, <2>1, Zenon DEF TypeOK
  <2>3. CASE UNCHANGED <<pinned, prepared, pending, joining>>
    <3>1. group' = group \/ group' = [group EXCEPT ![d] = pinned[d]]
      BY <1>9, <2>3, Zenon DEF StartPass
    <3>2. TypeOK'
      BY <1>1, <2>1, <2>2, <2>3, <3>1 DEF TypeOK
    <3>3. ASSUME NEW f \in Devices PROVE PassReady(f)'
      BY <1>3, <2>1, <2>2, <2>3, ZenonT(60) DEF PassReady
    <3>4. ASSUME NEW f \in Devices PROVE group'[f] # 0 => f \in certs[group'[f]].members
      BY <1>1, <1>3, <3>1, ZenonT(60) DEF TypeOK
    <3> QED BY <1>3, <2>1, <2>3, <3>2, <3>3, <3>4, StructureFrame, Zenon
  <2>4. CASE /\ group[d] # 0 /\ Requeue(d, group[d]) /\ UNCHANGED group
             /\ joining' = [joining EXCEPT ![d] = FALSE]
    <3>1. group[d] \in 1..Len(certs) /\ d \in certs[group[d]].members
      BY <1>2, <1>3, <2>4, Zenon
    <3>2. /\ pinned' \in [Devices -> 0..Len(certs)]
          /\ prepared' \in [Devices -> Packet \cup {None}]
          /\ pending' \in [Devices -> SUBSET Items]
          /\ \A f \in Devices :
               /\ pinned'[f] # 0 => f \in certs[pinned'[f]].members
               /\ prepared'[f] # None =>
                     Genuine(prepared'[f]) /\ Valid(prepared'[f], pinned'[f])
               /\ PassReady(f)'
      BY <2>1, <2>2, <2>4, <3>1, RequeueFrame, Zenon
    <3>3. TypeOK'
      BY <1>1, <2>1, <2>2, <2>4, <3>2, Zenon DEF TypeOK
    <3> QED BY <1>3, <2>1, <2>4, <3>2, <3>3, StructureFrame, Zenon
  <2> QED BY <1>9, <2>3, <2>4, Zenon DEF StartPass
<1>10. ASSUME NEW d \in Devices, Prepare(d) PROVE Structure'
  <2>1. /\ step[d] = "publish" /\ step' = [step EXCEPT ![d] = "sealed"]
        /\ UNCHANGED <<changes, certs, history, record, pending, receipts, pinned, joining,
                       group, spool, shown>>
    BY <1>10, Zenon DEF Prepare
  <2>2. pinned[d] \in 1..Len(certs) /\ pinned[d] \in 1..MaxCerts
    <3>1. pinned[d] # 0
      BY <1>3, <2>1, Zenon DEF PassReady
    <3>2. pinned[d] \in 0..Len(certs) /\ Len(certs) <= MaxCerts /\ certs \in Seq(Certificate)
      BY <1>1, Zenon DEF TypeOK
    <3> QED BY <3>1, <3>2, BoundAssumption
  <2>3. /\ prepared' \in [Devices -> Packet \cup {None}]
        /\ \A f \in Devices \ {d} : prepared'[f] = prepared[f]
        /\ prepared'[d] # None
        /\ Genuine(prepared'[d]) /\ Valid(prepared'[d], pinned[d])
    <3>1. CASE prepared[d] # None /\ UNCHANGED prepared
      BY <1>1, <1>3, <3>1, Zenon DEF TypeOK
    <3>2. ASSUME NEW i \in pending[d],
                 prepared' = [prepared EXCEPT ![d] =
                    [cert |-> pinned[d], author |-> d, item |-> i, history |-> Of(history[d], i)]]
          PROVE  /\ prepared' \in [Devices -> Packet \cup {None}]
                 /\ \A f \in Devices \ {d} : prepared'[f] = prepared[f]
                 /\ prepared'[d] # None
                 /\ Genuine(prepared'[d]) /\ Valid(prepared'[d], pinned[d])
      <4> DEFINE p == [cert |-> pinned[d], author |-> d, item |-> i,
                       history |-> Of(history[d], i)]
      <4>1. Of(history[d], i) \in SUBSET (1..Len(changes)) /\ i \in Items
        BY <1>1, Zenon DEF Of, TypeOK
      <4>2. Of(history[d], i) \in SUBSET (1..MaxChanges)
        BY <1>1, <4>1, BoundAssumption, SMTT(60) DEF TypeOK
      <4>3. p \in Packet
        BY <2>2, <4>1, <4>2, Zenon DEF Packet
      <4>4. Genuine(p)
        BY <4>1, Zenon DEF Genuine, Of
      <4>5. Valid(p, pinned[d])
        BY <1>3, <2>2 DEF Valid
      <4>6. prepared' = [prepared EXCEPT ![d] = p]
        BY <3>2, Zenon
      <4> HIDE DEF p
      <4> QED BY <1>1, <4>3, <4>4, <4>5, <4>6, NoneAssumption, Zenon DEF TypeOK
    <3> QED BY <1>10, <3>1, <3>2, Zenon DEF Prepare
  <2>4. TypeOK'
    BY <1>1, <2>1, <2>3, Zenon DEF TypeOK
  <2>5. ASSUME NEW f \in Devices PROVE PassReady(f)'
    BY <1>1, <1>3, <2>1, <2>2, <2>3, ZenonT(60) DEF PassReady, TypeOK
  <2> QED BY <1>3, <2>1, <2>3, <2>4, <2>5, StructureFrame, Zenon
<1>11. ASSUME NEW d \in Devices, Published(d) \/ Applied(d) \/ Stop(d) PROVE Structure'
  <2>1. /\ UNCHANGED <<changes, certs, worker, courier, shown>>
        /\ step[d] # "idle"
        /\ step' = [step EXCEPT ![d] = "apply"] \/ step' = [step EXCEPT ![d] = "idle"]
    BY <1>11, Zenon DEF Published, Applied, Stop
  <2>2. TypeOK'
    BY <1>1, <2>1, Zenon DEF TypeOK
  <2>3. ASSUME NEW f \in Devices PROVE PassReady(f)'
    BY <1>1, <1>3, <2>1 DEF PassReady, TypeOK
  <2> QED BY <1>3, <2>1, <2>2, <2>3, StructureFrame, Zenon
<1>12. ASSUME NEW d \in Devices, SpoolPut(d) PROVE Structure'
  <2>1. /\ step[d] = "sealed" /\ UNCHANGED <<changes, certs, worker, group, shown>>
        /\ \/ /\ spool' = [spool EXCEPT ![d] = @ \cup {prepared[d]}]
              /\ step' = [step EXCEPT ![d] = "stored"]
           \/ UNCHANGED spool /\ step' = [step EXCEPT ![d] = "idle"]
    BY <1>12, Zenon DEF SpoolPut
  <2>2. prepared[d] \in Packet /\ prepared[d] # None /\ pinned[d] # 0
    BY <1>1, <1>3, <2>1, ZenonT(60) DEF PassReady, TypeOK
  <2>3. TypeOK'
    <3>1. spool' \in [Devices -> SUBSET Packet]
      <4>1. spool \in [Devices -> SUBSET Packet]
        BY <1>1, Zenon DEF TypeOK
      <4>2. spool[d] \cup {prepared[d]} \in SUBSET Packet
        BY <2>2, <4>1, Zenon
      <4>3. spool' = spool \/ spool' = [spool EXCEPT ![d] = spool[d] \cup {prepared[d]}]
        BY <2>1, Zenon
      <4> QED BY <4>1, <4>2, <4>3, Zenon
    <3>2. step' \in [Devices -> {"idle", "publish", "sealed", "stored", "apply"}]
      BY <1>1, <2>1, Zenon DEF TypeOK
    <3> QED BY <1>1, <2>1, <3>1, <3>2, Zenon DEF TypeOK
  <2>4. ASSUME NEW f \in Devices
        PROVE  PassReady(f)' /\ \A packet \in spool'[f] : Genuine(packet)
    BY <1>1, <1>3, <2>1, <2>2 DEF PassReady, TypeOK
  <2> QED BY <1>3, <2>1, <2>3, <2>4, StructureFrame, Zenon
<1>13. ASSUME NEW d \in Devices, Stored(d) PROVE Structure'
  <2>1. /\ step[d] = "stored" /\ step' = [step EXCEPT ![d] = "publish"]
        /\ prepared' = [prepared EXCEPT ![d] = None]
        /\ pending' = [pending EXCEPT ![d] = IF Settled(d) THEN @ \ {prepared[d].item} ELSE @]
        /\ UNCHANGED <<changes, certs, history, record, receipts, pinned, joining, group,
                       spool, shown>>
    BY <1>13, Zenon DEF Stored
  <2>2. pending' \in [Devices -> SUBSET Items]
    BY <1>1, <2>1, ZenonT(60) DEF TypeOK
  <2>3. TypeOK'
    BY <1>1, <2>1, <2>2, Zenon DEF TypeOK
  <2>4. ASSUME NEW f \in Devices
        PROVE  /\ PassReady(f)'
               /\ prepared'[f] # None =>
                     Genuine(prepared'[f]) /\ Valid(prepared'[f], pinned'[f])
    BY <1>1, <1>3, <2>1, Zenon DEF PassReady, TypeOK
  <2> QED BY <1>3, <2>1, <2>3, <2>4, StructureFrame, Zenon
<1>14. ASSUME NEW d \in Devices, NEW packet \in spool[d], Receive(d, packet) PROVE Structure'
  <2> DEFINE merged == history[d] \cup packet.history
             i == packet.item
  <2>1. /\ history' = [history EXCEPT ![d] = merged]
        /\ receipts' = [receipts EXCEPT ![d] = @ \cup {packet}]
        /\ pending' = [pending EXCEPT ![d] = IF Carries(packet, merged) THEN @ \ {i} ELSE @]
        /\ \/ UNCHANGED record
           \/ \E value \in Show(packet, merged) : record' = [record EXCEPT ![d][i] = value]
        /\ UNCHANGED <<changes, certs, prepared, pinned, joining, group, spool, step, shown>>
    BY <1>14, Zenon DEF Receive
  <2>2. packet \in Packet /\ i \in Items /\ merged \in SUBSET (1..Len(changes))
    BY <1>1, <1>3, SMTT(30) DEF TypeOK, Packet, Genuine
  <2>3. \A value \in Show(packet, merged) : value \in Values \cup {Deleted}
    <3>1. \A k \in merged : changes[k].value \in Values \cup {Deleted, Kept}
      <4>1. \A k \in 1..Len(changes) : changes[k] \in Change
        BY <1>1 DEF TypeOK
      <4> QED BY <2>2, <4>1, Zenon DEF Change
    <3>2. ValuesOf(Of(merged, i)) \subseteq Values \cup {Deleted}
      BY <3>1, Zenon DEF ValuesOf, Assignments, Of
    <3> QED BY <3>2, Zenon DEF Show, Materialized
  <2>4. record' \in [Devices -> [Items -> Values \cup {Deleted}]]
    <3>1. CASE UNCHANGED record
      BY <1>1, <3>1, Zenon DEF TypeOK
    <3>2. ASSUME NEW value \in Values \cup {Deleted},
                 record' = [record EXCEPT ![d][i] = value]
          PROVE  record' \in [Devices -> [Items -> Values \cup {Deleted}]]
      BY <1>1, <2>2, <3>2, Zenon DEF TypeOK
    <3> QED BY <2>1, <2>3, <3>1, <3>2, Zenon
  <2>5. pending' \in [Devices -> SUBSET Items]
    BY <1>1, <2>1, ZenonT(60) DEF TypeOK
  <2>6. history' \in [Devices -> SUBSET (1..Len(changes))]
    BY <1>1, <2>1, <2>2, Zenon DEF TypeOK
  <2>7. receipts' \in [Devices -> SUBSET Packet]
    BY <1>1, <2>1, <2>2, ZenonT(60) DEF TypeOK
  <2>8. TypeOK'
    BY <1>1, <2>1, <2>4, <2>5, <2>6, <2>7, Zenon DEF TypeOK
  <2>9. ASSUME NEW f \in Devices PROVE PassReady(f)'
    BY <1>3, <2>1, Zenon DEF PassReady
  <2> QED BY <1>3, <2>1, <2>8, <2>9, StructureFrame, Zenon
<1>15. ASSUME NEW d \in Devices, NEW e \in Devices, CatchUp(d, e) PROVE Structure'
  <2>1. /\ group[e] \in 1..Len(certs) /\ d \in certs[group[e]].members
        /\ group' = [group EXCEPT ![d] = group[e]]
        /\ UNCHANGED <<changes, certs, worker, spool, step, shown>>
    BY <1>2, <1>15, Zenon DEF CatchUp
  <2>2. TypeOK'
    BY <1>1, <2>1, Zenon DEF TypeOK
  <2>3. ASSUME NEW f \in Devices
        PROVE  PassReady(f)' /\ (group'[f] # 0 => f \in certs[group'[f]].members)
    BY <1>1, <1>3, <2>1, ZenonT(60) DEF PassReady, TypeOK
  <2> QED BY <1>3, <2>1, <2>2, <2>3, StructureFrame, Zenon
<1>16. ASSUME NEW d \in Devices, NEW e \in Devices, NEW packet \in spool[e], Pull(d, e, packet)
       PROVE  Structure'
  <2>1. /\ spool' = [spool EXCEPT ![d] = @ \cup {packet}]
        /\ UNCHANGED <<changes, certs, worker, group, step, shown>>
    BY <1>16, Zenon DEF Pull
  <2>2. packet \in Packet
    BY <1>1, Zenon DEF TypeOK
  <2>3. TypeOK'
    BY <1>1, <2>1, <2>2, ZenonT(60) DEF TypeOK
  <2>4. ASSUME NEW f \in Devices
        PROVE  PassReady(f)' /\ \A p \in spool'[f] : Genuine(p)
    BY <1>1, <1>3, <2>1, ZenonT(60) DEF PassReady, TypeOK
  <2> QED BY <1>3, <2>1, <2>3, <2>4, StructureFrame, Zenon
<1>17. CASE UNCHANGED vars
  <2>1. UNCHANGED <<changes, certs, history, record, pending, prepared, receipts, pinned,
                    joining, group, spool, step, shown>>
    BY <1>17, Zenon DEF vars
  <2>2. TypeOK'
    BY <1>1, <2>1, Zenon DEF TypeOK
  <2>3. ASSUME NEW f \in Devices PROVE PassReady(f)'
    BY <1>3, <2>1, Zenon DEF PassReady
  <2> QED BY <1>3, <2>1, <2>2, <2>3, StructureFrame, Zenon
<1> QED
  BY <1>4, <1>5, <1>6, <1>7, <1>8, <1>9, <1>10, <1>11, <1>12, <1>13, <1>14, <1>15, <1>16,
     <1>17, Zenon DEF Next

\* Structure, and with it the type invariant and PreparedIsCurrent, always holds.
LEMMA StructureHolds == Spec => []Structure
<1>1. Init => Structure
  BY StructureInit, Zenon
<1>2. Structure /\ [Next]_vars => Structure'
  BY StructureNext, Zenon
<1> QED BY <1>1, <1>2, PTL DEF Spec

\* Worker, courier and pass keep the types of their state, within every limit.
THEOREM TypeCorrect == Spec => []TypeOK
<1>1. Structure => TypeOK
  BY Zenon DEF Structure
<1> QED BY <1>1, StructureHolds, PTL

\* What SyncCommand::Prepare keeps is always sealed for the pinned membership.
THEOREM PreparedStaysCurrent == Spec => []PreparedIsCurrent
<1>1. Structure => PreparedIsCurrent
  BY Zenon DEF Structure
<1> QED BY <1>1, StructureHolds, PTL

-----------------------------------------------------------------------------
(* What follows from Structure for single steps. *)

\* A step leaves the items of changes that were made, and certificates.
LEMMA OnlyGrows ==
    ASSUME Structure, [Next]_vars
    PROVE  /\ \A k \in 1..Len(changes) : k \in 1..Len(changes') /\ changes'[k] = changes[k]
           /\ \A k \in 1..Len(certs) : k \in 1..Len(certs') /\ certs'[k] = certs[k]
<1>1. TypeOK /\ Len(changes) \in Nat /\ Len(certs) \in Nat
  BY DEF Structure, TypeOK
<1>2. ASSUME NEW d \in Devices, NEW i \in Items, NEW v \in Values \cup {Deleted},
             Edit(d, i, v) \/ Resolve(d, i, v)
      PROVE  /\ \A k \in 1..Len(changes) : k \in 1..Len(changes') /\ changes'[k] = changes[k]
             /\ certs' = certs
  <2>1. PICK over \in SUBSET Of(history[d], i), change \in Values \cup {Deleted, Kept} :
           Commit(d, i, over, change, v)
    BY <1>1, <1>2, LocalChange, Zenon
  <2>2. over \in SUBSET (1..Len(changes))
    BY <1>1, Zenon DEF Of, TypeOK
  <2>3. /\ Len(changes') = Len(changes) + 1
        /\ \A k \in 1..Len(changes) : changes'[k] = changes[k]
    BY <1>1, <2>1, <2>2, CommitGrows, Zenon
  <2> QED BY <1>1, <2>1, <2>3 DEF Commit
<1>3. ASSUME NEW d \in Devices, NEW e \in Devices, Approve(d, e)
      PROVE  /\ \A k \in 1..Len(certs) : k \in 1..Len(certs') /\ certs'[k] = certs[k]
             /\ changes' = changes
  <2>1. /\ Len(certs') = Len(certs) + 1
        /\ \A k \in 1..Len(certs) : certs'[k] = certs[k]
    BY <1>1, <1>3, ApproveGrows, Zenon
  <2> QED BY <1>1, <1>3, <2>1 DEF Approve
<1>4. CASE UNCHANGED <<changes, certs>>
  BY <1>4, Zenon
<1>5. \/ \E d \in Devices, i \in Items, v \in Values \cup {Deleted} :
            Edit(d, i, v) \/ Resolve(d, i, v)
      \/ \E d, e \in Devices : Approve(d, e)
      \/ UNCHANGED <<changes, certs>>
  BY Zenon DEF Next, vars, Review, Join, Cancel, Enroll, StartPass, Prepare, Published, SpoolPut,
         Stored, Receive, Applied, Stop, CatchUp, Pull
<1> QED BY <1>2, <1>3, <1>4, <1>5, ZenonT(60)

\* A device whose history stays the same knows the same changes of an item.
LEMMA SameChanges ==
    ASSUME Structure, [Next]_vars, NEW d \in Devices, NEW i \in Items, history'[d] = history[d]
    PROVE  Of(history[d], i)' = Of(history[d], i)
<1>1. history[d] \subseteq 1..Len(changes)
  BY Zenon DEF Structure, TypeOK
<1>2. \A k \in history[d] : changes'[k] = changes[k]
  BY <1>1, OnlyGrows, Zenon
<1> QED BY <1>2, Zenon DEF Of

\* Neither half of a device leaves its line of memberships, whatever the order of
\* approvals, passes and exchanges: accept_extension guards all of them.
THEOREM MembershipsAdvance == Spec => MembershipsMoveForward
<1>1. Structure /\ [Next]_vars => [MovesForward]_vars
  <2> SUFFICES ASSUME Structure, Next PROVE MovesForward
    BY Zenon
  <2>1. /\ TypeOK
        /\ \A k \in 1..Len(certs) : k \in certs[k].line
        /\ \A k \in 1..Len(certs) : certs'[k] = certs[k]
    BY OnlyGrows, Zenon DEF Structure
  <2>2. \A f \in Devices : /\ pinned[f] # 0 => pinned[f] \in 1..Len(certs)
                           /\ group[f] # 0 => group[f] \in 1..Len(certs)
    BY <2>1 DEF TypeOK
  <2>3. CASE UNCHANGED <<pinned, group>>
    BY <2>1, <2>2, <2>3, Zenon DEF MovesForward
  <2>4. ASSUME NEW d \in Devices, NEW e \in Devices, Approve(d, e) PROVE MovesForward
    <3>1. /\ certs'[Len(certs) + 1].line = certs[pinned[d]].line \cup {Len(certs) + 1}
          /\ pinned' = [pinned EXCEPT ![d] = Len(certs) + 1]
          /\ UNCHANGED group /\ Len(certs) + 1 # 0
      <4>1. certs'[Len(certs) + 1].line = certs[pinned[d]].line \cup {Len(certs) + 1}
        BY <2>1, <2>4, ApproveGrows, Zenon
      <4>2. pinned' = [pinned EXCEPT ![d] = Len(certs) + 1] /\ UNCHANGED group
        BY <2>4, Zenon DEF Approve, Requeue, courier
      <4>3. Len(certs) \in Nat
        BY <2>1 DEF TypeOK
      <4> QED BY <4>1, <4>2, <4>3
    <3>2. ASSUME NEW f \in Devices, pinned[f] # 0
          PROVE  pinned'[f] # 0 /\ pinned[f] \in certs'[pinned'[f]].line
      <4>1. CASE f = d
        BY <2>1, <2>2, <3>1, <3>2, <4>1, Zenon DEF TypeOK
      <4>2. CASE f # d
        BY <2>1, <2>2, <3>1, <3>2, <4>2, Zenon DEF TypeOK
      <4> QED BY <4>1, <4>2, Zenon
    <3> QED BY <2>1, <2>2, <3>1, <3>2, Zenon DEF MovesForward
  <2>5. ASSUME NEW d \in Devices, NEW e \in Devices, Enroll(d, e) PROVE MovesForward
    BY <2>1, <2>2, <2>5, ZenonT(60) DEF Enroll, Requeue, courier, MovesForward, TypeOK
  <2>6. ASSUME NEW d \in Devices, StartPass(d) PROVE MovesForward
    <3>1. /\ pinned[d] # 0 /\ UNCHANGED certs
          /\ \/ UNCHANGED <<pinned, group>>
             \/ /\ group[d] # 0 /\ pinned[d] \in certs[group[d]].line
                /\ pinned' = [pinned EXCEPT ![d] = group[d]] /\ UNCHANGED group
             \/ /\ group[d] # 0 => group[d] \in certs[pinned[d]].line
                /\ group' = [group EXCEPT ![d] = pinned[d]] /\ UNCHANGED pinned
      BY <2>6, Zenon DEF StartPass, Requeue, Accepts
    <3>2. pinned \in [Devices -> 0..Len(certs)] /\ group \in [Devices -> 0..Len(certs)]
      BY <2>1, Zenon DEF TypeOK
    <3>3. CASE pinned' = [pinned EXCEPT ![d] = group[d]] /\ UNCHANGED group /\ group[d] # 0
               /\ pinned[d] \in certs[group[d]].line
      BY <2>1, <2>2, <3>1, <3>2, <3>3, Zenon DEF MovesForward
    <3>4. CASE /\ group' = [group EXCEPT ![d] = pinned[d]] /\ UNCHANGED pinned
               /\ group[d] # 0 => group[d] \in certs[pinned[d]].line
      BY <2>1, <2>2, <3>1, <3>2, <3>4, Zenon DEF MovesForward
    <3> QED BY <2>3, <3>1, <3>3, <3>4, Zenon
  <2>7. ASSUME NEW d \in Devices, NEW e \in Devices, CatchUp(d, e) PROVE MovesForward
    BY <2>1, <2>2, <2>7, Zenon DEF CatchUp, Accepts, worker, MovesForward, TypeOK
  <2>8. ASSUME NEW d \in Devices, NEW i \in Items, NEW v \in Values \cup {Deleted},
               Edit(d, i, v) \/ Resolve(d, i, v)
        PROVE  UNCHANGED <<pinned, group>>
    BY <2>1, <2>8, LocalChange, Zenon DEF Commit, courier
  <2>9. \/ \E d, e \in Devices : Approve(d, e) \/ Enroll(d, e) \/ CatchUp(d, e)
        \/ \E d \in Devices : StartPass(d)
        \/ UNCHANGED <<pinned, group>>
    BY <2>8, Zenon DEF Next, Review, Join, Cancel, Prepare, Published, SpoolPut, Stored, Receive,
                Applied, Stop, Pull, worker, courier
  <2> QED BY <2>3, <2>4, <2>5, <2>6, <2>7, <2>9, Zenon
<1> QED BY <1>1, StructureHolds, PTL DEF Spec, MembershipsMoveForward

=============================================================================
