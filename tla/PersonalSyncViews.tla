------------------------- MODULE PersonalSyncViews --------------------------
(***************************************************************************)
(* Three properties of PersonalSync, proved for every instance from the    *)
(* Structure of PersonalSyncProofs.  NothingUnpublished: each of the ways  *)
(* to clear the mark of an item, and each way to change what a device      *)
(* knows or who may read, keeps every item marked or covered by packets.   *)
(* RecordMatchesHistory and ResolutionsAreInformed: a local change leaves  *)
(* one assignment, a merge shows a value of the merged history, and        *)
(* nothing else touches record or history.                                 *)
(***************************************************************************)
EXTENDS PersonalSyncProofs

-----------------------------------------------------------------------------
(* What is published.                                                      *)

\* An item is covered on a device: marked as pending, or in readable packets of
\* its own spool.
Covered(d, i) ==
    i \notin pending[d] =>
        \A k \in Of(history[d], i) :
            \E packet \in spool[d] : Valid(packet, pinned[d]) /\ k \in packet.history

\* A step keeps an item covered that it neither marks anew nor extends.
LEMMA CoveredFrame ==
    ASSUME Structure, [Next]_vars, NEW d \in Devices, NEW i \in Items, Covered(d, i),
           pinned'[d] = pinned[d], spool[d] \subseteq spool'[d],
           i \notin pending'[d] => i \notin pending[d] /\ Of(history[d], i)' = Of(history[d], i)
    PROVE  Covered(d, i)'
<1>1. ASSUME NEW packet, Valid(packet, pinned[d]) PROVE Valid(packet, pinned[d])'
  <2>1. pinned[d] \in 1..Len(certs)
    BY <1>1 DEF Structure, TypeOK, Valid
  <2>2. certs'[pinned[d]] = certs[pinned[d]]
    BY <2>1, OnlyGrows, Zenon
  <2> QED BY <1>1, <2>2, Zenon DEF Valid
<1> QED BY <1>1, Zenon DEF Covered

\* After a change of membership (SyncCommand::Pairing) every item with a history
\* is marked.
LEMMA CoveredRequeue ==
    ASSUME Structure, [Next]_vars, NEW d \in Devices, NEW cert, Requeue(d, cert),
           UNCHANGED history, NEW i \in Items
    PROVE  Covered(d, i)'
<1>1. Of(history[d], i)' = Of(history[d], i)
  BY SameChanges, Zenon
<1>2. pending'[d] = {j \in Items : Of(history[d], j) # {}}
  BY Zenon DEF Requeue, Structure, TypeOK
<1> QED BY <1>1, <1>2, Zenon DEF Covered

\* SyncCommand::Stored clears the mark of an item all of whose changes are in the
\* packet the spool holds.
LEMMA CoveredStored ==
    ASSUME Structure, [Next]_vars, NEW d \in Devices, Stored(d), NEW i \in Items, Covered(d, i)
    PROVE  Covered(d, i)'
<1>1. /\ pending' = [pending EXCEPT ![d] = IF Settled(d) THEN @ \ {prepared[d].item} ELSE @]
      /\ step[d] = "stored" /\ UNCHANGED <<changes, certs, history, pinned, spool>>
  BY Zenon DEF Stored, courier
<1>2. Of(history[d], i)' = Of(history[d], i)
  BY <1>1, SameChanges, Zenon
<1>3. CASE i \in pending[d] /\ i \notin pending'[d]
  <2>1. Settled(d) /\ i = prepared[d].item
    BY <1>1, <1>3, Zenon DEF Structure, TypeOK
  <2>2. prepared[d] \in spool[d] /\ Valid(prepared[d], pinned[d])
    BY <1>1, Zenon DEF Structure, PassReady, PreparedIsCurrent
  <2>3. Of(history[d], i) = prepared[d].history
    BY <2>1, Zenon DEF Settled
  <2> QED BY <1>1, <1>2, <2>2, <2>3, Zenon DEF Covered, Valid
<1>4. CASE ~(i \in pending[d] /\ i \notin pending'[d])
  BY <1>1, <1>2, <1>4, CoveredFrame, Zenon
<1> QED BY <1>3, <1>4, Zenon

\* SyncCommand::Receive adds only what the packet holds, and clears the mark only
\* when the packet holds everything known of the item.
LEMMA CoveredReceive ==
    ASSUME Structure, [Next]_vars, NEW d \in Devices, NEW packet \in spool[d],
           Receive(d, packet), NEW i \in Items, Covered(d, i)
    PROVE  Covered(d, i)'
<1> DEFINE merged == history[d] \cup packet.history
<1>1. /\ history' = [history EXCEPT ![d] = merged]
      /\ pending' = [pending EXCEPT ![d] =
                        IF Carries(packet, merged) THEN @ \ {packet.item} ELSE @]
      /\ Valid(packet, pinned[d]) /\ UNCHANGED <<changes, certs, pinned, spool>>
  BY Zenon DEF Receive, Receivable, courier
<1>2. history'[d] = merged /\ Genuine(packet)
  BY <1>1, Zenon DEF Structure, TypeOK
<1>3. pending'[d] = IF Carries(packet, merged) THEN pending[d] \ {packet.item} ELSE pending[d]
  BY <1>1, Zenon DEF Structure, TypeOK
<1>4. Of(history[d], i)' = Of(merged, i)
  BY <1>1, <1>2, Zenon DEF Of
<1>5. CASE i # packet.item
  <2>1. Of(merged, i) = Of(history[d], i)
    BY <1>2, <1>5, Zenon DEF Of, Genuine
  <2>2. i \notin pending'[d] => i \notin pending[d]
    BY <1>3, <1>5, Zenon
  <2>3. pinned'[d] = pinned[d] /\ spool[d] \subseteq spool'[d]
    BY <1>1, Zenon
  <2>4. Of(history[d], i)' = Of(history[d], i)
    BY <1>4, <2>1, Zenon
  <2> HIDE DEF merged
  <2> QED BY <2>2, <2>3, <2>4, CoveredFrame, Zenon
<1>6. CASE i = packet.item /\ i \notin pending'[d] /\ Carries(packet, merged)
  BY <1>1, <1>4, <1>6, Zenon DEF Carries, Covered, Valid
<1>7. CASE i = packet.item /\ i \notin pending'[d] /\ ~Carries(packet, merged)
  <2>1. i \notin pending[d]
    BY <1>3, <1>7, Zenon
  <2>2. ASSUME NEW k \in Of(merged, i)
        PROVE  \E p \in spool[d] : Valid(p, pinned[d]) /\ k \in p.history
    BY <1>1, <2>1, Zenon DEF Covered, Of
  <2> QED BY <1>1, <1>4, <2>2, Zenon DEF Covered, Valid
<1>8. CASE i \in pending'[d]
  BY <1>8, Zenon DEF Covered
<1> QED BY <1>5, <1>6, <1>7, <1>8, Zenon

\* Every step keeps every item covered.
LEMMA CoveredNext ==
    ASSUME Structure, [Next]_vars, NEW f \in Devices, NEW j \in Items, Covered(f, j)
    PROVE  Covered(f, j)'
<1> USE DEF worker, courier
<1>1. TypeOK
  BY Zenon DEF Structure
<1>2. ASSUME NEW d \in Devices, NEW i \in Items, NEW v \in Values \cup {Deleted},
             Edit(d, i, v) \/ Resolve(d, i, v)
      PROVE  Covered(f, j)'
  <2>1. PICK over \in SUBSET Of(history[d], i), change \in Values \cup {Deleted, Kept} :
           Commit(d, i, over, change, v)
    BY <1>1, <1>2, LocalChange, Zenon
  <2>2. over \in SUBSET (1..Len(changes))
    BY <1>1, Zenon DEF Of, TypeOK
  <2>3. /\ changes'[Len(changes) + 1] = [item |-> i, over |-> over, value |-> change]
        /\ \A k \in 1..Len(changes) : changes'[k] = changes[k]
    BY <1>1, <2>1, <2>2, CommitGrows, Zenon
  <2>4. /\ history' = [history EXCEPT ![d] = @ \cup {Len(changes) + 1}]
        /\ pending' = [pending EXCEPT ![d] = @ \cup {i}]
        /\ UNCHANGED <<pinned, spool>>
    BY <2>1, Zenon DEF Commit
  <2>5. CASE f = d /\ j = i
    BY <1>1, <2>4, <2>5, ZenonT(60) DEF Covered, TypeOK
  <2>6. CASE f = d /\ j # i
    <3>1. history'[f] = history[f] \cup {Len(changes) + 1} /\ history[f] \subseteq 1..Len(changes)
      BY <1>1, <2>4, <2>6, Zenon DEF TypeOK
    <3>2. Of(history[f], j)' = Of(history[f], j)
      BY <2>3, <2>6, <3>1 DEF Of
    <3>3. j \notin pending'[f] => j \notin pending[f]
      BY <1>1, <2>4, <2>6, Zenon DEF TypeOK
    <3> QED BY <2>4, <3>2, <3>3, CoveredFrame, Zenon
  <2>7. CASE f # d
    <3>1. history'[f] = history[f] /\ pending'[f] = pending[f]
      BY <1>1, <2>4, <2>7, Zenon DEF TypeOK
    <3> QED BY <2>4, <3>1, SameChanges, CoveredFrame, Zenon
  <2> QED BY <2>5, <2>6, <2>7, Zenon
<1>3. ASSUME NEW d \in Devices, NEW cert, Requeue(d, cert), UNCHANGED <<history, spool>>
      PROVE  Covered(f, j)'
  <2>1. CASE f = d
    BY <1>3, <2>1, CoveredRequeue, Zenon
  <2>2. CASE f # d
    <3>1. history'[f] = history[f] /\ pending'[f] = pending[f] /\ pinned'[f] = pinned[f]
      BY <1>1, <1>3, <2>2, Zenon DEF Requeue, TypeOK
    <3> QED BY <1>3, <3>1, SameChanges, CoveredFrame, Zenon
  <2> QED BY <2>1, <2>2, Zenon
<1>4. ASSUME NEW d \in Devices, NEW e \in Devices, Approve(d, e) \/ Enroll(d, e)
      PROVE  Covered(f, j)'
  BY <1>3, <1>4, Zenon DEF Approve, Enroll
<1>5. ASSUME NEW d \in Devices, Stored(d) PROVE Covered(f, j)'
  <2>1. CASE f = d
    BY <1>5, <2>1, CoveredStored, Zenon
  <2>2. CASE f # d
    <3>1. history' = history /\ pending'[f] = pending[f] /\ UNCHANGED <<pinned, spool>>
      BY <1>1, <1>5, <2>2, Zenon DEF Stored, TypeOK
    <3> QED BY <3>1, SameChanges, CoveredFrame, Zenon
  <2> QED BY <2>1, <2>2, Zenon
<1>6. ASSUME NEW d \in Devices, NEW packet \in spool[d], Receive(d, packet)
      PROVE  Covered(f, j)'
  <2>1. CASE f = d
    BY <1>6, <2>1, CoveredReceive, Zenon
  <2>2. CASE f # d
    <3>1. history'[f] = history[f] /\ pending'[f] = pending[f] /\ UNCHANGED <<pinned, spool>>
      BY <1>1, <1>6, <2>2, Zenon DEF Receive, TypeOK
    <3> QED BY <3>1, SameChanges, CoveredFrame, Zenon
  <2> QED BY <2>1, <2>2, Zenon
<1>7. CASE UNCHANGED <<history, pending, pinned>> /\ spool[f] \subseteq spool'[f]
  BY <1>7, SameChanges, CoveredFrame, Zenon
<1>8. ASSUME NEW d \in Devices, StartPass(d) PROVE Covered(f, j)'
  <2>1. CASE UNCHANGED <<pending, pinned>>
    <3>1. UNCHANGED <<history, spool>>
      BY <1>8, Zenon DEF StartPass
    <3> QED BY <1>7, <2>1, <3>1, Zenon
  <2>2. CASE Requeue(d, group[d])
    BY <1>3, <1>8, <2>2, Zenon DEF StartPass
  <2> QED BY <1>8, <2>1, <2>2, Zenon DEF StartPass
<1>9. ASSUME NEW d \in Devices,
             SpoolPut(d) \/ \E e \in Devices : \E packet \in spool[e] : Pull(d, e, packet)
      PROVE  UNCHANGED <<history, pending, pinned>> /\ spool[f] \subseteq spool'[f]
  <2>1. \/ UNCHANGED spool
        \/ \E p : spool' = [spool EXCEPT ![d] = @ \cup {p}]
    BY <1>9, Zenon DEF SpoolPut, Pull
  <2>2. spool[f] \subseteq spool'[f]
    <3>1. spool \in [Devices -> SUBSET Packet]
      BY <1>1, Zenon DEF TypeOK
    <3>2. CASE UNCHANGED spool
      BY <3>2, Zenon
    <3>3. ASSUME NEW p, spool' = [spool EXCEPT ![d] = @ \cup {p}]
          PROVE  spool[f] \subseteq spool'[f]
      BY <3>1, <3>3, Zenon
    <3> QED BY <2>1, <3>2, <3>3, Zenon
  <2> QED BY <1>9, <2>2, Zenon DEF SpoolPut, Pull
<1>10. \/ \E d \in Devices, i \in Items, v \in Values \cup {Deleted} :
            Edit(d, i, v) \/ Resolve(d, i, v)
       \/ \E d, e \in Devices : Approve(d, e) \/ Enroll(d, e)
       \/ \E d \in Devices : StartPass(d) \/ Stored(d) \/ SpoolPut(d)
       \/ \E d \in Devices : \E packet \in spool[d] : Receive(d, packet)
       \/ \E d, e \in Devices : \E packet \in spool[e] : Pull(d, e, packet)
       \/ UNCHANGED <<history, pending, pinned, spool>>
  BY Zenon DEF Next, vars, Review, Join, Cancel, Prepare, Published, Applied, Stop, CatchUp
<1> QED BY <1>2, <1>4, <1>5, <1>6, <1>7, <1>8, <1>9, <1>10, ZenonT(60)

\* No device ever forgets to publish: an item that is not marked as pending has
\* all its known changes in packets the current readers can open.
THEOREM NothingStaysUnpublished == Spec => []NothingUnpublished
<1> DEFINE AllCovered == \A d \in Devices, i \in Items : Covered(d, i)
<1>1. Init => AllCovered
  BY Zenon DEF Init, Covered, Of
<1>2. Structure /\ AllCovered /\ [Next]_vars => AllCovered'
  <2> SUFFICES ASSUME Structure, AllCovered, [Next]_vars PROVE AllCovered'
    BY Zenon
  <2>1. ASSUME NEW d \in Devices, NEW i \in Items PROVE Covered(d, i)'
    BY CoveredNext, Zenon
  <2> QED BY <2>1, Zenon
<1>3. AllCovered => NothingUnpublished
  BY Zenon DEF Covered, NothingUnpublished
<1> HIDE DEF AllCovered
<1> QED BY <1>1, <1>2, <1>3, StructureHolds, PTL DEF Spec

-----------------------------------------------------------------------------
(* What is read.                                                           *)

Matches(d, i) == record[d][i] \in Materialized(ValuesOf(Of(history[d], i)))

\* The assignments of a set of changes are what they were before a step.
LEMMA SameValues ==
    ASSUME Structure, [Next]_vars, NEW set \in SUBSET (1..Len(changes))
    PROVE  ValuesOf(set)' = ValuesOf(set)
<1>1. \A k \in set : changes'[k] = changes[k]
  BY OnlyGrows, Zenon
<1>2. Assignments(set)' = Assignments(set)
  BY <1>1, Zenon DEF Assignments
<1>3. \A k \in Assignments(set) : changes'[k] = changes[k]
  BY <1>1, Zenon DEF Assignments
<1> QED BY <1>2, <1>3, Zenon DEF ValuesOf

\* A step that changes neither history nor record keeps them together.
LEMMA MatchesFrame ==
    ASSUME Structure, [Next]_vars, NEW d \in Devices, NEW i \in Items, Matches(d, i),
           Of(history[d], i)' = Of(history[d], i), record'[d][i] = record[d][i]
    PROVE  Matches(d, i)'
<1>1. Of(history[d], i) \in SUBSET (1..Len(changes))
  BY Zenon DEF Of, Structure, TypeOK
<1>2. ValuesOf(Of(history[d], i))' = ValuesOf(Of(history[d], i))
  BY <1>1, SameValues, Zenon
<1> QED BY <1>2, Zenon DEF Matches, Materialized

\* A local change leaves one assignment: the change itself, or the winner when it
\* only removes the losers (PersonalReplica::set).
LEMMA MatchesCommit ==
    ASSUME Structure, NEW d \in Devices, NEW i \in Items, NEW v \in Values \cup {Deleted},
           Edit(d, i, v) \/ Resolve(d, i, v)
    PROVE  Matches(d, i)'
<1> DEFINE known == Of(history[d], i)
           new == Len(changes) + 1
<1>1. TypeOK /\ Len(changes) \in Nat
  BY SMTT(60) DEF Structure, TypeOK
<1>2. /\ known \in SUBSET (1..Len(changes)) /\ Assignments(known) \subseteq known
      /\ history[d] \in SUBSET (1..Len(changes))
  BY <1>1, Zenon DEF Of, Assignments, TypeOK
<1>3. \A k \in known : changes[k].over \subseteq 1..Len(changes)
  BY <1>2, Zenon DEF Structure
<1>4. new \notin 1..Len(changes)
  BY <1>1
<1>5. v # Kept
  BY MarkerAssumption, Zenon
<1>6. ASSUME NEW over \in SUBSET Assignments(known), NEW change \in Values \cup {Deleted, Kept},
             Commit(d, i, over, change, v)
      PROVE  /\ record'[d][i] = v
             /\ Of(history[d], i)' = known \cup {new}
             /\ \A k \in known : changes'[k] = changes[k]
             /\ changes'[new] = [item |-> i, over |-> over, value |-> change]
  <2>1. /\ changes'[new] = [item |-> i, over |-> over, value |-> change]
        /\ \A k \in 1..Len(changes) : changes'[k] = changes[k]
    BY <1>1, <1>2, <1>6, CommitGrows
  <2>2. history'[d] = history[d] \cup {new} /\ record'[d][i] = v
    BY <1>1, <1>6, Zenon DEF Commit, TypeOK
  <2>3. Of(history[d], i)' = known \cup {new}
    BY <1>2, <2>1, <2>2 DEF Of
  <2> QED BY <1>2, <2>1, <2>2, <2>3, Zenon
<1>7. CASE Commit(d, i, Assignments(known), v, v)
  <2>1. /\ record'[d][i] = v
        /\ Of(history[d], i)' = known \cup {new}
        /\ \A k \in known : changes'[k] = changes[k]
        /\ changes'[new] = [item |-> i, over |-> Assignments(known), value |-> v]
    BY <1>6, <1>7, ZenonT(60)
  <2>2. changes'[new].over = Assignments(known) /\ changes'[new].value = v
    BY <2>1
  <2>3. Assignments(Of(history[d], i))' = {new}
    <3> HIDE DEF known, new
    <3>1. Assignments(Of(history[d], i))' =
             {k \in known \cup {new} : /\ changes'[k].value # Kept
                                       /\ \A e \in known \cup {new} : k \notin changes'[e].over}
      BY <2>1, Zenon DEF Assignments
    <3>2. changes'[new].value # Kept /\ \A e \in known \cup {new} : new \notin changes'[e].over
      BY <1>2, <1>3, <1>4, <1>5, <2>1, <2>2, ZenonT(60)
    <3>3. ASSUME NEW k \in known, changes'[k].value # Kept
          PROVE  \E e \in known \cup {new} : k \in changes'[e].over
      BY <2>1, <2>2, <3>3, Zenon DEF Assignments
    <3> QED BY <3>1, <3>2, <3>3, Zenon
  <2>4. ValuesOf(Of(history[d], i))' = {v}
    BY <2>2, <2>3, Zenon DEF ValuesOf
  <2> QED BY <2>1, <2>4, Zenon DEF Matches, Materialized
<1>8. ASSUME NEW winner \in Assignments(known), changes[winner].value = v,
             Commit(d, i, Assignments(known) \ {winner}, Kept, v)
      PROVE  Matches(d, i)'
  <2>1. /\ record'[d][i] = v
        /\ Of(history[d], i)' = known \cup {new}
        /\ \A k \in known : changes'[k] = changes[k]
        /\ changes'[new] = [item |-> i, over |-> Assignments(known) \ {winner}, value |-> Kept]
    BY <1>6, <1>8, Zenon
  <2>2. changes'[new].over = Assignments(known) \ {winner} /\ changes'[new].value = Kept
    BY <2>1
  <2>3. winner \in known /\ changes'[winner] = changes[winner]
    BY <1>2, <2>1, Zenon
  <2>4. Assignments(Of(history[d], i))' = {winner}
    <3> HIDE DEF known, new
    <3> QED BY <1>2, <1>3, <1>4, <1>8, <2>1, <2>2, <2>3 DEF Assignments
  <2>5. ValuesOf(Of(history[d], i))' = {v}
    BY <1>8, <2>3, <2>4, Zenon DEF ValuesOf
  <2> QED BY <2>1, <2>5, Zenon DEF Matches, Materialized
<1> QED BY <1>7, <1>8, Zenon DEF Edit, Resolve

\* A merge (receive_personal) shows a value of the merged history, whenever the
\* packet held something new.
LEMMA MatchesReceive ==
    ASSUME Structure, [Next]_vars, NEW d \in Devices, NEW packet \in spool[d],
           Receive(d, packet), NEW i \in Items, Matches(d, i)
    PROVE  Matches(d, i)'
<1> DEFINE merged == history[d] \cup packet.history
<1>1. /\ history' = [history EXCEPT ![d] = merged] /\ UNCHANGED changes
      /\ IF merged = history[d] THEN UNCHANGED record
         ELSE \E value \in Show(packet, merged) :
                 record' = [record EXCEPT ![d][packet.item] = value]
  BY Zenon DEF Receive
<1>2. /\ history'[d] = merged /\ Genuine(packet) /\ packet \in Packet
      /\ record \in [Devices -> [Items -> Values \cup {Deleted}]]
  BY <1>1, Zenon DEF Structure, TypeOK
<1>3. packet.item \in Items
  BY <1>2, Zenon DEF Packet
<1>4. CASE merged = history[d]
  <2>1. history'[d] = history[d] /\ UNCHANGED record
    BY <1>1, <1>2, <1>4, Zenon
  <2> QED BY <2>1, SameChanges, MatchesFrame, Zenon
<1>5. ASSUME NEW value \in Show(packet, merged),
             record' = [record EXCEPT ![d][packet.item] = value]
      PROVE  Matches(d, i)'
  <2>1. CASE i = packet.item
    <3>1. record'[d][i] = value
      BY <1>2, <1>3, <1>5, <2>1, Zenon
    <3>2. ValuesOf(Of(history[d], i))' = ValuesOf(Of(merged, i))
      BY <1>1, <1>2 DEF ValuesOf, Assignments, Of
    <3> QED BY <1>5, <2>1, <3>1, <3>2, Zenon DEF Matches, Materialized, Show
  <2>2. CASE i # packet.item
    <3>1. Of(history[d], i)' = Of(history[d], i)
      BY <1>1, <1>2, <2>2, Zenon DEF Of, Genuine
    <3>2. record'[d][i] = record[d][i]
      BY <1>2, <1>5, <2>2, Zenon
    <3> QED BY <3>1, <3>2, MatchesFrame, Zenon
  <2> QED BY <2>1, <2>2, Zenon
<1> QED BY <1>1, <1>4, <1>5, Zenon

\* Every step keeps record and history together.
LEMMA MatchesNext ==
    ASSUME Structure, [Next]_vars, NEW f \in Devices, NEW j \in Items, Matches(f, j)
    PROVE  Matches(f, j)'
<1> USE DEF worker, courier
<1>1. TypeOK
  BY Zenon DEF Structure
<1>2. ASSUME NEW d \in Devices, NEW i \in Items, NEW v \in Values \cup {Deleted},
             Edit(d, i, v) \/ Resolve(d, i, v)
      PROVE  Matches(f, j)'
  <2>1. PICK over \in SUBSET Of(history[d], i), change \in Values \cup {Deleted, Kept} :
           Commit(d, i, over, change, v)
    BY <1>1, <1>2, LocalChange, Zenon
  <2>2. over \in SUBSET (1..Len(changes))
    BY <1>1, Zenon DEF Of, TypeOK
  <2>3. /\ changes'[Len(changes) + 1] = [item |-> i, over |-> over, value |-> change]
        /\ \A k \in 1..Len(changes) : changes'[k] = changes[k]
    BY <1>1, <2>1, <2>2, CommitGrows, Zenon
  <2>4. /\ history' = [history EXCEPT ![d] = @ \cup {Len(changes) + 1}]
        /\ record' = [record EXCEPT ![d][i] = v]
    BY <2>1, Zenon DEF Commit
  <2>5. CASE f = d /\ j = i
    BY <1>2, <2>5, MatchesCommit, Zenon
  <2>6. CASE f = d /\ j # i
    <3>1. history'[f] = history[f] \cup {Len(changes) + 1} /\ history[f] \subseteq 1..Len(changes)
      BY <1>1, <2>4, <2>6, ZenonT(60) DEF TypeOK
    <3>2. Of(history[f], j)' = Of(history[f], j)
      BY <2>3, <2>6, <3>1 DEF Of
    <3>3. record'[f][j] = record[f][j]
      BY <1>1, <2>4, <2>6, ZenonT(60) DEF TypeOK
    <3> QED BY <3>2, <3>3, MatchesFrame, Zenon
  <2>7. CASE f # d
    <3>1. history'[f] = history[f] /\ record'[f] = record[f]
      BY <1>1, <2>4, <2>7, ZenonT(60) DEF TypeOK
    <3> QED BY <3>1, SameChanges, MatchesFrame, Zenon
  <2> QED BY <2>5, <2>6, <2>7, Zenon
<1>3. ASSUME NEW d \in Devices, NEW packet \in spool[d], Receive(d, packet)
      PROVE  Matches(f, j)'
  <2>1. CASE f = d
    BY <1>3, <2>1, MatchesReceive, Zenon
  <2>2. CASE f # d
    <3>1. history'[f] = history[f] /\ record'[f] = record[f]
      BY <1>1, <1>3, <2>2, Zenon DEF Receive, TypeOK
    <3> QED BY <3>1, SameChanges, MatchesFrame, Zenon
  <2> QED BY <2>1, <2>2, Zenon
<1>4. CASE UNCHANGED <<history, record>>
  BY <1>4, SameChanges, MatchesFrame, ZenonT(60)
<1>5. \/ \E d \in Devices, i \in Items, v \in Values \cup {Deleted} :
            Edit(d, i, v) \/ Resolve(d, i, v)
      \/ \E d \in Devices : \E packet \in spool[d] : Receive(d, packet)
      \/ UNCHANGED <<history, record>>
  BY Zenon DEF Next, vars, Review, Join, Cancel, Approve, Enroll, StartPass, Prepare, Published,
         SpoolPut, Stored, Applied, Stop, CatchUp, Pull
<1> QED BY <1>2, <1>3, <1>4, <1>5, Zenon

\* The record an item is read from always holds a value of its replicated history.
THEOREM ReadsMatchHistory == Spec => []RecordMatchesHistory
<1>1. Init => RecordMatchesHistory
  BY DEF Init, RecordMatchesHistory, Of, ValuesOf, Assignments, Materialized
<1>2. Structure /\ RecordMatchesHistory /\ [Next]_vars => RecordMatchesHistory'
  <2> SUFFICES ASSUME Structure, RecordMatchesHistory, [Next]_vars
               PROVE  RecordMatchesHistory'
    BY Zenon
  <2>1. ASSUME NEW d \in Devices, NEW i \in Items PROVE Matches(d, i)'
    <3>1. Matches(d, i)
      BY Zenon DEF RecordMatchesHistory, Matches
    <3> QED BY <3>1, MatchesNext, Zenon
  <2> QED BY <2>1, Zenon DEF RecordMatchesHistory, Matches
<1> QED BY <1>1, <1>2, StructureHolds, PTL DEF Spec

-----------------------------------------------------------------------------
\* A resolution removes only values that were reviewed (the expected heads of
\* resolve_personal).
THEOREM ResolutionsStayInformed == Spec => ResolutionsAreInformed
<1>1. Structure /\ [Next]_vars => [RemovedWhatWasShown]_vars
  <2> SUFFICES ASSUME Structure, Next, NEW d \in Devices, NEW i \in Items,
                      Len(changes') > Len(changes), history'[d] # history[d],
                      changes'[Len(changes')].item = i, Conflicted(Of(history[d], i))
               PROVE  changes'[Len(changes')].over \subseteq shown[d][i]
    BY Zenon DEF RemovedWhatWasShown
  <2>1. TypeOK /\ Len(changes) \in Nat
    BY SMTT(60) DEF Structure, TypeOK
  <2>2. \E f \in Devices, j \in Items, v \in Values \cup {Deleted} :
           Edit(f, j, v) \/ Resolve(f, j, v)
    <3>1. changes' # changes
      <4>1. Len(changes) \in Nat /\ Len(changes') > Len(changes)
        BY <2>1, Zenon
      <4> QED BY <4>1
    <3> QED BY <3>1, Zenon DEF Next, Review, Join, Cancel, Approve, Enroll, StartPass, Prepare,
                        Published, SpoolPut, Stored, Receive, Applied, Stop, CatchUp, Pull
  <2>3. PICK f \in Devices, j \in Items, v \in Values \cup {Deleted} :
           Edit(f, j, v) \/ Resolve(f, j, v)
    BY <2>2, Zenon
  <2>4. PICK over \in SUBSET Of(history[f], j), change \in Values \cup {Deleted, Kept} :
           Commit(f, j, over, change, v)
    BY <2>1, <2>3, LocalChange, Zenon
  <2>5. over \in SUBSET (1..Len(changes))
    BY <2>1, Zenon DEF Of, TypeOK
  <2>6. /\ Len(changes') = Len(changes) + 1
        /\ changes'[Len(changes) + 1] = [item |-> j, over |-> over, value |-> change]
    BY <2>1, <2>4, <2>5, CommitGrows, ZenonT(60)
  <2>7. f = d /\ j = i
    BY <2>1, <2>4, <2>6 DEF Commit, TypeOK
  <2>8. Resolve(d, i, v)
    BY <2>3, <2>7, Zenon DEF Edit
  <2>9. shown[d][i] = Of(history[d], i)
    BY <2>8, Zenon DEF Resolve, StillShown
  <2> QED BY <2>6, <2>7, <2>9
<1> QED BY <1>1, StructureHolds, PTL DEF Spec, ResolutionsAreInformed

=============================================================================
