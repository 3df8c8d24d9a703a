--------------------------- MODULE ClientsProofs ----------------------------
(***************************************************************************)
(* Proofs about two of the clients of the vault, for any number of         *)
(* callers, items, names and values: the Secret Service's index (Keyring)  *)
(* and the export and import of a vault (Transfer).                        *)
(***************************************************************************)
EXTENDS Keyring, Transfer, FiniteSetTheorems, WellFoundedInduction, TLAPS

-----------------------------------------------------------------------------
(* The Secret Service's index.  A write lands only when the index is the   *)
(* one its call read, so what a call computed from its copy is what it     *)
(* would have computed from the index itself: both properties are          *)
(* inductive once the types of the calls are known.                        *)

\* What a call carries, by operation.
WellFormed(call) ==
  /\ call.seen \subseteq KeyringItems
  /\ call.replace \in BOOLEAN
  /\ call.at \in {"read", "write"} =>
       /\ call.op \in {"create", "set", "delete"} /\ call.id \in KeyringIds
       /\ call.op \in {"create", "set"} => call.payload \in Payloads
       /\ call.op = "create" => call.attributes \in Attributes

\* The types, and the two properties.
KeyringInv ==
  /\ index \subseteq KeyringItems
  /\ payloads \in [KeyringIds -> Payloads \cup {NoPayload}]
  /\ drawn \subseteq KeyringIds
  /\ DOMAIN writers = Writers
  /\ \A w \in Writers : WellFormed(writers[w])
  /\ IndexDescribesSecrets
  /\ ReplacingKeepsOne

\* A call that is over, or was never made, is well formed.
LEMMA OverIsWellFormed ==
  ASSUME NEW step \in {"free", "done"}
  PROVE  WellFormed([NotCalled EXCEPT !.at = step])
BY Zenon DEF WellFormed, NotCalled

\* An empty keyring satisfies the invariant.
LEMMA InitKeyring == KeyringInit => KeyringInv
<1> SUFFICES ASSUME KeyringInit PROVE KeyringInv
  BY Zenon
<1>1. \A w \in Writers : WellFormed(writers[w])
  BY Zenon DEF KeyringInit, WellFormed, NotCalled
<1>2. IndexDescribesSecrets /\ ReplacingKeepsOne
  BY Zenon DEF KeyringInit, IndexDescribesSecrets, ReplacingKeepsOne
<1> QED
  BY <1>1, <1>2, Zenon DEF KeyringInit, KeyringInv

\* A step that leaves the index and the secrets alone.
LEMMA QuietStep ==
  ASSUME KeyringInv, UNCHANGED <<index, payloads, unmatched>>,
         drawn' \subseteq KeyringIds,
         NEW w \in Writers, NEW call, WellFormed(call),
         writers' = [writers EXCEPT ![w] = call]
  PROVE  KeyringInv'
<1>1. /\ DOMAIN writers' = Writers
      /\ \A v \in Writers : writers'[v] = IF v = w THEN call ELSE writers[v]
  BY Zenon DEF KeyringInv
<1>2. \A v \in Writers : WellFormed(writers'[v])
  BY <1>1, Zenon DEF KeyringInv
<1>3. IndexDescribesSecrets' /\ ReplacingKeepsOne'
  BY ZenonT(60) DEF KeyringInv, IndexDescribesSecrets, ReplacingKeepsOne
<1> QED
  BY <1>1, <1>2, <1>3, Zenon DEF KeyringInv, WellFormed

\* A client's call only adds a well-formed call and an identifier.
LEMMA CallStep ==
  ASSUME KeyringInv, NEW w \in Writers, CallKeyring(w)
  PROVE  KeyringInv'
<1>1. PICK call : /\ WellFormed(call) /\ drawn' \subseteq KeyringIds
                  /\ writers' = [writers EXCEPT ![w] = call]
  <2>1. CASE \E i \in KeyringIds \ drawn, a \in Attributes, v \in Payloads, r \in BOOLEAN :
               /\ writers' = [writers EXCEPT ![w] = Called("create", i, a, v, r)]
               /\ drawn' = drawn \cup {i}
    <3> PICK i \in KeyringIds \ drawn, a \in Attributes, v \in Payloads, r \in BOOLEAN :
               /\ writers' = [writers EXCEPT ![w] = Called("create", i, a, v, r)]
               /\ drawn' = drawn \cup {i}
      BY <2>1, Zenon
    <3>1. WellFormed(Called("create", i, a, v, r))
      BY Zenon DEF WellFormed, Called
    <3> QED
      BY <3>1, Zenon DEF KeyringInv
  <2>2. CASE \E i \in drawn, v \in Payloads :
               /\ writers' = [writers EXCEPT ![w] = Called("set", i, NoPayload, v, FALSE)]
               /\ UNCHANGED drawn
    <3> PICK i \in drawn, v \in Payloads :
               /\ writers' = [writers EXCEPT ![w] = Called("set", i, NoPayload, v, FALSE)]
               /\ UNCHANGED drawn
      BY <2>2, Zenon
    <3>1. WellFormed(Called("set", i, NoPayload, v, FALSE))
      BY Zenon DEF WellFormed, Called, KeyringInv
    <3> QED
      BY <3>1, Zenon DEF KeyringInv
  <2>3. CASE \E i \in drawn :
               /\ writers' = [writers EXCEPT ![w] = Called("delete", i, NoPayload, NoPayload, FALSE)]
               /\ UNCHANGED drawn
    <3> PICK i \in drawn :
               /\ writers' = [writers EXCEPT ![w] = Called("delete", i, NoPayload, NoPayload, FALSE)]
               /\ UNCHANGED drawn
      BY <2>3, Zenon
    <3>1. WellFormed(Called("delete", i, NoPayload, NoPayload, FALSE))
      BY Zenon DEF WellFormed, Called, KeyringInv
    <3> QED
      BY <3>1, Zenon DEF KeyringInv
  <2> QED
    BY <2>1, <2>2, <2>3, Zenon DEF CallKeyring
<1> QED
  BY <1>1, QuietStep, Zenon DEF CallKeyring

\* The steps that only move a call along.
LEMMA AttemptStep ==
  ASSUME KeyringInv, NEW w \in Writers, ReadIndex(w) \/ RetryWrite(w) \/ GiveUp(w)
  PROVE  KeyringInv'
<1>1. WellFormed(writers[w]) /\ index \subseteq KeyringItems /\ drawn' \subseteq KeyringIds
  BY Zenon DEF KeyringInv, ReadIndex, RetryWrite, GiveUp
<1>2. WellFormed([NotCalled EXCEPT !.at = "done"])
  BY OverIsWellFormed, Zenon
<1>3. CASE ReadIndex(w)
  <2>1. WellFormed([writers[w] EXCEPT !.seen = index, !.at = "write"])
    BY <1>1, <1>3 DEF WellFormed, ReadIndex, CallAt
  <2>2. writers' = [writers EXCEPT ![w] = [writers[w] EXCEPT !.seen = index, !.at = "write"]]
    BY <1>3, Zenon DEF ReadIndex
  <2> QED
    BY <1>1, <1>3, <2>1, <2>2, QuietStep, Zenon DEF ReadIndex
<1>4. CASE RetryWrite(w)
  <2>1. WellFormed([writers[w] EXCEPT !.at = "read", !.tries = @ + 1])
    BY <1>1, <1>4 DEF WellFormed, RetryWrite, CallAt
  <2>2. \/ writers' = [writers EXCEPT ![w] = [writers[w] EXCEPT !.at = "read", !.tries = @ + 1]]
        \/ writers' = [writers EXCEPT ![w] = [NotCalled EXCEPT !.at = "done"]]
    BY <1>4, Zenon DEF RetryWrite
  <2> QED
    BY <1>1, <1>2, <1>4, <2>1, <2>2, QuietStep, Zenon DEF RetryWrite
<1>5. CASE GiveUp(w)
  BY <1>1, <1>2, <1>5, QuietStep, Zenon DEF GiveUp
<1> QED
  BY <1>3, <1>4, <1>5, Zenon

\* What a write does to the index and the secrets: the entry of one
\* identifier is taken out and at most one put in its place.
Rewritten(k, new, payload) ==
  /\ index' = {i \in index : i.id # k} \cup new
  /\ payloads' = [payloads EXCEPT ![k] = payload]

\* The three properties survive such a write when the new entry is the one
\* its secret belongs to.
LEMMA RewrittenStep ==
  ASSUME KeyringInv, NEW k \in KeyringIds, NEW payload \in Payloads \cup {NoPayload},
         NEW new \in SUBSET KeyringItems, Rewritten(k, new, payload),
         \A i \in new : i.id = k /\ i.type = payload,
         \A i, j \in new : i = j,
         payload # NoPayload => new # {}
  PROVE  /\ index' \subseteq KeyringItems
         /\ payloads' \in [KeyringIds -> Payloads \cup {NoPayload}]
         /\ IndexDescribesSecrets'
<1>1. index \subseteq KeyringItems /\ payloads \in [KeyringIds -> Payloads \cup {NoPayload}]
      /\ IndexDescribesSecrets
  BY Zenon DEF KeyringInv
<1>2. index' \subseteq KeyringItems /\ payloads' \in [KeyringIds -> Payloads \cup {NoPayload}]
  BY <1>1, Zenon DEF Rewritten
<1>3. \A i \in index' : payloads'[i.id] = i.type
  BY <1>1, ZenonT(60) DEF Rewritten, IndexDescribesSecrets, KeyringItems
<1>4. \A i, j \in index' : i.id = j.id => i = j
  BY <1>1, ZenonT(60) DEF Rewritten, IndexDescribesSecrets
<1>5. \A n \in KeyringIds : payloads'[n] # NoPayload => \E i \in index' : i.id = n
  BY <1>1 DEF Rewritten, IndexDescribesSecrets
<1> QED
  BY <1>2, <1>3, <1>4, <1>5, ZenonT(60) DEF IndexDescribesSecrets

\* The write of a creation, a change or a deletion: the copy the call read
\* is the index, so the new index is the old one with one entry rewritten.
LEMMA WriteStep ==
  ASSUME KeyringInv, NEW w \in Writers, WriteItem(w)
  PROVE  KeyringInv'
<1> DEFINE call == writers[w]
<1>1. /\ WellFormed(call) /\ call.at = "write" /\ Listed(call) /\ call.seen = index
      /\ index' = NextIndex(call)
      /\ payloads' = [payloads EXCEPT ![Target(call)] =
                        IF call.op = "delete" THEN NoPayload ELSE call.payload]
      /\ unmatched' = Apart(call)
      /\ UNCHANGED drawn
      /\ index \subseteq KeyringItems
      /\ call.op \in {"create", "set", "delete"} /\ call.id \in KeyringIds
  BY Zenon DEF KeyringInv, WriteItem, CallAt, WellFormed
<1>2. Target(call) \in KeyringIds
  BY <1>1, Zenon DEF Target, Replaced, KeyringItems
<1> HIDE DEF call
<1>3. /\ index' \subseteq KeyringItems
      /\ payloads' \in [KeyringIds -> Payloads \cup {NoPayload}]
      /\ IndexDescribesSecrets'
  <2>1. CASE call.op = "delete"
    <3>1. Rewritten(Target(call), {}, NoPayload)
      BY <1>1, <2>1, Zenon DEF Rewritten, NextIndex
    <3> QED
      BY <1>2, <3>1, RewrittenStep
  <2>2. CASE call.op = "create"
    <3> DEFINE item == [id |-> Target(call), attributes |-> call.attributes,
                        type |-> call.payload]
    <3>1. call.payload \in Payloads /\ item \in KeyringItems
      BY <1>1, <1>2, <2>2, Zenon DEF WellFormed, KeyringItems
    <3>2. Rewritten(Target(call), {item}, call.payload)
      BY <1>1, <2>2, Zenon DEF Rewritten, NextIndex
    <3> QED
      BY <1>2, <3>1, <3>2, RewrittenStep
  <2>3. CASE call.op = "set"
    <3> DEFINE new == {[i EXCEPT !.type = call.payload] :
                         i \in {i \in index : i.id = Target(call)}}
    <3>1. call.payload \in Payloads /\ Target(call) = call.id
      BY <1>1, <2>3, Zenon DEF WellFormed, Target
    <3>2. new \in SUBSET KeyringItems
      BY <1>1, <3>1, ZenonT(60) DEF KeyringItems
    <3>3. \A i \in new : i.id = Target(call) /\ i.type = call.payload
      BY <1>1, ZenonT(60) DEF KeyringItems
    <3>4. \A i, j \in new : i = j
      BY <1>1 DEF KeyringInv, IndexDescribesSecrets
    <3>5. new # {}
      BY <1>1, <2>3, <3>1, ZenonT(60) DEF Listed
    <3>6. Rewritten(Target(call), new, call.payload)
      BY <1>1, <2>3, Zenon DEF Rewritten, NextIndex
    <3> HIDE DEF new
    <3> QED
      BY <1>2, <3>1, <3>2, <3>3, <3>4, <3>5, <3>6, RewrittenStep, Zenon
  <2> QED
    BY <1>1, <2>1, <2>2, <2>3, Zenon
<1>4. ReplacingKeepsOne'
  <2>1. ReplacingKeepsOne /\ IndexDescribesSecrets
    BY Zenon DEF KeyringInv
  <2> SUFFICES ASSUME NEW i \in index', NEW j \in index', i.attributes = j.attributes,
                      i.attributes \notin unmatched'
               PROVE  i = j
    BY Zenon DEF ReplacingKeepsOne
  <2>2. i.attributes \notin unmatched
    BY <1>1, Zenon DEF Apart
  <2>3. CASE call.op = "delete"
    BY <1>1, <2>1, <2>2, <2>3, Zenon DEF NextIndex, ReplacingKeepsOne
  <2>4. CASE call.op = "set"
    <3>1. \A x \in index' : \E y \in index : /\ y.attributes = x.attributes
                                            /\ x = IF y.id = Target(call)
                                                   THEN [y EXCEPT !.type = call.payload] ELSE y
      BY <1>1, <2>4 DEF NextIndex, KeyringItems
    <3> QED
      BY <2>1, <2>2, <3>1, SMTT(60) DEF ReplacingKeepsOne
  <2>5. CASE call.op = "create"
    <3> DEFINE item == [id |-> Target(call), attributes |-> call.attributes,
                        type |-> call.payload]
               kept == {x \in index : x.id # Target(call)}
    <3>1. index' = kept \cup {item}
      BY <1>1, <2>5, Zenon DEF NextIndex
    <3>2. CASE i \in kept /\ j \in kept
      BY <2>1, <2>2, <3>2, Zenon DEF ReplacingKeepsOne
    <3>3. \A x \in kept : x.attributes = i.attributes => x.attributes # call.attributes
      <4> SUFFICES ASSUME NEW x \in kept, x.attributes = i.attributes,
                          x.attributes = call.attributes
                   PROVE  FALSE
        BY Zenon
      <4>1. call.replace
        BY <1>1, <2>5, Zenon DEF Apart, WellFormed
      <4>2. x \in Replaced(call)
        BY <1>1, <4>1, Zenon DEF Replaced
      <4>3. \A y \in Replaced(call) : y = x
        BY <1>1, <2>1, <2>2, ZenonT(60) DEF Replaced, ReplacingKeepsOne
      <4>4. Target(call) = x.id
        BY <2>5, <4>2, <4>3, Zenon DEF Target
      <4> QED
        BY <4>4, Zenon
    <3> QED
      BY <3>1, <3>2, <3>3
  <2> QED
    BY <1>1, <2>3, <2>4, <2>5, Zenon
<1>5. DOMAIN writers' = Writers /\ \A v \in Writers : WellFormed(writers'[v])
  <2>1. writers' = [writers EXCEPT ![w] = [NotCalled EXCEPT !.at = "done"]]
    BY Zenon DEF WriteItem
  <2>2. WellFormed([NotCalled EXCEPT !.at = "done"])
    BY OverIsWellFormed, Zenon
  <2>3. \A v \in Writers :
          writers'[v] = IF v = w THEN [NotCalled EXCEPT !.at = "done"] ELSE writers[v]
    BY <2>1, Zenon DEF KeyringInv
  <2> QED
    BY <2>1, <2>2, <2>3, Zenon DEF KeyringInv
<1> QED
  BY <1>1, <1>3, <1>4, <1>5, Zenon DEF KeyringInv, WellFormed

\* An import rewrites one entry in the same way.
LEMMA ImportStep ==
  ASSUME KeyringInv, NEW k \in KeyringIds, NEW a \in Attributes, NEW v \in Payloads,
         NEW r \in BOOLEAN, ImportItem(k, a, v, r)
  PROVE  KeyringInv'
<1> DEFINE item == [id |-> k, attributes |-> a, type |-> v]
<1>1. item \in KeyringItems
  BY Zenon DEF KeyringItems
<1>2. index' = {i \in index : i.id # k} \cup {item}
  BY Zenon DEF ImportItem
<1>3. Rewritten(k, {item}, v)
  BY <1>2, Zenon DEF Rewritten, ImportItem
<1>4. /\ index' \subseteq KeyringItems
      /\ payloads' \in [KeyringIds -> Payloads \cup {NoPayload}]
      /\ IndexDescribesSecrets'
  BY <1>1, <1>3, RewrittenStep, SMTT(60)
<1>5. ReplacingKeepsOne'
  BY <1>2 DEF KeyringInv, ReplacingKeepsOne, ImportItem
<1> QED
  BY <1>4, <1>5, ZenonT(60) DEF KeyringInv, ImportItem, WellFormed

\* Every step keeps the invariant.
LEMMA KeyringStep == KeyringInv /\ [Keyrings]_kvars => KeyringInv'
<1> SUFFICES ASSUME KeyringInv, [Keyrings]_kvars PROVE KeyringInv'
  BY Zenon
<1>1. ASSUME NEW w \in Writers,
             \/ CallKeyring(w) \/ ReadIndex(w) \/ WriteItem(w) \/ RetryWrite(w) \/ GiveUp(w)
      PROVE  KeyringInv'
  BY <1>1, CallStep, AttemptStep, WriteStep, Zenon
<1>2. ASSUME NEW i \in KeyringIds, NEW a \in Attributes, NEW v \in Payloads, NEW r \in BOOLEAN,
             ImportItem(i, a, v, r)
      PROVE  KeyringInv'
  BY <1>2, ImportStep, Zenon
<1>3. CASE UNCHANGED kvars
  BY <1>3, ZenonT(60) DEF kvars, KeyringInv, IndexDescribesSecrets, ReplacingKeepsOne, WellFormed
<1> QED
  BY <1>1, <1>2, <1>3, Zenon DEF Keyrings

\* The inductive invariant: the types of the calls and both properties.
THEOREM KeyringInvariant == KeyringSpec => []KeyringInv
BY InitKeyring, KeyringStep, PTL DEF KeyringSpec

\* Whatever clients of either adapter and imports do at the same time, every
\* listed item has its secret under its content type, no secret is left
\* without an item, and creations that replace never leave two items with the
\* same attributes (create_or_replace, set_secret, delete_item and
\* import_secret_service_item).
THEOREM KeyringStaysSound == KeyringSpec => []KeyringSound
<1>1. KeyringInv => KeyringSound
  BY Zenon DEF KeyringInv, KeyringSound
<1> QED
  BY KeyringInvariant, <1>1, PTL

-----------------------------------------------------------------------------
(* Export and import.  Every change of the store moves the head, so an     *)
(* export compares its copy with a store that has not moved since it       *)
(* began, or fails; a record the import has passed over is there, or was   *)
(* written or expired meanwhile.                                           *)

\* The parts of an export in progress agree with a store that has not moved
\* since it began: what was read so far, what the page still holds, and that
\* nothing lies behind the last page.
ExportFollows ==
  export.at \in {"list", "read", "check"} =>
    /\ export.at # "read" => export.page = {}
    /\ export.expected <= head
    /\ \A n \in export.page : n <= export.cursor
    /\ head = export.expected =>
         /\ \A n \in Names :
              export.got[n] = IF n <= export.cursor /\ n \notin export.page THEN stock[n]
                              ELSE NoEntry
         /\ (export.at = "check" \/ (export.at = "read" /\ export.more = FALSE)) =>
              \A n \in Names : n > export.cursor => stock[n] = NoEntry

\* A record the import is done with is in the vault, unless it was touched.
ImportHolds ==
  /\ import.at = "done" => import.todo = {}
  /\ import.at \in {"writing", "done"} =>
       \A n \in Names : (import.plan[n] # NoEntry /\ n \notin import.todo \cup touched) =>
         /\ n \notin due /\ stock[n] # NoEntry
         /\ import.replace = TRUE => stock[n] = import.plan[n]

ExportTypes ==
  [at : {"none", "list", "read", "check", "done", "failed"}, expected : Nat,
   cursor : 0..MaxName, page : SUBSET Names, more : BOOLEAN, got : Plans]

ImportTypes ==
  [at : {"none", "writing", "interrupted", "done"}, plan : Plans, todo : SUBSET Names,
   replace : BOOLEAN, tries : Nat]

StoreTypes ==
  /\ stock \in Plans /\ head \in Nat /\ timed \in SUBSET Names /\ due \in SUBSET timed

TransferInv ==
  /\ StoreTypes /\ export \in ExportTypes /\ import \in ImportTypes
  /\ ExportFollows /\ ImportHolds

\* A set of naturals that is not empty has a least member.
LEMMA LeastNatural ==
  ASSUME NEW S \in SUBSET Nat, S # {}
  PROVE  \E m \in S : \A n \in S : m <= n
<1> DEFINE R == OpToRel(<, Nat)
<1>1. IsWellFoundedOn(R, Nat)
  BY NatLessThanWellFounded, Zenon
<1>2. \A n, m \in Nat : n < m => <<n, m>> \in R
  BY Zenon DEF OpToRel
<1> HIDE DEF R
<1>3. PICK m \in S : \A n \in S : ~(<<n, m>> \in R)
  BY <1>1, WFMin, Zenon
<1>4. \A n \in S : n \in Nat /\ m \in Nat /\ ~(n < m)
  BY <1>2, <1>3, Zenon
<1> QED BY <1>3, <1>4

\* The last name of a page is one of its names, and none comes after it.
LEMMA LastName ==
  ASSUME NEW S \in SUBSET Names, S # {}
  PROVE  Max(S) \in S /\ \A n \in S : n <= Max(S)
<1> DEFINE U == {k \in Nat : \A n \in S : n <= k}
<1>1. S \subseteq Nat /\ MaxName \in U
  BY TransferAssumption DEF Names
<1>2. PICK k \in U : \A u \in U : k <= u
  BY <1>1, LeastNatural, Zenon
<1>3. k \in S
  <2> SUFFICES ASSUME k \notin S PROVE FALSE
    BY Zenon
  <2>1. PICK x \in S : TRUE
    BY Zenon
  <2>2. x \in Nat /\ 1 <= x /\ x <= k /\ k \in Nat
    BY <2>1 DEF Names
  <2>3. \A n \in S : n <= k - 1
    BY <1>1
  <2> QED BY <1>2, <2>2, <2>3
<1>4. \E m \in S : \A n \in S : m >= n
  BY <1>1, <1>3, Zenon
<1>5. Max(S) \in S /\ \A n \in S : Max(S) >= n
  BY <1>4, Zenon DEF Max
<1> QED BY <1>1, <1>5, Zenon

\* A page is the beginning of what is left of the inventory.
LEMMA PageIsFirst ==
  ASSUME NEW rest \in SUBSET Names,
         NEW n \in rest, NEW m \in rest, m <= n,
         Cardinality({k \in rest : k <= n}) <= PageLimit
  PROVE  Cardinality({k \in rest : k <= m}) <= PageLimit
<1> DEFINE P(x) == {k \in rest : k <= x}
<1>1. IsFiniteSet(Names) /\ rest \subseteq Nat
  <2>1. 1 \in Int /\ MaxName \in Int
    BY TransferAssumption
  <2>2. IsFiniteSet(1..MaxName)
    BY <2>1, FS_Interval, Zenon
  <2>3. rest \subseteq Nat
    BY DEF Names
  <2> QED BY <2>2, <2>3, Zenon DEF Names
<1>2. P(m) \subseteq P(n) /\ P(n) \subseteq Names
  <2>1. \A k \in rest : k \in Nat /\ m \in Nat /\ n \in Nat
    BY <1>1, Zenon
  <2>2. \A k \in rest : k <= m => k <= n
    BY <2>1
  <2> QED BY <2>2, Zenon
<1>3. IsFiniteSet(P(n))
  BY <1>1, <1>2, FS_Subset, ZenonT(60)
<1> HIDE DEF P
<1>4. IsFiniteSet(P(m)) /\ Cardinality(P(m)) <= Cardinality(P(n))
  BY <1>2, <1>3, FS_Subset, Zenon
<1>5. Cardinality(P(m)) \in Nat /\ Cardinality(P(n)) \in Nat
  BY <1>3, <1>4, FS_CardinalityType, Zenon
<1>6. Cardinality(P(m)) <= PageLimit
  <2>1. Cardinality(P(n)) <= PageLimit
    BY Zenon DEF P
  <2> QED BY <1>4, <1>5, <2>1, TransferAssumption, SMTT(60)
<1> QED BY <1>6, Zenon DEF P

\* A purge keeps the types, and moves the head if it evicts anything.
LEMMA PurgeMoves ==
  ASSUME StoreTypes, Purged
  PROVE  /\ StoreTypes' /\ due' = {}
         /\ (head' = head /\ stock' = stock) \/ head' = head + 1
         /\ \A n \in Names \ due : stock'[n] = stock[n]
<1> USE DEF StoreTypes, Purged, Visible, Plans
<1>1. StoreTypes' /\ due' = {}
  OBVIOUS
<1>2. CASE \E n \in due : stock[n] # NoEntry
  BY <1>1, <1>2, Zenon
<1>3. CASE \A n \in due : stock[n] = NoEntry
  <2>1. stock' = stock
    BY <1>3, Zenon
  <2> QED BY <1>1, <1>3, <2>1, ZenonT(60)
<1> QED BY <1>2, <1>3, Zenon

\* A write keeps the types and moves the head.
LEMMA StoreMoves ==
  ASSUME StoreTypes, NEW n \in Names, NEW v \in Values \cup {NoEntry},
         NEW deadline \in BOOLEAN, Stored(n, v, deadline)
  PROVE  /\ StoreTypes' /\ head' = head + 1
         /\ stock'[n] = v /\ n \notin due'
         /\ \A m \in Names \ {n} : stock'[m] = stock[m] /\ (m \in due' => m \in due)
BY DEF StoreTypes, Stored, Plans

\* What a step that the export takes no part in leaves of it.
LEMMA ExportUnaware ==
  ASSUME TransferInv, export' = export, StoreTypes',
         (head' = head /\ stock' = stock) \/ head' = head + 1
  PROVE  ExportFollows'
<1>1. head \in Nat /\ export.expected \in Nat
  BY Zenon DEF TransferInv, StoreTypes, ExportTypes
<1>2. CASE head' = head /\ stock' = stock
  BY <1>2, Zenon DEF TransferInv, ExportFollows
<1>3. CASE head' = head + 1
  BY <1>1, <1>3 DEF TransferInv, ExportFollows
<1> QED BY <1>2, <1>3, Zenon

\* What a step that the import takes no part in leaves of it.
LEMMA ImportUnaware ==
  ASSUME TransferInv, import' = import, touched \subseteq touched',
         \A n \in Names \ (due \cup touched') : stock'[n] = stock[n],
         \A n \in Names \ touched' : n \in due' => n \in due
  PROVE  ImportHolds'
BY ZenonT(60) DEF TransferInv, ImportHolds

\* The first state.
LEMMA InitTransfer == TransferInit => TransferInv
<1> SUFFICES ASSUME TransferInit PROVE TransferInv
  BY Zenon
<1>1. StoreTypes
  BY Zenon DEF TransferInit, StoreTypes, Plans
<1>2. export \in ExportTypes /\ import \in ImportTypes
  BY TransferAssumption DEF TransferInit, NoExport, NoImport, ExportTypes, ImportTypes, Plans
<1>3. ExportFollows /\ ImportHolds
  BY Zenon DEF TransferInit, NoExport, NoImport, ExportFollows, ImportHolds
<1> QED BY <1>1, <1>2, <1>3, Zenon DEF TransferInv

\* Other programs, and time: whatever changes is touched, and moves the head.
LEMMA ElsewhereKeeps == TransferInv /\ Elsewhere => TransferInv'
<1> SUFFICES ASSUME TransferInv, Elsewhere PROVE TransferInv'
  BY Zenon
<1>0. StoreTypes
  BY Zenon DEF TransferInv
<1>1. PICK n \in Names :
        \/ DeadlinePasses(n)
        \/ \E v \in Values \cup {NoEntry}, deadline \in BOOLEAN : WriteEntry(n, v, deadline)
  BY Zenon DEF Elsewhere
<1>2. CASE DeadlinePasses(n)
  <2>1. StoreTypes' /\ head' = head /\ stock' = stock
    BY <1>0, <1>2, ZenonT(60) DEF DeadlinePasses, StoreTypes
  <2>2. ExportFollows'
    BY <1>2, <2>1, ExportUnaware, ZenonT(60) DEF DeadlinePasses
  <2>3. ImportHolds'
    <3>1. CASE import.at = "none"
      BY <1>2, <3>1, Zenon DEF DeadlinePasses, ImportHolds
    <3>2. CASE import.at # "none"
      BY <1>2, <3>2, <2>1, ImportUnaware, ZenonT(60) DEF DeadlinePasses
    <3> QED BY <3>1, <3>2, Zenon
  <2> QED BY <1>2, <2>1, <2>2, <2>3, Zenon DEF TransferInv, DeadlinePasses
<1>3. ASSUME NEW v \in Values \cup {NoEntry}, NEW deadline \in BOOLEAN, WriteEntry(n, v, deadline)
      PROVE  TransferInv'
  <2>1. /\ StoreTypes' /\ head' = head + 1
        /\ \A m \in Names \ {n} : stock'[m] = stock[m] /\ (m \in due' => m \in due)
    BY <1>0, <1>3, StoreMoves, ZenonT(60) DEF WriteEntry
  <2>2. ExportFollows'
    BY <1>3, <2>1, ExportUnaware, Zenon DEF WriteEntry
  <2>3. ImportHolds'
    <3>1. CASE import.at = "none"
      BY <1>3, <3>1, Zenon DEF WriteEntry, ImportHolds
    <3>2. CASE import.at # "none"
      <4>1. import' = import /\ touched' = touched \cup {n}
        BY <1>3, <3>2, Zenon DEF WriteEntry
      <4> QED BY <2>1, <4>1, ImportUnaware, Zenon
    <3> QED BY <3>1, <3>2, Zenon
  <2>4. export' = export /\ import' = import
    BY <1>3, Zenon DEF WriteEntry
  <2> QED BY <2>1, <2>2, <2>3, <2>4, Zenon DEF TransferInv
<1> QED BY <1>1, <1>2, <1>3, Zenon

\* A step of the export that purges leaves the import what it has.
LEMMA PurgeKeepsImport ==
  ASSUME TransferInv, Purged, import' = import, touched' = touched
  PROVE  StoreTypes' /\ import' \in ImportTypes /\ ImportHolds'
<1>1. /\ StoreTypes' /\ due' = {}
      /\ \A n \in Names \ due : stock'[n] = stock[n]
  BY PurgeMoves, Zenon DEF TransferInv
<1>2. ImportHolds'
  BY <1>1, ImportUnaware, Zenon
<1> QED BY <1>1, <1>2, Zenon DEF TransferInv

\* The import: a record is kept because it is there, or written.
LEMMA ImportingKeeps ==
  ASSUME TransferInv,
         \/ Importing
         \/ \E plan \in Plans, replace \in BOOLEAN : ImportStarts(plan, replace)
  PROVE  TransferInv'
<1>0. StoreTypes /\ import \in ImportTypes /\ ImportHolds
  BY Zenon DEF TransferInv
<1>1. ASSUME NEW n \in Names, ImportWrites(n)
      PROVE  TransferInv'
  <2>0. n \in import.todo /\ import.at = "writing"
    BY <1>1, Zenon DEF ImportWrites
  <2>1. PICK reply \in {"writing", "interrupted"} :
          import' = [import EXCEPT !.at = reply, !.todo = @ \ {n}]
    BY <1>1, Zenon DEF ImportWrites
  <2>2. /\ import' \in ImportTypes /\ import'.plan = import.plan
        /\ import'.replace = import.replace /\ import'.todo = import.todo \ {n}
        /\ import'.at = reply
    BY <1>0, <2>1, Zenon DEF ImportTypes
  <2>3. export' = export /\ touched' = touched
    BY <1>1, Zenon DEF ImportWrites
  <2>4. CASE KeepsExisting(n)
    <3>1. UNCHANGED <<stock, timed, due, head>>
      BY <1>1, <2>4, Zenon DEF ImportWrites
    <3>2. n \notin due /\ stock[n] # NoEntry /\ import.replace = FALSE
      BY <1>0, <2>4, Zenon DEF KeepsExisting, Visible, ImportTypes
    <3>3. ImportHolds'
      BY <1>0, <2>0, <2>2, <2>3, <3>1, <3>2, Zenon DEF ImportHolds
    <3>4. StoreTypes'
      BY <1>0, <3>1, Zenon DEF StoreTypes
    <3>5. ExportFollows'
      BY <2>3, <3>1, <3>4, ExportUnaware, Zenon
    <3> QED BY <2>2, <2>3, <3>3, <3>4, <3>5, Zenon DEF TransferInv
  <2>5. CASE ~KeepsExisting(n)
    <3>1. Stored(n, import.plan[n], FALSE)
      BY <1>1, <2>5, Zenon DEF ImportWrites
    <3>2. import.plan[n] \in Values \cup {NoEntry}
      BY <1>0, Zenon DEF ImportTypes, Plans
    <3>3. /\ StoreTypes' /\ head' = head + 1
          /\ stock'[n] = import.plan[n] /\ n \notin due'
          /\ \A m \in Names \ {n} : stock'[m] = stock[m] /\ (m \in due' => m \in due)
      BY <1>0, <3>1, <3>2, StoreMoves, Zenon
    <3>4. ImportHolds'
      BY <1>0, <2>0, <2>2, <2>3, <3>3, ZenonT(60) DEF ImportHolds
    <3>5. ExportFollows'
      BY <2>3, <3>3, ExportUnaware, Zenon
    <3> QED BY <2>2, <2>3, <3>3, <3>4, <3>5, Zenon DEF TransferInv
  <2> QED BY <2>4, <2>5, Zenon
<1>2. ASSUME UNCHANGED <<stock, timed, due, head, export, touched>>,
             import' \in ImportTypes, ImportHolds'
      PROVE  TransferInv'
  <2>1. StoreTypes'
    BY <1>0, <1>2, Zenon DEF StoreTypes
  <2>2. ExportFollows'
    BY <1>2, <2>1, ExportUnaware, Zenon
  <2> QED BY <1>2, <2>1, <2>2, Zenon DEF TransferInv
<1>3. CASE ImportRetried
  <2>0. import.tries + 1 \in Nat /\ {n \in Names : import.plan[n] # NoEntry} \in SUBSET Names
    BY <1>0 DEF ImportTypes
  <2>1. import' \in ImportTypes
    BY <1>0, <1>3, <2>0, Zenon DEF ImportRetried, ImportTypes
  <2>2. ImportHolds'
    BY <1>0, <1>3, Zenon DEF ImportRetried, ImportTypes, ImportHolds
  <2> QED BY <1>2, <1>3, <2>1, <2>2, Zenon DEF ImportRetried
<1>4. CASE ImportFails
  BY <1>0, <1>2, <1>4, Zenon DEF ImportFails, ImportTypes, ImportHolds
<1>5. CASE ImportEnds
  BY <1>0, <1>2, <1>5, Zenon DEF ImportEnds, ImportTypes, ImportHolds
<1>6. ASSUME NEW plan \in Plans, NEW replace \in BOOLEAN, ImportStarts(plan, replace)
      PROVE  TransferInv'
  <2>1. import' \in ImportTypes
    BY <1>6, Zenon DEF ImportStarts, ImportTypes
  <2>2. ImportHolds'
    BY <1>6, Zenon DEF ImportStarts, ImportHolds
  <2> QED BY <1>2, <1>6, <2>1, <2>2, Zenon DEF ImportStarts
<1> QED BY <1>1, <1>3, <1>4, <1>5, <1>6, Zenon DEF Importing

\* The export: a page is read of a store that has not moved, or the export
\* will fail.
LEMMA ExportingKeeps ==
  ASSUME TransferInv, Exporting
  PROVE  TransferInv'
<1>0. /\ StoreTypes /\ export \in ExportTypes /\ import \in ImportTypes
      /\ ExportFollows /\ ImportHolds
      /\ head \in Nat /\ export.expected \in Nat /\ export.cursor \in 0..MaxName
  BY Zenon DEF TransferInv, StoreTypes, ExportTypes
<1>1. CASE ExportStarts
  <2>1. StoreTypes' /\ import' \in ImportTypes /\ ImportHolds'
    BY <1>1, PurgeKeepsImport, Zenon DEF ExportStarts, Revision
  <2>2. export' = [NoExport EXCEPT !.at = "list", !.expected = head']
    BY <1>1, Zenon DEF ExportStarts
  <2>3. head' \in Nat
    BY <2>1, Zenon DEF StoreTypes
  <2>4. export' \in ExportTypes
    <3>1. 0 \in Nat /\ 0 \in 0..MaxName /\ [n \in Names |-> NoEntry] \in Plans
      BY TransferAssumption DEF Plans
    <3>2. export' = [at |-> "list", expected |-> head', cursor |-> 0, page |-> {},
                     more |-> FALSE, got |-> [n \in Names |-> NoEntry]]
      BY <2>2, Zenon DEF NoExport
    <3> QED BY <2>3, <3>1, <3>2, Zenon DEF ExportTypes
  <2>5. ExportFollows'
    <3>1. /\ export'.at = "list" /\ export'.page = {} /\ export'.expected = head'
          /\ export'.cursor = 0 /\ \A n \in Names : export'.got[n] = NoEntry
      BY <2>2, Zenon DEF NoExport
    <3>2. \A n \in Names : ~(n <= 0)
      BY TransferAssumption, SMTT(60) DEF Names
    <3> QED BY <2>3, <3>1, <3>2, SMTT(60) DEF ExportFollows
  <2> QED BY <2>1, <2>4, <2>5, Zenon DEF TransferInv
<1>2. CASE ExportLists
  <2> DEFINE rest == {n \in Names : n > export.cursor /\ stock'[n] # NoEntry}
             page == {n \in rest : Cardinality({m \in rest : m <= n}) <= PageLimit}
             last == IF page = {} THEN export.cursor ELSE Max(page)
  <2>1. StoreTypes' /\ import' \in ImportTypes /\ ImportHolds'
    BY <1>2, PurgeKeepsImport, Zenon DEF ExportLists
  <2>2. (head' = head /\ stock' = stock) \/ head' = head + 1
    <3>1. Purged
      BY <1>2, Zenon DEF ExportLists
    <3> QED BY <1>0, <3>1, PurgeMoves, Zenon
  <2>3. export' = [export EXCEPT !.at = "read", !.page = page, !.more = rest # page,
                     !.cursor = last]
    BY <1>2, Zenon DEF ExportLists
  <2>4. export.page = {} /\ export.expected <= head
    BY <1>0, <1>2, Zenon DEF ExportLists, ExportFollows
  <2>5. rest \in SUBSET Names /\ page \in SUBSET rest /\ page \in SUBSET Names
    BY Zenon
  <2>6. \A n \in rest : n > export.cursor /\ stock'[n] # NoEntry
    BY Zenon
  <2>7. \A n \in Names : n > export.cursor /\ stock'[n] # NoEntry => n \in rest
    BY Zenon
  <2>8. \A n \in page, m \in rest : m <= n => m \in page
    BY <2>5, PageIsFirst, Zenon
  <2> HIDE DEF page, rest
  <2>9. page # {} => last \in page /\ \A n \in page : n <= last
    BY <2>5, LastName, Zenon
  <2>10. page = {} => last = export.cursor
    BY Zenon
  <2> HIDE DEF last
  <2>11. last \in 0..MaxName /\ export.cursor <= last
    <3>1. CASE page = {}
      BY <1>0, <2>10, <3>1, SMTT(60)
    <3>2. CASE page # {}
      <4>1. last \in rest /\ last \in Names
        BY <2>5, <2>9, <3>2, Zenon
      <4>2. last > export.cursor
        BY <2>6, <4>1, Zenon
      <4> QED BY <1>0, <4>1, <4>2, TransferAssumption, SMTT(60) DEF Names
    <3> QED BY <3>1, <3>2, Zenon
  <2>12. \A n \in page : n <= last
    BY <2>9, Zenon
  <2>13. /\ export'.at = "read" /\ export'.page = page /\ export'.cursor = last
         /\ export'.more = (rest # page) /\ export'.got = export.got
         /\ export'.expected = export.expected
    BY <1>0, <2>3, Zenon DEF ExportTypes
  <2>14. export' \in ExportTypes
    BY <1>0, <2>3, <2>5, <2>11, Zenon DEF ExportTypes
  <2>15. ASSUME head' = export.expected
         PROVE  /\ \A n \in Names :
                     export.got[n] = IF n <= last /\ n \notin page THEN stock'[n] ELSE NoEntry
                /\ rest = page => \A n \in Names : n > last => stock'[n] = NoEntry
    <3>1. head = export.expected /\ stock' = stock
      BY <1>0, <2>2, <2>4, <2>15, SMTT(60)
    <3>2. \A n \in Names : export.got[n] = IF n <= export.cursor THEN stock'[n] ELSE NoEntry
      BY <1>0, <1>2, <2>4, <3>1, Zenon DEF ExportLists, ExportFollows
    <3>3. \A n \in Names : n \in Nat /\ export.cursor \in Nat /\ last \in Nat
      BY <1>0, <2>11, TransferAssumption DEF Names
    <3>4. ASSUME NEW n \in Names
          PROVE  export.got[n] = IF n <= last /\ n \notin page THEN stock'[n] ELSE NoEntry
      <4>1. CASE n <= export.cursor
        <5>1. n \notin page
          BY <2>5, <2>6, <3>3, <4>1, SMTT(60)
        <5>2. n <= last
          BY <2>11, <3>3, <4>1, SMTT(60)
        <5> QED BY <3>2, <4>1, <5>1, <5>2, Zenon
      <4>2. CASE ~(n <= export.cursor)
        <5>1. export.got[n] = NoEntry
          BY <3>2, <4>2, Zenon
        <5>2. ASSUME n <= last, n \notin page PROVE stock'[n] = NoEntry
          <6>1. page # {}
            BY <2>10, <4>2, <5>2, Zenon
          <6>2. n > export.cursor
            BY <3>3, <4>2
          <6> QED BY <2>7, <2>8, <2>9, <5>2, <6>1, <6>2, Zenon
        <5> QED BY <5>1, <5>2, Zenon
      <4> QED BY <4>1, <4>2, Zenon
    <3>5. ASSUME rest = page, NEW n \in Names, n > last
          PROVE  stock'[n] = NoEntry
      <4>1. n > export.cursor /\ ~(n <= last)
        BY <2>11, <3>3, <3>5, SMTT(60)
      <4> QED BY <2>7, <2>12, <3>5, <4>1, Zenon
    <3> QED BY <3>4, <3>5, Zenon
  <2>16. export.expected <= head'
    BY <1>0, <2>2, <2>4, SMTT(60)
  <2>17. ExportFollows'
    <3>1. export'.more = FALSE => rest = page
      BY <2>13, Zenon
    <3> QED BY <2>12, <2>13, <2>15, <2>16, <3>1, SMTT(60) DEF ExportFollows
  <2> QED BY <2>1, <2>14, <2>17, Zenon DEF TransferInv
<1>3. CASE ExportReads
  <2>1. PICK n \in export.page :
          /\ \/ /\ Visible[n] # NoEntry
                /\ export' = [export EXCEPT !.page = @ \ {n}, !.got[n] = Visible[n]]
                /\ UNCHANGED <<stock, timed, due, head>>
             \/ /\ Visible[n] = NoEntry
                /\ export' = [export EXCEPT !.at = "failed"]
                /\ IF stock[n] = NoEntry THEN UNCHANGED <<stock, timed, due, head>>
                   ELSE Stored(n, NoEntry, FALSE)
    BY <1>3, Zenon DEF ExportReads
  <2>2. n \in Names /\ export.at = "read" /\ import' = import /\ touched' = touched
    BY <1>0, <1>3, <2>1, Zenon DEF ExportReads, ExportTypes
  <2>3. CASE /\ Visible[n] # NoEntry
             /\ export' = [export EXCEPT !.page = @ \ {n}, !.got[n] = Visible[n]]
             /\ UNCHANGED <<stock, timed, due, head>>
    <3>1. Visible[n] = stock[n] /\ stock[n] \in Values \cup {NoEntry}
      BY <1>0, <2>2, <2>3, Zenon DEF Visible, StoreTypes, Plans
    <3>2. StoreTypes' /\ ImportHolds'
      BY <1>0, <2>2, <2>3, ImportUnaware, Zenon DEF StoreTypes
    <3>3. /\ export' \in ExportTypes /\ export'.at = "read" /\ export'.more = export.more
          /\ export'.cursor = export.cursor /\ export'.expected = export.expected
          /\ export'.page = export.page \ {n}
          /\ \A m \in Names : export'.got[m] = IF m = n THEN stock[n] ELSE export.got[m]
      BY <1>0, <2>2, <2>3, <3>1, Zenon DEF ExportTypes, Plans
    <3>4. ExportFollows'
      BY <1>0, <2>1, <2>2, <2>3, <3>3, SMTT(60) DEF ExportFollows
    <3> QED BY <1>0, <2>2, <3>2, <3>3, <3>4, Zenon DEF TransferInv
  <2>4. CASE /\ Visible[n] = NoEntry
             /\ export' = [export EXCEPT !.at = "failed"]
             /\ IF stock[n] = NoEntry THEN UNCHANGED <<stock, timed, due, head>>
                ELSE Stored(n, NoEntry, FALSE)
    <3>1. export' \in ExportTypes /\ export'.at = "failed"
      BY <1>0, <2>4, Zenon DEF ExportTypes
    <3>2. ExportFollows'
      BY <3>1, Zenon DEF ExportFollows
    <3>3. CASE stock[n] = NoEntry
      <4>1. UNCHANGED <<stock, timed, due, head>>
        BY <2>4, <3>3, Zenon
      <4>2. StoreTypes' /\ ImportHolds'
        BY <1>0, <2>2, <4>1, ImportUnaware, Zenon DEF StoreTypes
      <4> QED BY <1>0, <2>2, <3>1, <3>2, <4>2, Zenon DEF TransferInv
    <3>4. CASE stock[n] # NoEntry
      <4>1. n \in due
        BY <1>0, <2>2, <2>4, <3>4, Zenon DEF Visible
      <4>2. Stored(n, NoEntry, FALSE)
        BY <2>4, <3>4, Zenon
      <4>3. /\ StoreTypes' /\ n \notin due'
            /\ \A m \in Names \ {n} : stock'[m] = stock[m] /\ (m \in due' => m \in due)
        BY <1>0, <2>2, <4>2, StoreMoves, Zenon
      <4>4. ImportHolds'
        BY <2>2, <4>1, <4>3, ImportUnaware, Zenon
      <4> QED BY <1>0, <2>2, <3>1, <3>2, <4>3, <4>4, Zenon DEF TransferInv
    <3> QED BY <3>3, <3>4, Zenon
  <2> QED BY <2>1, <2>3, <2>4, Zenon
<1>4. CASE ExportTurns
  <2>1. /\ export' \in ExportTypes /\ export.at = "read" /\ export.page = {}
        /\ export'.at \in {"list", "check"} /\ (export'.at = "check" => export.more = FALSE)
        /\ export'.page = {} /\ export'.cursor = export.cursor
        /\ export'.expected = export.expected /\ export'.got = export.got
        /\ import' = import /\ touched' = touched /\ UNCHANGED <<stock, timed, due, head>>
    BY <1>0, <1>4, Zenon DEF ExportTurns, ExportTypes
  <2>2. StoreTypes' /\ ImportHolds'
    BY <1>0, <2>1, ImportUnaware, Zenon DEF StoreTypes
  <2>3. ExportFollows'
    BY <1>0, <2>1, Zenon DEF ExportFollows
  <2> QED BY <1>0, <2>1, <2>2, <2>3, Zenon DEF TransferInv
<1>5. CASE ExportEnds
  <2>1. StoreTypes' /\ import' \in ImportTypes /\ ImportHolds'
    BY <1>5, PurgeKeepsImport, Zenon DEF ExportEnds, Revision
  <2>2. export' \in ExportTypes /\ export'.at \in {"done", "failed"}
    BY <1>0, <1>5, Zenon DEF ExportEnds, ExportTypes
  <2> QED BY <2>1, <2>2, Zenon DEF TransferInv, ExportFollows
<1> QED BY <1>1, <1>2, <1>3, <1>4, <1>5, Zenon DEF Exporting

\* The invariant holds in every behaviour.
THEOREM TransferInvariant == TransferSpec => []TransferInv
<1>1. TransferInv /\ UNCHANGED tvars => TransferInv'
  BY ZenonT(60) DEF tvars, TransferInv, StoreTypes, ExportFollows, ImportHolds
<1>2. TransferInv /\ [Transfers]_tvars => TransferInv'
  BY <1>1, ElsewhereKeeps, ImportingKeeps, ExportingKeeps, Zenon DEF Transfers
<1> QED BY <1>2, InitTransfer, PTL DEF TransferSpec

\* An export that succeeds is of one moment (read_vault_export compares the
\* revision before and after).
THEOREM ExportsAreConsistent == TransferSpec => ExportIsConsistent
<1>1. ASSUME TransferInv, [Transfers]_tvars, export.at = "check", export'.at = "done"
      PROVE  export.got = stock' /\ due' = {}
  <2>0. /\ StoreTypes /\ ExportFollows /\ export \in ExportTypes
        /\ head \in Nat /\ export.expected \in Nat
    BY <1>1, Zenon DEF TransferInv, StoreTypes, ExportTypes
  <2>1. export' # export
    BY <1>1, Zenon
  <2>2. ~Elsewhere /\ ~Importing
    BY <2>1, Zenon
       DEF Elsewhere, DeadlinePasses, WriteEntry, Importing, ImportWrites, ImportRetried,
                ImportFails, ImportEnds
  <2>3. ExportEnds
    BY <1>1, <2>1, <2>2, Zenon
       DEF Transfers, tvars, ImportStarts, Exporting, ExportStarts, ExportLists,
                            ExportReads, ExportTurns
  <2>4. Purged /\ head' = export.expected
    BY <1>1, <2>0, <2>3, Zenon DEF ExportEnds, Revision, SameRevision, ExportTypes
  <2>5. due' = {} /\ StoreTypes' /\ ((head' = head /\ stock' = stock) \/ head' = head + 1)
    BY <2>0, <2>4, PurgeMoves, Zenon
  <2>6. head' = head /\ stock' = stock /\ head = export.expected
    BY <1>1, <2>0, <2>4, <2>5, SMTT(60) DEF ExportFollows
  <2>7. \A n \in Names : n \in Nat /\ export.cursor \in Nat
    BY <2>0, TransferAssumption, SMTT(60) DEF Names, ExportTypes
  <2>8. \A n \in Names : export.got[n] = stock[n]
    BY <1>1, <2>0, <2>6, <2>7, SMTT(60) DEF ExportFollows
  <2>9. export.got = stock
    BY <2>0, <2>8 DEF StoreTypes, ExportTypes, Plans
  <2> QED BY <2>5, <2>6, <2>9, Zenon
<1> QED BY <1>1, TransferInvariant, PTL DEF TransferSpec, ExportIsConsistent

\* An import that succeeds has every record of the file that nobody else
\* changed (PreparedImport::commit, retried after interruptions).
THEOREM ImportsAreComplete == TransferSpec => []ImportIsComplete
<1>1. TransferInv => ImportIsComplete
  BY Zenon DEF TransferInv, StoreTypes, ImportTypes, ImportHolds, ImportIsComplete, Visible
<1> QED BY <1>1, TransferInvariant, PTL

=============================================================================
