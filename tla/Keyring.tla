------------------------------ MODULE Keyring -------------------------------
(* The items of the Secret Service: one index entry lists every item with  *)
(* its attributes and content type, one entry per item holds its secret.   *)
(* Clients of two adapters (the Desktop's and the agent's) read the index, *)
(* change a copy and write it back with the secret in one mutation that    *)
(* checks the digest of what they read.  The vault's import writes both    *)
(* within a single request.                                                *)
EXTENDS Naturals

CONSTANTS
  Writers,      \* calls of D-Bus clients
  KeyringIds,   \* identifiers random_id can draw
  Attributes,   \* attribute maps
  Payloads,     \* secrets; each comes with a content type of its own
  NoPayload,    \* no secret stored
  MaxTries      \* attempts of one operation (16 in the code)

ASSUME KeyringAssumption == MaxTries \in Nat \ {0} /\ NoPayload \notin Payloads

VARIABLES
  index,        \* the index entry: the items
  payloads,     \* the secret of each item
  writers,      \* what each call is at
  drawn,        \* identifiers handed out
  unmatched     \* ghost: an item was created or imported beside its equals

kvars == <<index, payloads, writers, drawn, unmatched>>

KeyringItems == [id : KeyringIds, attributes : Attributes, type : Payloads]

NotCalled == [op |-> "none", at |-> "free", id |-> NoPayload, attributes |-> NoPayload,
              payload |-> NoPayload, replace |-> FALSE, seen |-> {}, tries |-> 0]

CallAt(w, step) == writers[w].at = step

Called(op, i, a, v, r) ==
  [op |-> op, at |-> "read", id |-> i, attributes |-> a, payload |-> v, replace |-> r,
   seen |-> {}, tries |-> 0]

\* CreateItem, SetSecret and Delete reach the agent once their caller is
\* authorized or the user has entered the value.  A creation draws an
\* identifier of its own.
CallKeyring(w) ==
  /\ CallAt(w, "free")
  /\ \/ \E i \in KeyringIds \ drawn, a \in Attributes, v \in Payloads, r \in BOOLEAN :
          /\ writers' = [writers EXCEPT ![w] = Called("create", i, a, v, r)]
          /\ drawn' = drawn \cup {i}
     \/ \E i \in drawn, v \in Payloads :
          /\ writers' = [writers EXCEPT ![w] = Called("set", i, NoPayload, v, FALSE)]
          /\ UNCHANGED drawn
     \/ \E i \in drawn :
          /\ writers' = [writers EXCEPT ![w] = Called("delete", i, NoPayload, NoPayload, FALSE)]
          /\ UNCHANGED drawn
  /\ UNCHANGED <<index, payloads, unmatched>>

\* The start of an attempt reads the index.
ReadIndex(w) ==
  /\ CallAt(w, "read")
  /\ writers' = [writers EXCEPT ![w].seen = index, ![w].at = "write"]
  /\ UNCHANGED <<index, payloads, drawn, unmatched>>

\* The item a replacing creation replaces: the first with the same
\* attributes.
Replaced(call) == {i \in call.seen : call.replace /\ i.attributes = call.attributes}

\* The identifier the operation writes.
Target(call) ==
  IF call.op = "create" /\ Replaced(call) # {} THEN (CHOOSE i \in Replaced(call) : TRUE).id
  ELSE call.id

\* The items of the new index.
NextIndex(call) ==
  LET kept == {i \in call.seen : i.id # Target(call)} IN
  CASE call.op = "delete" -> kept
    [] call.op = "create" ->
         kept \cup {[id |-> Target(call), attributes |-> call.attributes, type |-> call.payload]}
    [] OTHER -> kept \cup {[i EXCEPT !.type = call.payload] :
                             i \in {i \in call.seen : i.id = Target(call)}}

\* A set or a delete of an item that is not listed fails before it writes.
Listed(call) == call.op = "create" \/ \E i \in call.seen : i.id = call.id

\* An item may end up beside its equals when its creation did not replace.
Apart(call) ==
  IF call.op = "create" /\ ~call.replace THEN unmatched \cup {call.attributes} ELSE unmatched

\* A variant without the check of what was read.
WriteItemUnchecked(w) ==
  LET call == writers[w] IN
  /\ CallAt(w, "write") /\ Listed(call)
  /\ index' = NextIndex(call)
  /\ payloads' = [payloads EXCEPT ![Target(call)] =
                    IF call.op = "delete" THEN NoPayload ELSE call.payload]
  /\ unmatched' = Apart(call)
  /\ writers' = [writers EXCEPT ![w] = [NotCalled EXCEPT !.at = "done"]]
  /\ UNCHANGED drawn

\* One mutation: the check of the digest, the secret and the index, or none
\* of them.
WriteItem(w) ==
  LET call == writers[w] IN
  /\ CallAt(w, "write") /\ Listed(call) /\ call.seen = index
  /\ index' = NextIndex(call)
  /\ payloads' = [payloads EXCEPT ![Target(call)] =
                    IF call.op = "delete" THEN NoPayload ELSE call.payload]
  /\ unmatched' = Apart(call)
  /\ writers' = [writers EXCEPT ![w] = [NotCalled EXCEPT !.at = "done"]]
  /\ UNCHANGED drawn

\* A conflict starts the operation again, a limited number of times.
RetryWrite(w) ==
  /\ CallAt(w, "write") /\ Listed(writers[w]) /\ writers[w].seen # index
  /\ writers' = IF writers[w].tries + 1 < MaxTries
                THEN [writers EXCEPT ![w].at = "read", ![w].tries = @ + 1]
                ELSE [writers EXCEPT ![w] = [NotCalled EXCEPT !.at = "done"]]
  /\ UNCHANGED <<index, payloads, drawn, unmatched>>

\* The item is gone, or the vault seals before the write.
GiveUp(w) ==
  /\ writers[w].at \in {"read", "write"}
  /\ writers' = [writers EXCEPT ![w] = [NotCalled EXCEPT !.at = "done"]]
  /\ UNCHANGED <<index, payloads, drawn, unmatched>>

\* import_secret_service_item: an item listed already is kept unless the
\* import replaces.
ImportItem(i, a, v, replace) ==
  LET old == {x \in index : x.id = i} IN
  /\ old # {} => replace
  /\ index' = (index \ old) \cup {[id |-> i, attributes |-> a, type |-> v]}
  /\ payloads' = [payloads EXCEPT ![i] = v]
  /\ drawn' = drawn \cup {i}
  /\ unmatched' = unmatched \cup {a}
  /\ UNCHANGED writers

KeyringInit ==
  /\ index = {} /\ payloads = [i \in KeyringIds |-> NoPayload]
  /\ writers = [w \in Writers |-> NotCalled] /\ drawn = {} /\ unmatched = {}

Keyrings ==
  \/ \E w \in Writers : \/ CallKeyring(w) \/ ReadIndex(w) \/ WriteItem(w) \/ RetryWrite(w)
                        \/ GiveUp(w)
  \/ \E i \in KeyringIds, a \in Attributes, v \in Payloads, r \in BOOLEAN : ImportItem(i, a, v, r)

KeyringSpec == KeyringInit /\ [][Keyrings]_kvars

KeyringTypeOK ==
  /\ index \subseteq KeyringItems
  /\ payloads \in [KeyringIds -> Payloads \cup {NoPayload}]
  /\ \A w \in Writers : writers[w].tries < MaxTries /\ writers[w].seen \subseteq KeyringItems

\* The index describes the secrets: every listed item has its secret, under
\* the content type it was stored with, and no secret is left without an
\* item.
IndexDescribesSecrets ==
  /\ \A i \in index : payloads[i.id] = i.type
  /\ \A i, j \in index : i.id = j.id => i = j
  /\ \A k \in KeyringIds : payloads[k] # NoPayload => \E i \in index : i.id = k

\* Creations that replace leave one item per attribute map, however they
\* overlap: only a creation that does not replace, or an import, makes a
\* second.
ReplacingKeepsOne ==
  \A i, j \in index :
    i.attributes = j.attributes /\ i.attributes \notin unmatched => i = j

\* The keyring as its clients see it: an index true to the secrets, without
\* the doubles a race of replacing creations would leave.
KeyringSound == IndexDescribesSecrets /\ ReplacingKeepsOne

=============================================================================
