---------------------------- MODULE BrowserVault ----------------------------
(***************************************************************************)
(* What the vault does with a browser's work (BrowserState of              *)
(* src/vault/protocol/service/browser.rs).  The vault is a record: the     *)
(* pairings and logins are in the store, the tickets and the count of      *)
(* lookups live as long as the lease.  Every operation is an operator that *)
(* gives the vault after it and the reply.                                 *)
(*                                                                         *)
(* A login is a password and whether it has a one-time code; a ticket      *)
(* holds what was offered under it.  Every login here is for the one site  *)
(* and username the requests are about, or for another one when its        *)
(* password is not in Matching.                                            *)
(***************************************************************************)
EXTENDS BrowserHub

CONSTANTS
    Inventory,      \* the items of the store in the order it lists them
    Passwords,      \* passwords a login may hold
    Matching,       \* those of logins for the requests' site and username
    Blank,          \* the password of a login made for a one-time code
    MaxTickets,     \* tickets kept at a time (32)
    MaxSeen,        \* lookups in one lease (4096)
    MaxCandidates   \* logins offered at most (32)

ASSUME BrowserVaultAssumption ==
    /\ MaxTickets \in Nat /\ MaxSeen \in Nat /\ MaxCandidates \in Nat
    /\ Matching \subseteq Passwords /\ Blank \in Matching

Contents == [password : Passwords, code : BOOLEAN]

Candidate(v, i) == [item |-> i, content |-> v.logins[i]]

(* Items the lookup offers, in the order the inventory is read. *)
Offered(v) ==
    LET found == SelectSeq(Inventory, LAMBDA i : v.logins[i].password \in Matching)
    IN  [n \in DOMAIN found |-> Candidate(v, found[n])]

Denied(v) == [vault |-> v, reply |-> [type |-> "rejected"]]
Done(v) == [vault |-> v, reply |-> [type |-> "done"]]

Spend(v, ticket) ==
    [v EXCEPT !.tickets = [g \in DOMAIN @ \ {ticket} |-> @[g]]]

Pair(v, w) == Done([v EXCEPT !.pairs = @ \cup {w.key}])

Revoke(v, w) ==
    Done([v EXCEPT
        !.pairs = @ \ {w.key},
        !.tickets = [g \in {t \in DOMAIN @ : @[t].key # w.key} |-> @[g]]])

(* lookup: what is over a limit fails closed until the lease ends. *)
Lookup(v, w) ==
    LET offered == Offered(v)
        seen == [v EXCEPT !.seen = @ + 1]
        saved == \E n \in DOMAIN offered : offered[n].content.password = w.password
        ticket == [key |-> w.key, session |-> w.session, candidates |-> offered,
                   saves |-> w.kind # "detect"]
    IN  IF \/ w.key \notin v.pairs
           \/ v.seen >= MaxSeen
           \/ Cardinality(DOMAIN v.tickets) >= MaxTickets
        THEN Denied(v)
        ELSE IF w.kind = "save" /\ saved
        THEN [vault |-> seen, reply |-> [type |-> "already_saved"]]
        ELSE IF Len(offered) > MaxCandidates
        THEN Denied(seen)
        ELSE [vault |-> [seen EXCEPT !.tickets =
                            [g \in DOMAIN @ \cup {w.gen} |-> IF g = w.gen THEN ticket ELSE @[g]]],
              reply |-> [type |-> "candidates", candidates |-> offered]]

(* The candidate was offered under the ticket and is still what it was. *)
Current(v, candidate) == v.logins[candidate.item] = candidate.content

Consumed(v, w, saves) ==
    /\ w.gen \in DOMAIN v.tickets
    /\ v.tickets[w.gen].saves = saves
    /\ w.key \in v.pairs
    /\ v.tickets[w.gen].key = w.key
    /\ v.tickets[w.gen].session = w.session

IsOffered(v, w) ==
    \E n \in DOMAIN v.tickets[w.gen].candidates : v.tickets[w.gen].candidates[n] = w.candidate

(* Mutant: the login is released as it is now. *)
ReleaseAsItIs(v, w) ==
    IF ~Consumed(v, w, FALSE) \/ v.logins[w.candidate.item] = Absent
    THEN Denied(Spend(v, w.gen))
    ELSE [vault |-> Spend(v, w.gen),
          reply |-> [type |-> "fill", candidate |-> Candidate(v, w.candidate.item)]]

(* release: the ticket is gone whatever comes of it. *)
Release(v, w) ==
    LET after == Spend(v, w.gen)
    IN  IF ~Consumed(v, w, FALSE) \/ ~IsOffered(v, w) \/ v.logins[w.candidate.item] = Absent
        THEN Denied(after)
        ELSE IF ~Current(v, w.candidate)
        THEN [vault |-> after, reply |-> [type |-> "changed"]]
        ELSE [vault |-> after, reply |-> [type |-> "fill", candidate |-> Candidate(v, w.candidate.item)]]

(* with_password and with_one_time: a new login, or one field of an old one. *)
Written(v, w, item) ==
    IF w.kind = "save"
    THEN [password |-> w.password, code |-> v.logins[item].code]
    ELSE [password |-> IF v.logins[item] = Absent THEN Blank ELSE v.logins[item].password,
          code |-> TRUE]

Unused(v) == {i \in Range(Inventory) : v.logins[i] = Absent}

(* Mutant: any version of the login is updated. *)
SaveAnyVersion(v, w) ==
    LET after == Spend(v, w.gen)
        put(i) == Done([after EXCEPT !.logins[i] = Written(v, w, i)])
    IN  IF ~Consumed(v, w, TRUE) THEN Denied(after)
        ELSE IF w.candidate = NoCandidate THEN put(CHOOSE i \in Unused(v) : TRUE)
        ELSE put(w.candidate.item)

(* reviewed and put: a new login, or the reviewed version of an old one. *)
Save(v, w) ==
    LET after == Spend(v, w.gen)
        put(i) == Done([after EXCEPT !.logins[i] = Written(v, w, i)])
    IN  IF ~Consumed(v, w, TRUE)
        THEN Denied(after)
        ELSE IF w.candidate = NoCandidate
        THEN put(CHOOSE i \in Unused(v) : TRUE)
        ELSE IF ~IsOffered(v, w) \/ v.logins[w.candidate.item] = Absent
        THEN Denied(after)
        ELSE IF ~Current(v, w.candidate)
        THEN [vault |-> after, reply |-> [type |-> "changed"]]
        ELSE put(w.candidate.item)

Perform(v, w) ==
    CASE w.action = "pair"    -> Pair(v, w)
      [] w.action = "revoke"  -> Revoke(v, w)
      [] w.action = "lookup"  -> Lookup(v, w)
      [] w.action = "release" -> Release(v, w)
      [] w.action \in {"save", "one_time"} -> Save(v, w)

=============================================================================
