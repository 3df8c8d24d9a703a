----------------------------- MODULE Documents -----------------------------
(***************************************************************************)
(* What the vault store promises to the service above it: a set of         *)
(* documents of expiring records, changed by one whole operation at a      *)
(* time.  "ok" is answered only for an operation that has taken effect; an *)
(* error, a seal or a crash leaves it applied as a whole or not at all; a  *)
(* read never returns a record past its deadline; and a sweep that reports *)
(* success has left no record due.  Store implements it.                   *)
(***************************************************************************)
EXTENDS Records

VARIABLES
    now,        \* the wall clock
    documents,  \* the records of every document
    asked,      \* the command being executed, if any
    status,     \* "none", "waiting", "applied", "ok" or "error"
    got         \* what the last read returned

-----------------------------------------------------------------------------
(* The promise.                                                            *)

abstract == <<now, documents, asked, status, got>>

AInit ==
    /\ now = 0
    /\ documents \in [Docs -> Content]
    /\ asked = NoRecord
    /\ status = "none"
    /\ got = NoRecord

AAsk ==
    /\ status \in {"none", "ok", "error"}
    /\ asked' \in Commands(Mutations, now)
    /\ status' = "waiting"
    /\ got' = NoRecord
    /\ UNCHANGED <<now, documents>>

AApply ==
    /\ status = "waiting"
    /\ asked.kind \in {"mutate", "clear"}
    /\ documents' = [documents EXCEPT ![asked.doc] = Effect(asked, @)]
    /\ status' = "applied"
    /\ UNCHANGED <<now, asked, got>>

\* The sweep, an expired read and opening the store remove due records.
AExpire ==
    /\ \E d \in Docs, at \in 0..now, gone \in SUBSET Addrs :
          /\ \A a \in gone : Due(documents[d][a], at)
          /\ documents' = [documents EXCEPT ![d] = [a \in Addrs |-> IF a \in gone THEN NoRecord ELSE @[a]]]
    /\ UNCHANGED <<now, asked, status, got>>

AAnswer ==
    /\ status \in {"waiting", "applied"}
    /\ asked.kind \in {"mutate", "clear"} =>
          status = "applied" \/ Effect(asked, documents[asked.doc]) = documents[asked.doc]
    /\ asked.kind = "sweep" => \A d \in Docs : Unexpired(documents[d], asked.at) = documents[d]
    /\ got' = IF asked.kind \in {"get", "read"} THEN Visible(asked, documents[asked.doc]) ELSE NoRecord
    /\ status' = "ok"
    /\ asked' = NoRecord
    /\ UNCHANGED <<now, documents>>

\* An error or a crash; nobody learns whether the operation took effect.
AFail ==
    /\ status \in {"waiting", "applied"}
    /\ status' = "error"
    /\ asked' = NoRecord
    /\ UNCHANGED <<now, documents, got>>

ATick ==
    /\ now < MaxTime
    /\ now' = now + 1
    /\ UNCHANGED <<documents, asked, status, got>>

ANext == AAsk \/ AApply \/ AExpire \/ AAnswer \/ AFail \/ ATick

ASpec == AInit /\ [][ANext]_abstract

=============================================================================
