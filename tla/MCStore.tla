------------------------------ MODULE MCStore ------------------------------
(* Two small instances of Store side by side. In the first, commands of    *)
(* one or two steps on one document with two addresses, where one value    *)
(* comes with a deadline and the other without. In the second, commands of *)
(* one step on two documents with one address, and tables of one of them   *)
(* put back once.                                                          *)
EXTENDS Store, TLC

CONSTANTS d1, d2, d3, a1, a2, v1, v2

VARIABLE instance

Kept(record) == record = NoRecord \/ (record.value = v1 <=> record.evict # Never)

Simple(record) == record = NoRecord \/ (record.value = v1 /\ record.evict # 2)

InitialRows ==
    IF instance = "records"
    THEN {[NoTable EXCEPT ![d1] = h] :
            h \in [generation : {1}, content : {c \in Content : \A a \in Addrs : Kept(c[a])}]
                    \cup {Absent}}
    ELSE {[NoTable EXCEPT ![d2] = h, ![d3] = g] :
            h, g \in [generation : {1}, content : {c \in Content : c[a2] = NoRecord /\ Simple(c[a1])}]
                       \cup {Absent}}

Within ==
    IF instance = "records"
    THEN /\ rolledBack = 0
         /\ (asked # NoRecord /\ asked.kind # "sweep") => asked.doc = d1
         /\ (asked # NoRecord /\ asked.kind = "mutate") =>
              \A i \in 1..Len(asked.steps) :
                 asked.steps[i].kind = "put" => Kept(asked.steps[i].record)
    ELSE /\ now < 2
         /\ asked # NoRecord =>
              CASE asked.kind = "sweep" -> TRUE
                [] asked.kind = "clear" -> asked.doc # d1
                [] asked.kind \in {"get", "read"} -> asked.doc # d1 /\ asked.addr = a1
                [] asked.kind = "mutate" ->
                     /\ asked.doc # d1 /\ Len(asked.steps) = 1
                     /\ asked.steps[1].addr = a1
                     /\ asked.steps[1].kind = "put" => Simple(asked.steps[1].record)

Swapped == Permutations({d2, d3})

MCInit ==
    /\ instance \in {"records", "rollback"}
    /\ rows \in InitialRows
    /\ Init

MCSpec == MCInit /\ [][UNCHANGED instance /\ Next /\ Within']_<<vars, instance>>

=============================================================================
