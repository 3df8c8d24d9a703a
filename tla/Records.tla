------------------------------ MODULE Records ------------------------------
(***************************************************************************)
(* Secret documents: records with an optional eviction deadline at the     *)
(* addresses of a document, the commands on them, and what each does.      *)
(***************************************************************************)
EXTENDS Integers, Sequences, FiniteSets

CONSTANTS
    Docs,       \* document ids
    Addrs,      \* addresses within a document
    Values,     \* secret values
    Deadlines,  \* eviction deadlines a record may have, besides Never
    Never,      \* evict_at: None
    NoRecord,   \* nothing at an address
    MaxTime     \* bound: the last instant of the wall clock

ASSUME NeverAssumption == Never \notin Nat
ASSUME DeadlineAssumption == Deadlines \subseteq Nat /\ MaxTime \in Nat

Record == [value : Values, evict : Deadlines \cup {Never}]
Content == [Addrs -> Record \cup {NoRecord}]
Empty == [a \in Addrs |-> NoRecord]

Put == [kind : {"put"}, addr : Addrs, record : Record]
Delete == [kind : {"delete"}, addr : Addrs]

\* RecordDeadline: a record is due once its deadline is reached.
Due(record, at) == record # NoRecord /\ record.evict # Never /\ record.evict <= at

\* SecretDocument::purge_expired.
Unexpired(content, at) == [a \in Addrs |-> IF Due(content[a], at) THEN NoRecord ELSE content[a]]

\* One step of SecretDocument::apply.
Change(content, step) ==
    [content EXCEPT ![step.addr] = IF step.kind = "put" THEN step.record ELSE NoRecord]

\* A command: its document, the steps of a mutation, and the time it was
\* asked with.  A mutation is at most two ordered steps here.
Mutations == {<<s>> : s \in Put \cup Delete} \cup ((Put \cup Delete) \X (Put \cup Delete))
Commands(steps, time) ==
    [kind : {"mutate"}, doc : Docs, steps : steps, at : {time}]
       \cup [kind : {"clear"}, doc : Docs, at : {time}]
       \cup [kind : {"get", "read"}, doc : Docs, addr : Addrs, at : {time}]
       \cup [kind : {"sweep"}, at : {time}]

\* NoRecord also stands for the absence of a value and of a command.
ASSUME NoRecordAssumption ==
    /\ NoRecord \notin Record \cup Values \cup Docs
    /\ \A t \in 0..MaxTime : NoRecord \notin Commands(Mutations, t)

\* The content a mutating command leaves.
Effect(command, content) ==
    IF command.kind = "clear" THEN Empty
    ELSE LET first == Change(content, command.steps[1])
         IN  IF Len(command.steps) = 1 THEN first ELSE Change(first, command.steps[2])

\* What a read returns: the value, unless there is none or it is due.
Visible(command, content) ==
    LET record == content[command.addr]
    IN  IF record = NoRecord \/ Due(record, command.at) THEN NoRecord ELSE record.value

=============================================================================
