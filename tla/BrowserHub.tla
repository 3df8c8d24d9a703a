----------------------------- MODULE BrowserHub -----------------------------
(***************************************************************************)
(* The coordinator of browser requests that the Desktop keeps behind one   *)
(* mutex (struct Hub of src/browser/desktop.rs).  A hub is a record and    *)
(* every method of the struct is an operator from hubs to hubs; the        *)
(* actions that call them are in module Browser.                           *)
(*                                                                         *)
(* Signatures hold and sequence numbers grow: a message that fails either  *)
(* check changes nothing, so only accepted messages appear.  The ticket of *)
(* a lookup is named by the generation of the flow that asked for it, and  *)
(* the digest of a login is its content.  Clocks are kept as the ranges    *)
(* the code tells apart: `idle` is how long ago the session was touched    *)
(* (0: at most 8 s, 1: at most 30 s, 2: less than 10 min, 3: longer),      *)
(* `old` says the flow started more than five minutes ago and `late` that  *)
(* its context deadline has passed.                                        *)
(***************************************************************************)
EXTENDS Naturals, Sequences, FiniteSets, SequencesExt

CONSTANTS
    Sessions,       \* session identifiers
    Keys,           \* public keys of browser profiles
    NoKey,          \* a session that has sent no signed message yet
    MaxSessions     \* the hub keeps at most this many sessions

ASSUME BrowserHubAssumption == NoKey \notin Keys /\ MaxSessions \in Nat

Kinds == {"pair", "revoke", "detect", "save", "one_time"}

(* Requests that look into the vault before the person is asked. *)
Looking == {"detect", "save", "one_time"}

NoFlow == [phase |-> "none"]
NoResult == [type |-> "none"]
(* Which of the reasons a request ended for is wording. *)
Finished == [type |-> "finished"]
Fill(candidate) == [type |-> "fill", candidate |-> candidate]
Absent == [password |-> "none", code |-> FALSE]
NoCandidate == [item |-> "none", content |-> Absent]

NewFlow(kind, password, gen) ==
    [phase      |-> IF kind = "one_time" THEN "reading" ELSE "awaiting_unseal",
     kind       |-> kind,
     password   |-> password,
     gen        |-> gen,
     image      |-> FALSE,
     scanned    |-> FALSE,
     candidates |-> <<>>,
     selected   |-> NoCandidate,
     old        |-> FALSE,
     late       |-> FALSE]

NewSession == [key |-> NoKey, idle |-> 0, flow |-> NoFlow, result |-> NoResult]

NewHub(keys) ==
    [sessions |-> [s \in {} |-> NewSession], paired |-> keys, work |-> <<>>,
     unsealed |-> FALSE, generation |-> 0]

Busy(h) == {s \in DOMAIN h.sessions : h.sessions[s].flow # NoFlow}

(* The flow a piece of work or a window was made for, if it is still there. *)
LiveFlow(h, s, gen) ==
    s \in Busy(h) /\ h.sessions[s].flow.gen = gen

EndFlow(h, s, result) ==
    [h EXCEPT !.sessions[s].flow = NoFlow, !.sessions[s].result = result]

-----------------------------------------------------------------------------
(* Time.                                                                    *)

FlowExpired(session) ==
    /\ session.flow # NoFlow
    /\ session.flow.old \/ session.idle >= 2 \/ session.flow.late

FillExpired(session) ==
    session.result.type = "fill" /\ session.idle >= 1

Expire(h) ==
    [h EXCEPT !.sessions =
        [s \in {t \in DOMAIN h.sessions : h.sessions[t].idle < 3} |->
            IF FlowExpired(h.sessions[s]) \/ FillExpired(h.sessions[s])
            THEN [h.sessions[s] EXCEPT !.flow = NoFlow, !.result = Finished]
            ELSE h.sessions[s]]]

-----------------------------------------------------------------------------
(* Work for the vault, and the steps of a flow.                             *)

Work(h, s, action, candidate) ==
    [session   |-> s,
     gen       |-> h.sessions[s].flow.gen,
     key       |-> h.sessions[s].key,
     action    |-> action,
     kind      |-> h.sessions[s].flow.kind,
     password  |-> h.sessions[s].flow.password,
     candidate |-> candidate]

(* advance: a flow that waited for the vault asks it, or the person. *)
Advance(h) ==
    LET waiting == {s \in Busy(h) : h.sessions[s].flow.phase = "awaiting_unseal"}
        lookups == {s \in waiting : h.sessions[s].flow.kind \in Looking}
    IN  IF ~h.unsealed
        THEN h
        ELSE [h EXCEPT
                !.sessions = [s \in DOMAIN h.sessions |->
                    IF s \in lookups
                    THEN [h.sessions[s] EXCEPT !.flow.phase = "matching"]
                    ELSE IF s \in waiting
                    THEN [h.sessions[s] EXCEPT !.flow.phase = "awaiting_approval"]
                    ELSE h.sessions[s]],
                !.work = h.work \o SetToSeq({Work(h, s, "lookup", NoCandidate) : s \in lookups})]

(* snapshot: sealing drops every flow, every result and all work. *)
Snapshot(h, unsealed) ==
    LET e == Expire(h)
        dropped == [e EXCEPT
            !.sessions = [s \in DOMAIN e.sessions |->
                [e.sessions[s] EXCEPT !.flow = NoFlow, !.result = Finished]],
            !.work = <<>>]
    IN  Advance([(IF e.unsealed /\ ~unsealed THEN dropped ELSE e) EXCEPT !.unsealed = unsealed])

(* revoked: forget a profile and everything it has pending. *)
Revoked(h, key) ==
    [h EXCEPT
        !.paired = @ \ {key},
        !.sessions = [s \in DOMAIN h.sessions |->
            IF h.sessions[s].key = key
            THEN [h.sessions[s] EXCEPT !.flow = NoFlow, !.result = Finished]
            ELSE h.sessions[s]]]

Deny(h, s) ==
    IF s \in DOMAIN h.sessions THEN EndFlow(h, s, Finished) ELSE h

(* approve: `index` is a position in the candidates, or 0 for none. *)
Approve(h, s, gen, index) ==
    LET f == h.sessions[s].flow
        offered == index \in DOMAIN f.candidates
        candidate == IF offered THEN f.candidates[index] ELSE NoCandidate
        saving(action, q) == [q EXCEPT !.sessions[s].flow.phase = "saving",
                                       !.work = Append(@, Work(h, s, action, candidate))]
    IN  IF ~LiveFlow(h, s, gen) \/ ~h.unsealed \/ f.phase # "awaiting_approval"
        THEN h
        ELSE IF f.kind \in {"pair", "revoke"}
        THEN saving(f.kind, h)
        ELSE IF f.kind = "detect"
        THEN IF offered
             THEN [h EXCEPT !.sessions[s].flow.selected = candidate,
                            !.sessions[s].flow.phase = "awaiting_context"]
             ELSE h
        ELSE IF (index # 0 /\ ~offered) \/ (f.kind = "one_time" /\ ~f.scanned)
        THEN h
        ELSE saving(f.kind, [h EXCEPT !.sessions[s].flow.scanned = FALSE])

(* take_work: work whose flow is gone is discarded on the way out. *)
TakenWork(h) ==
    SelectSeq(h.work, LAMBDA w : LiveFlow(h, w.session, w.gen))

(* complete: the vault's answer, for the flow that asked and no other. *)
Complete(h, w, reply) ==
    LET e == Expire(h)
        finish(q) == EndFlow(q, w.session, Finished)
        paired == IF w.action = "pair" THEN e.paired \cup {w.key}
                  ELSE IF w.action = "revoke" THEN e.paired \ {w.key} ELSE e.paired
    IN  IF ~LiveFlow(e, w.session, w.gen) THEN e
        ELSE IF ~e.unsealed THEN [e EXCEPT !.sessions[w.session].flow = NoFlow]
        ELSE CASE reply.type = "candidates" ->
                    IF reply.candidates # <<>> \/ w.kind # "detect"
                    THEN [e EXCEPT !.sessions[w.session].flow.candidates = reply.candidates,
                                   !.sessions[w.session].flow.phase = "awaiting_approval"]
                    ELSE finish(e)
               [] reply.type = "fill" -> EndFlow(e, w.session, Fill(reply.candidate))
               [] reply.type = "done" -> finish([e EXCEPT !.paired = paired])
               [] reply.type \in {"already_saved", "changed", "rejected"} -> finish(e)

(* scanned: what the decoder found in the image of a one-time password. *)
Scanned(h, s, gen, found) ==
    IF ~LiveFlow(h, s, gen) \/ h.sessions[s].flow.phase # "decoding"
    THEN h
    ELSE IF found
    THEN Advance([h EXCEPT !.sessions[s].flow.scanned = TRUE,
                           !.sessions[s].flow.phase = "awaiting_unseal"])
    ELSE EndFlow(h, s, Finished)

-----------------------------------------------------------------------------
(* Messages (handle and signed): each first expires what is over.           *)

Hello(h, s) ==
    LET e == Expire(h)
    IN  IF Cardinality(DOMAIN e.sessions) >= MaxSessions
        THEN e
        ELSE [e EXCEPT !.sessions =
                [t \in DOMAIN e.sessions \cup {s} |->
                    IF t = s THEN NewSession ELSE e.sessions[t]]]

(* The session belongs to the first key that signs for it. *)
Accepted(h, s, key) ==
    s \in DOMAIN h.sessions /\ h.sessions[s].key \in {NoKey, key}

Heard(h, s, key) ==
    [h EXCEPT !.sessions[s].key = key, !.sessions[s].idle = 0]

Cancel(h, s) == EndFlow(h, s, NoResult)

Poll(h, s) == [h EXCEPT !.sessions[s].result = NoResult]

(* Image: a part of the picture; `part` is how it fits the ones before. *)
Image(h, s, part) ==
    IF s \notin Busy(h) \/ h.sessions[s].flow.phase # "reading" THEN h
    ELSE CASE part = "more" -> [h EXCEPT !.sessions[s].flow.image = TRUE]
           [] part = "last" -> [h EXCEPT !.sessions[s].flow.image = TRUE,
                                         !.sessions[s].flow.phase = "decoding"]
           [] part = "misfit" -> [h EXCEPT !.sessions[s].flow = NoFlow]

(* Confirm: the page is still the one; the chosen login may be released. *)
Confirm(h, s) ==
    IF s \notin Busy(h) \/ ~h.unsealed \/ h.sessions[s].flow.phase # "awaiting_context"
    THEN h
    ELSE [h EXCEPT !.sessions[s].flow.phase = "releasing",
                   !.work = Append(@, Work(h, s, "release", h.sessions[s].flow.selected))]

(* Pair, Revoke, Detect, Save and OneTime open the one flow of the hub. *)
Ask(h, s, key, kind, password) ==
    IF \/ s \in Busy(h)
       \/ kind # "pair" /\ key \notin h.paired
       \/ Busy(h) # {}
    THEN h
    ELSE Advance([h EXCEPT !.generation = @ + 1,
                           !.sessions[s].result = NoResult,
                           !.sessions[s].flow = NewFlow(kind, password, h.generation + 1)])

=============================================================================
