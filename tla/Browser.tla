------------------------------ MODULE Browser -------------------------------
(***************************************************************************)
(* Browser requests, end to end: the browser extensions that send messages,*)
(* the hub (module BrowserHub), the Desktop's worker thread that carries   *)
(* work to the vault (module BrowserVault) and answers back, the timer     *)
(* that refreshes the hub and the approval window every 200 ms, the person *)
(* at that window and in the settings, and the vault that is unlocked,     *)
(* sealed and edited meanwhile (factorseal-desktop/src/app/browser.rs and  *)
(* app/browser/prompt.rs).                                                 *)
(***************************************************************************)
EXTENDS BrowserVault

CONSTANTS
    MaxGeneration,  \* bound: flows the hub opens
    MaxEdits        \* bound: changes made to the logins from elsewhere

VARIABLES
    hub,        \* the coordinator, module BrowserHub
    vault,      \* pairings, logins, tickets and lookups, module BrowserVault
    desktop,    \* the vault as the Desktop sees it: sealed, unlocking, unsealed
                \* by a worker of its own, or external: by another process
    batch,      \* work the worker thread has taken and not finished
    reply,      \* the vault's answer to the first of it
    scans,      \* images being decoded
    window,     \* the approval window
    revoking,   \* disconnections the settings have sent
    edits,      \* changes made to the logins from elsewhere so far
    consent,    \* ghost: the flows the person consented to in their windows
    chosen      \* ghost: the login the person saw when choosing, per session

bvars == <<hub, vault, desktop, batch, reply, scans,
           window, revoking, edits, consent, chosen>>

NoReply == [type |-> "none"]
NoWindow == [open |-> FALSE]

BrowserInit ==
    /\ \E keys \in SUBSET Keys, logins \in [Range(Inventory) -> Contents \cup {Absent}] :
        /\ hub = NewHub(keys)
        /\ vault = [pairs |-> keys, tickets |-> [g \in {} |-> 0], seen |-> 0, logins |-> logins]
    /\ desktop = "sealed" /\ batch = <<>> /\ reply = NoReply /\ scans = {}
    /\ window = NoWindow /\ revoking = {} /\ edits = 0
    /\ consent = {} /\ chosen = [s \in Sessions |-> NoCandidate]

-----------------------------------------------------------------------------
(* Messages of a browser, through the endpoint's handler.                   *)

Received(h) == hub' = h /\ UNCHANGED <<vault, desktop, batch, reply,
                                       scans, window, revoking, edits, consent>>

(* Identifiers are random: a new session has one that nothing else holds. *)
Named(s) ==
    \/ s \in DOMAIN hub.sessions
    \/ \E n \in DOMAIN hub.work : hub.work[n].session = s
    \/ \E n \in DOMAIN batch : batch[n].session = s
    \/ \E g \in DOMAIN vault.tickets : vault.tickets[g].session = s
    \/ \E x \in scans : x.session = s
    \/ window # NoWindow /\ window.session = s

SayHello(s) == ~Named(s) /\ Received(Hello(hub, s)) /\ UNCHANGED chosen

Signed(s, key) == Accepted(Expire(hub), s, key)

(* The hub as a signed message finds it. *)
HubFor(s, key) == Heard(Expire(hub), s, key)

SendCancel(s, key) ==
    Signed(s, key) /\ Received(Cancel(HubFor(s, key), s)) /\ UNCHANGED chosen

SendPoll(s, key) ==
    Signed(s, key) /\ Received(Poll(HubFor(s, key), s)) /\ UNCHANGED chosen

SendImage(s, key) ==
    /\ Signed(s, key)
    /\ \E part \in {"more", "last", "misfit"} : Received(Image(HubFor(s, key), s, part))
    /\ UNCHANGED chosen

SendConfirm(s, key) ==
    Signed(s, key) /\ Received(Confirm(HubFor(s, key), s)) /\ UNCHANGED chosen

SendRequest(s, key, kind) ==
    /\ hub.generation < MaxGeneration /\ hub.generation + 1 \notin DOMAIN vault.tickets
    /\ Signed(s, key)
    /\ \E password \in Matching :
        /\ kind = "save" \/ password = Blank
        /\ Received(Ask(HubFor(s, key), s, key, kind, password))
    /\ chosen' = IF hub'.generation = hub.generation THEN chosen
                 ELSE [chosen EXCEPT ![s] = NoCandidate]

-----------------------------------------------------------------------------
(* Time passes for one session, one flow or one ticket.                     *)

Aged(h) == hub' = h /\ UNCHANGED <<vault, desktop, batch, reply,
                                   scans, window, revoking, edits, consent, chosen>>

SessionAges(s) ==
    /\ s \in DOMAIN hub.sessions
    /\ \E idle \in hub.sessions[s].idle + 1 .. 3 :
        /\ idle < 3 => s \in Busy(hub) \/ hub.sessions[s].result.type = "fill"
        /\ Aged([hub EXCEPT !.sessions[s].idle = idle])

FlowAges(s) ==
    /\ s \in Busy(hub) /\ ~hub.sessions[s].flow.old /\ ~hub.sessions[s].flow.late
    /\ Aged([hub EXCEPT !.sessions[s].flow.old = TRUE])

ContextLapses(s) ==
    /\ s \in Busy(hub) /\ hub.sessions[s].flow.phase \in {"awaiting_context", "releasing"}
    /\ ~hub.sessions[s].flow.late /\ ~hub.sessions[s].flow.old
    /\ Aged([hub EXCEPT !.sessions[s].flow.late = TRUE])

(* A ticket is younger than the flow it was issued to and lives as long. *)
TicketExpires(g) ==
    /\ g \in DOMAIN vault.tickets
    /\ \A s \in Busy(hub) : hub.sessions[s].flow.gen = g => hub.sessions[s].flow.old
    /\ vault' = Spend(vault, g)
    /\ UNCHANGED <<hub, desktop, batch, reply, scans, window,
                   revoking, edits, consent, chosen>>

-----------------------------------------------------------------------------
(* The worker thread.                                                       *)

TakeWork ==
    /\ batch = <<>>
    /\ LET e == Expire(hub)
       IN  /\ hub' = [e EXCEPT !.work = <<>>]
           /\ batch' = TakenWork(e)
    /\ UNCHANGED <<vault, desktop, reply, scans, window, revoking,
                   edits, consent, chosen>>

Open == desktop \in {"unsealed", "external"}

(* browser_request: done and answered, done and the answer lost, or not done. *)
RequestVault ==
    /\ batch # <<>> /\ reply = NoReply
    /\ \/ /\ Open
          /\ Head(batch).candidate = NoCandidate /\ Unused(vault) = {} =>
                Head(batch).action \notin {"save", "one_time"}
          /\ LET r == Perform(vault, Head(batch))
             IN  /\ vault' = r.vault
                 /\ reply' \in {r.reply, [type |-> "rejected"]}
       \/ reply' = [type |-> "rejected"] /\ UNCHANGED vault
    /\ UNCHANGED <<hub, desktop, batch, scans, window, revoking, edits,
                   consent, chosen>>

(* The answer goes to the hub and, under the same lock, its set of profiles to
   the file browser-pairings.json: the file is hub.paired. *)
CompleteWork ==
    /\ reply # NoReply
    /\ hub' = Complete(hub, Head(batch), reply)
    /\ batch' = Tail(batch) /\ reply' = NoReply
    /\ UNCHANGED <<vault, desktop, scans, window, revoking, edits, consent,
                   chosen>>

(* read_one_time_password, once the image is decoded. *)
FinishScan ==
    /\ \E x \in scans, found \in BOOLEAN :
        /\ scans' = scans \ {x}
        /\ hub' = Scanned(hub, x.session, x.gen, found)
    /\ UNCHANGED <<vault, desktop, batch, reply, window, revoking,
                   edits, consent, chosen>>

-----------------------------------------------------------------------------
(* The timer and the approval window.                                       *)

Unsealed == desktop = "unsealed"

(* take_image hands a whole image to the decoder, once. *)
Decodable(h) ==
    {s \in Busy(h) : h.sessions[s].flow.phase = "decoding" /\ h.sessions[s].flow.image}

ImageTaken(h) ==
    [h EXCEPT !.sessions = [s \in DOMAIN h.sessions |->
        IF s \in Decodable(h) THEN [h.sessions[s] EXCEPT !.flow.image = FALSE]
        ELSE h.sessions[s]]]

Shows(w, h, s) == w # NoWindow /\ w.session = s /\ w.gen = h.sessions[s].flow.gen

View(h, s, armed) ==
    [open |-> TRUE, session |-> s, gen |-> h.sessions[s].flow.gen,
     kind |-> h.sessions[s].flow.kind, phase |-> h.sessions[s].flow.phase,
     candidates |-> h.sessions[s].flow.candidates, armed |-> armed]

(* sync, for the request of session s: the window stays with the request it
   was opened for; pairing consent given with an unlock is spent or dropped. *)
Sync(h, s) ==
    IF h.sessions[s].flow.phase \in {"reading", "decoding", "matching"} /\ window = NoWindow
    THEN hub' = h /\ window' = window
    ELSE IF Shows(window, h, s)
    THEN LET now == window.armed /\ Unsealed
                        /\ h.sessions[s].flow.phase = "awaiting_approval"
         IN  /\ window' = View(h, s, window.armed /\ desktop = "unlocking")
             /\ hub' = IF now THEN Approve(h, s, window.gen, 0) ELSE h
    ELSE \/ hub' = h /\ window' = View(h, s, FALSE)
         \/ hub' = Deny(h, s) /\ window' = NoWindow

(* The body of the timer. *)
Tick ==
    LET h == Snapshot(hub, Unsealed)
        i == ImageTaken(h)
    IN  /\ scans' = scans \cup {[session |-> s, gen |-> h.sessions[s].flow.gen] : s \in Decodable(h)}
        /\ \/ Busy(i) = {} /\ hub' = i /\ window' = NoWindow
           \/ \E s \in Busy(i) :
                IF desktop = "external"
                THEN hub' = Deny(i, s) /\ window' = NoWindow
                ELSE Sync(i, s)
        /\ UNCHANGED <<vault, desktop, batch, reply, revoking, edits,
                       consent, chosen>>

(* A button of the window: the position of a candidate, or 0 for the main one. *)
PressApprove ==
    /\ window # NoWindow /\ window.phase = "awaiting_approval"
    /\ \E index \in {0} \cup DOMAIN window.candidates :
        /\ index = 0 => window.kind # "detect"
        /\ hub' = Approve(hub, window.session, window.gen, index)
        /\ chosen' = IF window.kind # "detect" THEN chosen
                     ELSE [chosen EXCEPT ![window.session] = window.candidates[index]]
    /\ consent' = consent \cup {window.gen}
    /\ UNCHANGED <<vault, desktop, batch, reply, scans, window,
                   revoking, edits>>

(* Unlock from the window; for a pairing it is the consent as well. *)
PressUnlock ==
    /\ window # NoWindow /\ desktop = "sealed"
    /\ desktop' = "unlocking"
    /\ window' = [window EXCEPT !.armed = window.kind = "pair"]
    /\ consent' = IF window.kind = "pair" THEN consent \cup {window.gen} ELSE consent
    /\ UNCHANGED <<hub, vault, batch, reply, scans, revoking, edits, chosen>>

(* Deny, Escape or closing the window: for the request it shows, or nothing. *)
PressDeny ==
    /\ window # NoWindow
    /\ LET e == Expire(hub)
       IN  IF LiveFlow(e, window.session, window.gen)
           THEN hub' = Deny(e, window.session) /\ window' = NoWindow
           ELSE hub' = e /\ window' = window
    /\ UNCHANGED <<vault, desktop, batch, reply, scans, revoking,
                   edits, consent, chosen>>

-----------------------------------------------------------------------------
(* Disconnecting a profile in the settings: asked, done in the vault, and
   then forgotten by the hub and the file.                                  *)

PressDisconnect(key) ==
    /\ key \in hub.paired /\ Unsealed
    /\ revoking' = revoking \cup {[key |-> key, done |-> FALSE]}
    /\ UNCHANGED <<hub, vault, desktop, batch, reply, scans, window,
                   edits, consent, chosen>>

DisconnectInVault(key) ==
    /\ [key |-> key, done |-> FALSE] \in revoking
    /\ \/ /\ Open
          /\ vault' = Revoke(vault, [key |-> key]).vault
          /\ \E answered \in BOOLEAN :
                revoking' = (revoking \ {[key |-> key, done |-> FALSE]})
                              \cup (IF answered THEN {[key |-> key, done |-> TRUE]} ELSE {})
       \/ revoking' = revoking \ {[key |-> key, done |-> FALSE]} /\ UNCHANGED vault
    /\ UNCHANGED <<hub, desktop, batch, reply, scans, window, edits,
                   consent, chosen>>

FinishDisconnect(key) ==
    /\ [key |-> key, done |-> TRUE] \in revoking
    /\ revoking' = revoking \ {[key |-> key, done |-> TRUE]}
    /\ hub' = Revoked(hub, key)
    /\ UNCHANGED <<vault, desktop, batch, reply, scans, window, edits,
                   consent, chosen>>

-----------------------------------------------------------------------------
(* The vault and the Desktop around it.                                     *)

(* Tickets and seen lookups end with the lease. *)
Leased(v) == [v EXCEPT !.tickets = [g \in {} |-> 0], !.seen = 0]

DesktopBecomes(before, after) ==
    /\ desktop \in before /\ desktop' = after
    /\ vault' = Leased(vault)
    /\ UNCHANGED <<hub, batch, reply, scans, window, revoking, edits, consent, chosen>>

StartUnlock  == DesktopBecomes({"sealed"}, "unlocking")
Unlock       == DesktopBecomes({"unlocking"}, "unsealed")
UnlockFails  == DesktopBecomes({"unlocking"}, "sealed")
OtherUnseals == DesktopBecomes({"sealed", "unlocking"}, "external")
Seal         == DesktopBecomes({"unsealed", "external"}, "sealed")

(* A login is edited, added or removed in the Desktop, or by a sync. *)
EditLogin ==
    /\ Open /\ edits < MaxEdits
    /\ \E i \in Range(Inventory), content \in Contents \cup {Absent} :
        vault' = [vault EXCEPT !.logins[i] = content]
    /\ edits' = edits + 1
    /\ UNCHANGED <<hub, desktop, batch, reply, scans, window,
                   revoking, consent, chosen>>

(* The Desktop ends, in the middle of anything, and starts again; a worker
   it ran ends with it. *)
Restart ==
    /\ hub' = NewHub(hub.paired)
    /\ desktop' = IF desktop = "external" THEN desktop ELSE "sealed"
    /\ batch' = <<>> /\ reply' = NoReply /\ scans' = {}
    /\ window' = NoWindow /\ revoking' = {}
    /\ consent' = {} /\ chosen' = [s \in Sessions |-> NoCandidate]
    /\ vault' = IF desktop = "external" THEN vault ELSE Leased(vault)
    /\ UNCHANGED edits

-----------------------------------------------------------------------------
(* Properties.                                                              *)

Phases == {"reading", "decoding", "awaiting_unseal", "matching", "awaiting_approval",
           "awaiting_context", "releasing", "saving"}

(* Every variable has its type. *)
BrowserTypeOK ==
    /\ DOMAIN hub.sessions \subseteq Sessions
    /\ \A s \in DOMAIN hub.sessions :
        /\ hub.sessions[s].key \in Keys \cup {NoKey} /\ hub.sessions[s].idle \in 0..3
        /\ s \in Busy(hub) => /\ hub.sessions[s].flow.phase \in Phases
                              /\ hub.sessions[s].flow.gen \in 1..hub.generation
    /\ hub.paired \subseteq Keys /\ vault.pairs \subseteq Keys
    /\ hub.unsealed \in BOOLEAN
    /\ desktop \in {"sealed", "unlocking", "unsealed", "external"}
    /\ consent \subseteq 1..MaxGeneration

(* One prompt at a time: whatever the sessions send, the hub has one flow, and
   the worker thread never carries more than one piece of work. *)
OneFlow == Cardinality(Busy(hub)) <= 1 /\ Len(batch) <= 1

(* While the hub takes the vault for sealed it holds no password for a browser,
   no work, and no flow that has been past the unlock. *)
SealedHubHoldsNothing ==
    ~hub.unsealed =>
        /\ hub.work = <<>>
        /\ \A s \in DOMAIN hub.sessions :
            /\ hub.sessions[s].result.type # "fill"
            /\ hub.sessions[s].flow.phase \in {"none", "reading", "decoding", "awaiting_unseal"}

(* A flow that can touch a login belongs to a profile the hub still has as
   paired: disconnecting a profile takes its flow away. *)
FlowsArePaired ==
    \A s \in Busy(hub) :
        hub.sessions[s].flow.kind # "pair" => hub.sessions[s].key \in hub.paired

(* Nothing but a lookup is asked of the vault for a flow whose own window did
   not get the person's consent: not by work left over from another flow, not
   by consent that was given with an unlock to another request. *)
NothingWithoutConsent ==
    \A w \in Range(hub.work) \cup Range(batch) : w.action # "lookup" => w.gen \in consent

(* The login a browser gets is the one the person chose for this session, with
   the content it had when the window showed it. *)
FillsAreApproved ==
    \A s \in DOMAIN hub.sessions :
        hub.sessions[s].result.type = "fill" => hub.sessions[s].result.candidate = chosen[s]

(* The person decides: one prompt at a time, nothing kept or left over from
   another session, profile or lease, and nothing of the vault without consent. *)
BrowserConsent ==
    /\ BrowserTypeOK /\ OneFlow /\ SealedHubHoldsNothing /\ FlowsArePaired
    /\ NothingWithoutConsent /\ FillsAreApproved

(* A browser replaces a login only in the version that was offered for it: an
   edit made while the window was open is never overwritten. *)
NoBlindOverwrite ==
    [][\A i \in Range(Inventory) :
        (edits' = edits /\ vault.logins[i] # Absent /\ vault'.logins[i] # vault.logins[i])
            => /\ batch # <<>>
               /\ Head(batch).candidate = [item |-> i, content |-> vault.logins[i]]]_bvars

=============================================================================
