---------------------------- MODULE AccessWindow ----------------------------
(* The window in which the person at the Desktop answers for other         *)
(* programs: system-keyring lookups that wait for the vault to be unlocked, *)
(* secrets a program asks to have entered, and permissions waiting for a   *)
(* grant.  Requests reach it through a channel and from a watch on the     *)
(* vault's permissions, clients may give up at any time, and the person    *)
(* presses a button under what was drawn last.                             *)
EXTENDS Naturals, Sequences, FiniteSets

CONSTANTS
  Lookups,      \* lookups of the system keyring
  Entries,      \* requests to enter a secret
  Grants,       \* permissions programs ask for
  SingleUse,    \* the ones that may be granted for one write only
  Nobody,       \* no request
  MaxSeals,     \* times the vault is sealed
  MaxAsked      \* times a permission is asked for

ASSUME AccessAssumption ==
  /\ SingleUse \subseteq Grants /\ Lookups \cap Entries = {}
  /\ Nobody \notin Lookups \cup Entries
  /\ MaxSeals \in Nat /\ MaxAsked \in Nat

VARIABLES
  desk,         \* the vault as the Desktop knows it, and its refresh generation
  clients,      \* what each lookup and entry is waiting for, or got
  mail,         \* the channel of access events
  popup,        \* the window
  permits,      \* the permissions in the vault and their revision
  watch,        \* the permission watch
  approval,     \* the approval under way
  denials,      \* permissions a closed window is still denying
  saved,        \* ghost: for which request the text saved for an entry was typed
  onscreen      \* ghost: permissions drawn since the window opened

avars == <<desk, clients, mail, popup, permits, watch, approval, denials, saved, onscreen>>

Requests == Lookups \cup Entries

NoPopup ==
  [open |-> FALSE, snap |-> "sealed", lookups |-> {}, entries |-> <<>>, ready |-> FALSE,
   text |-> Nobody, drawn |-> Nobody, grants |-> {}, reviewed |-> {}, choice |-> "none",
   approving |-> FALSE, reviewing |-> FALSE, explicit |-> FALSE, expired |-> FALSE]

NoApproval == [grants |-> {}, left |-> {}, single |-> FALSE, open |-> FALSE]

\* is_expired and is_pending of a lookup or an entry still undecided.
GaveUp(r) == clients[r] = "left"
Undecided(r) == clients[r] = "waiting"

\* A queue without the entries that gave up; prune_queue tells whether the
\* first one was among them.
Waiting(queue) == SelectSeq(queue, LAMBDA r : ~GaveUp(r))
HeadGone(queue) == queue # <<>> /\ GaveUp(Head(queue))

\* prune_inputs: the editor is wiped when the request it was for is gone.
Pruned(w) ==
  LET rest == [w EXCEPT !.entries = Waiting(w.entries)] IN
  IF HeadGone(w.entries) THEN [rest EXCEPT !.text = Nobody, !.ready = FALSE] ELSE rest

\* Whether nothing in the window waits for its person.
Settled(w) == w.entries = <<>> /\ w.grants = {} /\ ~w.approving

\* close: requests are dropped with the window, which their clients see as a
\* dismissal, and the permissions it showed are denied in the background.
Close(w, answers) ==
  /\ popup' = NoPopup
  /\ onscreen' = {}
  /\ clients' = [r \in Requests |->
       IF answers[r] = "waiting" /\ (r \in w.lookups \/ \E k \in DOMAIN w.entries : w.entries[k] = r)
       THEN "dismissed" ELSE answers[r]]
  /\ denials' = denials \cup w.grants

ShowsAs(w, answers) == popup' = w /\ clients' = answers /\ UNCHANGED <<denials, onscreen>>

CloseIf(done, w, answers) == IF done THEN Close(w, answers) ELSE ShowsAs(w, answers)

-----------------------------------------------------------------------------
(* The clients.                                                            *)

AskLookup(l) ==
  /\ clients[l] = "new"
  /\ clients' = [clients EXCEPT ![l] = "waiting"]
  /\ mail' = Append(mail, [event |-> "lookup", of |-> l])
  /\ UNCHANGED <<desk, popup, permits, watch, approval, denials, saved, onscreen>>

AskEntry(e) ==
  /\ clients[e] = "new"
  /\ clients' = [clients EXCEPT ![e] = "waiting"]
  /\ mail' = Append(mail, [event |-> "entry", of |-> e])
  /\ UNCHANGED <<desk, popup, permits, watch, approval, denials, saved, onscreen>>

\* A keyring prompt asks for the vault to be unlocked.
AskUnlockPopup ==
  /\ mail = <<>> /\ ~popup.explicit
  /\ mail' = <<[event |-> "unlock", of |-> Nobody]>>
  /\ UNCHANGED <<desk, clients, popup, permits, watch, approval, denials, saved, onscreen>>

\* A client gives up, or two minutes pass; a lookup reports that it ended.
GiveUpWaiting(r) ==
  /\ clients[r] = "waiting"
  /\ clients' = [clients EXCEPT ![r] = "left"]
  /\ mail' = IF r \in Lookups THEN Append(mail, [event |-> "finished", of |-> r]) ELSE mail
  /\ UNCHANGED <<desk, popup, permits, watch, approval, denials, saved, onscreen>>

\* An answered lookup ends too, when the vault has answered it.
LookupEnds(l) ==
  /\ clients[l] \in {"allowed", "denied", "dismissed"}
  /\ clients' = [clients EXCEPT ![l] = "over"]
  /\ mail' = Append(mail, [event |-> "finished", of |-> l])
  /\ UNCHANGED <<desk, popup, permits, watch, approval, denials, saved, onscreen>>

-----------------------------------------------------------------------------
(* The window.                                                             *)

\* AccessView::add.
Added(w, event) ==
  CASE event.event = "lookup" -> [w EXCEPT !.lookups = @ \cup {event.of}]
    [] event.event = "entry" -> [w EXCEPT !.entries = Append(@, event.of)]
    [] OTHER -> [w EXCEPT !.explicit = TRUE]

\* open: a finished lookup leaves the window; any other event is added to the
\* window or opens it.  When no window can be opened the request is dropped.
TakeMail ==
  /\ mail # <<>>
  /\ mail' = Tail(mail)
  /\ LET event == Head(mail)
         rest == [popup EXCEPT !.lookups = @ \ {event.of}] IN
     IF event.event = "finished"
     THEN IF popup.open
          THEN CloseIf(rest.reviewing /\ rest.lookups = {} /\ Settled(rest), rest, clients)
          ELSE UNCHANGED <<popup, clients, denials, onscreen>>
     ELSE \/ ShowsAs(Added([popup EXCEPT !.open = TRUE,
                            !.snap = IF popup.open THEN popup.snap ELSE desk.vault], event), clients)
          \/ /\ ~popup.open
             /\ clients' = [r \in Requests |-> IF r = event.of /\ Undecided(r) THEN "dismissed"
                                              ELSE clients[r]]
             /\ UNCHANGED <<popup, denials, onscreen>>
  /\ UNCHANGED <<desk, permits, watch, approval, saved>>

\* The half-second timer.
PopupTick ==
  /\ popup.open
  /\ LET kept == Pruned([popup EXCEPT !.lookups = {l \in popup.lookups : ~GaveUp(l)}])
         w == IF kept.lookups = {} /\ kept.entries = <<>> THEN [kept EXCEPT !.reviewing = FALSE]
              ELSE kept
     IN CloseIf(w.lookups = {} /\ Settled(w) /\ ~w.explicit /\ ~w.reviewing /\ ~w.expired, w, clients)
  /\ UNCHANGED <<desk, mail, permits, watch, approval, saved>>

DefaultChoice(grants) == IF grants # {} /\ grants \subseteq SingleUse THEN "single" ELSE "hour"

\* render: permissions are under review only when no secret is being asked
\* for; the editor gets the initial value of a request it is new to.
Render ==
  /\ popup.open
  /\ popup' = [popup EXCEPT
       !.reviewed = IF popup.entries = <<>> THEN popup.grants ELSE {},
       !.drawn = IF popup.entries = <<>> THEN Nobody ELSE Head(popup.entries),
       !.ready = @ \/ popup.entries # <<>>,
       !.text = IF ~popup.ready /\ popup.entries # <<>> THEN Head(popup.entries) ELSE @,
       !.choice = IF popup.grants # {} /\ @ = "none" THEN DefaultChoice(popup.grants) ELSE @]
  /\ onscreen' = IF popup.entries = <<>> THEN onscreen \cup popup.grants ELSE onscreen
  /\ UNCHANGED <<desk, clients, mail, permits, watch, approval, denials, saved>>

\* The person types below the request that is drawn.
TypeSecret ==
  /\ popup.open /\ popup.drawn # Nobody /\ popup.text # popup.drawn
  /\ popup' = [popup EXCEPT !.text = popup.drawn]
  /\ UNCHANGED <<desk, clients, mail, permits, watch, approval, denials, saved, onscreen>>

ChooseLifetime(choice) ==
  /\ popup.open /\ popup.grants # {} /\ popup.choice # choice
  /\ popup' = [popup EXCEPT !.choice = choice]
  /\ UNCHANGED <<desk, clients, mail, permits, watch, approval, denials, saved, onscreen>>

\* reviewed_pending.
ToGrant(w) == w.reviewed \cap w.grants

\* single_write_allowed.
Fits(choice, grants) == choice = "single" => grants \subseteq SingleUse

\* allow, when a secret is asked for.
PressSave ==
  /\ popup.open /\ ~popup.approving /\ popup.snap = "unsealed"
  /\ ~HeadGone(popup.entries) /\ Pruned(popup).entries # <<>> /\ popup.ready
  /\ LET w == Pruned(popup)
         r == Head(w.entries)
         rest == [w EXCEPT !.entries = Tail(@), !.text = Nobody, !.ready = FALSE]
         answers == [clients EXCEPT ![r] = IF @ = "waiting" THEN "saved" ELSE @]
     IN /\ saved' = [saved EXCEPT ![r] = w.text]
        /\ CloseIf(rest.entries = <<>> /\ rest.grants = {}
                     /\ ~(\E l \in rest.lookups : Undecided(l)), rest, answers)
  /\ UNCHANGED <<desk, mail, permits, watch, approval>>

\* allow, when permissions are to be granted.
PressGrant ==
  LET w == Pruned(popup)
      grants == ToGrant(w)
      choice == IF w.choice = "none" THEN DefaultChoice(grants) ELSE w.choice
  IN
  /\ popup.open /\ ~popup.approving /\ popup.snap = "unsealed"
  /\ ~HeadGone(popup.entries) /\ w.entries = <<>> /\ w.grants # {}
  /\ grants # {} /\ Fits(choice, grants)
  /\ approval' = [grants |-> grants, left |-> grants, single |-> choice = "single", open |-> TRUE]
  /\ popup' = [w EXCEPT !.approving = TRUE]
  /\ UNCHANGED <<desk, clients, mail, permits, watch, denials, saved, onscreen>>

\* allow, when lookups wait: a sealed vault is unlocked first, unless an
\* unlock is under way, and the window stays until they have ended.
PressUnlockOrContinue ==
  LET w == Pruned(popup)
      answers == [r \in Requests |-> IF r \in w.lookups /\ Undecided(r) THEN "allowed" ELSE clients[r]]
  IN
  /\ popup.open /\ ~popup.approving /\ popup.snap # "unlocking" /\ ~HeadGone(popup.entries)
  /\ \/ /\ popup.snap = "sealed" /\ desk.vault = "sealed"
        /\ desk' = [desk EXCEPT !.vault = "unlocking"]
        /\ ShowsAs([w EXCEPT !.snap = "unlocking",
                           !.reviewing = w.lookups # {} \/ w.entries # <<>>], answers)
     \/ /\ popup.snap = "sealed"
        /\ ShowsAs([w EXCEPT !.reviewing = w.lookups # {} \/ w.entries # <<>>], clients)
        /\ UNCHANGED desk
     \/ /\ popup.snap = "unsealed" /\ w.entries = <<>> /\ w.grants = {}
        /\ CloseIf(~w.reviewing, w, answers)
        /\ UNCHANGED desk
  /\ UNCHANGED <<mail, permits, watch, approval, saved>>

\* Enter or the button on a request that has just gone only prunes.
PressStale ==
  /\ popup.open /\ ~popup.approving /\ popup.snap # "unlocking" /\ HeadGone(popup.entries)
  /\ popup' = Pruned(popup)
  /\ UNCHANGED <<desk, clients, mail, permits, watch, approval, denials, saved, onscreen>>

\* The window is closed without an answer.
CloseAccess ==
  /\ popup.open /\ ~popup.approving
  /\ Close(popup, clients)
  /\ UNCHANGED <<desk, mail, permits, watch, approval, saved>>

\* deny: an explicit answer to every request in the window.
PressDenyAccess ==
  /\ popup.open /\ ~popup.approving
  /\ Close(popup, [r \in Requests |->
       IF Undecided(r) /\ (r \in popup.lookups \/ \E k \in DOMAIN popup.entries : popup.entries[k] = r)
       THEN "denied" ELSE clients[r]])
  /\ UNCHANGED <<desk, mail, permits, watch, approval, saved>>

-----------------------------------------------------------------------------
(* Snapshots.                                                              *)

\* update: a window that saw the vault unsealed goes when it is sealed; one
\* with nothing left to answer goes when it is unsealed.
Updated(vault) ==
  IF popup.open
  THEN LET w == [popup EXCEPT !.snap = vault] IN
       CloseIf(\/ popup.snap = "unsealed" /\ vault = "sealed"
               \/ /\ vault = "unsealed" /\ Settled(w) /\ ~w.reviewing /\ ~w.expired
                  /\ ~(\E l \in w.lookups : Undecided(l)), w, clients)
  ELSE UNCHANGED <<popup, clients, denials, onscreen>>

Becomes(vault) ==
  /\ desk' = [desk EXCEPT !.vault = vault, !.generation = @ + 1,
                          !.seals = IF vault = "sealed" THEN @ + 1 ELSE @]
  /\ Updated(vault)
  /\ UNCHANGED <<mail, watch, approval, saved>>

DeskUnseals ==
  /\ desk.vault \in {"unlocking", "sealed"} /\ desk.seals <= MaxSeals
  /\ Becomes("unsealed") /\ UNCHANGED permits

\* An unlock fails, or the vault is sealed and forgets what was pending.
DeskSeals ==
  /\ desk.vault \in {"unlocking", "unsealed"} /\ desk.seals < MaxSeals
  /\ Becomes("sealed")
  /\ permits' = IF desk.vault = "unlocking" THEN permits
                ELSE [permits EXCEPT !.revision = 0, !.of = [g \in Grants |->
                        IF @[g] \in {"awaited", "pending"} THEN "none" ELSE @[g]]]

-----------------------------------------------------------------------------
(* Permissions.                                                            *)

PermitBecomes(g, state) ==
  permits' = [permits EXCEPT !.of[g] = state, !.revision = @ + 1]

\* A program asks and waits for the answer; it may stop waiting.
PermissionAsked(g) ==
  /\ desk.vault = "unsealed" /\ permits.of[g] = "none" /\ permits.asked < MaxAsked
  /\ permits' = [permits EXCEPT !.of[g] = "awaited", !.revision = @ + 1, !.asked = @ + 1]
  /\ UNCHANGED <<desk, clients, mail, popup, watch, approval, denials, saved, onscreen>>

PermissionAbandoned(g) ==
  /\ permits.of[g] = "awaited"
  /\ PermitBecomes(g, "pending")
  /\ UNCHANGED <<desk, clients, mail, popup, watch, approval, denials, saved, onscreen>>

\* approve_permissions sends one approval after the other.
ApproveNext ==
  /\ approval.open
  /\ \E g \in approval.left :
       /\ desk.vault = "unsealed" /\ permits.of[g] \in {"awaited", "pending"}
       /\ PermitBecomes(g, "granted")
       /\ approval' = [approval EXCEPT !.left = @ \ {g}]
  /\ UNCHANGED <<desk, clients, mail, popup, watch, denials, saved, onscreen>>

\* It ends when all are sent, or with the first that fails.
ApprovalEnds ==
  /\ approval.open
  /\ LET w == [popup EXCEPT !.approving = FALSE,
                 !.grants = IF approval.left = {} THEN @ \ approval.grants ELSE @] IN
     IF popup.open /\ popup.approving
     THEN CloseIf(approval.left = {} /\ w.grants = {} /\ w.entries = <<>>
                    /\ ~(\E l \in w.lookups : Undecided(l)), w, clients)
     ELSE UNCHANGED <<popup, clients, denials, onscreen>>
  /\ approval' = NoApproval
  /\ UNCHANGED <<desk, mail, permits, watch, saved>>

DenyNext(g) ==
  /\ g \in denials
  /\ denials' = denials \ {g}
  /\ IF desk.vault = "unsealed" /\ permits.of[g] \in {"awaited", "pending"}
     THEN PermitBecomes(g, "denied") ELSE UNCHANGED permits
  /\ UNCHANGED <<desk, clients, mail, popup, watch, approval, saved, onscreen>>

\* watch_permissions: the list is read in the background, after the revision
\* last applied, or whatever it is for a new generation ...
WatchReads ==
  LET known == watch.known /\ watch.generation = desk.generation IN
  /\ desk.vault = "unsealed" /\ watch.at = "idle"
  /\ known => watch.revision # permits.revision
  /\ watch' = [at |-> "read", generation |-> desk.generation, known |-> known,
               revision |-> permits.revision, list |-> permits.of]
  /\ UNCHANGED <<desk, clients, mail, popup, permits, approval, denials, saved, onscreen>>

\* show_pending.
ShowPending(list) ==
  LET pending == {g \in Grants : list[g] = "awaited"}
      expired == /\ ~popup.approving /\ pending = {}
                 /\ popup.expired \/ \E g \in popup.grants : list[g] = "pending"
  IN IF popup.open THEN popup' = [popup EXCEPT !.grants = pending, !.expired = expired]
     ELSE IF pending # {} THEN popup' = [NoPopup EXCEPT !.open = TRUE, !.snap = desk.vault,
                                                        !.grants = pending]
     ELSE UNCHANGED popup

\* A variant that remembers the revision of a list it did not show.
WatchAppliesAnyway ==
  /\ watch.at = "read"
  /\ IF desk.vault = "unsealed" /\ watch.generation = desk.generation
     THEN ShowPending(watch.list) ELSE UNCHANGED popup
  /\ watch' = [watch EXCEPT !.at = "idle", !.known = TRUE, !.generation = desk.generation]
  /\ UNCHANGED <<desk, clients, mail, permits, approval, denials, saved, onscreen>>

\* ... and applied unless the vault was sealed or refreshed since.
WatchApplies ==
  /\ watch.at = "read"
  /\ LET accepted == desk.vault = "unsealed" /\ watch.generation = desk.generation IN
     /\ IF accepted THEN ShowPending(watch.list) ELSE UNCHANGED popup
     /\ watch' = [watch EXCEPT !.at = "idle", !.known = accepted]
  /\ UNCHANGED <<desk, clients, mail, permits, approval, denials, saved, onscreen>>

-----------------------------------------------------------------------------
AccessInit ==
  /\ desk = [vault |-> "sealed", generation |-> 0, seals |-> 0]
  /\ clients = [r \in Requests |-> "new"]
  /\ mail = <<>> /\ popup = NoPopup
  /\ permits = [of |-> [g \in Grants |-> "none"], revision |-> 0, asked |-> 0]
  /\ watch = [at |-> "idle", generation |-> 0, known |-> FALSE, revision |-> 0,
              list |-> [g \in Grants |-> "none"]]
  /\ approval = NoApproval /\ denials = {}
  /\ saved = [e \in Entries |-> e] /\ onscreen = {}

Clients ==
  \/ \E l \in Lookups : AskLookup(l) \/ LookupEnds(l)
  \/ \E e \in Entries : AskEntry(e)
  \/ \E r \in Requests : GiveUpWaiting(r)
  \/ AskUnlockPopup

Person ==
  \/ TypeSecret \/ PressSave \/ PressGrant \/ PressUnlockOrContinue \/ PressStale
  \/ PressDenyAccess \/ CloseAccess
  \/ \E choice \in {"single", "hour"} : ChooseLifetime(choice)

Permitting ==
  \/ \E g \in Grants : PermissionAsked(g) \/ PermissionAbandoned(g) \/ DenyNext(g)
  \/ ApproveNext \/ ApprovalEnds \/ WatchReads \/ WatchApplies

-----------------------------------------------------------------------------
\* The type invariant of the window.
AccessTypeOK ==
  /\ desk.vault \in {"sealed", "unlocking", "unsealed"} /\ popup.snap \in {"sealed", "unlocking", "unsealed"}
  /\ popup.lookups \subseteq Lookups /\ popup.grants \subseteq Grants
  /\ \A k \in DOMAIN popup.entries : popup.entries[k] \in Entries
  /\ popup.text \in Entries \cup {Nobody}
  /\ approval.left \subseteq approval.grants
  /\ ~popup.open => popup = NoPopup

\* What is granted was drawn in this window while no secret was being asked
\* for, so the button was pressed under it.
GrantedWasShown == (approval.open /\ popup.approving) => approval.grants \subseteq onscreen

\* A grant for one write only goes to permissions that allow it, whatever
\* arrived between the choice and the button.
SingleUseFits == approval.single => approval.grants \subseteq SingleUse

\* The text saved for an entry was typed for that entry, or is its own
\* initial value: never what was typed for one that has gone.
SavedAsTyped == \A e \in Entries : saved[e] = e

\* A client that waits is in the window or on its way there: no closing,
\* sealing or expiry of another request leaves it behind.
NobodyForgotten ==
  \A r \in Requests : Undecided(r) =>
    \/ \E k \in DOMAIN mail : mail[k].of = r /\ mail[k].event # "finished"
    \/ popup.open /\ (r \in popup.lookups \/ \E k \in DOMAIN popup.entries : popup.entries[k] = r)

\* With the watch up to date, nothing being granted or denied and the vault
\* unsealed, the window shows every permission a program waits for.
AwaitedIsShown ==
  (/\ desk.vault = "unsealed" /\ watch.at = "idle" /\ watch.known
   /\ watch.generation = desk.generation /\ watch.revision = permits.revision
   /\ ~approval.open /\ denials = {})
  => \A g \in Grants : permits.of[g] = "awaited" => g \in popup.grants

\* The window asks for everyone who waits, and what it grants and saves is
\* what the person saw and typed.
AccessIsInformed ==
  /\ AccessTypeOK /\ GrantedWasShown /\ SingleUseFits /\ SavedAsTyped
  /\ NobodyForgotten /\ AwaitedIsShown

=============================================================================
