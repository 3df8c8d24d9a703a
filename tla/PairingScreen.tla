--------------------------- MODULE PairingScreen ----------------------------
(* The screens from which a user pairs one device: the Desktop's sheet and  *)
(* the phone's dialog.  A press starts an action of the manager and returns *)
(* at once; the sheet can be closed while the action runs, and what it      *)
(* shows is as old as the last poll.                                        *)
EXTENDS Naturals

CONSTANT MaxPresses   \* bound on actions started

VARIABLES
  front,     \* "desktop" or "mobile"
  sheet,     \* device_pairing: the open screen, or "closed"
  action,    \* the manager's action that has not returned, or "none"
  ran,       \* whether it has reached the vault
  queued,    \* a cancellation waits for it
  device,    \* the pairing state in the vault
  sight,     \* the pairing state on the screen
  unlocked,  \* the vault is unsealed
  presses,   \* actions started so far
  excused    \* an action failed, the dialog was left without Cancel, or the
             \* vault was sealed over a pairing that was pending

svars == <<front, sheet, action, ran, queued, device, sight, unlocked, presses, excused>>

NoRequest == "none"

\* A request is staged here, or sent from here; "ready" and "agreed" once the
\* joining side has consented.
Requests == {NoRequest, "staged", "ready", "asking", "agreed"}

Nothing == [inv |-> FALSE, req |-> NoRequest]

Busy == action # NoRequest

Joining(state) == state.req \in {"asking", "agreed"}

ApprovedHere == sight.req = "agreed"

Pending(state) == state.inv \/ state.req # NoRequest

-----------------------------------------------------------------------------
(* The sheet.                                                              *)

\* connect_device_button.
Open ==
  /\ sheet = "closed" /\ unlocked
  /\ sheet' = IF Joining(sight) THEN "paste" ELSE IF sight.inv THEN "show" ELSE "choose"
  /\ UNCHANGED <<front, action, ran, queued, device, sight, unlocked, presses, excused>>

\* device_action: one at a time.
Press(what) ==
  /\ unlocked /\ ~Busy /\ presses < MaxPresses
  /\ action' = what /\ ran' = FALSE
  /\ presses' = presses + 1

\* Reviewing has priority over the screen that was chosen.
ShowCode ==
  /\ sheet \in {"choose", "show"} /\ sight.req = NoRequest
  /\ Press("invite")
  /\ sheet' = "show"
  /\ UNCHANGED <<front, queued, device, sight, unlocked, excused>>

PasteCode ==
  /\ sheet = "choose" /\ sight.req = NoRequest
  /\ sheet' = "paste"
  /\ UNCHANGED <<front, action, ran, queued, device, sight, unlocked, presses, excused>>

UseCode ==
  /\ sheet = "paste" /\ sight.req = NoRequest
  /\ Press("join")
  /\ UNCHANGED <<front, sheet, queued, device, sight, unlocked, excused>>

PressApprove ==
  /\ sheet # "closed" /\ sight.req \in {"ready", "asking"}
  /\ Press(IF Joining(sight) THEN "approve_join" ELSE "approve")
  /\ UNCHANGED <<front, sheet, queued, device, sight, unlocked, excused>>

\* can_cancel_pairing.
MayCancel == ~Busy \/ sight.req = NoRequest \/ ApprovedHere

\* cancel_device_pairing: an action that runs has the cancellation queued.
PressCancel ==
  /\ front = "desktop" /\ sheet # "closed" /\ MayCancel /\ unlocked
  /\ IF ApprovedHere THEN UNCHANGED <<queued, action, ran, presses>>
     ELSE IF Busy THEN queued' = TRUE /\ UNCHANGED <<action, ran, presses>>
     ELSE IF Pending(sight) THEN Press("cancel") /\ UNCHANGED queued
     ELSE UNCHANGED <<queued, action, ran, presses>>
  /\ sheet' = "closed"
  /\ UNCHANGED <<front, device, sight, unlocked, excused>>

\* The dialog's own Cancel asks the core, which takes it after what it is
\* doing; leaving the dialog does not.
DialogCancels ==
  /\ front = "mobile" /\ sheet # "closed" /\ unlocked
  /\ queued' = (queued \/ ~ApprovedHere)
  /\ sheet' = "closed"
  /\ UNCHANGED <<front, action, ran, device, sight, unlocked, presses, excused>>

Dismiss ==
  /\ front = "mobile" /\ sheet # "closed"
  /\ sheet' = "closed"
  /\ excused' = TRUE
  /\ UNCHANGED <<front, action, ran, queued, device, sight, unlocked, presses>>

-----------------------------------------------------------------------------
(* The manager and its worker.                                             *)

\* What an action leaves in the vault.
Done(what) ==
  CASE what = "invite"  -> [device EXCEPT !.inv = TRUE,
                              !.req = IF Joining(device) THEN @ ELSE NoRequest]
    [] what = "join"    -> IF Joining(device) THEN device ELSE [inv |-> FALSE, req |-> "asking"]
    [] what = "approve" -> IF device.req = "ready" THEN Nothing ELSE device
    [] what = "approve_join" ->
         IF device.req = "asking" THEN [device EXCEPT !.req = "agreed"] ELSE device
    [] what = "cancel"  -> Nothing
    [] OTHER -> device

Runs ==
  /\ Busy /\ ~ran /\ unlocked
  /\ device' = Done(action)
  /\ ran' = TRUE
  /\ UNCHANGED <<front, sheet, action, queued, sight, unlocked, presses, excused>>

Starts == action \in {"invite", "join"}

\* The end of device_action: a queued cancellation, or a sheet closed while
\* its pairing was being started, has the action undone.
CancelsNext == front = "desktop" /\ (queued \/ (Starts /\ sheet = "closed"))

Returned ==
  /\ action' = IF CancelsNext THEN "cancel" ELSE NoRequest
  /\ ran' = FALSE
  /\ queued' = (queued /\ front = "mobile")

\* An approval of the inviting side closes the sheet.
Finish ==
  /\ Busy /\ ran
  /\ sight' = IF unlocked THEN device ELSE Nothing
  /\ sheet' = IF action = "approve" THEN "closed" ELSE sheet
  /\ Returned
  /\ UNCHANGED <<front, device, unlocked, presses, excused>>

\* The call fails, before it reached the vault or after.
Fails ==
  /\ Busy
  /\ Returned
  /\ excused' = TRUE
  /\ UNCHANGED <<front, sheet, device, sight, unlocked, presses>>

\* The core takes the dialog's cancellation after what it is doing.
CoreCancels ==
  /\ front = "mobile" /\ queued /\ unlocked /\ (Busy => ran)
  /\ device' = Nothing
  /\ queued' = FALSE
  /\ UNCHANGED <<front, sheet, action, ran, sight, unlocked, presses, excused>>

\* Requests arrive, the other side consents or approves.
PeerMoves ==
  /\ device' \in
       (IF device.inv /\ device.req = NoRequest THEN {[device EXCEPT !.req = "staged"]} ELSE {})
       \cup (IF device.req = "staged" THEN {[device EXCEPT !.req = "ready"]} ELSE {})
       \cup (IF device.req = "agreed" THEN {Nothing} ELSE {})
  /\ UNCHANGED <<front, sheet, action, ran, queued, sight, unlocked, presses, excused>>

\* poll_devices: a join that has come through closes the sheet.
Poll ==
  /\ sight' = IF unlocked THEN device ELSE Nothing
  /\ sheet' = IF Joining(sight) /\ ~Joining(device) /\ unlocked THEN "closed" ELSE sheet
  /\ UNCHANGED <<front, action, ran, queued, device, unlocked, presses, excused>>

SealOrUnlock ==
  /\ unlocked' = ~unlocked
  /\ excused' = (excused \/ Pending(device) \/ Busy \/ queued)
  /\ UNCHANGED <<front, sheet, action, ran, queued, device, sight, presses>>

-----------------------------------------------------------------------------
ScreenInit ==
  /\ front \in {"desktop", "mobile"}
  /\ sheet = "closed" /\ action = NoRequest /\ ran = FALSE /\ queued = FALSE
  /\ device = Nothing /\ sight = Nothing
  /\ unlocked \in BOOLEAN /\ presses = 0 /\ excused = FALSE

ScreenNext ==
  \/ Open \/ ShowCode \/ PasteCode \/ UseCode \/ PressApprove \/ PressCancel
  \/ DialogCancels \/ Dismiss \/ Runs \/ Finish \/ Fails \/ CoreCancels
  \/ PeerMoves \/ Poll \/ SealOrUnlock

\* A pairing the user has turned away from is over: with the sheet closed and
\* nothing left to run, the vault holds no invitation and no request, except
\* an approval given here, which cannot be withdrawn.
ClosedIsCancelled ==
  (sheet = "closed" /\ ~Busy /\ ~queued /\ ~excused)
    => ~Pending(device) \/ device.req = "agreed"

=============================================================================
