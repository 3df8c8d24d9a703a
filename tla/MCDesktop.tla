----------------------------- MODULE MCDesktop ------------------------------
(***************************************************************************)
(* The Desktop on small instances, and the ceremony that pairs it with     *)
(* other devices, scenario by scenario.  A scenario is about one part,     *)
(* whose variables move while the others keep their initial values, and    *)
(* names what may happen in it.                                            *)
(***************************************************************************)
EXTENDS Browser, DesktopRuntime, AccessWindow, TLC

CONSTANTS s1, s2, wk, c, g1, g2, e1, e2, l1, p1, p2, p3

CONSTANTS Peers, MaxCertificates, MaxInvitations, MaxRequests, MaxPresses

VARIABLES certificates, invitations, requests, pairings, pins, jobs, screens,
          reviewed, withdrawn,
          front, sheet, action, ran, queued, device, sight, unlocked, presses, excused,
          scenario

Ceremony == INSTANCE Pairing

Screens == INSTANCE PairingScreen

pvars == <<certificates, invitations, requests, pairings, pins, jobs, screens, reviewed,
           withdrawn, front, sheet, action, ran, queued, device, sight, unlocked, presses,
           excused>>

OneLogin == <<"i1">>

Scenario(part, sessions, kinds, moves) ==
    [part |-> part, sessions |-> sessions, kinds |-> kinds, moves |-> moves]

BrowserScenarios == {
    Scenario("browser", {s1}, {"detect"}, {"edit"}),
    Scenario("browser", {s1}, {"detect"}, {"seal"}),
    Scenario("browser", {s1}, {"detect"}, {"disconnect"}),
    Scenario("browser", {s1}, {"detect"}, {"age"}),
    Scenario("browser", {s1}, {"save"}, {"edit"}),
    Scenario("browser", {s1}, {"save", "revoke"}, {"seal"}),
    Scenario("browser", {s1}, {"one_time"}, {"seal"}),
    Scenario("browser", {s1}, {"pair", "revoke"}, {"restart", "disconnect"}),
    Scenario("browser", {s1}, {"pair", "detect"}, {"external"}),
    Scenario("browser", {s1}, {"pair"}, {"external", "seal"}),
    Scenario("browser", {s1, s2}, {"pair"}, {}),
    Scenario("browser", {s1, s2}, {"detect"}, {})}

(* What runs in a terminal or on a phone beside the Desktop's worker. *)
RuntimeScenarios == {
    Scenario("runtime", {}, {}, {"window"}),
    Scenario("runtime", {}, {"create", "unlock"}, {"mobile"}),
    Scenario("runtime", {}, {"init"}, {}),
    Scenario("runtime", {}, {"agent"}, {}),
    Scenario("runtime", {}, {"destroy"}, {}),
    Scenario("runtime", {}, {"grant"}, {})}

AccessScenarios == {
    Scenario("access", {}, {}, {"requests"}),
    Scenario("access", {}, {}, {"permissions"})}

\* Two devices that do not know each other, scanning one code or each other's,
\* a third that joins a group of two, and the screens of one device.
Meeting(old, inviting, scanning, moves) ==
    [part |-> "pairing", old |-> old, inviting |-> inviting, scanning |-> scanning,
     moves |-> moves]

Screen == [part |-> "screen"]

PairingScenarios == {
    Meeting({}, {p1, p2}, {p2}, {"cancel", "expire"}),
    Meeting({}, {p1, p2}, {p1, p2}, {}),
    Meeting({p1, p2}, {p1}, {p3}, {}),
    Screen}

BrowserMoves ==
    \/ \E s \in scenario.sessions :
        \/ SayHello(s) \/ FlowAges(s) \/ ContextLapses(s)
        \/ "age" \in scenario.moves /\ SessionAges(s)
    \/ \E s \in scenario.sessions, key \in Keys :
        \/ SendCancel(s, key) \/ SendPoll(s, key) \/ SendConfirm(s, key)
        \/ "one_time" \in scenario.kinds /\ SendImage(s, key)
        \/ \E kind \in scenario.kinds : SendRequest(s, key, kind)
    \/ \E g \in 1..MaxGeneration : TicketExpires(g)
    \/ TakeWork \/ RequestVault \/ CompleteWork \/ FinishScan
    \/ Tick \/ PressApprove \/ PressUnlock \/ PressDeny
    \/ "disconnect" \in scenario.moves /\ \E key \in Keys : PressDisconnect(key)
    \/ \E key \in Keys : DisconnectInVault(key) \/ FinishDisconnect(key)
    \/ StartUnlock \/ Unlock \/ UnlockFails
    \/ "external" \in scenario.moves /\ OtherUnseals
    \/ "seal" \in scenario.moves /\ Seal
    \/ "edit" \in scenario.moves /\ EditLogin
    \/ "restart" \in scenario.moves /\ Restart

RuntimeMoves ==
    \/ AskInitialize \/ AskUnlock \/ AskSeal
    \/ "window" \in scenario.moves /\ ShowWindow
    \/ ApplyRefresh \/ ApplyEvent \/ Supervises \/ ParentLost \/ Quit
    \/ WorkerMoves \/ WorkerStops
    \/ \E op \in scenario.kinds : CommandStarts(c, op)
    \/ CommandMoves(c) \/ CommandStops(c)
    \/ \E p \in Procs : CommandDies(p)

AccessMoves ==
    \/ "requests" \in scenario.moves /\ Clients
    \/ "permissions" \in scenario.moves /\ Permitting
    \/ Person \/ TakeMail \/ PopupTick \/ Render \/ DeskUnseals \/ DeskSeals

PairingMoves ==
    \/ \E d \in scenario.inviting : Ceremony!Invite(d)
    \/ \E d \in scenario.scanning : Ceremony!Scans(d)
    \/ \E d \in scenario.old \cup scenario.inviting \cup scenario.scanning : Ceremony!Manages(d)
    \/ \E d \in scenario.inviting \cup scenario.scanning :
        \/ Ceremony!Reviews(d)
        \/ "cancel" \in scenario.moves /\ Ceremony!Cancel(d)
    \/ "expire" \in scenario.moves /\ Ceremony!Expires

MCInit ==
    /\ scenario \in BrowserScenarios \cup RuntimeScenarios \cup AccessScenarios
                    \cup PairingScenarios
    /\ BrowserInit /\ RuntimeInit /\ AccessInit
    /\ vault.logins = [i \in {"i1"} |-> [password |-> "p1", code |-> FALSE]]
    /\ scenario.part # "browser" => hub.paired = {}
    /\ up = (scenario.part = "runtime" /\ "mobile" \notin scenario.moves)
    /\ Ceremony!PairingInit(IF scenario.part = "pairing" THEN scenario.old ELSE {})
    /\ Screens!ScreenInit
    /\ scenario # Screen => front = "desktop" /\ unlocked

MCNext ==
    /\ UNCHANGED scenario
    /\ \/ scenario.part = "browser" /\ BrowserMoves /\ UNCHANGED <<ivars, rvars, avars, pvars>>
       \/ scenario.part = "runtime" /\ RuntimeMoves /\ UNCHANGED <<bvars, avars, pvars>>
       \/ scenario.part = "access" /\ AccessMoves /\ UNCHANGED <<bvars, ivars, rvars, pvars>>
       \/ /\ scenario.part = "pairing" /\ PairingMoves
          /\ UNCHANGED <<bvars, ivars, rvars, avars>>
          /\ UNCHANGED <<front, sheet, action, ran, queued, device, sight, unlocked, presses,
                         excused>>
       \/ /\ scenario.part = "screen" /\ Screens!ScreenNext
          /\ UNCHANGED <<bvars, ivars, rvars, avars>>
          /\ UNCHANGED <<certificates, invitations, requests, pairings, pins, jobs, screens,
                         reviewed, withdrawn>>

MCSpec == MCInit /\ [][MCNext]_<<bvars, ivars, rvars, avars, pvars, scenario>>

Alike == Permutations({e1, e2})

\* Devices are connected as both users reviewed it, each invitation connects
\* once, an approval reaches the device that asked for it, and a pairing whose
\* screen was closed is over.
PairingSound == Ceremony!PairingSound /\ Screens!ClosedIsCancelled

=============================================================================
