--------------------------- MODULE SecretService ----------------------------
(* The adapter that serves org.freedesktop.secrets and the Desktop that    *)
(* hosts it.  The Desktop follows the vault through snapshots and sends    *)
(* the adapter commands; the adapter applies them one at a time on its own *)
(* thread, on which the calls of D-Bus clients also run, interleaved at    *)
(* every await.  Clients unlock through prompts, search behind a decision  *)
(* of the user, and hold sessions that end with their connection.          *)
EXTENDS Naturals, Sequences, FiniteSets

CONSTANTS
  Prompts,      \* paths of unlock prompts
  Searchers,    \* clients that search while the vault may be sealed
  SessionPaths, \* paths of sessions; each is opened by a client of its own
  MaxOpenings,  \* times the vault is unlocked
  MaxRefreshes, \* inspections and dismissals of the Desktop
  MaxSessionsOpen  \* MAX_SESSIONS (1024 in the code)

ASSUME SecretServiceAssumption ==
  /\ MaxOpenings \in Nat /\ MaxRefreshes \in Nat /\ MaxSessionsOpen \in Nat \ {0}

VARIABLES
  serving,      \* the vault worker answers requests
  openings,     \* times it has been unlocked
  shown,        \* the Desktop's last snapshot is unsealed
  refreshes,    \* inspections and dismissals so far
  agent,        \* the published vault: 0, or the number of its installation
  installs,     \* installations so far
  commands,     \* commands the adapter has not taken yet
  applying,     \* what the adapter thread is at, and the prompts it completes
  prompts,      \* the table of prompts
  objects,      \* prompts whose D-Bus object exists
  signals,      \* ghost: answers each prompt's client has had
  searches,     \* searches registered to be told of an unlock
  search,       \* what each searching client is at
  told,         \* what the registered channel of a search carries
  cleared,      \* ghost: searches that needed no decision or were allowed
  sessions,     \* the table of sessions
  sessionObjects, \* sessions whose D-Bus object exists
  opening,      \* what each OpenSession call is at
  connected,    \* clients on the bus
  departures    \* clients whose departure the cleanup task has not handled

ssvars == <<serving, openings, shown, refreshes, agent, installs, commands, applying,
            prompts, objects, signals, searches, search, told, cleared,
            sessions, sessionObjects, opening, connected, departures>>

hostvars == <<serving, openings, shown, refreshes, commands>>
threadvars == <<agent, installs, applying>>
promptvars == <<prompts, objects, signals>>
searchvars == <<searches, search, told, cleared>>
sessionvars == <<sessions, sessionObjects, opening, connected, departures>>

Idle == [at |-> "idle", ready |-> {}, dismissed |-> FALSE]

Locked == agent = 0

-----------------------------------------------------------------------------
(* The vault and the Desktop.                                              *)

\* An unlock is asked for from a Desktop that has seen the vault sealed.
VaultOpens ==
  /\ ~serving /\ ~shown /\ openings < MaxOpenings
  /\ serving' = TRUE /\ openings' = openings + 1
  /\ UNCHANGED <<shown, refreshes, commands>>
  /\ UNCHANGED <<threadvars, promptvars, searchvars, sessionvars>>

VaultSeals ==
  /\ serving
  /\ serving' = FALSE
  /\ UNCHANGED <<openings, shown, refreshes, commands>>
  /\ UNCHANGED <<threadvars, promptvars, searchvars, sessionvars>>

\* sync_secret_service: publish while unsealed, unless something is
\* published already; otherwise lock, behind an install still queued.
Synced(unsealed) ==
  IF unsealed THEN (IF Locked THEN Append(commands, "install") ELSE commands)
  ELSE Append(commands, "uninstall")

\* The next snapshot of the vault reaches the Desktop.
ApplySnapshot ==
  /\ shown # serving
  /\ shown' = serving
  /\ commands' = Synced(serving)
  /\ UNCHANGED <<serving, openings, refreshes>>
  /\ UNCHANGED <<threadvars, promptvars, searchvars, sessionvars>>

\* refresh_desktop_snapshot applies an inspection the same way.
Reinspect ==
  /\ refreshes < MaxRefreshes /\ applying.at # "stopped"
  /\ refreshes' = refreshes + 1
  /\ shown' = serving
  /\ commands' = Synced(serving)
  /\ UNCHANGED <<serving, openings>>
  /\ UNCHANGED <<threadvars, promptvars, searchvars, sessionvars>>

\* dismiss_secret_service_prompts, when the window is hidden.
HideDesktop ==
  /\ refreshes < MaxRefreshes /\ ~shown /\ applying.at # "stopped"
  /\ refreshes' = refreshes + 1
  /\ commands' = Append(commands, "dismiss")
  /\ UNCHANGED <<serving, openings, shown>>
  /\ UNCHANGED <<threadvars, promptvars, searchvars, sessionvars>>

\* Dropping the host.
StopHost ==
  /\ "stop" \notin {commands[i] : i \in 1..Len(commands)} /\ applying.at # "stopped"
  /\ commands' = Append(commands, "stop")
  /\ UNCHANGED <<serving, openings, shown, refreshes>>
  /\ UNCHANGED <<threadvars, promptvars, searchvars, sessionvars>>

-----------------------------------------------------------------------------
(* The adapter thread.                                                     *)

\* complete_searches wakes every registered search.
Woken(dismissed) ==
  /\ told' = [c \in Searchers |-> IF c \in searches
                                  THEN (IF dismissed THEN "cancelled" ELSE "unlocked")
                                  ELSE told[c]]
  /\ searches' = {}
  /\ UNCHANGED <<search, cleared>>

\* take_prompts: an invoked prompt leaves the table, to be answered; one that
\* has not been invoked keeps the result.
TakePrompts(dismissed) ==
  /\ prompts' = [p \in Prompts |->
       CASE prompts[p] = "invoked" -> "none"
         [] prompts[p] = "waiting" -> (IF dismissed THEN "dismissed" ELSE "unlocked")
         [] OTHER -> prompts[p]]
  /\ UNCHANGED <<objects, signals>>

\* complete_prompts up to its first await.
Completes(dismissed, after) ==
  /\ Woken(dismissed)
  /\ TakePrompts(dismissed)
  /\ applying' = [at |-> after, ready |-> {p \in Prompts : prompts[p] = "invoked"},
                  dismissed |-> dismissed]

\* apply takes the next command.
TakeCommand ==
  /\ applying.at = "idle" /\ commands # <<>>
  /\ commands' = Tail(commands)
  /\ \/ /\ Head(commands) = "install"
        /\ applying' = [Idle EXCEPT !.at = "loading"]
        /\ UNCHANGED <<agent, promptvars, searchvars>>
     \/ /\ Head(commands) = "uninstall"
        /\ agent' = 0
        /\ UNCHANGED <<applying, promptvars, searchvars>>
     \/ /\ Head(commands) = "dismiss"
        /\ Completes(TRUE, "answering")
        /\ UNCHANGED agent
     \/ /\ Head(commands) = "stop"
        /\ Completes(TRUE, "stopping")
        /\ UNCHANGED agent
  /\ UNCHANGED <<serving, openings, shown, refreshes, installs, sessionvars>>

\* install: the index is loaded and the items listed, both from the vault.
LoadIndex ==
  /\ applying.at = "loading"
  /\ applying' = IF serving THEN [Idle EXCEPT !.at = "loaded"] ELSE Idle
  /\ UNCHANGED <<agent, installs, hostvars, promptvars, searchvars, sessionvars>>

\* A variant that answers before the vault is published.
PublishAgentLast ==
  /\ \/ /\ applying.at = "loaded" /\ Completes(FALSE, "published") /\ UNCHANGED <<agent, installs>>
     \/ /\ applying.at = "published"
        /\ installs' = installs + 1 /\ agent' = installs + 1
        /\ applying' = [applying EXCEPT !.at = "answering"]
        /\ UNCHANGED <<promptvars, searchvars>>
  /\ UNCHANGED <<hostvars, sessionvars>>

\* set_agent, then the announcement; the prompts are completed after it.
PublishAgent ==
  /\ \/ /\ applying.at = "loaded"
        /\ installs' = installs + 1 /\ agent' = installs + 1
        /\ applying' = [Idle EXCEPT !.at = "published"]
        /\ UNCHANGED <<promptvars, searchvars>>
     \/ /\ applying.at = "published"
        /\ Completes(FALSE, "answering")
        /\ UNCHANGED <<agent, installs>>
  /\ UNCHANGED <<hostvars, sessionvars>>

\* The result of a prompt lists the requested objects that exist, which asks
\* the vault when one is published.
ResultReadable(dismissed) == dismissed \/ Locked \/ serving

\* One turn of the loop of complete_prompts.
AnswerPrompt(p) ==
  /\ p \in applying.ready
  /\ applying' = [applying EXCEPT !.ready = @ \ {p}]
  /\ signals' = IF p \in objects /\ ResultReadable(applying.dismissed)
                THEN [signals EXCEPT ![p] = @ + 1] ELSE signals
  /\ objects' = objects \ {p}
  /\ UNCHANGED <<agent, installs, prompts, hostvars, searchvars, sessionvars>>

CommandDone ==
  /\ applying.at \in {"answering", "stopping"} /\ applying.ready = {}
  /\ \/ /\ applying.at = "answering"
        /\ applying' = Idle
        /\ UNCHANGED agent
     \/ /\ applying.at = "stopping"
        /\ applying' = [Idle EXCEPT !.at = "stopped"]
        /\ agent' = 0
  /\ UNCHANGED <<installs, hostvars, promptvars, searchvars, sessionvars>>

Runs == applying.at # "stopped"

-----------------------------------------------------------------------------
(* Unlock prompts.                                                         *)

\* Service::unlock on a locked collection creates the object, then enters the
\* prompt in the table.
CallUnlock(p) ==
  /\ Runs /\ prompts[p] = "new" /\ Locked
  /\ prompts' = [prompts EXCEPT ![p] = "called"]
  /\ objects' = objects \cup {p}
  /\ UNCHANGED <<signals, hostvars, threadvars, searchvars, sessionvars>>

RegisterPrompt(p) ==
  /\ Runs /\ prompts[p] = "called"
  /\ prompts' = [prompts EXCEPT ![p] = "waiting"]
  /\ UNCHANGED <<objects, signals, hostvars, threadvars, searchvars, sessionvars>>

\* Prompt::prompt.  A result that cannot be read is an error reply.
InvokePrompt(p) ==
  /\ Runs /\ p \in objects
  /\ \/ /\ \/ prompts[p] \in {"dismissed", "unlocked"}
           \/ prompts[p] \in {"waiting", "invoked"} /\ ~Locked
        /\ prompts' = [prompts EXCEPT ![p] = "none"]
        /\ signals' = [signals EXCEPT ![p] = @ + 1]
        /\ objects' = IF ResultReadable(prompts[p] = "dismissed") THEN objects \ {p} ELSE objects
     \/ /\ prompts[p] = "waiting" /\ Locked
        /\ prompts' = [prompts EXCEPT ![p] = "invoked"]
        /\ UNCHANGED <<objects, signals>>
  /\ UNCHANGED <<hostvars, threadvars, searchvars, sessionvars>>

\* Prompt::dismiss.
DismissPrompt(p) ==
  /\ Runs /\ p \in objects /\ prompts[p] # "called"
  /\ signals' = IF prompts[p] # "none" THEN [signals EXCEPT ![p] = @ + 1] ELSE signals
  /\ prompts' = [prompts EXCEPT ![p] = "none"]
  /\ objects' = objects \ {p}
  /\ UNCHANGED <<hostvars, threadvars, searchvars, sessionvars>>

-----------------------------------------------------------------------------
(* Searches.  A search that finds the vault sealed is registered and shown *)
(* to the user; each waits for its own decision.                           *)

\* unlock_for_search registers under the lock complete_searches takes.
StartSearch(c) ==
  /\ Runs /\ search[c] = "idle"
  /\ IF Locked
     THEN /\ search' = [search EXCEPT ![c] = "review"]
          /\ searches' = searches \cup {c}
          /\ told' = [told EXCEPT ![c] = "nothing"]
          /\ cleared' = cleared \ {c}
     ELSE /\ search' = [search EXCEPT ![c] = "ok"]
          /\ cleared' = cleared \cup {c}
          /\ UNCHANGED <<searches, told>>
  /\ UNCHANGED <<hostvars, threadvars, promptvars, sessionvars>>

\* The user allows the search, or denies it or closes the dialog.
DecideSearch(c) ==
  /\ Runs /\ search[c] = "review"
  /\ \/ /\ search' = [search EXCEPT ![c] = IF Locked THEN "allowed" ELSE "ok"]
        /\ cleared' = cleared \cup {c}
     \/ /\ search' = [search EXCEPT ![c] = "denied"]
        /\ UNCHANGED cleared
  /\ UNCHANGED <<searches, told, hostvars, threadvars, promptvars, sessionvars>>

\* An allowed search is told of the unlock, of its dismissal or, after the
\* two minutes, of nothing.
EndSearch(c) ==
  /\ Runs
  /\ \/ /\ search[c] = "allowed" /\ told[c] = "unlocked"
        /\ search' = [search EXCEPT ![c] = IF Locked THEN "failed" ELSE "ok"]
     \/ /\ search[c] = "allowed" /\ told[c] = "cancelled"
        /\ search' = [search EXCEPT ![c] = "failed"]
     \/ /\ search[c] \in {"review", "allowed"}
        /\ search' = [search EXCEPT ![c] = "failed"]
  /\ UNCHANGED <<searches, told, cleared, hostvars, threadvars, promptvars, sessionvars>>

\* The client may search again.
SearchAgain(c) ==
  /\ search[c] \in {"failed", "denied"} /\ openings < MaxOpenings
  /\ search' = [search EXCEPT ![c] = "idle"]
  /\ UNCHANGED <<searches, told, cleared, hostvars, threadvars, promptvars, sessionvars>>

-----------------------------------------------------------------------------
(* Sessions.  Opening one enters it in the table, creates its object and   *)
(* asks the bus whether the client is still there; the departure of a      *)
(* client is handled by another task.                                      *)

\* Service::open_session up to the table.
EnterSession(s) ==
  /\ Runs /\ opening[s] = "called"
  /\ IF Cardinality(sessions) < MaxSessionsOpen
     THEN sessions' = sessions \cup {s} /\ opening' = [opening EXCEPT ![s] = "entered"]
     ELSE opening' = [opening EXCEPT ![s] = "refused"] /\ UNCHANGED sessions
  /\ UNCHANGED <<sessionObjects, connected, departures>>
  /\ UNCHANGED <<hostvars, threadvars, promptvars, searchvars>>

\* The object is created, or its registration fails and the entry goes.
RegisterSession(s) ==
  /\ Runs /\ opening[s] = "entered"
  /\ \/ /\ sessionObjects' = sessionObjects \cup {s}
        /\ opening' = [opening EXCEPT ![s] = "registered"]
        /\ UNCHANGED sessions
     \/ /\ sessions' = sessions \ {s}
        /\ opening' = [opening EXCEPT ![s] = "refused"]
        /\ UNCHANGED sessionObjects
  /\ UNCHANGED <<connected, departures, hostvars, threadvars, promptvars, searchvars>>

\* The bus says whether the client is there, and the table whether the
\* cleanup has been by.
ConfirmSession(s) ==
  /\ Runs /\ opening[s] = "registered"
  /\ IF s \in connected /\ s \in sessions
     THEN opening' = [opening EXCEPT ![s] = "open"] /\ UNCHANGED <<sessions, sessionObjects>>
     ELSE /\ opening' = [opening EXCEPT ![s] = "refused"]
          /\ sessions' = sessions \ {s}
          /\ sessionObjects' = sessionObjects \ {s}
  /\ UNCHANGED <<connected, departures, hostvars, threadvars, promptvars, searchvars>>

\* Session::close.
CloseSession(s) ==
  /\ Runs /\ s \in connected /\ opening[s] = "open" /\ s \in sessions
  /\ sessions' = sessions \ {s}
  /\ sessionObjects' = sessionObjects \ {s}
  /\ UNCHANGED <<opening, connected, departures, hostvars, threadvars, promptvars, searchvars>>

\* A client leaves the bus, whatever its call is at.
Disconnect(s) ==
  /\ s \in connected
  /\ connected' = connected \ {s}
  /\ departures' = departures \cup {s}
  /\ UNCHANGED <<sessions, sessionObjects, opening, hostvars, threadvars, promptvars, searchvars>>

\* The cleanup task, one departure at a time.
CleanUp(s) ==
  /\ Runs /\ s \in departures
  /\ departures' = departures \ {s}
  /\ sessions' = sessions \ {s}
  /\ sessionObjects' = IF s \in sessions THEN sessionObjects \ {s} ELSE sessionObjects
  /\ UNCHANGED <<opening, connected, hostvars, threadvars, promptvars, searchvars>>

-----------------------------------------------------------------------------
SecretServiceInit ==
  /\ serving = FALSE /\ openings = 0 /\ shown = FALSE /\ refreshes = 0
  /\ agent = 0 /\ installs = 0 /\ commands = <<>> /\ applying = Idle
  /\ prompts = [p \in Prompts |-> "new"] /\ objects = {} /\ signals = [p \in Prompts |-> 0]
  /\ searches = {} /\ search = [c \in Searchers |-> "idle"]
  /\ told = [c \in Searchers |-> "nothing"] /\ cleared = {}
  /\ sessions = {} /\ sessionObjects = {} /\ opening = [s \in SessionPaths |-> "called"]
  /\ connected = SessionPaths /\ departures = {}

Hosting == VaultSeals \/ ApplySnapshot \/ HideDesktop \/ StopHost

Applying ==
  \/ TakeCommand \/ LoadIndex \/ PublishAgent \/ CommandDone
  \/ \E p \in Prompts : AnswerPrompt(p)

Prompting(p) == CallUnlock(p) \/ RegisterPrompt(p) \/ InvokePrompt(p) \/ DismissPrompt(p)

Searching(c) == StartSearch(c) \/ DecideSearch(c) \/ EndSearch(c) \/ SearchAgain(c)

Sessioning(s) ==
  \/ EnterSession(s) \/ RegisterSession(s) \/ ConfirmSession(s) \/ CloseSession(s)
  \/ Disconnect(s) \/ CleanUp(s)

SecretServiceTypeOK ==
  /\ serving \in BOOLEAN /\ shown \in BOOLEAN /\ openings \in 0..MaxOpenings
  /\ agent \in 0..installs
  /\ applying.at \in {"idle", "loading", "loaded", "published", "answering", "stopping", "stopped"}
  /\ applying.ready \subseteq Prompts
  /\ prompts \in [Prompts -> {"new", "called", "waiting", "invoked", "dismissed", "unlocked",
                              "none"}]
  /\ objects \subseteq Prompts /\ searches \subseteq Searchers
  /\ search \in [Searchers -> {"idle", "review", "allowed", "denied", "ok", "failed"}]
  /\ told \in [Searchers -> {"nothing", "unlocked", "cancelled"}]
  /\ sessions \subseteq SessionPaths /\ sessionObjects \subseteq SessionPaths

\* A client that runs its prompt hears Completed at most once, whichever of
\* the client's own call, the host's completion and a dismissal gets there
\* first.
AnsweredOnce == \A p \in Prompts : signals[p] <= 1

\* A search that found the vault sealed goes ahead only on the user's decision
\* about that search, whoever unlocked the vault in the meantime.
SearchesAreDecided == \A c \in Searchers : search[c] = "ok" => c \in cleared

\* No unlock is missed: a search the user has allowed, and that still waits
\* while the vault is published and the adapter has nothing left to do, has
\* been told.
SearchesAreWoken ==
  \A c \in Searchers :
    (search[c] = "allowed" /\ ~Locked /\ applying.at = "idle") => told[c] # "nothing"

\* Once every snapshot and command has been handled, a sealed vault leaves
\* the collection locked, also when its installation was still queued.
LockedWhenSealed ==
  (~shown /\ commands = <<>> /\ applying.at = "idle") => Locked

\* A session does not outlive its client: once the calls and the departures
\* have been handled, every session and every session object belongs to a
\* client that is on the bus.
SessionsEndWithClients ==
  \A s \in SessionPaths :
    (opening[s] \in {"open", "refused"} /\ s \notin departures)
      => /\ s \in sessions => s \in connected
         /\ s \in sessionObjects => s \in connected
         /\ s \in sessionObjects <=> s \in sessions

\* What a client of the Secret Service relies on: it is answered once, a
\* locked collection stays locked, its search is decided by the user and
\* woken, and its session goes with it.
ServiceAnswers ==
  /\ SecretServiceTypeOK /\ AnsweredOnce /\ SearchesAreDecided /\ SearchesAreWoken
  /\ LockedWhenSealed /\ SessionsEndWithClients

=============================================================================
