--------------------------- MODULE DesktopRuntime ---------------------------
(* The Desktop's side of the vault: the runtime that starts one worker     *)
(* process to initialize or unlock the vault, supervises it from a thread, *)
(* holds the pipe whose end of file makes the worker seal, and reports     *)
(* snapshots to the window through a queue.  The window also inspects the  *)
(* vault when it is shown.  The worker is a process of Installation, next  *)
(* to commands the user runs in a terminal.                                *)
EXTENDS Installation, Sequences

CONSTANTS
  Worker,       \* the process the runtime starts
  QueueSize     \* snapshots the event queue holds (16 in the code)

ASSUME RuntimeAssumption == Worker \in Procs /\ QueueSize \in Nat \ {0}

VARIABLES
  up,           \* the Desktop process runs
  busy,         \* unlock_in_progress
  sup,          \* where the supervising thread is
  tails,        \* threads past clearing the flag that have not reported yet
  lifeline,     \* the runtime holds the worker's pipe
  events,       \* the event queue
  view,         \* the snapshot the window shows
  refresh       \* what an inspection of the vault found, until it is applied

rvars == <<up, busy, sup, tails, lifeline, events, view, refresh>>

Snapshots == {"uninitialized", "initializing", "sealed", "unlocking", "sealing",
              "unsealed", "foreign", "error"}

NoRefresh == "none"

\* try_send drops a snapshot the queue has no room for.
Sent(snapshot) == IF Len(events) < QueueSize THEN Append(events, snapshot) ELSE events

\* A worker that answers the status request is one that serves.
Serving == \E p \in Procs : At(p, "serving") /\ procs[p].id = disk.published

\* DesktopRuntime::inspect: "foreign" is an unsealed vault another process
\* owns.
Inspected ==
  CASE disk.published = None -> "uninitialized"
    [] disk.published = Torn -> "error"
    [] Serving -> IF lifeline THEN "unsealed" ELSE "foreign"
    [] OTHER -> "sealed"

-----------------------------------------------------------------------------
(* The window.                                                             *)

\* initialize and unlock: the flag admits one attempt at a time.
AskInitialize ==
  /\ up /\ view = "uninitialized" /\ ~busy /\ starts < MaxStarts
  /\ busy' = TRUE
  /\ events' = Sent("initializing")
  /\ view' = "initializing"
  /\ sup' = "create"
  /\ starts' = starts + 1
  /\ UNCHANGED <<up, tails, lifeline, refresh>>
  /\ UNCHANGED <<disk, keystore, procs, makers, mishaps, doomed, crashes>>

AskUnlock ==
  /\ up /\ view = "sealed" /\ ~busy /\ starts < MaxStarts
  /\ busy' = TRUE
  /\ events' = Sent("unlocking")
  /\ view' = "unlocking"
  /\ sup' = "spawn"
  /\ starts' = starts + 1
  /\ UNCHANGED <<up, tails, lifeline, refresh>>
  /\ UNCHANGED <<disk, keystore, procs, makers, mishaps, doomed, crashes>>

\* seal drops the pipe.  The window says sealing, or stays as it is when the
\* runtime does not own the worker.
AskSeal ==
  /\ up /\ view = "unsealed" /\ lifeline
  /\ lifeline' = FALSE
  /\ view' = "sealing"
  /\ UNCHANGED <<up, busy, sup, tails, events, refresh>> /\ UNCHANGED ivars

\* Showing the window inspects the vault in the background; a snapshot that
\* arrives in the meantime has the inspection discarded.
ShowWindow ==
  /\ up /\ refresh = NoRefresh
  /\ refresh' = Inspected
  /\ UNCHANGED <<up, busy, sup, tails, lifeline, events, view>> /\ UNCHANGED ivars

ApplyRefresh ==
  /\ up /\ refresh # NoRefresh
  /\ view' = refresh
  /\ refresh' = NoRefresh
  /\ UNCHANGED <<up, busy, sup, tails, lifeline, events>> /\ UNCHANGED ivars

ApplyEvent ==
  /\ up /\ events # <<>>
  /\ view' = Head(events)
  /\ events' = Tail(events)
  /\ refresh' = NoRefresh
  /\ UNCHANGED <<up, busy, sup, tails, lifeline>> /\ UNCHANGED ivars

-----------------------------------------------------------------------------
(* The supervising thread.                                                 *)

\* spawn_worker, for an initialization or an unlock.
SpawnWorker ==
  /\ up /\ sup \in {"create", "spawn"}
  /\ Launch(Worker, IF sup = "create" THEN "setup" ELSE "unlock")
  /\ sup' = IF sup = "create" THEN "created" ELSE "ready"
  /\ UNCHANGED <<up, busy, tails, lifeline, events, view, refresh>>
  /\ UNCHANGED <<disk, keystore, makers, mishaps, doomed, starts, crashes>>

\* The end of an attempt: the flag is cleared before the snapshot is sent.
Over == busy' = FALSE /\ lifeline' = FALSE /\ sup' = "none" /\ tails' = tails + 1

\* Worker::drop terminates and reaps a worker that is still there.
Reaped == IF At(Worker, "idle") THEN UNCHANGED <<disk, procs, keystore, doomed>>
          ELSE Dies(Worker)

\* A variant that reports a new vault and drops the error of a failed one.
InitializationEndsQuietly ==
  /\ up /\ sup \in {"create", "created"} /\ At(Worker, "idle")
  /\ IF sup = "created" /\ procs[Worker].ok /\ disk.published \in Ids
     THEN sup' = "spawn" /\ events' = Sent("unlocking") /\ UNCHANGED busy
     ELSE busy' = FALSE /\ sup' = "none" /\ UNCHANGED events
  /\ UNCHANGED <<up, lifeline, tails, view, refresh>> /\ UNCHANGED ivars

\* run_initialization: the worker reports after it has published or
\* discarded, and a new vault is unlocked right away.
InitializationEnds ==
  /\ up /\ sup \in {"create", "created"} /\ At(Worker, "idle")
  /\ \/ /\ sup = "created" /\ procs[Worker].ok /\ disk.published \in Ids
        /\ sup' = "spawn"
        /\ events' = Sent("unlocking")
        /\ UNCHANGED <<busy, lifeline, tails>>
     \/ /\ sup = "create" \/ ~procs[Worker].ok \/ disk.published \notin Ids
        /\ busy' = FALSE /\ sup' = "none"
        /\ events' = Sent("error")
        /\ UNCHANGED <<lifeline, tails>>
  /\ UNCHANGED <<up, view, refresh>> /\ UNCHANGED ivars

\* supervise_worker until the service answers: a worker that ends, a probe
\* that fails or ten seconds without an answer end the attempt.
WorkerReady ==
  /\ up /\ sup = "ready" /\ At(Worker, "serving")
  /\ sup' = "installed"
  /\ lifeline' = TRUE
  /\ events' = Sent("unlocking")
  /\ UNCHANGED <<up, busy, tails, view, refresh>> /\ UNCHANGED ivars

UnlockFailed ==
  /\ up /\ sup \in {"spawn", "ready"} /\ (At(Worker, "idle") \/ At(Worker, "serving"))
  /\ Reaped
  /\ Over
  /\ UNCHANGED <<up, events, view, refresh>>
  /\ UNCHANGED <<makers, mishaps, starts, crashes>>

\* The inventory is loaded and the first unsealed snapshot sent, even when
\* the worker has gone in the meantime.
InventoryLoaded ==
  /\ up /\ sup = "installed"
  /\ sup' = "waiting"
  /\ events' = Sent("unsealed")
  /\ UNCHANGED <<up, busy, tails, lifeline, view, refresh>> /\ UNCHANGED ivars

\* worker.wait returns.
WorkerExited ==
  /\ up /\ sup = "waiting" /\ At(Worker, "idle")
  /\ Over
  /\ UNCHANGED <<up, events, view, refresh>> /\ UNCHANGED ivars

\* The last statement of run_unsealed.
ReportSealed ==
  /\ up /\ tails > 0
  /\ events' = Sent("sealed")
  /\ tails' = tails - 1
  /\ UNCHANGED <<up, busy, sup, lifeline, view, refresh>> /\ UNCHANGED ivars

-----------------------------------------------------------------------------
(* The lifeline.                                                           *)

\* The runtime holds the worker's input from its start until seal, and the
\* operating system closes it when the Desktop ends.
PipeOpen == up /\ (sup \in {"created", "ready"} \/ lifeline)

\* watch_parent: on end of file the worker seals and exits, in the middle of
\* an initialization too, and without the discard.
ParentLost ==
  /\ ~At(Worker, "idle") /\ ~PipeOpen
  /\ Dies(Worker)
  /\ mishaps' = IF procs[Worker].op = "setup" THEN mishaps \cup {"crash"} ELSE mishaps
  /\ UNCHANGED <<makers, starts, crashes>> /\ UNCHANGED rvars

\* The Desktop quits or crashes.
Quit ==
  /\ up
  /\ up' = FALSE /\ busy' = FALSE /\ lifeline' = FALSE /\ sup' = "none"
  /\ tails' = 0 /\ events' = <<>> /\ view' = "error" /\ refresh' = NoRefresh
  /\ UNCHANGED ivars

-----------------------------------------------------------------------------
RuntimeInit ==
  /\ InstallationInit
  /\ up \in BOOLEAN /\ busy = FALSE /\ sup = "none" /\ tails = 0 /\ lifeline = FALSE
  /\ events = <<>> /\ view = "uninitialized" /\ refresh = NoRefresh

WorkerMoves == Works(Worker) /\ UNCHANGED rvars

WorkerStops == StopServing(Worker) /\ UNCHANGED rvars

CommandStarts(p, op) == Start(p, op) /\ UNCHANGED rvars

CommandMoves(p) == Works(p) /\ UNCHANGED rvars

CommandStops(p) == StopServing(p) /\ UNCHANGED rvars

CommandDies(p) == Crash(p) /\ UNCHANGED rvars

Supervises ==
  \/ SpawnWorker \/ InitializationEnds \/ WorkerReady \/ UnlockFailed
  \/ InventoryLoaded \/ WorkerExited \/ ReportSealed

RuntimeTypeOK ==
  /\ InstallationTypeOK
  /\ up \in BOOLEAN /\ busy \in BOOLEAN /\ lifeline \in BOOLEAN
  /\ sup \in {"none", "create", "created", "spawn", "ready", "installed", "waiting"}
  /\ tails \in Nat /\ Len(events) <= QueueSize
  /\ view \in Snapshots /\ refresh \in Snapshots \cup {NoRefresh}

\* The runtime admits a new attempt only once the last worker is gone: it is
\* reaped before the flag is cleared, so two workers of one Desktop never
\* meet at the store.
WorkerReapedFirst == (up /\ ~busy) => At(Worker, "idle")

\* The window is never stuck: with the supervising thread gone and nothing
\* left to apply, it does not go on saying that the vault is being created,
\* unlocked or sealed, or that its own worker holds it unsealed.
WindowSettles ==
  (up /\ ~busy /\ tails = 0 /\ events = <<>> /\ refresh = NoRefresh)
    => view \in {"uninitialized", "sealed", "foreign", "error"}

\* An attempt to unlock ends completely, for the store and for the window.
AttemptsEnd == RuntimeTypeOK /\ WorkerReapedFirst /\ WindowSettles

=============================================================================
