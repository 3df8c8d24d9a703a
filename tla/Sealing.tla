------------------------------ MODULE Sealing ------------------------------
(***************************************************************************)
(* How an unsealed vault ends.  Request threads, permission waiters, the   *)
(* transport's server loop, lifecycle hooks, the store worker and the      *)
(* watchdog share one ServiceState mutex, one condition variable, a seal   *)
(* flag, a deadline and a join handle; any of them may find or cause the   *)
(* end of the lease at any point.  Models protocol/lease.rs,               *)
(* service/state.rs, handle_at and expire_if_needed of service.rs, the     *)
(* accept loop of transport.rs, and the lifecycle half of store/worker.rs. *)
(*                                                                         *)
(* What a command does to the store is left to the other modules: here it  *)
(* succeeds, fails, or never ends.  A request that changes permissions is  *)
(* one that sets decided, which is what the waiters wait for.              *)
(***************************************************************************)
EXTENDS Integers, Sequences, FiniteSets

CONSTANTS
    Requests,           \* threads that handle one ordinary request
    Waiters,            \* threads that handle one wait request
    Watchers,           \* the waiters among them that list permissions on every turn
    Returning,          \* bound: the clients that connect more than once
    Hooks,              \* lifecycle callbacks that call VaultService::seal
    Server,             \* the transport's accept loop
    Nobody,             \* no holder of a lock
    Halt,               \* Command::Shutdown
    IdleTimeout,        \* UnsealLeasePolicy.idle_timeout
    MaximumLifetime,    \* UnsealLeasePolicy.maximum_lifetime
    WaitTimeout,        \* timeout_ms of a wait request
    CommandQueue,       \* COMMAND_QUEUE
    EmergencyDelay,     \* watch_shutdown's grace before process::exit
    MaxTime             \* bound: the last instant of the monotonic clock

Clients == Requests \cup Waiters
Threads == Clients \cup Hooks \cup {Server}

ASSUME ThreadAssumption ==
    /\ Watchers \subseteq Waiters /\ Returning \subseteq Clients
    /\ Requests \cap Waiters = {} /\ Hooks \cap Clients = {}
    /\ Server \notin Clients \cup Hooks
    /\ Nobody \notin Threads /\ Halt \notin Threads
\* UnsealLeasePolicy::validate.
ASSUME PolicyAssumption ==
    /\ IdleTimeout \in Nat \ {0} /\ MaximumLifetime \in Nat \ {0}
    /\ IdleTimeout <= MaximumLifetime
ASSUME LimitAssumption ==
    /\ CommandQueue \in Nat \ {0} /\ WaitTimeout \in Nat
    /\ EmergencyDelay \in Nat /\ MaxTime \in Nat

VARIABLES
    now,        \* the monotonic clock
    lease,      \* UnsealLease, guarded by the state mutex
    deadline,   \* WorkerStatus.deadline
    sealed,     \* WorkerStatus.sealed
    complete,   \* WorkerStatus.shutdown_complete
    sealingAt,  \* the watchdog's sealing_at, MaxTime + 1 before it saw the seal
    worker,     \* where the store worker is
    executing,  \* the thread whose command the worker runs
    queue,      \* the command channel
    handle,     \* the join handle is still in its slot
    joiner,     \* holder of the join-handle mutex
    mutex,      \* holder of the state mutex
    poisoned,   \* a thread panicked while holding it
    decided,    \* what the waiters wait for has happened
    pc,         \* where each thread is
    reply,      \* the worker's answer, or what the request will answer
    until,      \* a waiter's deadline, or a response's delivery deadline
    exited      \* the process is gone

vars == <<now, lease, deadline, sealed, complete, sealingAt, worker, executing, queue,
          handle, joiner, mutex, poisoned, decided, pc, reply, until, exited>>
locks == <<handle, joiner, mutex, poisoned>>
workerVars == <<worker, executing, queue>>
clock == <<now, sealingAt, exited>>

-----------------------------------------------------------------------------
(* The lease and the seal flag.                                            *)

Earlier(a, b) == IF a <= b THEN a ELSE b

\* The last modelled instant stands for every later one.
Reached(instant) == now >= instant \/ now = MaxTime

NewLease == [idle |-> Earlier(IdleTimeout, MaximumLifetime), absolute |-> MaximumLifetime]

Expired == now >= lease.idle \/ now >= lease.absolute

ExpiresAt(l) == Earlier(l.idle, l.absolute)

Touched(l) == [l EXCEPT !.idle = Earlier(now + IdleTimeout, l.absolute)]

\* WorkerStatus::is_sealed; every caller also latches what it finds.
IsSealed == sealed \/ now >= deadline

\* Where a thread that has returned is.
Over == {"failed", "delivered", "done"}
Between == Over \cup {"idle"}

\* Condvar::notify_all: only threads already asleep are woken.
Notified(at) == [t \in Threads |-> IF at[t] = "asleep" THEN "woken" ELSE at[t]]

Init ==
    /\ now = 0
    /\ lease = NewLease
    /\ deadline = ExpiresAt(NewLease)
    /\ sealed = FALSE
    /\ complete = FALSE
    /\ sealingAt = MaxTime + 1
    /\ worker = "serving"
    /\ executing = Nobody
    /\ queue = <<>>
    /\ handle = TRUE
    /\ joiner = Nobody
    /\ mutex = Nobody
    /\ poisoned = FALSE
    /\ decided = FALSE
    /\ pc = [t \in Threads |-> "idle"]
    /\ reply = [t \in Threads |-> "none"]
    /\ until = [t \in Threads |-> 0]
    /\ exited = FALSE

-----------------------------------------------------------------------------
(* lock_live, at the start of a request and again before its answer.       *)

\* The flag is looked at before the mutex; a sealed vault is not waited for.
Arrive(t) ==
    /\ t \in Clients
    /\ pc[t] \in Between \cup {"checking"}
    /\ pc[t] \in Over => t \in Returning
    /\ sealed' = IsSealed
    /\ IF pc[t] \in Between
       THEN /\ pc' = [pc EXCEPT ![t] = IF IsSealed THEN "checking" ELSE "locking"]
            /\ reply' = [reply EXCEPT ![t] = IF IsSealed THEN "error" ELSE "none"]
       ELSE /\ pc' = [pc EXCEPT ![t] = IF IsSealed THEN "failed" ELSE "relocking"]
            /\ reply' = [reply EXCEPT ![t] = IF IsSealed THEN "none" ELSE @]
    /\ until' = [until EXCEPT ![t] = 0]
    /\ UNCHANGED <<clock, lease, deadline, complete, workerVars, locks, decided>>

\* The mutex is free: a poisoned one is an error, an ended lease is sealed
\* with the mutex held, and a live one starts or ends the request.
Lock(t) ==
    /\ pc[t] \in {"locking", "relocking"}
    /\ mutex = Nobody
    /\ IF poisoned
       THEN /\ pc' = [pc EXCEPT ![t] = IF pc[t] = "locking" THEN "checking" ELSE "failed"]
            /\ reply' = [reply EXCEPT ![t] = IF pc[t] = "locking" THEN "error" ELSE "none"]
            /\ UNCHANGED <<sealed, mutex, until>>
       ELSE /\ sealed' = IsSealed
            /\ IF IsSealed \/ Expired
               THEN /\ mutex' = t
                    /\ pc' = [pc EXCEPT ![t] = "shutdown"]
                    /\ reply' = [reply EXCEPT ![t] = "error"]
                    /\ UNCHANGED until
               ELSE IF pc[t] = "locking"
               THEN /\ mutex' = t
                    /\ pc' = [pc EXCEPT ![t] = IF t \in Waiters THEN "waiting" ELSE "live"]
                    /\ until' = [until EXCEPT ![t] = IF t \in Waiters THEN now + WaitTimeout ELSE 0]
                    /\ UNCHANGED reply
               ELSE /\ pc' = [pc EXCEPT ![t] = IF reply[t] = "ok" THEN "answering" ELSE "failed"]
                    /\ reply' = [reply EXCEPT ![t] = "none"]
                    /\ UNCHANGED <<until, mutex>>
    /\ UNCHANGED <<clock, lease, deadline, complete, workerVars, handle, joiner, poisoned, decided>>

-----------------------------------------------------------------------------
(* A request, holding the state mutex.                                     *)

Panic(t) ==
    /\ pc[t] = "live"
    /\ poisoned' = TRUE
    /\ mutex' = Nobody
    /\ pc' = [pc EXCEPT ![t] = "failed"]
    /\ until' = [until EXCEPT ![t] = 0]
    /\ UNCHANGED <<clock, lease, deadline, sealed, complete, workerVars, handle, joiner,
                   decided, reply>>

\* request: send blocks while the channel is full and fails once the worker
\* dropped its end of it.
Send(t) ==
    /\ pc[t] \in {"live", "listing", "purging"}
    /\ IF worker \in {"wiped", "gone"}
       THEN /\ reply' = [reply EXCEPT ![t] = "error"]
            /\ pc' = [pc EXCEPT ![t] = "answered"]
            /\ UNCHANGED queue
       ELSE /\ Len(queue) < CommandQueue
            /\ queue' = Append(queue, t)
            /\ reply' = [reply EXCEPT ![t] = "none"]
            /\ pc' = [pc EXCEPT ![t] = "sent"]
    /\ UNCHANGED <<clock, lease, deadline, sealed, complete, worker, executing, locks, decided, until>>

\* recv: the answer, or the error of a response sender that was dropped.
Receive(t) ==
    /\ pc[t] = "sent"
    /\ reply[t] # "none" \/ worker \in {"wiped", "gone"}
    /\ pc' = [pc EXCEPT ![t] = "answered"]
    /\ reply' = [reply EXCEPT ![t] = IF @ = "none" THEN "error" ELSE @]
    /\ UNCHANGED <<clock, lease, deadline, sealed, complete, workerVars, locks, decided, until>>

\* Mutant: an approval or denial that wakes nobody.
FinishSilently(t) ==
    /\ t \in Requests
    /\ pc[t] = "answered"
    /\ \/ /\ mutex' = Nobody
          /\ pc' = [pc EXCEPT ![t] = "checking"]
          /\ UNCHANGED <<lease, sealed, decided, reply>>
       \/ /\ reply[t] = "ok"
          /\ pc' = [pc EXCEPT ![t] = "shutdown"]
          /\ UNCHANGED <<lease, sealed, decided, mutex, reply>>
       \/ /\ reply[t] = "ok"
          /\ sealed' = IsSealed
          /\ \E resolves \in BOOLEAN :
                /\ decided' = (decided \/ resolves)
                /\ LET at == pc IN
                   IF IsSealed \/ Expired
                   THEN /\ pc' = [at EXCEPT ![t] = "shutdown"]
                        /\ reply' = [reply EXCEPT ![t] = "error"]
                        /\ UNCHANGED lease
                   ELSE /\ pc' = [at EXCEPT ![t] = "touched"]
                        /\ lease' = Touched(lease)
                        /\ UNCHANGED reply
          /\ UNCHANGED mutex
    /\ UNCHANGED <<clock, deadline, complete, workerVars, handle, joiner, poisoned, until>>

\* The rest of handle_inner: an error or a status request ends here,
\* SealCache seals with the mutex held, an operation touches the lease, and
\* one that resolves an approval notifies first.
Finish(t) ==
    /\ t \in Requests
    /\ pc[t] = "answered"
    /\ \/ /\ mutex' = Nobody
          /\ pc' = [pc EXCEPT ![t] = "checking"]
          /\ UNCHANGED <<lease, sealed, decided, reply>>
       \/ /\ reply[t] = "ok"
          /\ pc' = [pc EXCEPT ![t] = "shutdown"]
          /\ UNCHANGED <<lease, sealed, decided, mutex, reply>>
       \/ /\ reply[t] = "ok"
          /\ sealed' = IsSealed
          /\ \E resolves \in BOOLEAN :
                /\ decided' = (decided \/ resolves)
                /\ LET at == IF resolves THEN Notified(pc) ELSE pc IN
                   IF IsSealed \/ Expired
                   THEN /\ pc' = [at EXCEPT ![t] = "shutdown"]
                        /\ reply' = [reply EXCEPT ![t] = "error"]
                        /\ UNCHANGED lease
                   ELSE /\ pc' = [at EXCEPT ![t] = "touched"]
                        /\ lease' = Touched(lease)
                        /\ UNCHANGED reply
          /\ UNCHANGED mutex
    /\ UNCHANGED <<clock, deadline, complete, workerVars, handle, joiner, poisoned, until>>

\* set_deadline: refused once the old deadline has passed.
SetDeadline(t) ==
    /\ pc[t] = "touched"
    /\ IF IsSealed
       THEN /\ sealed' = TRUE
            /\ reply' = [reply EXCEPT ![t] = "error"]
            /\ UNCHANGED deadline
       ELSE /\ deadline' = ExpiresAt(lease)
            /\ UNCHANGED <<sealed, reply>>
    /\ mutex' = Nobody
    /\ pc' = [pc EXCEPT ![t] = "checking"]
    /\ UNCHANGED <<clock, lease, complete, workerVars, handle, joiner, poisoned, decided, until>>

\* Mutant: the response carries no deadline of its own.
AnswerWithoutDeadline(t) ==
    /\ pc[t] = "answering"
    /\ until' = [until EXCEPT ![t] = MaxTime + 1]
    /\ pc' = [pc EXCEPT ![t] = "delivering"]
    /\ UNCHANGED <<clock, lease, deadline, sealed, complete, workerVars, locks, decided, reply>>

\* handle_at's last step: the response may leave until this deadline.
Answer(t) ==
    /\ pc[t] = "answering"
    /\ until' = [until EXCEPT ![t] = deadline]
    /\ pc' = [pc EXCEPT ![t] = "delivering"]
    /\ UNCHANGED <<clock, lease, deadline, sealed, complete, workerVars, locks, decided, reply>>

\* check_delivery and write_frame's budget: the raw flag and the deadline.
Deliver(t) ==
    /\ pc[t] = "delivering"
    /\ pc' = [pc EXCEPT ![t] = IF sealed \/ now >= until[t] THEN "failed" ELSE "delivered"]
    /\ reply' = [reply EXCEPT ![t] = "none"]
    /\ until' = [until EXCEPT ![t] = 0]
    /\ UNCHANGED <<clock, lease, deadline, sealed, complete, workerVars, locks, decided>>

-----------------------------------------------------------------------------
(* wait_for_permission and wait_for_approvals.                             *)

\* The end of one turn, the mutex held since its start: answer, or sleep.
Decide(t) ==
    IF decided \/ Reached(until[t])
    THEN /\ mutex' = Nobody
         /\ reply' = [reply EXCEPT ![t] = "ok"]
         /\ pc' = [pc EXCEPT ![t] = "checking"]
    ELSE /\ pc' = [pc EXCEPT ![t] = "parking"]
         /\ UNCHANGED <<mutex, reply>>

\* The start of a turn: an ended lease is sealed with the mutex held.
Look(t) ==
    /\ pc[t] = "waiting"
    /\ sealed' = IsSealed
    /\ IF IsSealed \/ Expired
       THEN /\ pc' = [pc EXCEPT ![t] = "shutdown"]
            /\ reply' = [reply EXCEPT ![t] = "error"]
            /\ UNCHANGED mutex
       ELSE IF t \in Watchers
       THEN pc' = [pc EXCEPT ![t] = "listing"] /\ UNCHANGED <<mutex, reply>>
       ELSE Decide(t)
    /\ UNCHANGED <<clock, lease, deadline, complete, workerVars, handle, joiner, poisoned,
                   decided, until>>

\* list_permissions came back.
Listed(t) ==
    /\ t \in Watchers
    /\ pc[t] = "answered"
    /\ IF reply[t] = "ok"
       THEN Decide(t)
       ELSE /\ mutex' = Nobody
            /\ pc' = [pc EXCEPT ![t] = "checking"]
            /\ UNCHANGED reply
    /\ UNCHANGED <<clock, lease, deadline, sealed, complete, workerVars, handle, joiner,
                   poisoned, decided, until>>

\* Condvar::wait_timeout releases the mutex and sleeps in one step.
Park(t) ==
    /\ pc[t] = "parking"
    /\ mutex' = Nobody
    /\ pc' = [pc EXCEPT ![t] = "asleep"]
    /\ UNCHANGED <<clock, lease, deadline, sealed, complete, workerVars, handle, joiner,
                   poisoned, decided, reply, until>>

TimeOut(t) ==
    /\ pc[t] = "asleep"
    /\ Reached(until[t])
    /\ pc' = [pc EXCEPT ![t] = "woken"]
    /\ UNCHANGED <<clock, lease, deadline, sealed, complete, workerVars, locks, decided, reply, until>>

\* Mutant: a poisoned mutex is waited on again.
WakeAgain(t) ==
    /\ pc[t] = "woken"
    /\ mutex = Nobody
    /\ pc' = [pc EXCEPT ![t] = IF poisoned THEN "asleep" ELSE "waiting"]
    /\ mutex' = IF poisoned THEN Nobody ELSE t
    /\ UNCHANGED <<clock, lease, deadline, sealed, complete, workerVars, handle, joiner,
                   poisoned, decided, reply, until>>

\* Reacquiring reports a mutex that was poisoned meanwhile.
Wake(t) ==
    /\ pc[t] = "woken"
    /\ mutex = Nobody
    /\ IF poisoned
       THEN /\ pc' = [pc EXCEPT ![t] = "checking"]
            /\ reply' = [reply EXCEPT ![t] = "error"]
            /\ UNCHANGED mutex
       ELSE /\ pc' = [pc EXCEPT ![t] = "waiting"]
            /\ mutex' = t
            /\ UNCHANGED reply
    /\ UNCHANGED <<clock, lease, deadline, sealed, complete, workerVars, handle, joiner,
                   poisoned, decided, until>>

-----------------------------------------------------------------------------
(* Sealing: VaultService::seal is request_shutdown, notify_all, shutdown;  *)
(* a thread that finds the lease ended calls shutdown alone, holding the   *)
(* state mutex.                                                            *)

\* request_shutdown: the flag, and a command that a full queue may refuse.
RequestShutdown(t) ==
    /\ pc[t] \in {"sealing", "shutdown"}
    /\ sealed' = TRUE
    /\ queue' = IF Len(queue) < CommandQueue /\ worker \notin {"wiped", "gone"}
                THEN Append(queue, Halt) ELSE queue
    /\ pc' = [pc EXCEPT ![t] = IF @ = "sealing" THEN "notifying" ELSE "joining"]
    /\ UNCHANGED <<clock, lease, deadline, complete, worker, executing, locks, decided, reply, until>>

NotifyAll(t) ==
    /\ pc[t] = "notifying"
    /\ pc' = [Notified(pc) EXCEPT ![t] = "shutdown"]
    /\ UNCHANGED <<clock, lease, deadline, sealed, complete, workerVars, locks, decided, reply, until>>

\* What follows shutdown.  A thread that was not holding the state mutex has
\* finished VaultService::seal.  A holder releases it: a request that found
\* the lease ended fails, SealCache goes on to VaultService::seal, and so does
\* the server loop after expire_if_needed's notify_all.
AfterShutdown(t) ==
    /\ complete' = TRUE
    /\ mutex' = IF mutex = t THEN Nobody ELSE mutex
    /\ pc' = IF mutex # t THEN [pc EXCEPT ![t] = "done"]
             ELSE IF t = Server THEN [Notified(pc) EXCEPT ![t] = "sealing"]
             ELSE [pc EXCEPT ![t] = IF reply[t] = "ok" THEN "sealing" ELSE "failed"]
    /\ reply' = [reply EXCEPT ![t] = "none"]
    /\ until' = [until EXCEPT ![t] = 0]

\* Mutant: the join-handle mutex is released before the join.
TakeHandleAndUnlock(t) ==
    /\ pc[t] = "joining"
    /\ joiner = Nobody
    /\ IF handle
       THEN /\ handle' = FALSE
            /\ pc' = [pc EXCEPT ![t] = "joined"]
            /\ UNCHANGED <<complete, mutex, joiner, reply, until>>
       ELSE AfterShutdown(t) /\ UNCHANGED <<handle, joiner>>
    /\ UNCHANGED <<clock, lease, deadline, sealed, workerVars, poisoned, decided>>

\* The join-handle mutex: its first holder joins the worker, the others have
\* waited for that holder and find the handle gone.
TakeHandle(t) ==
    /\ pc[t] = "joining"
    /\ joiner = Nobody
    /\ IF handle
       THEN /\ handle' = FALSE
            /\ joiner' = t
            /\ pc' = [pc EXCEPT ![t] = "joined"]
            /\ UNCHANGED <<complete, mutex, reply, until>>
       ELSE AfterShutdown(t) /\ UNCHANGED <<handle, joiner>>
    /\ UNCHANGED <<clock, lease, deadline, sealed, workerVars, poisoned, decided>>

Join(t) ==
    /\ pc[t] = "joined"
    /\ worker = "gone"
    /\ joiner' = Nobody
    /\ AfterShutdown(t)
    /\ UNCHANGED <<clock, lease, deadline, sealed, workerVars, handle, poisoned, decided>>

\* Logout, suspend and shutdown hooks.
Hook(t) ==
    /\ t \in Hooks
    /\ pc[t] = "idle"
    /\ pc' = [pc EXCEPT ![t] = "sealing"]
    /\ UNCHANGED <<clock, lease, deadline, sealed, complete, workerVars, locks, decided, reply, until>>

-----------------------------------------------------------------------------
(* The server loop: expire_if_needed between connections, and seal when it *)
(* says so, when asked to stop, or after an error, which first waits for   *)
(* the connections that are still being served.                            *)

\* One turn of the loop up to expire_if_needed's mutex: asked to stop, an
\* error, or the flag, whose observer notifies.
Poll ==
    /\ pc[Server] = "idle"
    /\ \/ /\ \E next \in {"sealing", "draining"} : pc' = [pc EXCEPT ![Server] = next]
          /\ UNCHANGED sealed
       \/ /\ sealed' = IsSealed
          /\ pc' = IF IsSealed THEN [Notified(pc) EXCEPT ![Server] = "sealing"]
                   ELSE [pc EXCEPT ![Server] = "polling"]
    /\ UNCHANGED <<clock, lease, deadline, complete, workerVars, locks, decided, reply, until>>

ExpireIfNeeded ==
    /\ pc[Server] = "polling"
    /\ mutex = Nobody
    /\ IF poisoned
       THEN pc' = [pc EXCEPT ![Server] = "draining"] /\ UNCHANGED <<sealed, mutex>>
       ELSE /\ sealed' = IsSealed
            /\ IF IsSealed
               THEN pc' = [pc EXCEPT ![Server] = "sealing"] /\ UNCHANGED mutex
               ELSE IF Expired
               THEN pc' = [pc EXCEPT ![Server] = "shutdown"] /\ mutex' = Server
               ELSE \/ pc' = [pc EXCEPT ![Server] = "idle"] /\ UNCHANGED mutex
                    \/ pc' = [pc EXCEPT ![Server] = "purging"] /\ mutex' = Server
    /\ UNCHANGED <<clock, lease, deadline, complete, workerVars, handle, joiner, poisoned,
                   decided, reply, until>>

Purged ==
    /\ pc[Server] = "answered"
    /\ mutex' = Nobody
    /\ pc' = [pc EXCEPT ![Server] = IF reply[Server] = "ok" THEN "idle" ELSE "draining"]
    /\ reply' = [reply EXCEPT ![Server] = "none"]
    /\ UNCHANGED <<clock, lease, deadline, sealed, complete, workerVars, handle, joiner,
                   poisoned, decided, until>>

\* thread::scope joins the connection threads; an idle client has none.
Drained ==
    /\ pc[Server] = "draining"
    /\ \A t \in Clients : pc[t] \in Between
    /\ pc' = [pc EXCEPT ![Server] = "sealing"]
    /\ UNCHANGED <<clock, lease, deadline, sealed, complete, workerVars, locks, decided, reply, until>>

-----------------------------------------------------------------------------
(* The store worker.                                                       *)

\* run_worker's loop: leave when sealed or told to, else run a command.  A
\* command taken while the seal arrives is dropped with its response sender.
Take ==
    /\ worker = "serving"
    /\ sealed' = IsSealed
    /\ IF IsSealed
       THEN worker' = "exiting" /\ UNCHANGED <<executing, queue>>
       ELSE /\ queue # <<>>
            /\ queue' = Tail(queue)
            /\ IF Head(queue) = Halt
               THEN worker' = "exiting" /\ UNCHANGED executing
               ELSE worker' = "executing" /\ executing' = Head(queue)
    /\ UNCHANGED <<clock, lease, deadline, complete, locks, decided, pc, reply, until>>

\* execute_command and send_result: a result that comes after the seal is
\* withheld, a fatal one latches the seal, and a panic sends nothing.
Execute ==
    /\ worker = "executing"
    /\ executing' = Nobody
    /\ \/ /\ \E result \in {"ok", "error", "fatal"} :
                /\ sealed' = (IsSealed \/ result = "fatal")
                /\ reply' = [reply EXCEPT ![executing] =
                      IF IsSealed \/ result # "ok" THEN "error" ELSE "ok"]
          /\ worker' = "serving"
       \/ worker' = "exiting" /\ UNCHANGED <<sealed, reply>>
    /\ UNCHANGED <<clock, lease, deadline, complete, queue, locks, decided, pc, until>>

\* The locals of run_worker go before its completion guard: first the keys
\* and the receiver with whatever is still queued ...
Wipe ==
    /\ worker = "exiting"
    /\ worker' = "wiped"
    /\ queue' = <<>>
    /\ UNCHANGED <<clock, lease, deadline, sealed, complete, executing, locks, decided, pc, reply, until>>

\* ... then WorkerExit publishes it.
PublishExit ==
    /\ worker = "wiped"
    /\ worker' = "gone"
    /\ sealed' = TRUE
    /\ complete' = TRUE
    /\ UNCHANGED <<clock, lease, deadline, executing, queue, locks, decided, pc, reply, until>>

-----------------------------------------------------------------------------
(* The watchdog and the clock.                                             *)

\* Mutant: the watchdog reads the flag and not the deadline.
WatchFlag ==
    /\ ~complete
    /\ sealed
    /\ sealingAt > MaxTime
    /\ sealingAt' = now
    /\ UNCHANGED <<now, exited, lease, deadline, sealed, complete, workerVars, locks, decided, pc, reply, until>>

\* watch_shutdown: the first time it finds the vault sealed or overdue.
Watch ==
    /\ ~complete
    /\ IsSealed
    /\ sealingAt > MaxTime
    /\ sealed' = TRUE
    /\ sealingAt' = now
    /\ UNCHANGED <<now, exited, lease, deadline, complete, workerVars, locks, decided, pc, reply, until>>

\* A native agent whose worker does not stop in time ends its process.
EmergencyExit ==
    /\ ~complete
    /\ sealingAt <= MaxTime
    /\ Reached(sealingAt + EmergencyDelay)
    /\ exited' = TRUE
    /\ UNCHANGED <<now, sealingAt, lease, deadline, sealed, complete, workerVars, locks, decided, pc,
                   reply, until>>

Tick ==
    /\ now < MaxTime
    /\ now' = now + 1
    /\ UNCHANGED <<sealingAt, exited, lease, deadline, sealed, complete, workerVars, locks, decided,
                   pc, reply, until>>

\* What a thread does by itself; a sleeping one is woken or times out.
Step(t) ==
    \/ Arrive(t) \/ Lock(t) \/ Panic(t) \/ Send(t) \/ Receive(t) \/ Finish(t) \/ SetDeadline(t)
    \/ Answer(t) \/ Deliver(t) \/ Look(t) \/ Listed(t) \/ Park(t) \/ Wake(t)
    \/ RequestShutdown(t) \/ NotifyAll(t) \/ TakeHandle(t) \/ Join(t) \/ Hook(t)

ServerStep == Poll \/ ExpireIfNeeded \/ Purged \/ Drained

WorkerStep == Take \/ Wipe \/ PublishExit

Running == ~exited

\* The system may stop: the process ended, or every thread returned.
Stopped ==
    /\ exited \/ (worker = "gone" /\ now = MaxTime /\ \A t \in Threads : pc[t] \in Over)
    /\ UNCHANGED vars

Next ==
    \/ Running /\ \E t \in Threads : Step(t)
    \/ Running /\ \E t \in Waiters : TimeOut(t)
    \/ Running /\ ServerStep
    \/ Running /\ WorkerStep
    \/ Running /\ Execute
    \/ Running /\ (Watch \/ EmergencyExit \/ Tick)
    \/ Stopped

Spec == Init /\ [][Next]_vars

\* Every thread is scheduled, the clock runs and the polling loops poll.  No
\* fairness for Execute: a store operation may never come back.  None for the
\* start of a request or a hook: nobody has to call.
Fairness ==
    /\ \A t \in Clients : WF_vars(Running /\ pc[t] \notin Between /\ (Step(t) \/ TimeOut(t)))
    /\ \A t \in Hooks : WF_vars(Running /\ pc[t] # "idle" /\ Step(t))
    /\ WF_vars(Running /\ (ServerStep \/ Step(Server)))
    /\ WF_vars(Running /\ WorkerStep)
    /\ WF_vars(Running /\ (Watch \/ EmergencyExit))
    /\ WF_vars(Running /\ Tick)

FairSpec == Spec /\ Fairness

-----------------------------------------------------------------------------
(* Properties.                                                             *)

Places == {"idle", "locking", "live", "sent", "answered", "touched", "checking", "relocking",
           "answering", "delivering", "delivered", "failed", "waiting", "listing", "parking",
           "asleep", "woken", "sealing", "notifying", "shutdown", "joining", "joined", "done",
           "polling", "purging", "draining"}

\* Type invariant.
TypeOK ==
    /\ now \in 0..MaxTime
    /\ lease \in [idle : Nat, absolute : Nat]
    /\ deadline \in Nat
    /\ sealed \in BOOLEAN /\ complete \in BOOLEAN /\ exited \in BOOLEAN
    /\ sealingAt \in 0..(MaxTime + 1)
    /\ worker \in {"serving", "executing", "exiting", "wiped", "gone"}
    /\ executing \in Threads \cup {Nobody}
    /\ queue \in Seq(Threads \cup {Halt}) /\ Len(queue) <= CommandQueue
    /\ handle \in BOOLEAN /\ poisoned \in BOOLEAN /\ decided \in BOOLEAN
    /\ joiner \in Threads \cup {Nobody} /\ mutex \in Threads \cup {Nobody}
    /\ pc \in [Threads -> Places]
    /\ reply \in [Threads -> {"none", "ok", "error"}]
    /\ until \in [Threads -> Nat]

\* Sealing is reported complete only after the worker has dropped the keys
\* and the queued commands, whichever thread reports it and however many
\* threads seal at once (WorkerControl::shutdown, WorkerExit).
CompleteMeansWiped == complete => worker \in {"wiped", "gone"}

\* The deadline the worker and the watchdog enforce never outlives the
\* lease, and the lease never outlives its absolute lifetime, however
\* requests touch it (touch, set_deadline).
DeadlineWithinLease == deadline <= ExpiresAt(lease) /\ ExpiresAt(lease) <= MaximumLifetime

\* What holds at every moment of sealing: the types, with the bounded command
\* queue, complete means wiped, and the deadline is the lease's.
SealingSound == TypeOK /\ CompleteMeansWiped /\ DeadlineWithinLease

\* A deadline that has passed is never moved, and a seal is never undone: a
\* request that outlasts the lease cannot revive it by touching it.
NoRevival == (now >= deadline => deadline' = deadline) /\ (sealed => sealed')

\* No answer leaves once sealing is complete or the absolute lifetime is
\* over, however long ago it was computed (check_live, check_delivery).
AnswersWithinLease ==
    \A t \in Clients : pc[t] # "delivered" /\ pc'[t] = "delivered" =>
        ~complete /\ now < lease.absolute

\* The end of the lease is final: no step revives it and no step answers
\* after it.
LeaseIsFinal == [][NoRevival /\ AnswersWithinLease]_vars

\* No waiter sleeps through the change it waits for (notify_all under the
\* state mutex in approve, deny and create_approval).
NoLostDecision == decided => \A t \in Waiters : pc[t] # "asleep"

\* What the test of waits and seals is named for: once the server has sealed
\* and returned, no waiter is still asleep waiting for its timeout.
SealWakesWaiters == pc[Server] = "done" => \A t \in Waiters : pc[t] # "asleep"

\* The keys do not outlive the lease: even if a store operation never comes
\* back, or a request poisons the state mutex, the worker is gone or the
\* process is.
KeysEventuallyGone == <>(complete \/ exited)

\* Every request that was started comes to an end, answered or failed.
RequestsEnd == \A t \in Clients : pc[t] \notin Between ~> pc[t] \in Over \/ exited

=============================================================================
