--------------------------- MODULE SealingProofs ---------------------------
(***************************************************************************)
(* Proofs about Sealing for any set of requests, waiters and hooks, any    *)
(* lease policy, queue length and clock bound: SealingSound, LeaseIsFinal  *)
(* and NoLostDecision.                                                     *)
(*                                                                         *)
(* None of the three is inductive.  The deadline stays within the lease    *)
(* because a touch never grants more than an idle timeout from now; sealing*)
(* is complete only after the worker went because the join-handle mutex is *)
(* held until it is joined; an answer that is being delivered carries a    *)
(* deadline that lay within the lifetime when it was taken; and a decision *)
(* reaches every waiter because both the decision and the way to sleep     *)
(* hold the state mutex.  Each of these facts is one of the invariants     *)
(* below.                                                                  *)
(***************************************************************************)
EXTENDS Sealing, TLAPS

\* A touch grants at most an idle timeout from now and never moves the end
\* of the lifetime; the deadline is no later than the lease.
LeaseKept ==
    /\ lease.absolute = MaximumLifetime
    /\ lease.idle <= lease.absolute
    /\ lease.idle <= now + IdleTimeout
    /\ deadline <= lease.idle

\* Whoever took the join handle still holds its mutex, or has joined the
\* worker; a thread that may report completion has raised the flag.
JoinedBeforeComplete ==
    /\ ~handle => joiner # Nobody \/ worker = "gone"
    /\ complete => worker \in {"wiped", "gone"}
    /\ complete => sealed
    /\ \A t \in Threads : pc[t] \in {"joining", "joined"} => sealed

\* An answer on its way was given a deadline within the lifetime.
DeliveryBounded ==
    \A t \in Threads : pc[t] = "delivering" => until[t] <= MaximumLifetime

\* Where a thread holds the state mutex whatever it came for.
Holding == {"live", "sent", "answered", "touched", "waiting", "listing", "parking", "purging"}

\* Only the holder is in there, nobody goes to sleep over a decision, and
\* nobody sleeps over one.
DecisionsHeard ==
    /\ \A t \in Threads : pc[t] \in Holding => mutex = t
    /\ \A t \in Threads : pc[t] \in {"parking", "asleep"} => ~decided

SealingInv == TypeOK /\ LeaseKept /\ JoinedBeforeComplete /\ DeliveryBounded /\ DecisionsHeard

-----------------------------------------------------------------------------
(* Types.                                                                  *)

\* Whether the vault is sealed is a Boolean, and latching it keeps it.
LEMMA SealedType ==
    ASSUME TypeOK
    PROVE  IsSealed \in BOOLEAN /\ (sealed => IsSealed)
BY Zenon DEF TypeOK, IsSealed

\* notify_all moves threads between two places.
LEMMA NotifiedType ==
    ASSUME NEW at \in [Threads -> Places]
    PROVE  Notified(at) \in [Threads -> Places]
BY ZenonT(60) DEF Notified, Places

\* A thread moves to another place.
LEMMA MovedType ==
    ASSUME NEW at \in [Threads -> Places], NEW t, NEW x \in Places
    PROVE  [at EXCEPT ![t] = x] \in [Threads -> Places]
BY Zenon

\* Two ends of a lease compare as the earlier one.
LEMMA EarlierFacts ==
    ASSUME NEW a \in Nat, NEW b \in Nat
    PROVE  /\ Earlier(a, b) \in Nat
           /\ Earlier(a, b) <= a /\ Earlier(a, b) <= b
           /\ Earlier(a, b) = a \/ Earlier(a, b) = b
BY DEF Earlier

\* What a thread that holds nothing but its own variables does.
LEMMA ThreadTypes ==
    ASSUME TypeOK, NEW t \in Threads, Step(t)
    PROVE  TypeOK'
<1> USE DEF TypeOK
<1>0. IsSealed \in BOOLEAN
  BY SealedType, Zenon
<1>1. CASE Arrive(t)
  <2>1. pc' \in [Threads -> Places]
    <3>1. \E x \in {"checking", "locking", "failed", "relocking"} : pc' = [pc EXCEPT ![t] = x]
      BY <1>1, Zenon DEF Arrive
    <3>2. {"checking", "locking", "failed", "relocking"} \subseteq Places
      BY ZenonT(60) DEF Places
    <3> QED BY <3>1, <3>2, MovedType, SMTT(60)
  <2>2. reply' \in [Threads -> {"none", "ok", "error"}]
    BY <1>1, ZenonT(60) DEF Arrive
  <2> QED BY <1>0, <1>1, <2>1, <2>2, SMTT(60) DEF Arrive, clock, locks, workerVars
<1>2. CASE Lock(t)
  <2>1. pc' \in [Threads -> Places]
    BY <1>2 DEF Lock, Places
  <2>2. reply' \in [Threads -> {"none", "ok", "error"}]
    BY <1>2, ZenonT(60) DEF Lock
  <2>3. until' \in [Threads -> Nat]
    BY <1>2, LimitAssumption DEF Lock
  <2>4. mutex' \in Threads \cup {Nobody} /\ sealed' \in BOOLEAN
    BY <1>0, <1>2, Zenon DEF Lock
  <2> QED BY <1>2, <2>1, <2>2, <2>3, <2>4, SMTT(60) DEF Lock, clock, workerVars
<1>3. CASE Panic(t)
  BY <1>3 DEF Panic, Places, clock, workerVars
<1>4. CASE Send(t)
  <2>1. pc' \in [Threads -> Places]
    <3>1. \E x \in {"answered", "sent"} : pc' = [pc EXCEPT ![t] = x]
      BY <1>4, Zenon DEF Send
    <3>2. {"answered", "sent"} \subseteq Places
      BY ZenonT(60) DEF Places
    <3> QED BY <3>1, <3>2, MovedType
  <2>2. reply' \in [Threads -> {"none", "ok", "error"}]
    BY <1>4, ZenonT(60) DEF Send
  <2>3. CASE worker \in {"wiped", "gone"}
    BY <1>4, <2>1, <2>2, <2>3, SMTT(60) DEF Send, clock, locks
  <2>4. CASE worker \notin {"wiped", "gone"}
    <3>1. queue' = Append(queue, t) /\ Len(queue) < CommandQueue
      BY <1>4, <2>4, Zenon DEF Send
    <3>2. queue' \in Seq(Threads \cup {Halt}) /\ Len(queue') <= CommandQueue
      BY <3>1, LimitAssumption
    <3> QED BY <1>4, <2>1, <2>2, <3>2, SMTT(60) DEF Send, clock, locks
  <2> QED BY <2>3, <2>4, Zenon
<1>5. CASE Receive(t)
  BY <1>5, SMTT(60) DEF Receive, Places, clock, locks, workerVars
<1>6. CASE Finish(t)
  <2>1. pc' \in [Threads -> Places]
    <3>1. \E at \in {pc, Notified(pc)}, x \in {"checking", "shutdown", "touched"} :
            pc' = [at EXCEPT ![t] = x]
      BY <1>6, Zenon DEF Finish
    <3>2. {"checking", "shutdown", "touched"} \subseteq Places
      BY ZenonT(60) DEF Places
    <3> QED BY <3>1, <3>2, MovedType, NotifiedType, SMTT(60)
  <2>2. reply' \in [Threads -> {"none", "ok", "error"}]
    BY <1>6, Zenon DEF Finish
  <2>3. Touched(lease) \in [idle : Nat, absolute : Nat]
    <3>1. now + IdleTimeout \in Nat
      BY LimitAssumption, PolicyAssumption
    <3> QED BY <3>1, EarlierFacts, Zenon DEF Touched
  <2>4. lease' \in [idle : Nat, absolute : Nat] /\ mutex' \in Threads \cup {Nobody}
    BY <1>6, <2>3, Zenon DEF Finish
  <2>5. sealed' \in BOOLEAN /\ decided' \in BOOLEAN
    BY <1>0, <1>6, Zenon DEF Finish
  <2> QED BY <1>6, <2>1, <2>2, <2>4, <2>5, SMTT(60) DEF Finish, clock, workerVars
<1>7. CASE SetDeadline(t)
  <2>1. ExpiresAt(lease) \in Nat
    BY EarlierFacts, Zenon DEF ExpiresAt
  <2>2. pc' \in [Threads -> Places]
    BY <1>7, Zenon DEF SetDeadline, Places
  <2>3. deadline' \in Nat /\ sealed' \in BOOLEAN /\ reply' \in [Threads -> {"none", "ok", "error"}]
    BY <1>7, <2>1, Zenon DEF SetDeadline
  <2> QED BY <1>7, <2>2, <2>3, SMTT(60) DEF SetDeadline, clock, workerVars
<1>8. CASE Answer(t)
  BY <1>8, SMTT(60) DEF Answer, Places, clock, locks, workerVars
<1>9. CASE Deliver(t)
  BY <1>9, SMTT(60) DEF Deliver, Places, clock, locks, workerVars
<1>10. CASE Look(t)
  <2>1. pc' \in [Threads -> Places]
    BY <1>10, SMTT(60) DEF Look, Decide, Places
  <2>2. reply' \in [Threads -> {"none", "ok", "error"}] /\ mutex' \in Threads \cup {Nobody}
    BY <1>10, ZenonT(60) DEF Look, Decide
  <2> QED BY <1>0, <1>10, <2>1, <2>2, SMTT(60) DEF Look, clock, workerVars
<1>11. CASE Listed(t)
  <2>1. pc' \in [Threads -> Places]
    BY <1>11, ZenonT(60) DEF Listed, Decide, Places
  <2>2. reply' \in [Threads -> {"none", "ok", "error"}] /\ mutex' \in Threads \cup {Nobody}
    BY <1>11, ZenonT(60) DEF Listed, Decide
  <2> QED BY <1>11, <2>1, <2>2, SMTT(60) DEF Listed, clock, workerVars
<1>12. CASE Park(t)
  BY <1>12, SMTT(60) DEF Park, Places, clock, workerVars
<1>13. CASE Wake(t)
  <2>1. pc' \in [Threads -> Places]
    <3>1. \E x \in {"checking", "waiting"} : pc' = [pc EXCEPT ![t] = x]
      BY <1>13, Zenon DEF Wake
    <3>2. {"checking", "waiting"} \subseteq Places
      BY ZenonT(60) DEF Places
    <3> QED BY <3>1, <3>2, MovedType
  <2> QED BY <1>13, <2>1, SMTT(60) DEF Wake, clock, workerVars
<1>14. CASE RequestShutdown(t)
  <2>1. pc' \in [Threads -> Places]
    BY <1>14, ZenonT(60) DEF RequestShutdown, Places
  <2>2. queue' \in Seq(Threads \cup {Halt}) /\ Len(queue') <= CommandQueue
    BY <1>14, LimitAssumption DEF RequestShutdown
  <2> QED BY <1>14, <2>1, <2>2, SMTT(60) DEF RequestShutdown, clock, locks
<1>15. CASE NotifyAll(t)
  <2>1. pc' \in [Threads -> Places]
    BY <1>15, NotifiedType, ZenonT(60) DEF NotifyAll, Places
  <2> QED BY <1>15, <2>1, SMTT(60) DEF NotifyAll, clock, locks, workerVars
<1>16. ASSUME AfterShutdown(t)
       PROVE  /\ complete' \in BOOLEAN /\ mutex' \in Threads \cup {Nobody}
              /\ pc' \in [Threads -> Places] /\ until' \in [Threads -> Nat]
              /\ reply' \in [Threads -> {"none", "ok", "error"}]
  BY <1>16, NotifiedType, ZenonT(60) DEF AfterShutdown, Places
<1>17. CASE TakeHandle(t)
  <2>1. CASE handle
    <3>1. pc' = [pc EXCEPT ![t] = "joined"] /\ handle' = FALSE /\ joiner' = t
      BY <1>17, <2>1, Zenon DEF TakeHandle
    <3>2. "joined" \in Places
      BY Zenon DEF Places
    <3>3. pc' \in [Threads -> Places]
      BY <3>1, <3>2, MovedType, Zenon
    <3>4. handle' \in BOOLEAN /\ joiner' \in Threads \cup {Nobody}
      BY <3>1, Zenon
    <3>5. UNCHANGED <<complete, mutex, reply, until, lease, deadline, sealed, poisoned, decided,
                      now, sealingAt, exited, worker, executing, queue>>
      BY <1>17, <2>1, Zenon DEF TakeHandle, clock, workerVars
    <3> QED BY <3>3, <3>4, <3>5, ZenonT(60)
  <2>2. CASE ~handle
    BY <1>16, <1>17, <2>2, ZenonT(60) DEF TakeHandle, clock, workerVars
  <2> QED BY <2>1, <2>2, Zenon
<1>18. CASE Join(t)
  BY <1>16, <1>18, ZenonT(60) DEF Join, clock, workerVars
<1>19. CASE Hook(t)
  BY <1>19, SMTT(60) DEF Hook, Places, clock, locks, workerVars
<1> QED
  BY <1>1, <1>2, <1>3, <1>4, <1>5, <1>6, <1>7, <1>8, <1>9, <1>10, <1>11, <1>12, <1>13, <1>14,
     <1>15, <1>17, <1>18, <1>19, Zenon DEF Step

\* The rest: the server loop, the worker, the watchdog and the clock.
LEMMA SystemTypes ==
    ASSUME TypeOK,
           \/ \E t \in Waiters : TimeOut(t)
           \/ ServerStep \/ WorkerStep \/ Execute \/ Watch \/ EmergencyExit \/ Tick \/ UNCHANGED vars
    PROVE  TypeOK'
<1> USE DEF TypeOK
<1>0. IsSealed \in BOOLEAN /\ Server \in Threads
  BY SealedType, Zenon DEF Threads
<1>1. CASE \E t \in Waiters : TimeOut(t)
  BY <1>1 DEF TimeOut, Threads, Clients, Places, clock, locks, workerVars
<1>2. CASE Poll
  <2>1. pc' \in [Threads -> Places]
    <3>1. \E at \in {pc, Notified(pc)}, x \in {"sealing", "draining", "polling"} :
            pc' = [at EXCEPT ![Server] = x]
      BY <1>2, Zenon DEF Poll
    <3>2. {"sealing", "draining", "polling"} \subseteq Places
      BY ZenonT(60) DEF Places
    <3>3. Notified(pc) \in [Threads -> Places]
      BY NotifiedType, Zenon
    <3> QED BY <3>1, <3>2, <3>3, MovedType, SMTT(60)
  <2> QED BY <1>0, <1>2, <2>1, SMTT(60) DEF Poll, clock, locks, workerVars
<1>3. CASE ExpireIfNeeded
  <2>1. pc' \in [Threads -> Places]
    <3>1. \E x \in {"draining", "sealing", "shutdown", "idle", "purging"} :
            pc' = [pc EXCEPT ![Server] = x]
      BY <1>3, Zenon DEF ExpireIfNeeded
    <3>2. {"draining", "sealing", "shutdown", "idle", "purging"} \subseteq Places
      BY ZenonT(60) DEF Places
    <3> QED BY <3>1, <3>2, MovedType, SMTT(60)
  <2>2. mutex' \in Threads \cup {Nobody} /\ sealed' \in BOOLEAN
    BY <1>0, <1>3, Zenon DEF ExpireIfNeeded
  <2> QED BY <1>3, <2>1, <2>2, SMTT(60) DEF ExpireIfNeeded, clock, workerVars
<1>4. CASE Purged
  BY <1>0, <1>4, SMTT(60) DEF Purged, Places, clock, workerVars
<1>5. CASE Drained
  BY <1>0, <1>5, SMTT(60) DEF Drained, Places, clock, locks, workerVars
<1>6. CASE Take
  <2>1. CASE IsSealed
    BY <1>0, <1>6, <2>1, ZenonT(60) DEF Take, clock, locks
  <2>2. CASE ~IsSealed
    <3>1. queue # <<>> /\ queue' = Tail(queue)
      BY <1>6, <2>2, Zenon DEF Take
    <3>2. /\ queue' \in Seq(Threads \cup {Halt}) /\ Len(queue') <= CommandQueue
          /\ Head(queue) \in Threads \cup {Halt}
      BY <3>1, LimitAssumption
    <3> QED BY <1>0, <1>6, <2>2, <3>2, SMTT(60) DEF Take, clock, locks
  <2> QED BY <2>1, <2>2, Zenon
<1>7. CASE Wipe
  BY <1>7, LimitAssumption DEF Wipe, clock, locks
<1>8. CASE PublishExit
  BY <1>8, ZenonT(60) DEF PublishExit, clock, locks
<1>9. CASE Execute
  <2>1. sealed' \in BOOLEAN
    BY <1>0, <1>9, Zenon DEF Execute
  <2>2. reply' \in [Threads -> {"none", "ok", "error"}] /\ worker' \in {"serving", "exiting"}
    BY <1>9, Zenon DEF Execute
  <2> QED BY <1>9, <2>1, <2>2, SMTT(60) DEF Execute, clock, locks
<1>10. CASE Watch
  BY <1>10, LimitAssumption, SMTT(60) DEF Watch, locks, workerVars
<1>11. CASE EmergencyExit
  BY <1>11 DEF EmergencyExit, locks, workerVars
<1>12. CASE Tick
  BY <1>12, LimitAssumption, SMTT(60) DEF Tick, locks, workerVars
<1>13. CASE UNCHANGED vars
  BY <1>13, SMTT(60) DEF vars, clock, locks, workerVars
<1> QED
  BY <1>1, <1>2, <1>3, <1>4, <1>5, <1>6, <1>7, <1>8, <1>9, <1>10, <1>11, <1>12, <1>13, Zenon
     DEF ServerStep, WorkerStep

\* Every behaviour of a running or stopping vault is well typed.
LEMMA TypeStep ==
    ASSUME TypeOK, [Next]_vars
    PROVE  TypeOK'
BY ThreadTypes, SystemTypes, Zenon DEF Next, Stopped, Running

-----------------------------------------------------------------------------
(* The lease.                                                              *)

\* Only a touch, set_deadline and the clock concern the lease: a touch grants
\* an idle timeout at most, and the deadline follows the lease.
LEMMA LeaseStep ==
    ASSUME TypeOK, LeaseKept, [Next]_vars
    PROVE  LeaseKept'
<1> USE DEF LeaseKept
<1>0. /\ now \in Nat /\ IdleTimeout \in Nat /\ MaximumLifetime \in Nat /\ deadline \in Nat
      /\ lease \in [idle : Nat, absolute : Nat]
  BY LimitAssumption, PolicyAssumption DEF TypeOK
<1>1. CASE UNCHANGED <<now, lease, deadline>>
  BY <1>1, Zenon
<1>2. ASSUME NEW t \in Threads, Finish(t) PROVE LeaseKept'
  <2>1. CASE lease' = Touched(lease) /\ UNCHANGED <<now, deadline>> /\ ~IsSealed
    <3> DEFINE granted == Earlier(now + IdleTimeout, lease.absolute)
    <3>1. lease'.idle = granted /\ lease'.absolute = lease.absolute
      BY <1>0, <2>1, Zenon DEF Touched
    <3>2. granted <= now + IdleTimeout /\ granted <= lease.absolute
          /\ (granted = now + IdleTimeout \/ granted = lease.absolute)
      <4>1. now + IdleTimeout \in Nat /\ lease.absolute \in Nat
        BY <1>0
      <4> QED BY <4>1, EarlierFacts, Zenon
    <3>3. deadline <= granted
      BY <1>0, <3>2
    <3> HIDE DEF granted
    <3> QED BY <1>0, <2>1, <3>1, <3>2, <3>3, Zenon
  <2> QED BY <1>1, <1>2, <2>1, Zenon DEF Finish, clock
<1>3. ASSUME NEW t \in Threads, SetDeadline(t) PROVE LeaseKept'
  BY <1>0, <1>3, EarlierFacts, ZenonT(60) DEF SetDeadline, ExpiresAt, clock
<1>4. CASE Tick
  BY <1>0, <1>4 DEF Tick
<1> QED
  <2>1. ASSUME NEW t \in Threads, Step(t) PROVE LeaseKept'
    BY <1>1, <1>2, <1>3, <2>1, ZenonT(60)
       DEF Step, Arrive, Lock, Panic, Send, Receive, Answer, Deliver, Look, Listed, Park, Wake,
           RequestShutdown, NotifyAll, TakeHandle, Join, Hook, clock
  <2>2. CASE (\E t \in Waiters : TimeOut(t)) \/ ServerStep \/ WorkerStep
    BY <1>1, <2>2, Zenon
       DEF TimeOut, ServerStep, WorkerStep, Poll, ExpireIfNeeded, Purged, Drained, Take, Wipe,
           PublishExit, clock
  <2>3. CASE Execute \/ Watch \/ EmergencyExit \/ UNCHANGED vars
    BY <1>1, <2>3, Zenon DEF Execute, Watch, EmergencyExit, vars, clock
  <2> QED BY <1>4, <2>1, <2>2, <2>3, Zenon DEF Next, Stopped

-----------------------------------------------------------------------------
(* Joining the worker, and delivering answers.                             *)

\* What concludes shutdown: the worker is gone and the flag is up.
LEMMA AfterShutdownJoined ==
    ASSUME TypeOK, JoinedBeforeComplete, NEW t \in Threads, AfterShutdown(t),
           pc[t] \in {"joining", "joined"}, worker = "gone",
           UNCHANGED <<sealed, worker, handle>>
    PROVE  JoinedBeforeComplete'
<1>1. \A u \in Threads : pc'[u] \in {"joining", "joined"} => pc[u] \in {"joining", "joined"}
  BY Zenon DEF AfterShutdown, TypeOK, Notified
<1> QED BY <1>1, Zenon DEF AfterShutdown, JoinedBeforeComplete

\* Sealing is complete only after the worker has gone.
LEMMA JoinStep ==
    ASSUME TypeOK, JoinedBeforeComplete, [Next]_vars
    PROVE  JoinedBeforeComplete'
<1> DEFINE Late(at, u) == at[u] \in {"joining", "joined"}
<1>0. sealed => IsSealed
  BY SealedType, Zenon
<1>1. ASSUME UNCHANGED <<handle, joiner, complete>>, sealed => sealed',
             worker \in {"wiped", "gone"} => worker' = worker,
             \A u \in Threads : Late(pc', u) => Late(pc, u)
      PROVE  JoinedBeforeComplete'
  BY <1>1, Zenon DEF JoinedBeforeComplete
<1>2. ASSUME NEW t \in Threads, Step(t) PROVE JoinedBeforeComplete'
  <2>1. CASE RequestShutdown(t)
    BY <2>1, Zenon DEF RequestShutdown, JoinedBeforeComplete, locks
  <2>2. CASE TakeHandle(t) /\ handle
    <3>1. \A u \in Threads : Late(pc', u) => sealed
      BY <2>2, Zenon DEF TakeHandle, JoinedBeforeComplete, TypeOK
    <3>2. t # Nobody
      BY ThreadAssumption, Zenon
    <3> QED BY <2>2, <3>1, <3>2, Zenon DEF TakeHandle, JoinedBeforeComplete, workerVars
  <2>3. CASE TakeHandle(t) /\ ~handle
    BY <2>3, AfterShutdownJoined, Zenon DEF TakeHandle, JoinedBeforeComplete, workerVars
  <2>4. CASE Join(t)
    BY <2>4, AfterShutdownJoined, Zenon DEF Join, workerVars
  <2>5. CASE Finish(t)
    <3>1. \A u \in Threads : Late(pc', u) => Late(pc, u)
      BY <2>5, ZenonT(60) DEF Finish, TypeOK, Notified
    <3> QED BY <1>0, <1>1, <2>5, <3>1 DEF Finish, workerVars
  <2>6. CASE NotifyAll(t)
    <3>1. \A u \in Threads : Late(pc', u) => Late(pc, u)
      BY <2>6, Zenon DEF NotifyAll, TypeOK, Notified
    <3> QED BY <1>1, <2>6, <3>1, Zenon DEF NotifyAll, workerVars, locks
  <2>7. CASE Arrive(t) \/ Lock(t)
    <3>1. \A u \in Threads : Late(pc', u) => Late(pc, u)
      BY <2>7 DEF Arrive, Lock, TypeOK
    <3> QED BY <1>0, <1>1, <2>7, <3>1, Zenon DEF Arrive, Lock, locks, workerVars
  <2>8. CASE Look(t) \/ Listed(t) \/ SetDeadline(t)
    <3>1. \A u \in Threads : Late(pc', u) => Late(pc, u)
      BY <2>8, ZenonT(60) DEF Look, Listed, SetDeadline, Decide, TypeOK
    <3> QED BY <1>0, <1>1, <2>8, <3>1, Zenon DEF Look, Listed, SetDeadline, workerVars
  <2>9. CASE Panic(t) \/ Send(t) \/ Receive(t) \/ Answer(t) \/ Deliver(t) \/ Park(t) \/ Wake(t) \/ Hook(t)
    <3>1. \A u \in Threads : Late(pc', u) => Late(pc, u)
      BY <2>9, ZenonT(60) DEF Panic, Send, Receive, Answer, Deliver, Park, Wake, Hook, TypeOK
    <3> QED BY <1>1, <2>9, <3>1, Zenon
          DEF Panic, Send, Receive, Answer, Deliver, Park, Wake, Hook, locks, workerVars
  <2> QED BY <1>2, <2>1, <2>2, <2>3, <2>4, <2>5, <2>6, <2>7, <2>8, <2>9, ZenonT(60) DEF Step
<1>3. CASE ServerStep \/ \E t \in Waiters : TimeOut(t)
  <2>1. \A u \in Threads : Late(pc', u) => Late(pc, u)
    BY <1>3, ZenonT(60)
       DEF ServerStep, Poll, ExpireIfNeeded, Purged, Drained, TimeOut, TypeOK, Notified
  <2> QED BY <1>0, <1>1, <1>3, <2>1, Zenon
        DEF ServerStep, Poll, ExpireIfNeeded, Purged, Drained, TimeOut, locks, workerVars
<1>4. CASE Take
  BY <1>0, <1>1, <1>4, Zenon DEF Take, locks
<1>5. CASE Wipe
  BY <1>5, Zenon DEF Wipe, JoinedBeforeComplete, locks
<1>6. CASE PublishExit
  BY <1>6, Zenon DEF PublishExit, JoinedBeforeComplete, locks
<1>7. CASE Execute
  BY <1>0, <1>1, <1>7, Zenon DEF Execute, locks
<1>8. CASE Watch \/ EmergencyExit \/ Tick \/ UNCHANGED vars
  BY <1>1, <1>8 DEF Watch, EmergencyExit, Tick, vars, locks, workerVars
<1> QED BY <1>2, <1>3, <1>4, <1>5, <1>6, <1>7, <1>8, Zenon DEF Next, Stopped, WorkerStep

\* An answer on its way has a deadline within the lifetime: until is the
\* thread's own, and only Answer leads there.
LEMMA DeliveryStep ==
    ASSUME TypeOK, LeaseKept, DeliveryBounded, [Next]_vars
    PROVE  DeliveryBounded'
<1> DEFINE Kept(u) == pc'[u] = "delivering" => pc[u] = "delivering" /\ until'[u] = until[u]
<1>0. deadline <= MaximumLifetime
  BY PolicyAssumption DEF LeaseKept, TypeOK
<1>1. ASSUME \A u \in Threads : Kept(u) PROVE DeliveryBounded'
  BY <1>1, Zenon DEF DeliveryBounded
<1>2. ASSUME NEW t \in Threads, Step(t) PROVE DeliveryBounded'
  <2>1. CASE Answer(t)
    BY <1>0, <2>1, Zenon DEF Answer, DeliveryBounded, TypeOK
  <2>2. CASE Finish(t) \/ NotifyAll(t)
    <3>1. \A u \in Threads : Kept(u)
      BY <2>2, ZenonT(60) DEF Finish, NotifyAll, Notified, TypeOK
    <3> QED BY <1>1, <3>1, Zenon
  <2>3. CASE TakeHandle(t) \/ Join(t)
    <3>1. \A u \in Threads : Kept(u)
      BY <2>3, ZenonT(60) DEF TakeHandle, Join, AfterShutdown, Notified, TypeOK
    <3> QED BY <1>1, <3>1, Zenon
  <2>4. CASE Arrive(t) \/ Lock(t)
    <3>1. \A u \in Threads : Kept(u)
      BY <2>4, ZenonT(60) DEF Arrive, Lock, TypeOK
    <3> QED BY <1>1, <3>1, Zenon
  <2>5. CASE Panic(t) \/ Send(t) \/ Receive(t) \/ SetDeadline(t) \/ Deliver(t) \/ RequestShutdown(t)
    <3>1. \A u \in Threads : Kept(u)
      BY <2>5, ZenonT(60) DEF Panic, Send, Receive, SetDeadline, Deliver, RequestShutdown, TypeOK
    <3> QED BY <1>1, <3>1, Zenon
  <2>6. CASE Look(t) \/ Listed(t) \/ Park(t) \/ Wake(t) \/ Hook(t)
    <3>1. \A u \in Threads : Kept(u)
      BY <2>6, ZenonT(60) DEF Look, Listed, Decide, Park, Wake, Hook, TypeOK
    <3> QED BY <1>1, <3>1, Zenon
  <2> QED BY <1>2, <2>1, <2>2, <2>3, <2>4, <2>5, <2>6, Zenon DEF Step
<1>3. CASE ServerStep \/ \E t \in Waiters : TimeOut(t)
  <2>1. \A u \in Threads : Kept(u)
    BY <1>3, ZenonT(60)
       DEF ServerStep, Poll, ExpireIfNeeded, Purged, Drained, TimeOut, TypeOK, Notified
  <2> QED BY <1>1, <2>1, Zenon
<1>4. CASE WorkerStep \/ Execute \/ Watch \/ EmergencyExit \/ Tick \/ UNCHANGED vars
  <2>1. \A u \in Threads : Kept(u)
    BY <1>4, Zenon
       DEF WorkerStep, Take, Wipe, PublishExit, Execute, Watch, EmergencyExit, Tick, vars
  <2> QED BY <1>1, <2>1, Zenon
<1> QED BY <1>2, <1>3, <1>4, Zenon DEF Next, Stopped

-----------------------------------------------------------------------------
(* Decisions and the state mutex.                                          *)

\* A step that moves only threads which hold nothing, and takes nobody to
\* sleep, keeps the mutex with its holder.
LEMMA HolderKept ==
    ASSUME DecisionsHeard, UNCHANGED <<mutex, decided>>,
           \A u \in Threads : pc'[u] \in Holding => pc[u] \in Holding,
           \A u \in Threads : pc'[u] \in {"parking", "asleep"} => pc[u] \in {"parking", "asleep"}
    PROVE  DecisionsHeard'
BY Zenon DEF DecisionsHeard

\* A thread that holds the mutex goes on holding it, or gives it up; either
\* way nobody else is where only a holder is.
LEMMA HolderMoves ==
    ASSUME DecisionsHeard, NEW t \in Threads, mutex = t, decided' = decided,
           mutex' = t \/ (mutex' = Nobody /\ pc'[t] \notin Holding),
           \A u \in Threads \ {t} : pc'[u] = pc[u],
           pc'[t] \in {"parking", "asleep"} => ~decided
    PROVE  DecisionsHeard'
BY Zenon DEF DecisionsHeard

\* A thread takes the free mutex, under which nobody is; or leaves it.
LEMMA HolderComes ==
    ASSUME DecisionsHeard, NEW t \in Threads, mutex = Nobody, decided' = decided,
           mutex' = t \/ (mutex' = Nobody /\ pc'[t] \notin Holding),
           \A u \in Threads \ {t} : pc'[u] = pc[u],
           pc'[t] \notin {"parking", "asleep"}
    PROVE  DecisionsHeard'
BY ThreadAssumption, Zenon DEF DecisionsHeard

\* The end of shutdown releases the mutex if the thread holds it.
LEMMA ShutdownReleases ==
    ASSUME TypeOK, DecisionsHeard, NEW t \in Threads, AfterShutdown(t), decided' = decided
    PROVE  DecisionsHeard'
<1>1. \A u \in Threads \ {t} : /\ pc'[u] \in Holding => pc[u] \in Holding
                               /\ pc'[u] = "parking" => pc[u] = "parking"
                               /\ pc'[u] = "asleep" => pc[u] = "asleep"
  BY Zenon DEF AfterShutdown, Notified, TypeOK, Holding
<1>2. pc'[t] \in {"done", "sealing", "failed"}
  BY Zenon DEF AfterShutdown, Notified, TypeOK
<1>3. mutex' = IF mutex = t THEN Nobody ELSE mutex
  BY Zenon DEF AfterShutdown
<1> QED BY <1>1, <1>2, <1>3, Zenon DEF DecisionsHeard, Holding

\* A decision wakes every sleeper, and nobody is on the way to sleep: the
\* one that decides holds the mutex.
LEMMA FinishHeard ==
    ASSUME TypeOK, DecisionsHeard, NEW t \in Threads, Finish(t)
    PROVE  DecisionsHeard'
<1>0. mutex = t
  BY Zenon DEF Finish, DecisionsHeard, Holding
<1>1. CASE decided' = decided /\ \A u \in Threads \ {t} : pc'[u] = pc[u]
  <2>1. Notified(pc) \in [Threads -> Places]
    BY NotifiedType, Zenon DEF TypeOK
  <2>2. pc'[t] \in {"checking", "shutdown", "touched"}
    BY <2>1, ZenonT(60) DEF Finish, TypeOK
  <2>3. mutex' = t \/ (mutex' = Nobody /\ pc'[t] = "checking")
    BY <1>0, Zenon DEF Finish, TypeOK
  <2> QED BY <1>0, <1>1, <2>2, <2>3, HolderMoves, Zenon DEF Holding
<1>2. CASE \E resolves \in {TRUE} :
             /\ decided' = (decided \/ resolves) /\ mutex' = mutex
             /\ pc' \in {[Notified(pc) EXCEPT ![t] = "shutdown"], [Notified(pc) EXCEPT ![t] = "touched"]}
  <2>1. \A u \in Threads \ {t} :
           /\ pc'[u] \in Holding => pc[u] \in Holding
           /\ pc'[u] = "parking" => pc[u] = "parking"
           /\ pc'[u] # "asleep"
    BY <1>2, ZenonT(60) DEF Notified, TypeOK, Holding
  <2>2. \A u \in Threads \ {t} : pc'[u] \notin Holding
    BY <1>0, <2>1, Zenon DEF DecisionsHeard
  <2>3. pc'[t] \in {"shutdown", "touched"}
    BY <1>2, Zenon DEF Notified, TypeOK
  <2> QED BY <1>0, <1>2, <2>1, <2>2, <2>3, Zenon DEF DecisionsHeard, Holding
<1> QED
  <2>2. ASSUME NEW resolves \in BOOLEAN, decided' = (decided \/ resolves), mutex' = mutex,
               pc' \in {[IF resolves THEN Notified(pc) ELSE pc EXCEPT ![t] = "shutdown"],
                        [IF resolves THEN Notified(pc) ELSE pc EXCEPT ![t] = "touched"]}
        PROVE  DecisionsHeard'
    <3>1. CASE resolves
      BY <1>2, <2>2, <3>1, Zenon
    <3>2. CASE ~resolves
      <4>1. decided' = decided
        BY <2>2, <3>2, Zenon DEF TypeOK
      <4>2. \A u \in Threads \ {t} : pc'[u] = pc[u]
        BY <2>2, <3>2, Zenon DEF TypeOK
      <4> QED BY <1>1, <4>1, <4>2, Zenon
    <3> QED BY <3>1, <3>2, Zenon
  <2>3. CASE pc' = [pc EXCEPT ![t] = "checking"] /\ UNCHANGED decided
    BY <1>1, <2>3, Zenon DEF TypeOK
  <2>4. CASE pc' = [pc EXCEPT ![t] = "shutdown"] /\ UNCHANGED decided
    BY <1>1, <2>4, Zenon DEF TypeOK
  <2> QED BY <2>2, <2>3, <2>4, Zenon DEF Finish

\* The mutex stays with its holder, and nobody sleeps over a decision.
LEMMA DecisionStep ==
    ASSUME TypeOK, DecisionsHeard, [Next]_vars
    PROVE  DecisionsHeard'
<1> DEFINE Still(u) == /\ pc'[u] \in Holding => pc[u] \in Holding
                       /\ pc'[u] \in {"parking", "asleep"} => pc[u] \in {"parking", "asleep"}
<1>1. ASSUME NEW t \in Threads, Step(t) PROVE DecisionsHeard'
  <2>0. pc[t] \in Holding => mutex = t
    BY Zenon DEF DecisionsHeard
  <2>1. CASE Finish(t)
    BY <2>1, FinishHeard, Zenon
  <2>2. CASE (TakeHandle(t) /\ ~handle) \/ Join(t)
    BY <2>2, ShutdownReleases, Zenon DEF TakeHandle, Join
  <2>3. CASE Arrive(t)
    <3>1. \A u \in Threads : Still(u)
      BY <2>3, SMTT(60) DEF Arrive, TypeOK, Holding
    <3> QED BY <2>3, <3>1, HolderKept, Zenon DEF Arrive, locks
  <2>4. CASE Lock(t) \/ Wake(t)
    <3>1. \A u \in Threads \ {t} : pc'[u] = pc[u]
      BY <2>4, ZenonT(60) DEF Lock, Wake, TypeOK
    <3>2. /\ mutex' = t \/ (mutex' = Nobody /\ pc'[t] \notin Holding)
          /\ pc'[t] \notin {"parking", "asleep"}
      BY <2>4, SMTT(60) DEF Lock, Wake, TypeOK, Holding
    <3> QED BY <2>4, <3>1, <3>2, HolderComes, Zenon DEF Lock, Wake
  <2>5. CASE Panic(t) \/ Send(t) \/ Receive(t) \/ SetDeadline(t) \/ Park(t)
    <3>1. mutex = t
      BY <2>0, <2>5, Zenon DEF Panic, Send, Receive, SetDeadline, Park, Holding
    <3>2. \A u \in Threads \ {t} : pc'[u] = pc[u]
      BY <2>5, Zenon DEF Panic, Send, Receive, SetDeadline, Park, TypeOK
    <3>3. mutex' = t \/ (mutex' = Nobody /\ pc'[t] \notin Holding)
      BY <2>5, <3>1, ZenonT(60) DEF Panic, Send, Receive, SetDeadline, Park, TypeOK, Holding, locks
    <3>4. pc'[t] \in {"parking", "asleep"} => ~decided
      BY <2>5, ZenonT(60) DEF Panic, Send, Receive, SetDeadline, Park, TypeOK, DecisionsHeard
    <3>5. decided' = decided
      BY <2>5, Zenon DEF Panic, Send, Receive, SetDeadline, Park
    <3> QED BY <3>1, <3>2, <3>3, <3>4, <3>5, HolderMoves, Zenon
  <2>6. CASE Look(t) \/ Listed(t)
    <3>1. mutex = t
      BY <2>0, <2>6, Zenon DEF Look, Listed, Holding
    <3>2. \A u \in Threads \ {t} : pc'[u] = pc[u]
      BY <2>6, Zenon DEF Look, Listed, Decide, TypeOK
    <3>3. mutex' = t \/ (mutex' = Nobody /\ pc'[t] \notin Holding)
      BY <2>6, <3>1, Zenon DEF Look, Listed, Decide, TypeOK, Holding
    <3>4. pc'[t] \in {"parking", "asleep"} => ~decided
      BY <2>6, Zenon DEF Look, Listed, Decide, TypeOK
    <3>5. decided' = decided
      BY <2>6, Zenon DEF Look, Listed
    <3> QED BY <3>1, <3>2, <3>3, <3>4, <3>5, HolderMoves, Zenon
  <2>7. CASE Answer(t) \/ Deliver(t) \/ RequestShutdown(t) \/ Hook(t)
    <3>1. \A u \in Threads : Still(u)
      BY <2>7, SMTT(60) DEF Answer, Deliver, RequestShutdown, Hook, TypeOK, Holding
    <3> QED BY <2>7, <3>1, HolderKept, Zenon DEF Answer, Deliver, RequestShutdown, Hook, locks
  <2>8. CASE NotifyAll(t) \/ (TakeHandle(t) /\ handle)
    <3>1. \A u \in Threads : Still(u)
      BY <2>8, ZenonT(60) DEF NotifyAll, TakeHandle, Notified, TypeOK, Holding
    <3> QED BY <2>8, <3>1, HolderKept, Zenon DEF NotifyAll, TakeHandle, locks
  <2> QED BY <1>1, <2>1, <2>2, <2>3, <2>4, <2>5, <2>6, <2>7, <2>8, Zenon DEF Step
<1>2. CASE (\E t \in Waiters : TimeOut(t)) \/ Poll \/ Drained
  <2>1. \A u \in Threads : Still(u)
    <3>1. CASE \E t \in Waiters : TimeOut(t)
      BY <3>1, ZenonT(60) DEF TimeOut, TypeOK, Holding
    <3>2. CASE Poll
      BY <3>2, ZenonT(60) DEF Poll, Notified, TypeOK, Holding
    <3>3. CASE Drained
      BY <3>3, Zenon DEF Drained, TypeOK, Holding
    <3> QED BY <1>2, <3>1, <3>2, <3>3, Zenon
  <2> QED BY <1>2, <2>1, HolderKept, Zenon DEF TimeOut, Poll, Drained, locks
<1>3. CASE ExpireIfNeeded
  <2>1. Server \in Threads /\ \A u \in Threads \ {Server} : pc'[u] = pc[u]
    BY <1>3, Zenon DEF ExpireIfNeeded, TypeOK, Threads
  <2>2. /\ mutex' = Server \/ (mutex' = Nobody /\ pc'[Server] \notin Holding)
        /\ pc'[Server] \notin {"parking", "asleep"}
    BY <1>3, <2>1, ZenonT(60) DEF ExpireIfNeeded, TypeOK, Holding
  <2> QED BY <1>3, <2>1, <2>2, HolderComes, Zenon DEF ExpireIfNeeded
<1>4. CASE Purged
  <2>1. Server \in Threads /\ \A u \in Threads \ {Server} : pc'[u] = pc[u]
    BY <1>4, Zenon DEF Purged, TypeOK, Threads
  <2>2. mutex = Server
    BY <1>4, <2>1, Zenon DEF Purged, DecisionsHeard, Holding
  <2>3. mutex' = Nobody /\ pc'[Server] \in {"idle", "draining"} /\ decided' = decided
    BY <1>4, <2>1, Zenon DEF Purged, TypeOK
  <2> QED BY <2>1, <2>2, <2>3, HolderMoves, Zenon DEF Holding
<1>5. CASE WorkerStep \/ Execute \/ Watch \/ EmergencyExit \/ Tick \/ UNCHANGED vars
  <2>1. UNCHANGED <<pc, mutex, decided>>
    BY <1>5, Zenon
       DEF WorkerStep, Take, Wipe, PublishExit, Execute, Watch, EmergencyExit, Tick, vars,
                locks
  <2> QED BY <2>1, HolderKept, Zenon
<1> QED BY <1>1, <1>2, <1>3, <1>4, <1>5, Zenon DEF Next, Stopped, ServerStep

-----------------------------------------------------------------------------
(* The theorems.                                                           *)

\* The inductive invariant holds in every reachable state.
THEOREM SealingInvariant == Spec => []SealingInv
<1>1. Init => SealingInv
  <2> SUFFICES ASSUME Init PROVE SealingInv
    BY Zenon
  <2> USE DEF Init
  <2>0. NewLease \in [idle : Nat, absolute : Nat] /\ ExpiresAt(NewLease) \in Nat
    BY PolicyAssumption, EarlierFacts, Zenon DEF NewLease, ExpiresAt
  <2>1. TypeOK
    <3>1. /\ now \in 0..MaxTime /\ sealingAt \in 0..(MaxTime + 1)
          /\ queue \in Seq(Threads \cup {Halt}) /\ Len(queue) <= CommandQueue
      BY LimitAssumption
    <3>2. /\ pc \in [Threads -> Places] /\ reply \in [Threads -> {"none", "ok", "error"}]
          /\ until \in [Threads -> Nat]
      BY Zenon DEF Places
    <3> QED BY <2>0, <3>1, <3>2, Zenon DEF TypeOK
  <2>2. LeaseKept
    BY PolicyAssumption DEF LeaseKept, NewLease, ExpiresAt, Earlier
  <2>3. JoinedBeforeComplete /\ DeliveryBounded
    BY Zenon DEF JoinedBeforeComplete, DeliveryBounded
  <2>4. DecisionsHeard
    BY Zenon DEF DecisionsHeard, Holding
  <2> QED BY <2>1, <2>2, <2>3, <2>4, Zenon DEF SealingInv
<1>2. SealingInv /\ [Next]_vars => SealingInv'
  BY TypeStep, LeaseStep, JoinStep, DeliveryStep, DecisionStep, Zenon DEF SealingInv
<1> QED BY <1>1, <1>2, PTL DEF Spec

\* SealingSound, for any policy, queue and threads: a full command queue is
\* never exceeded, shutdown_complete is published only after run_worker has
\* dropped the keys, and touch and set_deadline never reach past the lease.
THEOREM SealingStaysSound == Spec => []SealingSound
<1>1. SealingInv => SealingSound
  <2> SUFFICES ASSUME SealingInv PROVE SealingSound
    BY Zenon
  <2>1. CompleteMeansWiped
    BY Zenon DEF SealingInv, JoinedBeforeComplete, CompleteMeansWiped
  <2>2. DeadlineWithinLease
    <3>1. lease.idle \in Nat /\ lease.absolute \in Nat /\ deadline \in Nat
      BY Zenon DEF SealingInv, TypeOK
    <3> QED BY <3>1, EarlierFacts, Zenon
               DEF SealingInv, LeaseKept, DeadlineWithinLease, ExpiresAt, Earlier
  <2> QED BY <2>1, <2>2, Zenon DEF SealingInv, SealingSound
<1> QED BY <1>1, SealingInvariant, PTL

\* NoLostDecision: approve, deny and create_approval change what a waiter
\* waits for with the state mutex held, which a waiter holds from its check
\* until it sleeps.
THEOREM DecisionsReachWaiters == Spec => []NoLostDecision
<1>1. SealingInv => NoLostDecision
  BY Zenon DEF SealingInv, DecisionsHeard, NoLostDecision, Threads, Clients
<1> QED BY <1>1, SealingInvariant, PTL

\* LeaseIsFinal: set_deadline refuses once the old deadline has passed, and an
\* answer leaves only while the flag is down and its own deadline, which lay
\* within the lifetime, is ahead.
THEOREM LeaseStaysFinal == Spec => LeaseIsFinal
<1>1. ASSUME TypeOK, [Next]_vars PROVE NoRevival
  <2>0. sealed => IsSealed
    BY <1>1, SealedType, Zenon
  <2>1. now >= deadline => IsSealed
    BY Zenon DEF IsSealed
  <2>2. ASSUME NEW t \in Threads, SetDeadline(t) PROVE NoRevival
    BY <2>0, <2>1, <2>2, Zenon DEF SetDeadline, NoRevival
  <2>3. ASSUME NEW t \in Threads, Step(t) PROVE NoRevival
    <3>1. CASE ~SetDeadline(t)
      <4>1. CASE Arrive(t)
        BY <2>0, <4>1, Zenon DEF Arrive, NoRevival
      <4>2. CASE Lock(t)
        BY <2>0, <4>2, Zenon DEF Lock, NoRevival
      <4>3. CASE Finish(t)
        <5>1. deadline' = deadline
          BY <4>3, Zenon DEF Finish
        <5>2. sealed' = sealed \/ sealed' = IsSealed
          BY <4>3, Zenon DEF Finish
        <5>3. CASE sealed' = sealed
          BY <5>1, <5>3, Zenon DEF NoRevival
        <5>4. CASE sealed' = IsSealed
          BY <2>0, <5>1, <5>4, Zenon DEF NoRevival
        <5> QED BY <5>2, <5>3, <5>4, Zenon
      <4>4. CASE Look(t)
        BY <2>0, <4>4, Zenon DEF Look, NoRevival
      <4>5. CASE RequestShutdown(t)
        BY <4>5, Zenon DEF RequestShutdown, NoRevival
      <4>6. CASE Panic(t) \/ Send(t) \/ Receive(t)
        <5>1. deadline' = deadline /\ sealed' = sealed
          BY <4>6, Zenon DEF Panic, Send, Receive
        <5> QED BY <5>1, Zenon DEF NoRevival
      <4>7. CASE Answer(t) \/ Deliver(t) \/ Listed(t)
        <5>1. deadline' = deadline /\ sealed' = sealed
          BY <4>7, Zenon DEF Answer, Deliver, Listed
        <5> QED BY <5>1, Zenon DEF NoRevival
      <4>8. CASE Park(t) \/ Wake(t) \/ NotifyAll(t) \/ Hook(t)
        <5>1. deadline' = deadline /\ sealed' = sealed
          BY <4>8, Zenon DEF Park, Wake, NotifyAll, Hook
        <5> QED BY <5>1, Zenon DEF NoRevival
      <4>9. CASE TakeHandle(t) \/ Join(t)
        <5>1. deadline' = deadline /\ sealed' = sealed
          BY <4>9, Zenon DEF TakeHandle, Join
        <5> QED BY <5>1, Zenon DEF NoRevival
      <4> QED BY <2>3, <3>1, <4>1, <4>2, <4>3, <4>4, <4>5, <4>6, <4>7, <4>8, <4>9, Zenon DEF Step
    <3> QED BY <2>2, <2>3, <3>1, Zenon
  <2>4. CASE ServerStep \/ WorkerStep \/ \E t \in Waiters : TimeOut(t)
    <3>1. CASE Poll
      <4>1. deadline' = deadline
        BY <3>1, Zenon DEF Poll
      <4>2. sealed => sealed'
        BY <2>0, <3>1, Zenon DEF Poll
      <4> QED BY <4>1, <4>2, Zenon DEF NoRevival
    <3>2. CASE ExpireIfNeeded
      BY <2>0, <3>2, Zenon DEF ExpireIfNeeded, NoRevival
    <3>3. CASE Take
      BY <2>0, <3>3, Zenon DEF Take, NoRevival
    <3>4. CASE Purged \/ Drained \/ \E t \in Waiters : TimeOut(t)
      <4>1. deadline' = deadline /\ sealed' = sealed
        BY <3>4, Zenon DEF Purged, Drained, TimeOut
      <4> QED BY <4>1, Zenon DEF NoRevival
    <3>5. CASE Wipe
      BY <3>5, Zenon DEF Wipe, NoRevival
    <3>6. CASE PublishExit
      BY <3>6, Zenon DEF PublishExit, NoRevival
    <3> QED BY <2>4, <3>1, <3>2, <3>3, <3>4, <3>5, <3>6, Zenon DEF ServerStep, WorkerStep
  <2>5. CASE Execute
    <3>1. sealed => sealed'
      BY <2>0, <2>5, Zenon DEF Execute
    <3> QED BY <2>5, <3>1, Zenon DEF Execute, NoRevival
  <2>6. CASE Watch \/ EmergencyExit \/ Tick \/ UNCHANGED vars
    BY <2>6 DEF Watch, EmergencyExit, Tick, NoRevival, vars
  <2> QED BY <1>1, <2>3, <2>4, <2>5, <2>6, Zenon DEF Next, Stopped
<1>2. ASSUME SealingInv, [Next]_vars PROVE AnswersWithinLease
  <2> SUFFICES ASSUME NEW u \in Clients, pc[u] # "delivered", pc'[u] = "delivered"
               PROVE  ~complete /\ now < lease.absolute
    BY Zenon DEF AnswersWithinLease
  <2>0. u \in Threads /\ TypeOK
    BY <1>2, Zenon DEF Threads, SealingInv
  <2>1. CASE Deliver(u)
    <3>1. ~sealed /\ now < until[u] /\ pc[u] = "delivering"
      BY <2>0, <2>1 DEF Deliver, TypeOK
    <3>2. until[u] <= lease.absolute /\ ~complete
      BY <1>2, <2>0, <3>1, Zenon DEF SealingInv, DeliveryBounded, LeaseKept, JoinedBeforeComplete
    <3>3. now \in Nat /\ until[u] \in Nat /\ lease.absolute \in Nat
      BY <2>0, LimitAssumption DEF TypeOK
    <3> QED BY <3>1, <3>2, <3>3, SMTT(60)
  <2>2. ASSUME NEW t \in Threads, Step(t) PROVE Deliver(u)
    <3>1. CASE Deliver(t)
      BY <2>0, <3>1, Zenon DEF Deliver, TypeOK
    <3>2. CASE Finish(t) \/ NotifyAll(t) \/ TakeHandle(t) \/ Join(t)
      BY <2>0, <3>2, ZenonT(60)
         DEF Finish, NotifyAll, TakeHandle, Join, AfterShutdown, Notified, TypeOK
    <3>3. CASE Arrive(t) \/ Lock(t) \/ Panic(t) \/ Send(t) \/ Receive(t) \/ SetDeadline(t)
      BY <2>0, <3>3, ZenonT(60) DEF Arrive, Lock, Panic, Send, Receive, SetDeadline, TypeOK
    <3>4. CASE Answer(t) \/ Look(t) \/ Listed(t) \/ Park(t) \/ Wake(t) \/ RequestShutdown(t) \/ Hook(t)
      BY <2>0, <3>4, ZenonT(60)
         DEF Answer, Look, Listed, Decide, Park, Wake, RequestShutdown, Hook, TypeOK
    <3> QED BY <2>2, <3>1, <3>2, <3>3, <3>4, Zenon DEF Step
  <2>3. ~(ServerStep \/ \E t \in Waiters : TimeOut(t))
    BY <2>0, ZenonT(60)
       DEF ServerStep, Poll, ExpireIfNeeded, Purged, Drained, TimeOut, Notified, TypeOK
  <2>4. ~(WorkerStep \/ Execute \/ Watch \/ EmergencyExit \/ Tick \/ UNCHANGED vars)
    BY <2>0, Zenon
       DEF WorkerStep, Take, Wipe, PublishExit, Execute, Watch, EmergencyExit, Tick, vars
  <2> QED BY <1>2, <2>1, <2>2, <2>3, <2>4, Zenon DEF Next, Stopped
<1>3. SealingInv /\ [Next]_vars => [NoRevival /\ AnswersWithinLease]_vars
  BY <1>1, <1>2, Zenon DEF SealingInv
<1> QED BY <1>3, SealingInvariant, PTL DEF Spec, LeaseIsFinal

=============================================================================
