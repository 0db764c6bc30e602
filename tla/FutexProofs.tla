---------------------------- MODULE FutexProofs ----------------------------
(***************************************************************************)
(* Proofs of the safety of module Waiter for any number of threads.  The   *)
(* inductive invariant says who owns a waiter: the queue, the list of one  *)
(* waker, the waker that is waking it, or, after that, its own thread.     *)
(***************************************************************************)
EXTENDS Naturals, Waiter, TLAPS

\* A thread that has joined and was not given its memory back.
Joined(w) == allocated[w] /\ pc[w] \notin {"out", "add"}

Asleep(w) == Joined(w) /\ state[w] = WAITER_WAITING /\ pc[w] \notin Woken

ControlOK ==
    \A t \in Threads :
        /\ pc[t] = "out" => ~allocated[t]
        /\ pc[t] \in {"add"} \cup Waiting \cup Woken => allocated[t]
        /\ pc[t] = "add" => state[t] = WAITER_WAITING
        /\ pc[t] \in Woken => state[t] # WAITER_WAITING

QueueOK ==
    \A w \in queue : Asleep(w) /\ \A t \in Threads : w \notin waiters[t] \cup waiter[t]

WaitersOK ==
    \A t \in Threads : \A w \in waiters[t] :
        /\ Asleep(w)
        /\ \A u \in Threads : w \notin waiter[u] /\ (w \in waiters[u] => u = t)

WaiterOK ==
    \A t \in Threads :
        /\ pc[t] \notin Waking => waiter[t] = {}
        /\ pc[t] \in Waking => \E w \in Threads : waiter[t] = {w}
        /\ \A w \in waiter[t] :
             /\ Joined(w)
             /\ pc[t] = "wake" => Asleep(w)
             /\ pc[t] # "wake" => /\ state[w] # WAITER_WAITING
                                  /\ "TEARDOWN" \notin state[w]
             /\ \A u \in Threads : w \in waiter[u] => u = t

IInv == TypeOK /\ ControlOK /\ QueueOK /\ WaitersOK /\ WaiterOK

LEMMA InitIInv == Init => IInv
  BY DEF Init, IInv, TypeOK, ControlOK, QueueOK, WaitersOK, WaiterOK,
         Asleep, Joined, Waiting, Woken, Waking, WAITER_WAITING

\* Every step preserves the invariant, action by action.
LEMMA NextIInv == IInv /\ [Next]_vars => IInv'
<1> SUFFICES ASSUME IInv, [Next]_vars PROVE IInv'
  OBVIOUS
<1> USE DEF IInv, TypeOK, ControlOK, QueueOK, WaitersOK, WaiterOK,
            Asleep, Joined, Waiting, Woken, Waking, WAITER_WAITING
<1>1. ASSUME NEW t \in Threads, lttng_waiter_init(t) PROVE IInv'
  <2>1. TypeOK'
    BY <1>1 DEF lttng_waiter_init, Goto
  <2>2. ControlOK'
    BY <1>1 DEF lttng_waiter_init, Goto
  <2>3. QueueOK'
    BY <1>1 DEF lttng_waiter_init, Goto
  <2>4. WaitersOK'
    BY <1>1 DEF lttng_waiter_init, Goto
  <2>5. WaiterOK'
    BY <1>1 DEF lttng_waiter_init, Goto
  <2> QED
    BY <2>1, <2>2, <2>3, <2>4, <2>5
<1>2. ASSUME NEW t \in Threads, lttng_wait_queue_add(t) PROVE IInv'
  <2>1. TypeOK'
    BY <1>2 DEF lttng_wait_queue_add, Goto
  <2>2. ControlOK'
    BY <1>2 DEF lttng_wait_queue_add, Goto
  <2>3. QueueOK'
    BY <1>2 DEF lttng_wait_queue_add, Goto
  <2>4. WaitersOK'
    BY <1>2 DEF lttng_wait_queue_add, Goto
  <2>5. WaiterOK'
    BY <1>2 DEF lttng_wait_queue_add, Goto
  <2> QED
    BY <2>1, <2>2, <2>3, <2>4, <2>5
<1>3. ASSUME NEW t \in Threads, lttng_waiter_wait(t) PROVE IInv'
  <2>1. TypeOK'
    BY <1>3 DEF lttng_waiter_wait, Goto
  <2>2. ControlOK'
    BY <1>3 DEF lttng_waiter_wait, Goto
  <2>3. QueueOK'
    BY <1>3 DEF lttng_waiter_wait, Goto
  <2>4. WaitersOK'
    BY <1>3 DEF lttng_waiter_wait, Goto
  <2>5. WaiterOK'
    BY <1>3 DEF lttng_waiter_wait, Goto
  <2> QED
    BY <2>1, <2>2, <2>3, <2>4, <2>5
<1>4. ASSUME NEW t \in Threads, TestState(t) PROVE IInv'
  <2>1. TypeOK'
    BY <1>4 DEF TestState, Goto
  <2>2. ControlOK'
    BY <1>4 DEF TestState, Goto
  <2>3. QueueOK'
    BY <1>4 DEF TestState, Goto
  <2>4. WaitersOK'
    BY <1>4 DEF TestState, Goto
  <2>5. WaiterOK'
    BY <1>4 DEF TestState, Goto
  <2> QED
    BY <2>1, <2>2, <2>3, <2>4, <2>5
<1>5. ASSUME NEW t \in Threads, FutexWait(t) PROVE IInv'
  <2>1. TypeOK'
    BY <1>5 DEF FutexWait, Goto
  <2>2. ControlOK'
    BY <1>5 DEF FutexWait, Goto
  <2>3. QueueOK'
    BY <1>5 DEF FutexWait, Goto
  <2>4. WaitersOK'
    BY <1>5 DEF FutexWait, Goto
  <2>5. WaiterOK'
    BY <1>5 DEF FutexWait, Goto
  <2> QED
    BY <2>1, <2>2, <2>3, <2>4, <2>5
<1>6. ASSUME NEW t \in Threads, SpuriousWakeup(t) PROVE IInv'
  <2>1. TypeOK'
    BY <1>6 DEF SpuriousWakeup, Goto
  <2>2. ControlOK'
    BY <1>6 DEF SpuriousWakeup, Goto
  <2>3. QueueOK'
    BY <1>6 DEF SpuriousWakeup, Goto
  <2>4. WaitersOK'
    BY <1>6 DEF SpuriousWakeup, Goto
  <2>5. WaiterOK'
    BY <1>6 DEF SpuriousWakeup, Goto
  <2> QED
    BY <2>1, <2>2, <2>3, <2>4, <2>5
<1>7. ASSUME NEW t \in Threads, SetRunning(t) PROVE IInv'
  <2>1. TypeOK'
    BY <1>7 DEF SetRunning, Goto
  <2>2. ControlOK'
    BY <1>7 DEF SetRunning, Goto
  <2>3. QueueOK'
    BY <1>7 DEF SetRunning, Goto
  <2>4. WaitersOK'
    BY <1>7 DEF SetRunning, Goto
  <2>5. WaiterOK'
    BY <1>7 DEF SetRunning, Goto
  <2> QED
    BY <2>1, <2>2, <2>3, <2>4, <2>5
<1>8. ASSUME NEW t \in Threads, Return(t) PROVE IInv'
  <2>1. TypeOK'
    BY <1>8 DEF Return, Goto
  <2>2. ControlOK'
    BY <1>8 DEF Return, Goto
  <2>3. QueueOK'
    BY <1>8 DEF Return, Goto
  <2>4. WaitersOK'
    BY <1>8 DEF Return, Goto
  <2>5. WaiterOK'
    BY <1>8 DEF Return, Goto
  <2> QED
    BY <2>1, <2>2, <2>3, <2>4, <2>5
<1>9. ASSUME NEW t \in Threads, PopAll(t) PROVE IInv'
  <2>1. TypeOK'
    BY <1>9 DEF PopAll, Goto
  <2>2. ControlOK'
    BY <1>9 DEF PopAll, Goto
  <2>3. QueueOK'
    BY <1>9 DEF PopAll, Goto
  <2>4. WaitersOK'
    BY <1>9 DEF PopAll, Goto
  <2>5. WaiterOK'
    BY <1>9 DEF PopAll, Goto
  <2> QED
    BY <2>1, <2>2, <2>3, <2>4, <2>5
<1>10. ASSUME NEW t \in Threads, Iterate(t) PROVE IInv'
  <2>1. TypeOK'
    BY <1>10 DEF Iterate, Goto
  <2>2. ControlOK'
    BY <1>10 DEF Iterate, Goto
  <2>3. QueueOK'
    BY <1>10 DEF Iterate, Goto
  <2>4. WaitersOK'
    BY <1>10 DEF Iterate, Goto
  <2>5. WaiterOK'
    <3>1. PICK w \in waiters[t] :
            /\ waiters' = [waiters EXCEPT ![t] = @ \ {w}]
            /\ IF "RUNNING" \in state[w] THEN UNCHANGED <<pc, waiter>>
               ELSE /\ pc' = [pc EXCEPT ![t] = "wake"]
                    /\ waiter' = [waiter EXCEPT ![t] = {w}]
      BY <1>10 DEF Iterate
    <3>2. /\ pc[t] = "iterate" /\ waiter[t] = {} /\ w \in Threads
          /\ pc' = [pc EXCEPT ![t] = "wake"]
          /\ waiter' = [waiter EXCEPT ![t] = {w}]
          /\ allocated' = allocated /\ state' = state
      BY <1>10, <3>1 DEF Iterate
    <3>3. Asleep(w) /\ \A u \in Threads : w \notin waiter[u]
      OBVIOUS
    <3>4. ASSUME NEW u \in Threads, u # t
          PROVE  pc'[u] = pc[u] /\ waiter'[u] = waiter[u]
      BY <3>2, <3>4
    <3>5. pc'[t] = "wake" /\ waiter'[t] = {w}
      BY <3>2
    <3>6. \A v \in Threads : Joined(v) => Joined(v)'
      BY <3>2
    <3>7. \A v \in Threads : Asleep(v) => Asleep(v)'
      BY <3>2
    <3> QED
      BY <3>2, <3>3, <3>4, <3>5, <3>6, <3>7
  <2> QED
    BY <2>1, <2>2, <2>3, <2>4, <2>5
<1>11. ASSUME NEW t \in Threads, lttng_waiter_wake(t) PROVE IInv'
  <2>1. TypeOK'
    BY <1>11 DEF lttng_waiter_wake, Goto
  <2>2. ControlOK'
    BY <1>11 DEF lttng_waiter_wake, Goto
  <2>3. QueueOK'
    BY <1>11 DEF lttng_waiter_wake, Goto
  <2>4. WaitersOK'
    BY <1>11 DEF lttng_waiter_wake, Goto
  <2>5. WaiterOK'
    <3>1. PICK w \in Threads : waiter[t] = {w}
      BY <1>11 DEF lttng_waiter_wake, Goto
    <3>2. /\ pc[t] = "wake" /\ pc' = [pc EXCEPT ![t] = "test_running"]
          /\ state'[w] = {"WOKEN_UP"}
          /\ \A v \in Threads : v # w => state'[v] = state[v]
          /\ allocated' = allocated /\ waiter' = waiter
      BY <1>11, <3>1 DEF lttng_waiter_wake, Goto
    <3>3. ASSUME NEW u \in Threads, u # t
          PROVE  pc'[u] = pc[u] /\ w \notin waiter[u]
      BY <3>1, <3>2, <3>3
    <3>4. pc'[t] = "test_running"
      BY <3>2
    <3>5. \A v \in Threads : Joined(v) => Joined(v)'
      BY <3>2
    <3>6. \A v \in Threads : v # w /\ Asleep(v) => Asleep(v)'
      BY <3>2
    <3> QED
      BY <3>1, <3>2, <3>3, <3>4, <3>5, <3>6
  <2> QED
    BY <2>1, <2>2, <2>3, <2>4, <2>5
<1>12. ASSUME NEW t \in Threads, TestRunning(t) PROVE IInv'
  <2>1. TypeOK'
    BY <1>12 DEF TestRunning, Goto
  <2>2. ControlOK'
    BY <1>12 DEF TestRunning, Goto
  <2>3. QueueOK'
    BY <1>12 DEF TestRunning, Goto
  <2>4. WaitersOK'
    BY <1>12 DEF TestRunning, Goto
  <2>5. WaiterOK'
    BY <1>12 DEF TestRunning, Goto
  <2> QED
    BY <2>1, <2>2, <2>3, <2>4, <2>5
<1>13. ASSUME NEW t \in Threads, FutexWake(t) PROVE IInv'
  <2>1. TypeOK'
    BY <1>13 DEF FutexWake, Goto
  <2>2. ControlOK'
    BY <1>13 DEF FutexWake, Goto
  <2>3. QueueOK'
    BY <1>13 DEF FutexWake, Goto
  <2>4. WaitersOK'
    BY <1>13 DEF FutexWake, Goto
  <2>5. WaiterOK'
    BY <1>13 DEF FutexWake, Goto
  <2> QED
    BY <2>1, <2>2, <2>3, <2>4, <2>5
<1>14. ASSUME NEW t \in Threads, SetTeardown(t) PROVE IInv'
  <2>1. TypeOK'
    BY <1>14 DEF SetTeardown, Goto
  <2>2. ControlOK'
    BY <1>14 DEF SetTeardown, Goto
  <2>3. QueueOK'
    BY <1>14 DEF SetTeardown, Goto
  <2>4. WaitersOK'
    BY <1>14 DEF SetTeardown, Goto
  <2>5. WaiterOK'
    BY <1>14 DEF SetTeardown, Goto
  <2> QED
    BY <2>1, <2>2, <2>3, <2>4, <2>5
<1>15. ASSUME NEW t \in Threads, WakeAllDone(t) PROVE IInv'
  <2>1. TypeOK'
    BY <1>15 DEF WakeAllDone, Goto
  <2>2. ControlOK'
    BY <1>15 DEF WakeAllDone, Goto
  <2>3. QueueOK'
    BY <1>15 DEF WakeAllDone, Goto
  <2>4. WaitersOK'
    BY <1>15 DEF WakeAllDone, Goto
  <2>5. WaiterOK'
    BY <1>15 DEF WakeAllDone, Goto
  <2> QED
    BY <2>1, <2>2, <2>3, <2>4, <2>5
<1>16. CASE UNCHANGED vars
  BY <1>16 DEF vars
<1> QED
  BY <1>1, <1>2, <1>3, <1>4, <1>5, <1>6, <1>7, <1>8, <1>9, <1>10, <1>11, <1>12, <1>13, <1>14, <1>15, <1>16 DEF Next, WaitStep, WakeStep

LEMMA Inductive == Spec => []IInv
<1> QED
  BY InitIInv, NextIInv, PTL DEF Spec

(***************************************************************************)
(* The types of module Waiter.                                             *)
(***************************************************************************)
THEOREM WaiterTypeCorrect == Spec => []TypeOK
<1>1. IInv => TypeOK
  BY DEF IInv
<1> QED
  BY <1>1, Inductive, PTL

(***************************************************************************)
(* No waker touches a waiter whose thread returned from lttng_waiter_wait  *)
(* (waiter.c:109), for any number of threads.                              *)
(***************************************************************************)
THEOREM WaiterNeverFreedInUse == Spec => []NoUseAfterFree
<1>1. IInv => NoUseAfterFree
  BY DEF IInv, TypeOK, QueueOK, WaitersOK, WaiterOK, Asleep, Joined,
         NoUseAfterFree
<1> QED
  BY <1>1, Inductive, PTL

(***************************************************************************)
(* The assertion of lttng_waiter_wake (waiter.c:117) never fails, for any  *)
(* number of threads.                                                      *)
(***************************************************************************)
THEOREM WaiterWokenOnce == Spec => []WakesOnlyWaiting
<1>1. IInv => WakesOnlyWaiting
  BY DEF IInv, WaiterOK, Asleep, WakesOnlyWaiting
<1> QED
  BY <1>1, Inductive, PTL

\* A step that leaves the status of every thread, or changes one as the wait
\* queue may.
LEMMA Stutters ==
    ASSUME \A t \in Threads : Status(t)' = Status(t)
    PROVE  UNCHANGED [t \in Threads |-> Status(t)]
  OBVIOUS

LEMMA StatusStep ==
    ASSUME NEW w \in Threads,
           \A t \in Threads : t # w => Status(t)' = Status(t),
           \/ Status(w) = "out" /\ Status(w)' = "waiting"
           \/ Status(w) = "waiting" /\ Status(w)' = "woken"
           \/ Status(w) = "woken" /\ Status(w)' = "out"
    PROVE  WQ!Next
<1> DEFINE status == [t \in Threads |-> Status(t)]
<1>1. \A s : Status(w)' = s => status' = [status EXCEPT ![w] = s]
  OBVIOUS
<1>2. status[w] = Status(w)
  OBVIOUS
<1> HIDE DEF status
<1> QED
  BY <1>1, <1>2 DEF WQ!Next, WQ!Join, WQ!Wake, WQ!Return, status

\* Of the steps of module Waiter three change what the wait queue shows.
LEMMA WaiterStep == IInv /\ [Next]_vars => [WQ!Next]_[t \in Threads |-> Status(t)]
<1> SUFFICES ASSUME IInv, [Next]_vars
             PROVE  WQ!Next \/ UNCHANGED [t \in Threads |-> Status(t)]
  OBVIOUS
<1> USE DEF IInv, TypeOK, ControlOK, WaiterOK, Asleep, Joined, Status,
            Waiting, Woken, Waking, WAITER_WAITING
<1>1. CASE UNCHANGED <<allocated, state>>
  BY <1>1, Stutters
<1>2. ASSUME NEW t \in Threads, lttng_waiter_init(t) PROVE WQ!Next
  <2>1. Status(t) = "out" /\ Status(t)' = "waiting"
    BY <1>2 DEF lttng_waiter_init, Goto
  <2>2. \A u \in Threads : u # t => Status(u)' = Status(u)
    BY <1>2 DEF lttng_waiter_init
  <2> QED
    BY <2>1, <2>2, StatusStep
<1>3. ASSUME NEW t \in Threads, SetRunning(t)
      PROVE  UNCHANGED [u \in Threads |-> Status(u)]
  BY <1>3, Stutters DEF SetRunning, Goto
<1>4. ASSUME NEW t \in Threads, Return(t) PROVE WQ!Next
  <2>1. Status(t) = "woken" /\ Status(t)' = "out"
    BY <1>4 DEF Return, Goto
  <2>2. \A u \in Threads : u # t => Status(u)' = Status(u)
    BY <1>4 DEF Return
  <2> QED
    BY <2>1, <2>2, StatusStep
<1>5. ASSUME NEW t \in Threads, lttng_waiter_wake(t) PROVE WQ!Next
  <2>1. PICK w \in Threads : waiter[t] = {w}
    BY <1>5 DEF lttng_waiter_wake, Goto
  <2>2. Status(w) = "waiting" /\ Status(w)' = "woken"
    BY <1>5, <2>1 DEF lttng_waiter_wake, Goto
  <2>3. \A u \in Threads : u # w => Status(u)' = Status(u)
    BY <1>5, <2>1 DEF lttng_waiter_wake
  <2> QED
    BY <2>2, <2>3, StatusStep
<1>6. ASSUME NEW t \in Threads, SetTeardown(t)
      PROVE  UNCHANGED [u \in Threads |-> Status(u)]
  BY <1>6, Stutters DEF SetTeardown, Goto
<1> QED
  BY <1>1, <1>2, <1>3, <1>4, <1>5, <1>6
     DEF Next, WaitStep, WakeStep, vars, lttng_wait_queue_add,
         lttng_waiter_wait, TestState, FutexWait, SpuriousWakeup, PopAll,
         Iterate, TestRunning, FutexWake, WakeAllDone

(***************************************************************************)
(* Module Waiter implements module WaitQueue: whatever the interleaving of *)
(* tests, sleeps, wake-ups and flags, a thread goes on only when woken and *)
(* once for each time it joined.                                           *)
(***************************************************************************)
THEOREM WaiterIsWaitQueue == Spec => IsWaitQueue
<1>1. Init => WQ!Init
  BY DEF Init, WQ!Init, Status
<1> QED
  BY <1>1, WaiterStep, Inductive, PTL DEF Spec, IsWaitQueue, WQ!Spec

-----------------------------------------------------------------------------
(***************************************************************************)
(* The other user of a futex, the queue of the dispatchers (FutexQueue):   *)
(* no wake-up is lost, for any number of threads and any queue length.     *)
(***************************************************************************)
CONSTANT MaxQueue

VARIABLES qpc, consumer, length, futex, exit

Q == INSTANCE FutexQueue WITH pc <- qpc, queue <- length

\* A thread in futex_nto1_wake that will read or reset the futex.
InWake == \E t \in Threads : qpc[t] \in {"read", "set"}

\* An order to exit that came after the dispatcher looked for one.
ExitPending ==
    exit /\ (consumer = "dequeue" \/ Q!Sleeping) => InWake \/ futex = "0"

\* A request that came after the dispatcher found the queue empty.
RequestPending ==
    length > 0 /\ Q!Sleeping => InWake \/ futex = "0"

\* The dispatcher fell asleep on a prepared futex.
SleeperIsWoken ==
    consumer = "asleep" /\ futex = "0" => \E t \in Threads : qpc[t] = "wake"

QInv == Q!TypeOK /\ ExitPending /\ RequestPending /\ SleeperIsWoken

LEMMA InitQInv ==
    ASSUME MaxQueue \in Nat
    PROVE  Q!Init => QInv
<1>1. Q!Init => Q!TypeOK
  <2>1. Q!Init => length \in 0 .. MaxQueue
    BY DEF Q!Init
  <2>2. Q!Init => exit \in BOOLEAN
    BY DEF Q!Init
  <2>3. Q!Init => qpc \in [Threads -> {"idle", "read", "set", "wake"}]
    BY DEF Q!Init
  <2> QED
    BY <2>1, <2>2, <2>3 DEF Q!Init, Q!TypeOK
<1>2. Q!Init => ExitPending /\ RequestPending /\ SleeperIsWoken
  BY DEF Q!Init, ExitPending, RequestPending, SleeperIsWoken, Q!Sleeping
<1> QED
  BY <1>1, <1>2 DEF QInv

LEMMA StepQInv ==
    ASSUME MaxQueue \in Nat
    PROVE  QInv /\ [Q!Next]_Q!vars => QInv'
<1> SUFFICES ASSUME QInv, [Q!Next]_Q!vars
             PROVE  QInv'
  OBVIOUS
<1> USE DEF QInv, Q!TypeOK, ExitPending, RequestPending, SleeperIsWoken, Q!Sleeping,
            InWake, Q!Prepared
<1>1. ASSUME NEW t \in Threads, Q!Enqueue(t)
      PROVE  QInv'
  <2>1. Q!TypeOK'
    BY <1>1 DEF Q!Enqueue
  <2>2. qpc'[t] = "read"
    BY <1>1 DEF Q!Enqueue
  <2>3. SleeperIsWoken'
    BY <1>1 DEF Q!Enqueue
  <2> QED
    BY <2>1, <2>2, <2>3
<1>2. ASSUME NEW t \in Threads, Q!Stop(t)
      PROVE  QInv'
  <2>1. Q!TypeOK'
    BY <1>2 DEF Q!Stop
  <2>2. qpc'[t] = "read"
    BY <1>2 DEF Q!Stop
  <2>3. SleeperIsWoken'
    BY <1>2 DEF Q!Stop
  <2> QED
    BY <2>1, <2>2, <2>3
<1>3. ASSUME NEW t \in Threads, Q!ReadFutex(t)
      PROVE  QInv'
  <2>1. Q!TypeOK' /\ SleeperIsWoken'
    BY <1>3 DEF Q!ReadFutex
  <2>2. InWake' \/ futex' = "0"
    <3>1. CASE futex = Q!Prepared
      <4>1. qpc'[t] = "set"
        BY <1>3, <3>1 DEF Q!ReadFutex
      <4> QED
        BY <4>1
    <3>2. CASE futex = "0"
      BY <1>3, <3>2 DEF Q!ReadFutex
    <3> QED
      BY <3>1, <3>2
  <2> QED
    BY <2>1, <2>2
<1>4. ASSUME NEW t \in Threads, Q!SetFutex(t)
      PROVE  QInv'
  <2>1. Q!TypeOK'
    BY <1>4 DEF Q!SetFutex
  <2>2. qpc'[t] = "wake" /\ futex' = "0"
    BY <1>4 DEF Q!SetFutex
  <2> QED
    BY <2>1, <2>2
<1>5. ASSUME NEW t \in Threads, Q!FutexWake(t)
      PROVE  QInv'
  <2>1. Q!TypeOK' /\ SleeperIsWoken'
    BY <1>5 DEF Q!FutexWake
  <2>2. InWake => InWake'
    BY <1>5 DEF Q!FutexWake
  <2>3. ExitPending' /\ RequestPending'
    BY <1>5, <2>2 DEF Q!FutexWake
  <2> QED
    BY <2>1, <2>3
<1>6. ASSUME Q!Consume \/ Q!SpuriousWakeup
      PROVE  QInv'
  BY <1>6 DEF Q!Consume, Q!futex_nto1_prepare, Q!CheckExit, Q!Dequeue, Q!TestFutex,
              Q!FutexWait, Q!SpuriousWakeup
<1>7. ASSUME UNCHANGED Q!vars
      PROVE  QInv'
  BY <1>7 DEF Q!vars
<1> QED
  BY <1>1, <1>2, <1>3, <1>4, <1>5, <1>6, <1>7 DEF Q!Next, Q!Wake, Q!Done

LEMMA QInvImplies == QInv => Q!TypeOK /\ Q!NoLostWakeup
BY DEF QInv, ExitPending, RequestPending, SleeperIsWoken, Q!NoLostWakeup, Q!Sleeping,
       InWake

(***************************************************************************)
(* The state of the queue, the futex and the threads is well formed.       *)
(***************************************************************************)
THEOREM FutexQueueTypeCorrect ==
    ASSUME MaxQueue \in Nat
    PROVE  Q!Spec => []Q!TypeOK
BY InitQInv, StepQInv, QInvImplies, PTL DEF Q!Spec

(***************************************************************************)
(* A dispatcher that sleeps while there is a request, or while it is told  *)
(* to exit, is about to be woken, whatever the number of producers.        *)
(***************************************************************************)
THEOREM FutexQueueNoLostWakeup ==
    ASSUME MaxQueue \in Nat
    PROVE  Q!Spec => []Q!NoLostWakeup
BY InitQInv, StepQInv, QInvImplies, PTL DEF Q!Spec
=============================================================================
