----------------------------- MODULE FutexQueue -----------------------------
(***************************************************************************)
(* The queue with many producers and one consumer that sleeps on a futex   *)
(* (futex_nto1_prepare, _wait and _wake of futex.c), as the dispatcher     *)
(* threads of the relay daemon and of the session daemon use it: the       *)
(* listeners enqueue, and any thread may ask the dispatcher to exit.       *)
(*                                                                         *)
(* A step is one access to shared memory.  The queue (cds_wfcq, external)  *)
(* is reduced to its length.                                               *)
(***************************************************************************)
EXTENDS Naturals

CONSTANTS
    Threads,            \* the threads that enqueue or ask for the exit
    MaxQueue            \* bound: the length of the queue

ASSUME MaxQueueAssumption == MaxQueue \in Nat

VARIABLES
    pc,                 \* what a thread of Threads is about to do
    consumer,           \* what the dispatcher is about to do
    queue,              \* the number of requests in the queue
    futex,              \* -1 once prepared, else 0
    exit                \* dispatch_thread_exit

vars == <<pc, consumer, queue, futex, exit>>

\* The value that the consumer prepares and sleeps on.
Prepared == "-1"

Init ==
    /\ pc = [t \in Threads |-> "idle"]
    /\ consumer = "prepare"
    /\ queue = 0
    /\ futex = "0"
    /\ exit = FALSE

-----------------------------------------------------------------------------
\* The producers.

\* A connection or a registration is accepted and enqueued.
Enqueue(t) ==
    /\ pc[t] = "idle"
    /\ queue < MaxQueue
    /\ queue' = queue + 1
    /\ pc' = [pc EXCEPT ![t] = "read"]
    /\ UNCHANGED <<consumer, futex, exit>>

\* Mutant: the order to exit wakes nobody.
StopSilently(t) ==
    /\ pc[t] = "idle"
    /\ exit' = TRUE
    /\ UNCHANGED <<pc, consumer, queue, futex>>

\* lttng_relay_stop_threads, shutdown_ust_dispatch_thread.
Stop(t) ==
    /\ pc[t] = "idle"
    /\ exit' = TRUE
    /\ pc' = [pc EXCEPT ![t] = "read"]
    /\ UNCHANGED <<consumer, queue, futex>>

\* futex_nto1_wake: read the futex, reset it, wake the sleeper.
ReadFutex(t) ==
    /\ pc[t] = "read"
    /\ pc' = [pc EXCEPT ![t] = IF futex = Prepared THEN "set" ELSE "idle"]
    /\ UNCHANGED <<consumer, queue, futex, exit>>

SetFutex(t) ==
    /\ pc[t] = "set"
    /\ futex' = "0"
    /\ pc' = [pc EXCEPT ![t] = "wake"]
    /\ UNCHANGED <<consumer, queue, exit>>

FutexWake(t) ==
    /\ pc[t] = "wake"
    /\ consumer' = IF consumer = "asleep" THEN "test" ELSE consumer
    /\ pc' = [pc EXCEPT ![t] = "idle"]
    /\ UNCHANGED <<queue, futex, exit>>

-----------------------------------------------------------------------------
\* The consumer.

futex_nto1_prepare ==
    /\ consumer = "prepare"
    /\ futex' = Prepared
    /\ consumer' = "check_exit"
    /\ UNCHANGED <<pc, queue, exit>>

CheckExit ==
    /\ consumer = "check_exit"
    /\ consumer' = IF exit THEN "done" ELSE "dequeue"
    /\ UNCHANGED <<pc, queue, futex, exit>>

\* Mutant: the futex is prepared once the queue was found empty.
DequeueThenPrepare ==
    /\ consumer = "dequeue"
    /\ \/ /\ queue > 0
          /\ queue' = queue - 1
          /\ UNCHANGED <<consumer, futex>>
       \/ /\ queue = 0
          /\ consumer' = "test"
          /\ futex' = Prepared
          /\ UNCHANGED queue
    /\ UNCHANGED <<pc, exit>>

\* Requests are dispatched until the queue is empty.
Dequeue ==
    /\ consumer = "dequeue"
    /\ \/ /\ queue > 0
          /\ queue' = queue - 1
          /\ UNCHANGED consumer
       \/ /\ queue = 0
          /\ consumer' = "test"
          /\ UNCHANGED queue
    /\ UNCHANGED <<pc, futex, exit>>

\* futex_nto1_wait: test the futex, then sleep if it has not changed.
TestFutex ==
    /\ consumer = "test"
    /\ consumer' = IF futex = Prepared THEN "futex_wait" ELSE "prepare"
    /\ UNCHANGED <<pc, queue, futex, exit>>

\* Mutant: the thread sleeps whatever the value of the futex.
FutexWaitUnconditional ==
    /\ consumer = "futex_wait"
    /\ consumer' = "asleep"
    /\ UNCHANGED <<pc, queue, futex, exit>>

FutexWait ==
    /\ consumer = "futex_wait"
    /\ consumer' = IF futex = Prepared THEN "asleep" ELSE "prepare"
    /\ UNCHANGED <<pc, queue, futex, exit>>

SpuriousWakeup ==
    /\ consumer = "asleep"
    /\ consumer' = "test"
    /\ UNCHANGED <<pc, queue, futex, exit>>

Wake(t) == ReadFutex(t) \/ SetFutex(t) \/ FutexWake(t)

Consume ==
    \/ futex_nto1_prepare \/ CheckExit \/ Dequeue \/ TestFutex \/ FutexWait

\* The daemon is done when the dispatcher has exited.
Done == consumer = "done" /\ UNCHANGED vars

Next ==
    \/ \E t \in Threads : Enqueue(t) \/ Stop(t) \/ Wake(t)
    \/ Consume
    \/ SpuriousWakeup
    \/ Done

Spec == Init /\ [][Next]_vars

\* A producer finishes its call and the dispatcher runs; nothing makes anyone
\* enqueue, stop the daemon or be woken spuriously.
FairSpec ==
    /\ Spec
    /\ WF_vars(Consume)
    /\ \A t \in Threads : WF_vars(Wake(t))

-----------------------------------------------------------------------------
TypeOK ==
    /\ pc \in [Threads -> {"idle", "read", "set", "wake"}]
    /\ consumer \in {"prepare", "check_exit", "dequeue", "test", "futex_wait",
                     "asleep", "done"}
    /\ queue \in 0 .. MaxQueue
    /\ futex \in {"0", Prepared}
    /\ exit \in BOOLEAN

\* The consumer has found the queue empty and goes to sleep or sleeps.
Sleeping == consumer \in {"test", "futex_wait", "asleep"}

(***************************************************************************)
(* The dispatcher does not sleep on a request or on the order to exit:     *)
(* when there is one, either the futex was reset, and then a sleeper is    *)
(* about to be woken, or a thread in futex_nto1_wake will still read it.   *)
(***************************************************************************)
NoLostWakeup ==
    Sleeping /\ (queue > 0 \/ exit) =>
        \/ \E t \in Threads : pc[t] \in {"read", "set"}
        \/ /\ futex = "0"
           /\ consumer = "asleep" => \E t \in Threads : pc[t] = "wake"

(***************************************************************************)
(* Every request is looked at: a queue that is not empty makes the         *)
(* dispatcher dequeue or exit.                                             *)
(***************************************************************************)
RequestsAreDispatched == queue > 0 ~> consumer \in {"dequeue", "done"}

(***************************************************************************)
(* A dispatcher that was told to stop exits, unless requests keep coming   *)
(* for ever (it only looks at the order when the queue is empty).          *)
(***************************************************************************)
ExitIsObeyed ==
    \/ []<><<\E t \in Threads : Enqueue(t)>>_vars
    \/ exit ~> consumer = "done"
=============================================================================
