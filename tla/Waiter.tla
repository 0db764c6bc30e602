------------------------------- MODULE Waiter -------------------------------
(***************************************************************************)
(* lttng_waiter and lttng_wait_queue (waiter.c): threads that put a waiter *)
(* of their stack in a queue and sleep on its futex until a thread that    *)
(* empties the queue wakes them.                                           *)
(*                                                                         *)
(* A step is one access to shared memory.  The waiter's memory is gone as  *)
(* soon as lttng_waiter_wait returns, and is reused for the next wait of   *)
(* the same thread (consumer_wait_metadata_cache_flushed).                 *)
(*                                                                         *)
(* The queue is a stack (cds_wfs, external) of which only "push" and       *)
(* "pop all" are used; the order in which a waker walks it is left open.   *)
(***************************************************************************)
EXTENDS FiniteSets

CONSTANT Threads

ASSUME ThreadsAssumption == IsFiniteSet(Threads)

VARIABLES
    pc,                 \* what a thread is about to do
    allocated,          \* the thread's struct lttng_waiter exists
    state,              \* waiter->state, the set of the flags that are set
    queue,              \* the waiters in the queue
    waiters,            \* those a thread in wake_all has popped
    waiter              \* the one it is looking at: a singleton, or {}

vars == <<pc, allocated, state, queue, waiters, waiter>>

WAITER_WAITING == {}

Init ==
    /\ pc = [t \in Threads |-> "out"]
    /\ allocated = [t \in Threads |-> FALSE]
    /\ state = [t \in Threads |-> WAITER_WAITING]
    /\ queue = {}
    /\ waiters = [t \in Threads |-> {}]
    /\ waiter = [t \in Threads |-> {}]

Goto(t, from, to) == pc[t] = from /\ pc' = [pc EXCEPT ![t] = to]

-----------------------------------------------------------------------------
\* The waiting side.

\* Mutant: the state of the last wait is kept.
InitKeepsState(t) ==
    /\ Goto(t, "out", "add")
    /\ allocated' = [allocated EXCEPT ![t] = TRUE]
    /\ UNCHANGED <<state, queue, waiters, waiter>>

lttng_waiter_init(t) ==
    /\ Goto(t, "out", "add")
    /\ allocated' = [allocated EXCEPT ![t] = TRUE]
    /\ state' = [state EXCEPT ![t] = WAITER_WAITING]
    /\ UNCHANGED <<queue, waiters, waiter>>

lttng_wait_queue_add(t) ==
    /\ Goto(t, "add", "added")
    /\ queue' = queue \cup {t}
    /\ UNCHANGED <<allocated, state, waiters, waiter>>

\* The thread waits at once, or first wakes everyone, itself included.
lttng_waiter_wait(t) ==
    /\ Goto(t, "added", "test")
    /\ UNCHANGED <<allocated, state, queue, waiters, waiter>>

\* The reads of the state before the futex call.
TestState(t) ==
    /\ pc[t] = "test"
    /\ pc' = [pc EXCEPT ![t] = IF state[t] = WAITER_WAITING
                               THEN "futex_wait" ELSE "running"]
    /\ UNCHANGED <<allocated, state, queue, waiters, waiter>>

\* Mutant: the thread sleeps whatever the value of the futex.
FutexWaitUnconditional(t) ==
    /\ Goto(t, "futex_wait", "asleep")
    /\ UNCHANGED <<allocated, state, queue, waiters, waiter>>

\* FUTEX_WAIT compares and sleeps in one step (external).
FutexWait(t) ==
    /\ pc[t] = "futex_wait"
    /\ pc' = [pc EXCEPT ![t] = IF state[t] = WAITER_WAITING
                               THEN "asleep" ELSE "running"]
    /\ UNCHANGED <<allocated, state, queue, waiters, waiter>>

\* A wake-up meant for another use of the address, or a signal.
SpuriousWakeup(t) ==
    /\ Goto(t, "asleep", "test")
    /\ UNCHANGED <<allocated, state, queue, waiters, waiter>>

SetRunning(t) ==
    /\ Goto(t, "running", "teardown")
    /\ state' = [state EXCEPT ![t] = @ \cup {"RUNNING"}]
    /\ UNCHANGED <<allocated, queue, waiters, waiter>>

\* Mutant: the waiter returns as soon as it runs.
ReturnAtOnce(t) ==
    /\ Goto(t, "teardown", "out")
    /\ allocated' = [allocated EXCEPT ![t] = FALSE]
    /\ UNCHANGED <<state, queue, waiters, waiter>>

\* lttng_waiter_wait returns when the waker is done with the waiter.
Return(t) ==
    /\ Goto(t, "teardown", "out")
    /\ "TEARDOWN" \in state[t]
    /\ allocated' = [allocated EXCEPT ![t] = FALSE]
    /\ UNCHANGED <<state, queue, waiters, waiter>>

-----------------------------------------------------------------------------
\* The waking side: lttng_wait_queue_wake_all, called by a thread that waits for
\* nothing or by one that has just added its waiter.

PopAll(t) ==
    /\ pc[t] \in {"out", "added"}
    /\ pc' = [pc EXCEPT ![t] = "iterate"]
    /\ waiters' = [waiters EXCEPT ![t] = queue]
    /\ queue' = {}
    /\ UNCHANGED <<allocated, state, waiter>>

\* The next waiter is looked at; one that runs already is not woken.
Iterate(t) ==
    /\ pc[t] = "iterate"
    /\ \E w \in waiters[t] :
         /\ waiters' = [waiters EXCEPT ![t] = @ \ {w}]
         /\ IF "RUNNING" \in state[w] THEN UNCHANGED <<pc, waiter>>
            ELSE /\ pc' = [pc EXCEPT ![t] = "wake"]
                 /\ waiter' = [waiter EXCEPT ![t] = {w}]
    /\ UNCHANGED <<allocated, state, queue>>

\* lttng_waiter_wake: assert, set WOKEN_UP, read RUNNING, wake, set TEARDOWN.
lttng_waiter_wake(t) ==
    /\ Goto(t, "wake", "test_running")
    /\ state' = [w \in Threads |-> IF w \in waiter[t] THEN {"WOKEN_UP"}
                                   ELSE state[w]]
    /\ UNCHANGED <<allocated, queue, waiters, waiter>>

TestRunning(t) ==
    /\ pc[t] = "test_running"
    /\ pc' = [pc EXCEPT ![t] =
                IF \E w \in waiter[t] : "RUNNING" \in state[w]
                THEN "set_teardown" ELSE "futex_wake"]
    /\ UNCHANGED <<allocated, state, queue, waiters, waiter>>

\* FUTEX_WAKE: the sleeper, if there is one, tests its state again.
FutexWake(t) ==
    /\ pc[t] = "futex_wake"
    /\ pc' = [w \in Threads |->
                IF w = t THEN "set_teardown"
                ELSE IF w \in waiter[t] /\ pc[w] = "asleep" THEN "test"
                ELSE pc[w]]
    /\ UNCHANGED <<allocated, state, queue, waiters, waiter>>

SetTeardown(t) ==
    /\ Goto(t, "set_teardown", "iterate")
    /\ state' = [w \in Threads |-> IF w \in waiter[t]
                                   THEN state[w] \cup {"TEARDOWN"}
                                   ELSE state[w]]
    /\ waiter' = [waiter EXCEPT ![t] = {}]
    /\ UNCHANGED <<allocated, queue, waiters>>

\* A thread that woke everyone then waits, if it had joined.
WakeAllDone(t) ==
    /\ pc[t] = "iterate"
    /\ waiters[t] = {}
    /\ pc' = [pc EXCEPT ![t] = IF allocated[t] THEN "test" ELSE "out"]
    /\ UNCHANGED <<allocated, state, queue, waiters, waiter>>

WaitStep(t) ==
    \/ lttng_waiter_init(t) \/ lttng_wait_queue_add(t) \/ lttng_waiter_wait(t)
    \/ TestState(t) \/ FutexWait(t) \/ SpuriousWakeup(t)
    \/ SetRunning(t) \/ Return(t)

WakeStep(t) ==
    \/ PopAll(t) \/ Iterate(t) \/ lttng_waiter_wake(t) \/ TestRunning(t)
    \/ FutexWake(t) \/ SetTeardown(t) \/ WakeAllDone(t)

Next == \E t \in Threads : WaitStep(t) \/ WakeStep(t)

Spec == Init /\ [][Next]_vars

\* A thread is scheduled; nothing makes it join, wake others or be woken
\* spuriously.
Progress(t) ==
    \/ lttng_wait_queue_add(t) \/ lttng_waiter_wait(t)
    \/ TestState(t) \/ FutexWait(t) \/ SetRunning(t) \/ Return(t)
    \/ Iterate(t) \/ lttng_waiter_wake(t) \/ TestRunning(t)
    \/ FutexWake(t) \/ SetTeardown(t) \/ WakeAllDone(t)

FairSpec == Spec /\ \A t \in Threads : WF_vars(Progress(t))

-----------------------------------------------------------------------------
Waiting == {"added", "test", "futex_wait", "asleep"}

Woken == {"running", "teardown"}

Waking == {"wake", "test_running", "futex_wake", "set_teardown"}

TypeOK ==
    /\ pc \in [Threads -> {"out", "add", "iterate"}
                          \cup Waiting \cup Woken \cup Waking]
    /\ allocated \in [Threads -> BOOLEAN]
    /\ state \in [Threads -> SUBSET {"WOKEN_UP", "RUNNING", "TEARDOWN"}]
    /\ queue \subseteq Threads
    /\ waiters \in [Threads -> SUBSET Threads]
    /\ waiter \in [Threads -> SUBSET Threads]

(***************************************************************************)
(* "lttng_waiter_wake needs waiter to stay allocated throughout its        *)
(* execution [...] we only allow it to free this memory when it sees the   *)
(* WAITER_TEARDOWN flag" (waiter.c:110-112): every waiter that the queue   *)
(* or a waker refers to exists.                                            *)
(***************************************************************************)
NoUseAfterFree ==
    \A t \in Threads : \A w \in queue \cup waiters[t] \cup waiter[t] :
        allocated[w]

(***************************************************************************)
(* The assertion of lttng_waiter_wake (waiter.c:118): a waiter is woken    *)
(* once, by one waker, while it waits.                                     *)
(***************************************************************************)
WakesOnlyWaiting ==
    \A t \in Threads : pc[t] = "wake" =>
        \A w \in waiter[t] : state[w] = WAITER_WAITING

\* The wait queue that the threads see.
Status(t) ==
    IF ~allocated[t] THEN "out"
    ELSE IF state[t] = WAITER_WAITING THEN "waiting" ELSE "woken"

WQ == INSTANCE WaitQueue WITH status <- [t \in Threads |-> Status(t)]

(***************************************************************************)
(* A thread goes on only after it was woken, once for each time it joined. *)
(***************************************************************************)
IsWaitQueue == WQ!Spec

(***************************************************************************)
(* A waiter that was popped returns from lttng_waiter_wait: no wake-up is  *)
(* lost between its test of the state and its sleep, and the waker always  *)
(* gives the memory back.                                                  *)
(***************************************************************************)
PoppedReturns ==
    \A t, w \in Threads : w \in waiters[t] ~> pc[w] = "out"
=============================================================================
