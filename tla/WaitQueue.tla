----------------------------- MODULE WaitQueue -----------------------------
(***************************************************************************)
(* What a wait queue promises (waiter.h): a thread that joined it goes on  *)
(* only after it was woken, once per time it joined.  Module Waiter is the *)
(* implementation.                                                         *)
(***************************************************************************)
CONSTANT Threads

VARIABLE status         \* "out", "waiting" or "woken", per thread

Init == status = [t \in Threads |-> "out"]

Join(t) ==
    /\ status[t] = "out"
    /\ status' = [status EXCEPT ![t] = "waiting"]

Wake(t) ==
    /\ status[t] = "waiting"
    /\ status' = [status EXCEPT ![t] = "woken"]

Return(t) ==
    /\ status[t] = "woken"
    /\ status' = [status EXCEPT ![t] = "out"]

Next == \E t \in Threads : Join(t) \/ Wake(t) \/ Return(t)

Spec == Init /\ [][Next]_status
=============================================================================
