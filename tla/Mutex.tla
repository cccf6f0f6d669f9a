------------------------------- MODULE Mutex -------------------------------
(* What kern/spinlock.h promises: a lock that one CPU holds at a time.     *)

CONSTANTS CPU, NoCPU

VARIABLE holder     \* the CPU that holds the lock, or NoCPU

Init == holder = NoCPU

Acquire(c) == holder = NoCPU /\ holder' = c
Release(c) == holder = c /\ holder' = NoCPU

Next == \E c \in CPU : Acquire(c) \/ Release(c)

Spec == Init /\ [][Next]_holder
=============================================================================
