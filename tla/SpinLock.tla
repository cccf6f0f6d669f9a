------------------------------ MODULE SpinLock ------------------------------
(***************************************************************************)
(* spin_lock and spin_unlock of kern/spinlock.c, one memory access at a    *)
(* time.  A store waits in its CPU's store buffer until the hardware       *)
(* drains it; a load sees the CPU's own pending store first; the locked    *)
(* xchg needs an empty buffer and reads and writes memory at once.         *)
(*                                                                         *)
(* The debugging check holding() reads lk->locked and lk->cpu without the  *)
(* lock, while another CPU may be taking it or giving it back.             *)
(***************************************************************************)
EXTENDS Naturals, Sequences

CONSTANTS
  CPU,
  NoCPU       \* lk->cpu = 0

ASSUME CpuAssumption == NoCPU \notin CPU

VARIABLES
  locked,     \* lk->locked in memory
  owner,      \* lk->cpu in memory
  buf,        \* buf[c]: c's stores to lk->cpu that memory has not seen yet
  pc          \* the access CPU c performs next

vars == <<locked, owner, buf, pc>>

Taking == {"holding", "holdingCpu", "xchg"}             \* in spin_lock
Leaving == {"release", "releaseCpu", "clear", "store"}  \* in spin_unlock
Owning == {"record", "critical"} \cup Leaving           \* xchg returned 0

Init ==
  /\ locked = 0
  /\ owner = NoCPU
  /\ buf = [c \in CPU |-> <<>>]
  /\ pc = [c \in CPU |-> "outside"]

Goto(c, from, to) == pc[c] = from /\ pc' = [pc EXCEPT ![c] = to]

\* What a load of lk->cpu returns on c.
Load(c) == IF buf[c] = <<>> THEN owner ELSE buf[c][Len(buf[c])]

Put(c, v) == buf' = [buf EXCEPT ![c] = Append(@, v)]

\* The hardware writes the oldest buffered store to memory.
Drain(c) ==
  /\ buf[c] # <<>>
  /\ owner' = Head(buf[c])
  /\ buf' = [buf EXCEPT ![c] = Tail(@)]
  /\ UNCHANGED <<locked, pc>>

-----------------------------------------------------------------------------
(* spin_lock: holding() must be false, then xchg until it returns 0.       *)

Call(c) ==
  /\ Goto(c, "outside", "holding")
  /\ UNCHANGED <<locked, owner, buf>>

Holding(c) ==
  /\ Goto(c, "holding", IF locked = 1 THEN "holdingCpu" ELSE "xchg")
  /\ UNCHANGED <<locked, owner, buf>>

HoldingCpu(c) ==
  /\ Goto(c, "holdingCpu", IF Load(c) = c THEN "panic" ELSE "xchg")
  /\ UNCHANGED <<locked, owner, buf>>

\* Mutant: the loop does not look at what xchg returned.
Xchg_NoLoop(c) ==
  /\ Goto(c, "xchg", "record") /\ buf[c] = <<>>
  /\ locked' = 1
  /\ UNCHANGED <<owner, buf>>

\* Mutant: the lock counts instead of being exchanged.
Xchg_Count(c) ==
  /\ Goto(c, "xchg", "record") /\ buf[c] = <<>>
  /\ locked' = locked + 1
  /\ UNCHANGED <<owner, buf>>

\* The xchg that ends the loop; one that returns 1 changes nothing.
Xchg(c) ==
  /\ Goto(c, "xchg", "record") /\ buf[c] = <<>>
  /\ locked = 0 /\ locked' = 1
  /\ UNCHANGED <<owner, buf>>

\* lk->cpu = thiscpu, after the lock is taken.
Record(c) ==
  /\ Goto(c, "record", "critical")
  /\ Put(c, c)
  /\ UNCHANGED <<locked, owner>>

-----------------------------------------------------------------------------
(* spin_unlock: holding() must be true; clear lk->cpu, then lk->locked.    *)

Unlock(c) ==
  /\ Goto(c, "critical", "release")
  /\ UNCHANGED <<locked, owner, buf>>

Release(c) ==
  /\ Goto(c, "release", IF locked = 1 THEN "releaseCpu" ELSE "panic")
  /\ UNCHANGED <<locked, owner, buf>>

ReleaseCpu(c) ==
  /\ Goto(c, "releaseCpu", IF Load(c) = c THEN "clear" ELSE "panic")
  /\ UNCHANGED <<locked, owner, buf>>

Clear(c) ==
  /\ Goto(c, "clear", "store")
  /\ Put(c, NoCPU)
  /\ UNCHANGED <<locked, owner>>

\* Mutant: lk->locked is written without waiting for the store of lk->cpu.
Store_Early(c) ==
  /\ Goto(c, "store", "outside")
  /\ locked' = 0
  /\ UNCHANGED <<owner, buf>>

\* Mutant: the release is a copy of the loop of the acquire.
Store_Loop(c) ==
  /\ pc[c] = "store" /\ buf[c] = <<>>
  /\ locked' = 1
  /\ pc' = [pc EXCEPT ![c] = IF locked = 0 THEN "outside" ELSE "store"]
  /\ UNCHANGED <<owner, buf>>

\* xchg(&lk->locked, 0).
Store(c) ==
  /\ Goto(c, "store", "outside") /\ buf[c] = <<>>
  /\ locked' = 0
  /\ UNCHANGED <<owner, buf>>

-----------------------------------------------------------------------------
SpinLock(c) == Holding(c) \/ HoldingCpu(c) \/ Xchg(c) \/ Record(c)
SpinUnlock(c) == Release(c) \/ ReleaseCpu(c) \/ Clear(c) \/ Store(c)

Step(c) == SpinLock(c) \/ Unlock(c) \/ SpinUnlock(c) \/ Drain(c)

Next == \E c \in CPU : Call(c) \/ Step(c)

Spec == Init /\ [][Next]_vars

\* A CPU keeps executing (interrupts are off in the kernel) and leaves the
\* critical section; nobody need ever ask for the lock.
FairSpec == Spec /\ \A c \in CPU : WF_vars(Step(c))

-----------------------------------------------------------------------------
TypeOK ==
  /\ locked \in {0, 1}
  /\ owner \in CPU \cup {NoCPU}
  /\ buf \in [CPU -> Seq(CPU \cup {NoCPU})]
  /\ pc \in [CPU -> Taking \cup Owning \cup {"outside", "panic"}]

\* Between the xchg that takes the lock and the one that gives it back there
\* is one CPU at most (kern/spinlock.h: "Mutual exclusion lock").
MutualExclusion ==
  \A c, d \in CPU : pc[c] \in Owning /\ pc[d] \in Owning => c = d

\* Neither debugging check fires on a CPU that takes and releases the lock in
\* turn, although holding() reads a lock that other CPUs are changing.
NoFalsePanic == \A c \in CPU : pc[c] # "panic"

Holder == IF \E c \in CPU : pc[c] \in Owning
          THEN CHOOSE c \in CPU : pc[c] \in Owning ELSE NoCPU

Abstract == INSTANCE Mutex WITH holder <- Holder

\* spin_lock and spin_unlock implement the lock of Mutex.
ImplementsMutex == Abstract!Spec

\* No livelock: while CPUs spin, one of them gets the lock.
SomeoneGetsIn ==
  (\E c \in CPU : pc[c] \in Taking) ~> (\E c \in CPU : pc[c] = "critical")
=============================================================================
