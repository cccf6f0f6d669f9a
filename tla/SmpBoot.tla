------------------------------ MODULE SmpBoot ------------------------------
(***************************************************************************)
(* The boot CPU starts the other CPUs one by one (boot_aps and mp_main in  *)
(* kern/init.c, kern/mpentry.S) while it holds the big kernel lock of      *)
(* SpinLock; afterwards all of them take and release the lock.             *)
(*                                                                         *)
(* One variable, mpentry_kstack, tells each of them its stack, and one     *)
(* byte, cpu_status, is both the acknowledgement boot_aps waits for and    *)
(* the flag of a CPU that sleeps in sched_halt.                            *)
(***************************************************************************)
EXTENDS SpinLock

CONSTANT Boot    \* bootcpu

ASSUME BootAssumption == Boot \in CPU

VARIABLES
  phase,           \* phase[c]: off, in mpentry.S, in mp_main, or done with it
  status,          \* status[c]: cpu_status
  turn,            \* the CPU boot_aps waits for
  mpentry_kstack,  \* the CPU whose stack the next one will load
  stack            \* stack[c]: the CPU whose stack c runs on

bootVars == <<phase, status, turn, mpentry_kstack, stack>>
allVars == <<vars, bootVars>>

Phase == {"off", "entry", "setup", "up"}
Status == {"unused", "started", "halted"}

InitSmp ==
  /\ Init
  /\ phase = [c \in CPU |-> IF c = Boot THEN "up" ELSE "off"]
  /\ status = [c \in CPU |-> IF c = Boot THEN "started" ELSE "unused"]
  /\ turn = NoCPU /\ mpentry_kstack = NoCPU
  /\ stack = [c \in CPU |-> IF c = Boot THEN Boot ELSE NoCPU]

Booted == turn = NoCPU /\ \A c \in CPU : phase[c] # "off"

\* Mutant: i386_init starts the CPUs before it takes the lock.
MayStart_NoLock == phase[Boot] = "up"
MayStart == pc[Boot] = "critical"

\* A turn of the loop in boot_aps; the order of cpus[] is any order.
BootAp(c) ==
  /\ MayStart /\ turn = NoCPU /\ phase[c] = "off"
  /\ mpentry_kstack' = c
  /\ phase' = [phase EXCEPT ![c] = "entry"]    \* lapic_startap
  /\ turn' = c
  /\ UNCHANGED <<vars, status, stack>>

\* Mutant: the boot CPU does not wait.
Acknowledged_AtOnce == turn # NoCPU
Acknowledged == turn # NoCPU /\ status[turn] = "started"

\* The end of while (c->cpu_status != CPU_STARTED).
Proceed ==
  /\ Acknowledged
  /\ turn' = NoCPU
  /\ UNCHANGED <<vars, phase, status, mpentry_kstack, stack>>

LoadStack(c) ==
  /\ phase[c] = "entry"
  /\ stack' = [stack EXCEPT ![c] = mpentry_kstack]
  /\ phase' = [phase EXCEPT ![c] = "setup"]
  /\ UNCHANGED <<vars, status, turn, mpentry_kstack>>

MpMain(c) ==
  /\ phase[c] = "setup"
  /\ status' = [status EXCEPT ![c] = "started"]
  /\ phase' = [phase EXCEPT ![c] = "up"]
  /\ UNCHANGED <<vars, turn, mpentry_kstack, stack>>

-----------------------------------------------------------------------------
\* lock_kernel: the first time in i386_init and mp_main, then in trap, which
\* sets cpu_status back.
Enter(c) ==
  /\ phase[c] = "up"
  /\ Call(c)
  /\ status' = [status EXCEPT ![c] = "started"]
  /\ UNCHANGED <<phase, turn, mpentry_kstack, stack>>

\* sched_yield, which the boot CPU reaches after boot_aps: unlock_kernel in
\* env_run, or in sched_halt after cpu_status.
Leave(c) ==
  /\ c = Boot => Booted
  /\ Unlock(c)
  /\ \/ UNCHANGED status
     \/ status' = [status EXCEPT ![c] = "halted"]
  /\ UNCHANGED <<phase, turn, mpentry_kstack, stack>>

Run(c) ==
  \/ (SpinLock(c) \/ SpinUnlock(c) \/ Drain(c)) /\ UNCHANGED bootVars
  \/ Leave(c)
BootStep == Proceed \/ \E c \in CPU : BootAp(c)
ApStep(c) == LoadStack(c) \/ MpMain(c)

NextSmp == BootStep \/ \E c \in CPU : ApStep(c) \/ Enter(c) \/ Run(c)

SpecSmp == InitSmp /\ [][NextSmp]_allVars

\* Every CPU keeps executing; i386_init takes the lock without being asked.
FairSpecSmp ==
  /\ SpecSmp /\ WF_allVars(BootStep) /\ WF_allVars(~Booted /\ Enter(Boot))
  /\ \A c \in CPU : WF_allVars(ApStep(c)) /\ WF_allVars(Run(c))

-----------------------------------------------------------------------------
\* What the variables hold, SpinLock's included.
TypeSmp ==
  /\ TypeOK
  /\ phase \in [CPU -> Phase] /\ status \in [CPU -> Status]
  /\ turn \in CPU \cup {NoCPU} /\ mpentry_kstack \in CPU \cup {NoCPU}
  /\ stack \in [CPU -> CPU \cup {NoCPU}]

\* No CPU runs on the stack of another one: boot_aps changes mpentry_kstack
\* only when the CPU it was meant for has loaded it (kern/init.c).
OwnStack == \A c \in CPU : phase[c] \in {"setup", "up"} => stack[c] = c

\* All CPUs come up.  An AP overwrites its acknowledgement when it goes to
\* sleep in sched_halt; it must not get there before boot_aps has seen it,
\* which is why the boot CPU takes the big kernel lock first.
BootEnds == <>Booted

\* The boot changes nothing about the lock.
ImplementsSpinLock == Spec
=============================================================================
