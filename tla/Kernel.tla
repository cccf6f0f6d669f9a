------------------------------- MODULE Kernel -------------------------------
(***************************************************************************)
(* The JOS kernel seen from its environments: the environment table, the   *)
(* scheduler, trap entry and exit, the big kernel lock and the system      *)
(* calls that change an environment's status, on several CPUs              *)
(* (lab5/kern: env.c, sched.c, trap.c, syscall.c, spinlock.c, init.c).     *)
(*                                                                         *)
(* A CPU takes the lock on the way into the kernel and gives it back on    *)
(* the way out.  Between the two it executes one handler and then either   *)
(* resumes an environment or halts; pc[c] names the line it stands before. *)
(***************************************************************************)
EXTENDS Integers, FiniteSets, Sequences

CONSTANTS
  CPU,        \* the processors of cpus[0 .. ncpu-1]
  BootCPU,    \* the boot processor, the only one the PIC interrupts
  NoCPU,      \* kernel_lock.locked = 0
  NENV,       \* size of envs[]
  NGEN,       \* generations before env_id wraps: 2^19 - 1 in the code
  NINIT,      \* environments created by i386_init
  Calls,      \* the system calls programs make, and the faults they take
  Devices,    \* the external interrupt lines that fire
  Careful     \* the calls programs make only the way lib/ and user/ do

CallNames == {"exofork", "destroy", "yield", "set_status", "set_trapframe",
              "recv", "send", "cputs", "pgflt", "other"}
DeviceNames == {"kbd", "serial", "spurious"}

ASSUME KernelAssumption ==
  /\ BootCPU \in CPU /\ NoCPU \notin CPU
  /\ NENV \in Nat \ {0} /\ NGEN \in Nat \ {0} /\ NINIT \in 1..NENV
  /\ Calls \subseteq CallNames /\ Devices \subseteq DeviceNames
  /\ Careful \subseteq CallNames

Env == 0..NENV-1
NoEnv == NENV                       \* curenv = NULL
EnvId == (0..NGEN) \X Env           \* <<generation, ENVX>>; <<0,0>> is envid 0
Status == {"FREE", "DYING", "RUNNABLE", "RUNNING", "NOT_RUNNABLE"}

Spin == {"boot", "trap", "wake"}    \* inside spin_lock, not yet the owner
Critical == {"kern", "irq", "ret", "sched", "unlock", "unlockHalt",
             "monitor", "panic"}    \* owner of the big kernel lock
Outside == {"popTf", "user", "halted", "stopped"}
Executing == {"unlock", "popTf", "user", "trap", "kern"}  \* curenv's program
Trapno == {"none", "timer", "exception"} \cup DeviceNames

VARIABLES
  lock,       \* kernel_lock: its owner or NoCPU
  pc,         \* pc[c]: where CPU c is
  trapno,     \* trapno[c]: the interrupt c is handling, or "exception": a
              \* system call or fault, which kind is chosen by the handler
  cur,        \* cur[c]: cpus[c].cpu_env, i.e. curenv on c
  cpuStatus,  \* cpus[c].cpu_status
  status,     \* envs[e].env_status
  pgdir,      \* envs[e].env_pgdir # 0
  gen,        \* generation part of envs[e].env_id
  parent,     \* envs[e].env_parent_id
  recving,    \* envs[e].env_ipc_recving
  intr,       \* FL_IF in envs[e].env_tf
  freeList    \* env_free_list

cpuVars == <<pc, trapno, cur, cpuStatus>>
envVars == <<status, pgdir, gen, parent, recving, intr, freeList>>
vars == <<lock, cpuVars, envVars>>

-----------------------------------------------------------------------------
(* The state in which the boot CPU calls sched_yield from i386_init: the   *)
(* first NINIT environments are created and the APs are in mp_main.        *)

Init ==
  /\ lock = BootCPU
  /\ pc = [c \in CPU |-> IF c = BootCPU THEN "sched" ELSE "boot"]
  /\ trapno = [c \in CPU |-> "none"]
  /\ cur = [c \in CPU |-> NoEnv]
  /\ cpuStatus = [c \in CPU |-> "STARTED"]
  /\ status = [e \in Env |-> IF e < NINIT THEN "RUNNABLE" ELSE "FREE"]
  /\ pgdir = [e \in Env |-> e < NINIT]
  /\ gen = [e \in Env |-> IF e < NINIT THEN 1 ELSE 0]
  /\ parent = [e \in Env |-> <<0, 0>>]
  /\ recving = [e \in Env |-> FALSE]
  /\ intr = [e \in Env |-> TRUE]
  /\ freeList = [i \in 1..NENV - NINIT |-> NINIT + i - 1]

Goto(c, l) == pc' = [pc EXCEPT ![c] = l]
IdOf(e) == <<gen[e], e>>

\* envid2env: the environment the caller may act on, NoEnv on -E_BAD_ENV.
Lookup(c, id, checkperm) ==
  LET e == id[2] IN
  IF id = <<0, 0>> THEN cur[c]
  ELSE IF /\ status[e] # "FREE" /\ gen[e] = id[1]
          /\ checkperm => (e = cur[c] \/ parent[e] = IdOf(cur[c]))
       THEN e ELSE NoEnv

-----------------------------------------------------------------------------
(* Traps: from user mode, from the hlt loop, and the big kernel lock.      *)

Panicked == \E c \in CPU : pc[c] = "panic"

\* The PIC is wired to the boot CPU; every local APIC has its own timer.
Interrupts(c) == {"timer"} \cup (IF c = BootCPU THEN Devices ELSE {})

\* The first lines of trap(): hlt, for ever, if another CPU panicked; otherwise
\* exchange cpu_status and go on at l.
EnterTrap(c, t, l) ==
  /\ trapno' = [trapno EXCEPT ![c] = t]
  /\ IF Panicked
     THEN Goto(c, "stopped") /\ UNCHANGED cpuStatus
     ELSE Goto(c, l) /\ cpuStatus' = [cpuStatus EXCEPT ![c] = "STARTED"]
  /\ UNCHANGED <<lock, cur, envVars>>

\* A trap from user mode, up to lock_kernel.
TrapFromUser(c, t) ==
  /\ pc[c] = "user"
  /\ t \in Interrupts(c) => intr[cur[c]]
  /\ EnterTrap(c, t, "trap")

\* Mutant: trap() only reads cpu_status, without the exchange.
WakeFromHalt_NoXchg(c, t) ==
  /\ pc[c] = "halted"
  /\ Goto(c, "wake")
  /\ trapno' = [trapno EXCEPT ![c] = t]
  /\ UNCHANGED <<lock, cur, cpuStatus, envVars>>

\* An interrupt ends the hlt of sched_halt: cpu_status says to take the lock.
WakeFromHalt(c, t) ==
  /\ pc[c] = "halted"
  /\ EnterTrap(c, t, IF cpuStatus[c] = "HALTED" THEN "wake" ELSE "irq")

\* Mutant: the spin loop does not look at what xchg returned.
SpinLock_NoWait(c) ==
  /\ pc[c] \in Spin
  /\ lock' = c
  /\ Goto(c, CASE pc[c] = "boot" -> "sched"
               [] pc[c] = "trap" -> "kern"
               [] pc[c] = "wake" -> "irq")
  /\ UNCHANGED <<trapno, cur, cpuStatus, envVars>>

\* spin_lock of the three callers: trap from user, trap from hlt, mp_main.
SpinLock(c) ==
  /\ pc[c] \in Spin /\ lock = NoCPU
  /\ lock' = c
  /\ Goto(c, CASE pc[c] = "boot" -> "sched"
               [] pc[c] = "trap" -> "kern"
               [] pc[c] = "wake" -> "irq")
  /\ UNCHANGED <<trapno, cur, cpuStatus, envVars>>

\* spin_unlock at the end of env_run and of sched_halt.
SpinUnlock(c) ==
  /\ pc[c] \in {"unlock", "unlockHalt"}
  /\ lock' = NoCPU
  /\ Goto(c, IF pc[c] = "unlock" THEN "popTf" ELSE "halted")
  /\ UNCHANGED <<trapno, cur, cpuStatus, envVars>>

\* env_pop_tf: iret to the environment, after the lock was released.
PopTf(c) ==
  /\ pc[c] = "popTf"
  /\ Goto(c, "user")
  /\ UNCHANGED <<lock, trapno, cur, cpuStatus, envVars>>

-----------------------------------------------------------------------------
(* Running an environment and choosing the next one.                       *)

\* env_run; PADDR(env_pgdir) panics when e was freed (or was never set up).
EnvRun(c, e) ==
  /\ status' = [f \in Env |->
                  IF f = e THEN "RUNNING"
                  ELSE IF f = cur[c] /\ status[f] = "RUNNING" THEN "RUNNABLE"
                  ELSE status[f]]
  /\ cur' = [cur EXCEPT ![c] = e]
  /\ trapno' = [trapno EXCEPT ![c] = "none"]
  /\ Goto(c, IF pgdir[e] THEN "unlock" ELSE "panic")
  /\ UNCHANGED <<lock, cpuStatus, pgdir, gen, parent, recving, intr, freeList>>

\* Mutant: every scan starts at envs[0].
ScanDistance_FromZero(c, e) == e

\* sched_yield scans envs[] circularly from curenv, or from 0 without one.
ScanDistance(c, e) ==
  (e + NENV - (IF cur[c] = NoEnv THEN 0 ELSE cur[c])) % NENV
Runnable(e) == status[e] = "RUNNABLE"
FirstRunnable(c, e) ==
  /\ Runnable(e)
  /\ \A f \in Env : Runnable(f) => ScanDistance(c, e) <= ScanDistance(c, f)
StillRunning(c) == cur[c] # NoEnv /\ status[cur[c]] = "RUNNING"

\* sched_yield, reached by a call or from the tail of trap().
Yielding(c) == pc[c] = "sched" \/ (pc[c] = "ret" /\ ~StillRunning(c))

SchedYield(c) ==
  /\ Yielding(c)
  /\ \/ \E e \in Env : FirstRunnable(c, e) /\ EnvRun(c, e)
     \/ /\ \A e \in Env : ~Runnable(e)
        /\ StillRunning(c)
        /\ EnvRun(c, cur[c])

\* sched_halt with some environment alive: this CPU sleeps.
SchedHalt(c) ==
  /\ Yielding(c)
  /\ \A e \in Env : ~Runnable(e)
  /\ ~StillRunning(c)
  /\ \E e \in Env : status[e] \in {"RUNNING", "DYING"}
  /\ cur' = [cur EXCEPT ![c] = NoEnv]
  /\ cpuStatus' = [cpuStatus EXCEPT ![c] = "HALTED"]
  /\ trapno' = [trapno EXCEPT ![c] = "none"]
  /\ Goto(c, "unlockHalt")
  /\ UNCHANGED <<lock, envVars>>

\* Mutant: only ENV_RUNNABLE counts as alive.
EnterMonitor_TooEarly(c) ==
  /\ Yielding(c)
  /\ ~StillRunning(c)
  /\ \A e \in Env : ~Runnable(e)
  /\ Goto(c, "monitor")
  /\ UNCHANGED <<lock, trapno, cur, cpuStatus, envVars>>

\* sched_halt with none alive: the kernel monitor, for ever, lock held.
EnterMonitor(c) ==
  /\ Yielding(c)
  /\ \A e \in Env : status[e] \in {"FREE", "NOT_RUNNABLE"}
  /\ Goto(c, "monitor")
  /\ UNCHANGED <<lock, trapno, cur, cpuStatus, envVars>>

\* The tail of trap(): return to the current environment if it still runs.
ReturnToEnv(c) ==
  /\ pc[c] = "ret" /\ StillRunning(c)
  /\ EnvRun(c, cur[c])

-----------------------------------------------------------------------------
(* Handlers.  Each runs with the lock held and ends in sched_yield         *)
(* ("sched") or at the tail of trap() ("ret").                             *)

\* Mutant: trap() does not look for a zombie before it dispatches.
Handling_NoZombieCheck(c, t) == pc[c] = "kern" /\ trapno[c] = t

Handling(c, t) ==
  pc[c] = "kern" /\ status[cur[c]] # "DYING" /\ trapno[c] = t
Calling(c, s) == Handling(c, "exception") /\ s \in Calls
Done(c) == Goto(c, "ret") /\ UNCHANGED <<lock, trapno, cur, cpuStatus>>

\* env_free, then on to l: the slot goes to the head of the free list.  An
\* environment freed before has env_pgdir = 0 and faults the kernel.
EnvFree(c, e, l) ==
  /\ IF pgdir[e]
     THEN /\ status' = [status EXCEPT ![e] = "FREE"]
          /\ pgdir' = [pgdir EXCEPT ![e] = FALSE]
          /\ freeList' = <<e>> \o freeList
          /\ Goto(c, l)
     ELSE UNCHANGED <<status, pgdir, freeList>> /\ Goto(c, "panic")
  /\ UNCHANGED <<lock, trapno, cpuStatus, gen, parent, recving>>

\* env_destroy(curenv), and the freeing of a zombie: then sched_yield.
DestroySelf(c) ==
  /\ EnvFree(c, cur[c], "sched")
  /\ cur' = IF pgdir[cur[c]] THEN [cur EXCEPT ![c] = NoEnv] ELSE cur

\* Mutant: env_destroy frees a running environment at once.
DestroyOther_AtOnce(c, e) == EnvFree(c, e, "ret") /\ UNCHANGED cur

\* env_destroy(e) of another environment: one running elsewhere only becomes
\* a zombie, any other is freed on the spot.
DestroyOther(c, e) ==
  IF status[e] = "RUNNING"
  THEN /\ status' = [status EXCEPT ![e] = "DYING"]
       /\ UNCHANGED <<pgdir, gen, parent, recving, freeList>>
       /\ Done(c)
  ELSE EnvFree(c, e, "ret") /\ UNCHANGED cur

EnvDestroy(c, e) == IF e = cur[c] THEN DestroySelf(c) ELSE DestroyOther(c, e)

\* trap() from user mode finds that its environment was destroyed meanwhile.
ReapZombie(c) ==
  /\ pc[c] = "kern" /\ status[cur[c]] = "DYING"
  /\ DestroySelf(c)
  /\ UNCHANGED intr

\* The timer interrupt, or sys_yield: straight into sched_yield.
Timer(c) ==
  /\ \/ Handling(c, "timer")
     \/ Calling(c, "yield")
  /\ Goto(c, "sched")
  /\ UNCHANGED <<lock, trapno, cur, cpuStatus, envVars>>

\* Handlers without effect here: the keyboard, a spurious interrupt, a page
\* fault passed to the user's upcall, a call that fails or that only reads.
\* (A breakpoint enters the kernel monitor, which no command leaves: the CPU
\* keeps the lock for ever, as if it took no further step.)
NoEffect(c) ==
  /\ \/ \E t \in {"kbd", "spurious"} : Handling(c, t)
     \/ \E s \in {"pgflt", "other"} : Calling(c, s)
  /\ UNCHANGED envVars
  /\ Done(c)

\* The environment is destroyed for its fault: no upcall or no exception
\* stack, an unexpected trap (both "pgflt"), an unreadable string in
\* sys_cputs.  A serial interrupt falls out of trap_dispatch's switch into
\* the unexpected ones.
KillCurrent(c) ==
  /\ \/ Handling(c, "serial")
     \/ \E s \in {"pgflt", "cputs"} : Calling(c, s)
  /\ DestroySelf(c)
  /\ UNCHANGED intr

\* An interrupt taken in the hlt loop: curenv is NULL, so all but the serial
\* one end in sched_yield; the serial one is an unhandled trap in kernel mode.
HaltedIrq(c) ==
  /\ pc[c] = "irq"
  /\ Goto(c, CASE trapno[c] = "timer" -> "sched"
               [] trapno[c] = "serial" -> "panic"
               [] OTHER -> "ret")
  /\ UNCHANGED <<lock, trapno, cur, cpuStatus, envVars>>

\* Mutant: the generation is not brought back into range.
NextGen_NoWrap(g) == g + 1

\* sys_exofork with env_alloc: a blocked copy of the caller in the first free
\* slot, under an id no earlier user of the slot had until generations wrap.
NextGen(g) == IF g + 1 > NGEN THEN 1 ELSE g + 1
\* Mutant: env_alloc does not take the slot off the free list.
SysExofork_KeepFree(c) ==
  /\ Calling(c, "exofork")
  /\ freeList # <<>>
  /\ LET e == Head(freeList) IN
       /\ gen' = [gen EXCEPT ![e] = NextGen(@)]
       /\ parent' = [parent EXCEPT ![e] = IdOf(cur[c])]
       /\ status' = [status EXCEPT ![e] = "NOT_RUNNABLE"]
       /\ pgdir' = [pgdir EXCEPT ![e] = TRUE]
       /\ recving' = [recving EXCEPT ![e] = FALSE]
       /\ intr' = [intr EXCEPT ![e] = intr[cur[c]]]
  /\ UNCHANGED freeList
  /\ Done(c)

SysExofork(c) ==
  /\ Calling(c, "exofork")
  /\ freeList # <<>>
  /\ LET e == Head(freeList) IN
       /\ gen' = [gen EXCEPT ![e] = NextGen(@)]
       /\ parent' = [parent EXCEPT ![e] = IdOf(cur[c])]
       /\ status' = [status EXCEPT ![e] = "NOT_RUNNABLE"]
       /\ pgdir' = [pgdir EXCEPT ![e] = TRUE]
       /\ recving' = [recving EXCEPT ![e] = FALSE]
       /\ intr' = [intr EXCEPT ![e] = intr[cur[c]]]
       /\ freeList' = Tail(freeList)
  /\ Done(c)

SysEnvDestroy(c, id) ==
  LET e == Lookup(c, id, TRUE) IN
  /\ Calling(c, "destroy")
  /\ e # NoEnv
  /\ "destroy" \in Careful => status[e] # "DYING"  \* no child is destroyed twice
  /\ UNCHANGED intr
  /\ EnvDestroy(c, e)

\* lib/ and user/ only prepare and start children sys_exofork left blocked.
StartsChild(c, e, s) ==
  /\ e # cur[c] /\ s = "RUNNABLE"
  /\ status[e] = "NOT_RUNNABLE" /\ ~recving[e]

SysEnvSetStatus(c, id, s) ==
  LET e == Lookup(c, id, TRUE) IN
  /\ Calling(c, "set_status")
  /\ e # NoEnv
  /\ "set_status" \in Careful => StartsChild(c, e, s)
  /\ status' = [status EXCEPT ![e] = s]
  /\ UNCHANGED <<pgdir, gen, parent, recving, intr, freeList>>
  /\ Done(c)

\* What the pointer sys_env_set_trapframe is given points to.
Pointers == {"null", "unmapped", "mapped"}

\* sys_env_set_trapframe: the kernel panics when tf is NULL; user_mem_assert
\* destroys e when tf is not mapped in e's address space; otherwise *tf is
\* copied over whatever was just forced.
SysEnvSetTrapframe(c, id, tf, tfIF) ==
  LET e == Lookup(c, id, TRUE) IN
  /\ Calling(c, "set_trapframe")
  /\ e # NoEnv
  /\ "set_trapframe" \in Careful =>
       tf = "mapped" /\ tfIF /\ StartsChild(c, e, "RUNNABLE")
  /\ \/ /\ tf = "null"
        /\ Goto(c, "panic")
        /\ UNCHANGED <<lock, trapno, cur, cpuStatus, envVars>>
     \/ /\ tf = "unmapped"
        /\ EnvDestroy(c, e)
        /\ intr' = IF e = cur[c] THEN intr ELSE [intr EXCEPT ![e] = tfIF]
     \/ /\ tf = "mapped"
        /\ intr' = [intr EXCEPT ![e] = tfIF]
        /\ UNCHANGED <<status, pgdir, gen, parent, recving, freeList>>
        /\ Done(c)

SysIpcRecv(c) ==
  /\ Calling(c, "recv")
  /\ recving' = [recving EXCEPT ![cur[c]] = TRUE]
  /\ status' = [status EXCEPT ![cur[c]] = "NOT_RUNNABLE"]
  /\ Goto(c, "sched")
  /\ UNCHANGED <<lock, trapno, cur, cpuStatus, pgdir, gen, parent, intr, freeList>>

\* Mutant: the receiver is woken with env_ipc_recving still set.
SysIpcTrySend_KeepRecving(c, id) ==
  LET e == Lookup(c, id, FALSE) IN
  /\ Calling(c, "send")
  /\ e # NoEnv /\ recving[e]
  /\ status' = [status EXCEPT ![e] = "RUNNABLE"]
  /\ UNCHANGED <<pgdir, gen, parent, recving, intr, freeList>>
  /\ Done(c)

SysIpcTrySend(c, id) ==
  LET e == Lookup(c, id, FALSE) IN
  /\ Calling(c, "send")
  /\ e # NoEnv /\ recving[e]
  /\ recving' = [recving EXCEPT ![e] = FALSE]
  /\ status' = [status EXCEPT ![e] = "RUNNABLE"]
  /\ UNCHANGED <<pgdir, gen, parent, intr, freeList>>
  /\ Done(c)

-----------------------------------------------------------------------------
Syscall(c) ==
  \/ SysExofork(c)
  \/ SysIpcRecv(c)
  \/ \E id \in EnvId :
       \/ SysEnvDestroy(c, id)
       \/ SysIpcTrySend(c, id)
       \/ \E s \in {"RUNNABLE", "NOT_RUNNABLE"} : SysEnvSetStatus(c, id, s)
       \/ \E tf \in Pointers, tfIF \in BOOLEAN : SysEnvSetTrapframe(c, id, tf, tfIF)

Handler(c) ==
  Syscall(c) \/ ReapZombie(c) \/ Timer(c) \/ NoEffect(c) \/ KillCurrent(c)
  \/ HaltedIrq(c)

Leave(c) ==
  SchedYield(c) \/ SchedHalt(c) \/ EnterMonitor(c) \/ ReturnToEnv(c)

Trap(c) ==
  \/ \E t \in Interrupts(c) \cup {"exception"} :
       TrapFromUser(c, t)
  \/ \E t \in Interrupts(c) : WakeFromHalt(c, t)

Next == \E c \in CPU :
  Trap(c) \/ SpinLock(c) \/ Handler(c) \/ Leave(c) \/ SpinUnlock(c) \/ PopTf(c)

Spec == Init /\ [][Next]_vars

(* The lock is handed over for ever (the pause in unlock_kernel is there   *)
(* for it), a CPU in the kernel makes progress, and the periodic timer     *)
(* stays pending until a CPU with interrupts on takes it.                  *)
Fairness == \A c \in CPU :
  /\ SF_vars(SpinLock(c))
  /\ SF_vars(TrapFromUser(c, "timer"))
  /\ WF_vars(WakeFromHalt(c, "timer"))
  /\ WF_vars(Handler(c)) /\ WF_vars(Leave(c))
  /\ WF_vars(SpinUnlock(c)) /\ WF_vars(PopTf(c))

FairSpec == Spec /\ Fairness

-----------------------------------------------------------------------------
(* Properties.                                                             *)

\* Every variable keeps the type its C declaration gives it.
TypeOK ==
  /\ lock \in CPU \cup {NoCPU}
  /\ pc \in [CPU -> Spin \cup Critical \cup Outside]
  /\ trapno \in [CPU -> Trapno]
  /\ cur \in [CPU -> Env \cup {NoEnv}]
  /\ cpuStatus \in [CPU -> {"STARTED", "HALTED"}]
  /\ status \in [Env -> Status]
  /\ pgdir \in [Env -> BOOLEAN]
  /\ gen \in [Env -> 0..NGEN]
  /\ parent \in [Env -> EnvId]
  /\ recving \in [Env -> BOOLEAN]
  /\ intr \in [Env -> BOOLEAN]
  /\ freeList \in Seq(Env)

\* The CPU inside the kernel is the owner of the big kernel lock and no other
\* CPU is in the kernel: the panics of spin_lock ("already holding") and
\* spin_unlock are never reached, whatever programs and devices do.
LockOwner == \A c \in CPU : pc[c] \in Critical <=> lock = c

\* cpu_status, which other CPUs never write, tells trap() whether it still has
\* to take the lock: it is HALTED from sched_halt until the interrupt that ends
\* the hlt, and the CPU then has no environment; on a CPU that works it is
\* STARTED.  Only a CPU that is woken after a panic stops before it exchanges it.
HaltHandshake == \A c \in CPU :
  /\ pc[c] \in {"unlockHalt", "halted"} => cpuStatus[c] = "HALTED"
  /\ cpuStatus[c] = "HALTED" =>
       cur[c] = NoEnv /\ pc[c] \in {"unlockHalt", "halted", "stopped"}

\* An environment runs on one CPU at a time, and the one a CPU is executing or
\* about to execute after it released the lock is still alive: env_destroy by
\* another CPU leaves its page directory in place.
OneCpuPerEnv == \A c, d \in CPU :
  cur[c] = cur[d] /\ cur[c] # NoEnv => c = d
ExecutedIsAlive == \A c \in CPU :
  pc[c] \in Executing =>
    /\ cur[c] # NoEnv
    /\ status[cur[c]] \in {"RUNNING", "DYING"} /\ pgdir[cur[c]]
RunningHasCpu == \A e \in Env :
  status[e] \in {"RUNNING", "DYING"} => \E c \in CPU : cur[c] = e
EnvOnCpu == OneCpuPerEnv /\ ExecutedIsAlive /\ RunningHasCpu

\* env_free_list holds every free slot once: env_alloc never hands out a live
\* environment and no slot is lost, whoever frees it.
FreeListExact ==
  /\ \A e \in Env :
       status[e] = "FREE" <=> \E i \in 1..Len(freeList) : freeList[i] = e
  /\ \A i, j \in 1..Len(freeList) : freeList[i] = freeList[j] => i = j

\* A sender never makes an environment runnable that is not blocked in
\* sys_ipc_recv: recving is set only on blocked (or already freed) ones.
ReceiverBlocked == \A e \in Env :
  recving[e] => status[e] \in {"NOT_RUNNABLE", "FREE"}

\* "No runnable environments in the system!" is true: no CPU is left executing
\* an environment when one drops into the monitor.
IdleMeansIdle == (\E c \in CPU : pc[c] = "monitor") =>
  \A c \in CPU : pc[c] \notin Executing

\* A zombie is freed only by the CPU that was executing it, on its next trap.
ZombieFreedByOwnCpu == [][\A e \in Env :
  status[e] = "DYING" /\ status'[e] # "DYING" =>
    status'[e] = "FREE" /\ \E c \in CPU : cur[c] = e /\ cur'[c] = NoEnv]_vars

\* Environments run with interrupts enabled, so that the timer can preempt
\* every one of them.
InterruptsOn == \A c \in CPU :
  pc[c] \in {"popTf", "user"} /\ cur[c] # NoEnv => intr[cur[c]]

\* Every zombie is freed in the end: its CPU takes a timer interrupt, gets the
\* lock and finds ENV_DYING.  The exception is a kernel panic, by a serial
\* interrupt on the halted boot CPU.  (No program executes a breakpoint here,
\* which would stop everything in the monitor.)
ZombieReaped == \A e \in Env :
  status[e] = "DYING" ~> status[e] = "FREE" \/ Panicked

\* Round robin starves nobody as long as no environment exits or panics.
NoStarvation == \A e \in Env : Runnable(e) ~> status[e] = "RUNNING"
=============================================================================
