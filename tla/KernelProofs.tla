---------------------------- MODULE KernelProofs ----------------------------
(***************************************************************************)
(* Proofs about Kernel.  First what holds whatever programs do: types and  *)
(* the ownership of the big kernel lock; then what holds of careful ones.  *)
(***************************************************************************)
EXTENDS Kernel, TLAPS

(* A CPU that executes an environment, or a handler on its behalf, has one. *)
HasEnv == \A c \in CPU : pc[c] \in Executing => cur[c] \in Env

LockInv == TypeOK /\ LockOwner /\ HaltHandshake /\ HasEnv

\* envid2env answers with a slot of envs[] or with an error.
LEMMA LookupType ==
  ASSUME TypeOK, NEW c \in CPU, NEW id \in EnvId, NEW check \in BOOLEAN
  PROVE  Lookup(c, id, check) \in Env \cup {NoEnv}
BY DEF TypeOK, Lookup, EnvId

\* The lock and the CPU's own variables allow the initial state.
LEMMA LockInvInit == ASSUME Init PROVE LockInv
<1>1. NoEnv \in Env \cup {NoEnv} /\ <<0, 0>> \in EnvId
  BY KernelAssumption DEF EnvId, Env
<1>2. freeList \in Seq(Env)
  BY KernelAssumption DEF Init, Env
<1>3. TypeOK
  BY <1>1, <1>2, KernelAssumption
  DEF Init, TypeOK, Spin, Critical, Outside, Trapno, Status, Env
<1>4. LockOwner
  BY KernelAssumption DEF Init, LockOwner, Critical
<1>5. HasEnv
  BY DEF Init, HasEnv, Executing
<1>6. HaltHandshake
  BY DEF Init, HaltHandshake
<1> QED BY <1>3, <1>4, <1>5, <1>6 DEF LockInv

\* Trap entry and exit.
LEMMA LockInvTrap ==
  ASSUME LockInv, NEW c \in CPU,
         Trap(c) \/ SpinLock(c) \/ SpinUnlock(c) \/ PopTf(c)
  PROVE  LockInv'
<1> USE KernelAssumption DEF LockInv
<1> USE DEF Spin, Critical, Outside, Executing
<1>1. ASSUME NEW t \in Trapno, NEW l \in {"trap", "wake", "irq"}, EnterTrap(c, t, l),
             \/ pc[c] = "user" /\ l = "trap"
             \/ pc[c] = "halted" /\ l = IF cpuStatus[c] = "HALTED" THEN "wake" ELSE "irq"
      PROVE  LockInv'
  <2>1. TypeOK'
    BY <1>1 DEF EnterTrap, Goto, envVars, TypeOK
  <2>2. \A d \in CPU \ {c} : pc'[d] = pc[d] /\ cpuStatus'[d] = cpuStatus[d]
    BY <1>1 DEF EnterTrap, Goto, TypeOK
  <2>3. /\ \/ pc'[c] = "stopped" /\ cpuStatus'[c] = cpuStatus[c]
           \/ pc'[c] = l /\ cpuStatus'[c] = "STARTED"
        /\ lock' = lock /\ cur' = cur
    BY <1>1 DEF EnterTrap, Goto, TypeOK
  <2>4. l # "irq"
    BY <1>1 DEF HaltHandshake
  <2>5. LockOwner'
    BY <1>1, <2>2, <2>3, <2>4 DEF LockOwner
  <2>6. HaltHandshake' /\ HasEnv'
    BY <1>1, <2>2, <2>3, <2>4 DEF HaltHandshake, HasEnv
  <2> QED BY <2>1, <2>5, <2>6
<1>2. ASSUME NEW t \in Trapno, TrapFromUser(c, t) \/ WakeFromHalt(c, t)
      PROVE  LockInv'
  BY <1>1, <1>2 DEF TrapFromUser, WakeFromHalt
<1>3. CASE SpinLock(c)
  BY <1>3 DEF SpinLock, Goto, envVars, TypeOK, LockOwner, HaltHandshake, HasEnv
<1>4. CASE SpinUnlock(c)
  BY <1>4 DEF SpinUnlock, Goto, envVars, TypeOK, LockOwner, HaltHandshake, HasEnv
<1>5. CASE PopTf(c)
  BY <1>5 DEF PopTf, Goto, envVars, TypeOK, LockOwner, HaltHandshake, HasEnv
<1>6. Interrupts(c) \cup {"exception"} \subseteq Trapno
  BY DEF Interrupts, Trapno
<1> QED BY <1>2, <1>3, <1>4, <1>5, <1>6 DEF Trap

\* The scheduler.
LEMMA EnvRunLock ==
  ASSUME LockInv, NEW c \in CPU, NEW e \in Env,
         pc[c] \in {"ret", "sched"}, EnvRun(c, e)
  PROVE  LockInv'
BY KernelAssumption
DEF LockInv, EnvRun, Goto, TypeOK, LockOwner, HaltHandshake, HasEnv,
    Spin, Critical, Outside, Executing, Trapno, Status

\* The end of a trap: sched_yield, sched_halt, the monitor or back to the program.
LEMMA LockInvLeave ==
  ASSUME LockInv, NEW c \in CPU, Leave(c)
  PROVE  LockInv'
<1> USE KernelAssumption DEF LockInv
<1>1. lock = c /\ pc[c] \in {"ret", "sched"}
  BY DEF Leave, SchedYield, SchedHalt, EnterMonitor, ReturnToEnv, Yielding,
         LockOwner, Critical
<1>2. StillRunning(c) => cur[c] \in Env
  BY DEF StillRunning, TypeOK
<1>3. CASE SchedYield(c)
  BY <1>1, <1>2, <1>3, EnvRunLock DEF SchedYield
<1>4. CASE SchedHalt(c)
  BY <1>4, <1>1
  DEF SchedHalt, Yielding, Goto, envVars, TypeOK, LockOwner, HaltHandshake,
      HasEnv, Spin, Critical, Outside, Executing, Trapno
<1>5. CASE EnterMonitor(c)
  BY <1>5, <1>1
  DEF EnterMonitor, Yielding, Goto, envVars, TypeOK, LockOwner, HaltHandshake,
      HasEnv, Spin, Critical, Outside, Executing
<1>6. CASE ReturnToEnv(c)
  BY <1>1, <1>2, <1>6, EnvRunLock DEF ReturnToEnv
<1> QED BY <1>3, <1>4, <1>5, <1>6 DEF Leave

\* What a handler may do to the CPUs' variables: move its own CPU to another
\* place inside the kernel, which executes no environment.
HandlerFrame(c) ==
  /\ UNCHANGED <<lock, trapno, cpuStatus>>
  /\ \E l \in {"ret", "sched", "panic"} : Goto(c, l)
  /\ cur' = cur \/ cur' = [cur EXCEPT ![c] = NoEnv]

\* What a handler does to its own CPU keeps lock and halt handshake.
LEMMA FrameKeepsLock ==
  ASSUME LockInv, NEW c \in CPU, pc[c] \in {"kern", "irq"}, HandlerFrame(c)
  PROVE  (LockOwner /\ HaltHandshake /\ HasEnv)'
BY KernelAssumption
DEF LockInv, HandlerFrame, Goto, TypeOK, LockOwner, HaltHandshake, HasEnv,
    Spin, Critical, Outside, Executing

EnvTypes ==
  /\ status \in [Env -> Status]
  /\ pgdir \in [Env -> BOOLEAN]
  /\ gen \in [Env -> 0..NGEN]
  /\ parent \in [Env -> EnvId]
  /\ recving \in [Env -> BOOLEAN]
  /\ intr \in [Env -> BOOLEAN]
  /\ freeList \in Seq(Env)

\* What a handler does to its own CPU keeps the types if what it does to
\* environments does.
LEMMA FrameKeepsTypes ==
  ASSUME TypeOK, NEW c \in CPU, HandlerFrame(c), EnvTypes'
  PROVE  TypeOK'
BY DEF TypeOK, EnvTypes, HandlerFrame, Goto, Spin, Critical, Outside

\* env_free keeps the types.
LEMMA FreeTypes ==
  ASSUME TypeOK, NEW c \in CPU, NEW e \in Env, NEW l \in {"ret", "sched"},
         EnvFree(c, e, l), intr' \in [Env -> BOOLEAN],
         UNCHANGED cur \/ cur' = [cur EXCEPT ![c] = NoEnv]
  PROVE  EnvTypes' /\ HandlerFrame(c)
<1>1. <<e>> \o freeList \in Seq(Env)
  BY DEF TypeOK
<1> QED BY <1>1 DEF EnvFree, EnvTypes, TypeOK, Status, HandlerFrame, Goto

\* env_destroy keeps the types.
LEMMA DestroyTypes ==
  ASSUME TypeOK, NEW c \in CPU, NEW e \in Env, EnvDestroy(c, e),
         intr' \in [Env -> BOOLEAN]
  PROVE  EnvTypes' /\ HandlerFrame(c)
<1>1. CASE e = cur[c]
  BY <1>1, FreeTypes DEF EnvDestroy, DestroySelf
<1>2. CASE e # cur[c] /\ status[e] = "RUNNING"
  BY <1>2
  DEF EnvDestroy, DestroyOther, Done, Goto, EnvTypes, TypeOK, Status, HandlerFrame
<1>3. CASE e # cur[c] /\ status[e] # "RUNNING"
  BY <1>3, FreeTypes DEF EnvDestroy, DestroyOther
<1> QED BY <1>1, <1>2, <1>3

\* A handler runs with the lock and keeps it.
LEMMA LockInvHandler ==
  ASSUME LockInv, NEW c \in CPU, Handler(c)
  PROVE  LockInv'
<1> USE KernelAssumption
<1> SUFFICES pc[c] \in {"kern", "irq"} /\ EnvTypes' /\ HandlerFrame(c)
  BY FrameKeepsLock, FrameKeepsTypes DEF LockInv
<1>t. TypeOK /\ EnvTypes
  BY DEF LockInv, TypeOK, EnvTypes
<1>c. pc[c] = "kern" => cur[c] \in Env
  BY DEF LockInv, HasEnv, Executing
<1>h. \A e : cur[c] = e => (EnvDestroy(c, e) <=> DestroySelf(c))
  BY DEF EnvDestroy
<1>1. CASE SysExofork(c)
  <2> DEFINE e == Head(freeList)
  <2>1. pc[c] = "kern" /\ freeList # <<>>
    BY <1>1 DEF SysExofork, Calling, Handling
  <2>2. e \in Env /\ Tail(freeList) \in Seq(Env)
    BY <1>t, <2>1 DEF TypeOK
  <2>3. IdOf(cur[c]) \in EnvId /\ NextGen(gen[e]) \in 0..NGEN
    BY <1>t, <1>c, <2>1, <2>2 DEF TypeOK, IdOf, EnvId, NextGen
  <2>4. EnvTypes'
    BY <1>1, <1>t, <1>c, <2>1, <2>2, <2>3
    DEF SysExofork, EnvTypes, Status
  <2> QED BY <1>1, <2>1, <2>4 DEF SysExofork, Done, HandlerFrame, Goto
<1>2. CASE SysIpcRecv(c)
  BY <1>2, <1>t, <1>c
  DEF SysIpcRecv, Calling, Handling, Goto, EnvTypes, HandlerFrame, Status
<1>3. ASSUME NEW id \in EnvId, SysEnvDestroy(c, id)
      PROVE  pc[c] = "kern" /\ EnvTypes' /\ HandlerFrame(c)
  BY <1>3, <1>t, LookupType, DestroyTypes
  DEF SysEnvDestroy, Calling, Handling, EnvTypes
<1>4. ASSUME NEW id \in EnvId, SysIpcTrySend(c, id)
      PROVE  pc[c] = "kern" /\ EnvTypes' /\ HandlerFrame(c)
  BY <1>4, <1>t, LookupType
  DEF SysIpcTrySend, Calling, Handling, Done, Goto, EnvTypes, HandlerFrame, Status
<1>5. ASSUME NEW id \in EnvId, NEW s \in {"RUNNABLE", "NOT_RUNNABLE"},
             SysEnvSetStatus(c, id, s)
      PROVE  pc[c] = "kern" /\ EnvTypes' /\ HandlerFrame(c)
  BY <1>5, <1>t, LookupType
  DEF SysEnvSetStatus, Calling, Handling, Done, Goto, EnvTypes, HandlerFrame, Status
<1>6. ASSUME NEW id \in EnvId, NEW tf \in Pointers, NEW tfIF \in BOOLEAN,
             SysEnvSetTrapframe(c, id, tf, tfIF)
      PROVE  pc[c] = "kern" /\ EnvTypes' /\ HandlerFrame(c)
  <2> DEFINE e == Lookup(c, id, TRUE)
  <2>1. e \in Env /\ pc[c] = "kern"
    BY <1>6, <1>t, LookupType DEF SysEnvSetTrapframe, Calling, Handling
  <2>2. CASE tf # "unmapped"
    BY <1>6, <2>1, <2>2, <1>t
    DEF SysEnvSetTrapframe, Done, Goto, envVars, EnvTypes, HandlerFrame
  <2>3. CASE tf = "unmapped"
    <3>1. EnvDestroy(c, e) /\ intr' \in [Env -> BOOLEAN]
      BY <1>6, <2>1, <2>3, <1>t DEF SysEnvSetTrapframe, EnvTypes
    <3> QED BY <3>1, <2>1, <1>t, DestroyTypes
  <2> QED BY <2>2, <2>3
<1>7. CASE ReapZombie(c)
  BY <1>7, <1>t, <1>c, DestroyTypes DEF ReapZombie, EnvDestroy, EnvTypes
<1>8. CASE Timer(c)
  BY <1>8, <1>t
  DEF Timer, Handling, Calling, Goto, envVars, EnvTypes, HandlerFrame
<1>9. CASE NoEffect(c)
  BY <1>9, <1>t
  DEF NoEffect, Handling, Calling, Done, Goto, envVars, EnvTypes, HandlerFrame
<1>10. CASE KillCurrent(c)
  BY <1>10, <1>t, <1>c, DestroyTypes
  DEF KillCurrent, Handling, Calling, EnvDestroy, EnvTypes
<1>11. CASE HaltedIrq(c)
  BY <1>11, <1>t DEF HaltedIrq, Goto, envVars, EnvTypes, HandlerFrame
<1> QED
  BY <1>1, <1>2, <1>3, <1>4, <1>5, <1>6, <1>7, <1>8, <1>9, <1>10, <1>11
  DEF Handler, Syscall

\* Whatever programs and devices do, the CPU inside the kernel is the owner of
\* the big kernel lock, and cpu_status tells trap() whether to take it.
THEOREM LockSafety == Spec => []LockInv
<1>1. Init => LockInv
  BY LockInvInit
<1>2. LockInv /\ [Next]_vars => LockInv'
  <2> SUFFICES ASSUME LockInv, [Next]_vars PROVE LockInv'
    OBVIOUS
  <2>1. CASE UNCHANGED vars
    BY <2>1
    DEF vars, cpuVars, envVars, LockInv, TypeOK, LockOwner, HaltHandshake, HasEnv
  <2>2. CASE Next
    BY <2>2, LockInvTrap, LockInvHandler, LockInvLeave DEF Next
  <2> QED BY <2>1, <2>2
<1> QED BY <1>1, <1>2, PTL DEF Spec

\* LockOwner on its own.
THEOREM LockOwned == Spec => []LockOwner
BY LockSafety, PTL DEF LockInv

\* For every program, panics of other CPUs included: a CPU that works has
\* cpu_status STARTED, and one whose cpu_status is HALTED has no environment.
THEOREM HaltHandshakeHolds == Spec => []HaltHandshake
BY LockSafety, PTL DEF LockInv

\* The types, the generation of env_id staying below its bound included.
THEOREM TypeCorrect == Spec => []TypeOK
BY LockSafety, PTL DEF LockInv

-----------------------------------------------------------------------------
(***************************************************************************)
(* Second, what holds of programs that use sys_env_destroy,                *)
(* sys_env_set_status and sys_env_set_trapframe the way lib/ and user/ do: *)
(* an environment is on one CPU at a time, is alive while it is executed,  *)
(* and every slot is either in use or once on the free list.               *)
(***************************************************************************)

CarefulPrograms == {"destroy", "set_status", "set_trapframe"} \subseteq Careful

-----------------------------------------------------------------------------
(* The inductive invariant.  ExecutedIsAlive alone is not inductive: the    *)
(* scheduler must also know what curenv may be while it runs, and that the  *)
(* environments on the other CPUs are not RUNNABLE.                         *)

CurByPc == \A c \in CPU :
  /\ pc[c] \in Executing =>
       cur[c] \in Env /\ status[cur[c]] \in {"RUNNING", "DYING"}
  /\ pc[c] \in {"boot", "wake", "halted", "irq", "unlockHalt"} => cur[c] = NoEnv
  /\ pc[c] \in {"ret", "sched", "monitor", "panic"} =>
       cur[c] = NoEnv \/ status[cur[c]] \in {"RUNNING", "NOT_RUNNABLE"}
  /\ pc[c] = "stopped" =>
       cur[c] = NoEnv \/ status[cur[c]] \in {"RUNNING", "DYING"}
PgdirWhileUsed == \A e \in Env : pgdir[e] <=> status[e] # "FREE"
MonitorIdle == (\E c \in CPU : pc[c] = "monitor") =>
  \A e \in Env : status[e] \in {"FREE", "NOT_RUNNABLE"}

PlaceInv == CurByPc /\ OneCpuPerEnv /\ RunningHasCpu /\ MonitorIdle
SafeInv == /\ LockInv /\ PlaceInv /\ PgdirWhileUsed
           /\ ReceiverBlocked /\ FreeListExact

\* The env_free_list as a sequence: pushing a slot and popping the head.
LEMMA PushSlot ==
  ASSUME NEW e \in Env, NEW s \in Seq(Env)
  PROVE  /\ Len(<<e>> \o s) = Len(s) + 1
         /\ (<<e>> \o s)[1] = e
         /\ \A i \in 1..Len(s) : (<<e>> \o s)[i + 1] = s[i]
OBVIOUS

\* What taking the head off env_free_list leaves.
LEMMA PopSlot ==
  ASSUME NEW s \in Seq(Env), s # <<>>
  PROVE  /\ Len(s) >= 1 /\ Head(s) = s[1] /\ Head(s) \in Env
         /\ Len(Tail(s)) = Len(s) - 1
         /\ \A i \in 1..Len(s) - 1 : Tail(s)[i] = s[i + 1]
OBVIOUS

\* The invariant holds at boot.
LEMMA SafeInvInit == ASSUME Init PROVE SafeInv
<1> USE KernelAssumption
<1>1. PlaceInv
  BY DEF Init, PlaceInv, CurByPc, OneCpuPerEnv, RunningHasCpu, MonitorIdle,
         Executing, Env, NoEnv
<1>2. PgdirWhileUsed /\ ReceiverBlocked
  BY DEF Init, PgdirWhileUsed, ReceiverBlocked
<1>3. FreeListExact
  <2>1. Len(freeList) = NENV - NINIT
    BY DEF Init
  <2>2. \A i \in 1..Len(freeList) : freeList[i] = NINIT + i - 1
    BY <2>1 DEF Init
  <2>3. ASSUME NEW e \in Env
        PROVE  status[e] = "FREE" <=> \E i \in 1..Len(freeList) : freeList[i] = e
    <3>1. CASE e < NINIT
      BY <3>1, <2>1, <2>2 DEF Init, Env
    <3>2. CASE e >= NINIT
      <4>1. e - NINIT + 1 \in 1..Len(freeList) /\ freeList[e - NINIT + 1] = e
        BY <3>2, <2>1, <2>2 DEF Env
      <4>2. status[e] = "FREE"
        BY <3>2 DEF Init, Env
      <4> QED BY <4>1, <4>2
    <3> QED BY <3>1, <3>2 DEF Env
  <2> QED BY <2>1, <2>2, <2>3 DEF FreeListExact
<1> QED BY <1>1, <1>2, <1>3, LockInvInit DEF SafeInv

\* While a CPU is in the kernel, every other CPU is outside: what it may be
\* executing is RUNNING or already a zombie.
LEMMA Others ==
  ASSUME SafeInv, NEW c \in CPU, pc[c] \in Critical
  PROVE  \A d \in CPU \ {c} :
           /\ pc[d] \notin Critical
           /\ cur[d] # NoEnv =>
                cur[d] \in Env /\ status[cur[d]] \in {"RUNNING", "DYING"}
BY KernelAssumption
DEF SafeInv, LockInv, PlaceInv, CurByPc, LockOwner, TypeOK, Spin, Critical,
    Outside, Executing

-----------------------------------------------------------------------------
\* Trap entry and exit leave the environments alone.
LEMMA SafeInvTrap ==
  ASSUME SafeInv, NEW c \in CPU,
         Trap(c) \/ SpinLock(c) \/ SpinUnlock(c) \/ PopTf(c)
  PROVE  SafeInv'
<1>1. LockInv'
  BY LockInvTrap DEF SafeInv
<1>2. UNCHANGED <<cur, envVars>>
  BY DEF Trap, TrapFromUser, WakeFromHalt, EnterTrap, SpinLock, SpinUnlock, PopTf
<1>3. (OneCpuPerEnv /\ RunningHasCpu /\ PgdirWhileUsed /\ ReceiverBlocked
       /\ FreeListExact)'
  BY <1>2
  DEF SafeInv, PlaceInv, envVars, OneCpuPerEnv, RunningHasCpu, PgdirWhileUsed,
      ReceiverBlocked, FreeListExact
<1>4. CurByPc' /\ MonitorIdle'
  <2>1. \A d \in CPU \ {c} : pc'[d] = pc[d]
    BY DEF Trap, TrapFromUser, WakeFromHalt, EnterTrap, SpinLock, SpinUnlock, PopTf,
           Goto, SafeInv, LockInv, TypeOK
  <2>2. \/ pc[c] = "user" /\ pc'[c] \in {"stopped", "trap"}
        \/ pc[c] = "halted" /\ pc'[c] \in {"stopped", "wake", "irq"}
        \/ pc[c] = "boot" /\ pc'[c] = "sched"
        \/ pc[c] = "trap" /\ pc'[c] = "kern"
        \/ pc[c] = "wake" /\ pc'[c] = "irq"
        \/ pc[c] = "unlock" /\ pc'[c] = "popTf"
        \/ pc[c] = "unlockHalt" /\ pc'[c] = "halted"
        \/ pc[c] = "popTf" /\ pc'[c] = "user"
    BY DEF Trap, TrapFromUser, WakeFromHalt, EnterTrap, SpinLock, SpinUnlock, PopTf,
           Goto, SafeInv, LockInv, TypeOK, Spin
  <2> QED BY <1>2, <2>1, <2>2
      DEF SafeInv, PlaceInv, CurByPc, MonitorIdle, envVars, Executing
<1> QED BY <1>1, <1>3, <1>4 DEF SafeInv, PlaceInv

-----------------------------------------------------------------------------
\* The scheduler: the environment it picks is on no other CPU.
LEMMA EnvRunPlace ==
  ASSUME SafeInv, NEW c \in CPU, pc[c] \in {"ret", "sched"}, NEW e \in Env,
         status[e] = "RUNNABLE" \/ (e = cur[c] /\ status[e] = "RUNNING"),
         EnvRun(c, e)
  PROVE  (PlaceInv /\ PgdirWhileUsed /\ ReceiverBlocked /\ FreeListExact)'
<1> USE KernelAssumption
<1>1. \A d \in CPU \ {c} :
        /\ pc[d] \notin Critical
        /\ cur[d] # NoEnv =>
             cur[d] \in Env /\ status[cur[d]] \in {"RUNNING", "DYING"}
  BY Others DEF Critical
<1>2. \A d \in CPU \ {c} : cur[d] # e
  BY <1>1 DEF SafeInv, PlaceInv, OneCpuPerEnv, Env, NoEnv
<1>3. cur[c] = NoEnv \/ status[cur[c]] \in {"RUNNING", "NOT_RUNNABLE"}
  BY DEF SafeInv, PlaceInv, CurByPc
<1>4. pc' = [pc EXCEPT ![c] = "unlock"] /\ cur' = [cur EXCEPT ![c] = e]
  BY DEF EnvRun, Goto, SafeInv, PgdirWhileUsed
<1>5. \A f \in Env : status'[f] = IF f = e THEN "RUNNING"
        ELSE IF f = cur[c] /\ status[f] = "RUNNING" THEN "RUNNABLE"
        ELSE status[f]
  BY DEF EnvRun
<1>t. /\ pc \in [CPU -> Spin \cup Critical \cup Outside]
      /\ cur \in [CPU -> Env \cup {NoEnv}]
      /\ status \in [Env -> Status]
  BY DEF SafeInv, LockInv, TypeOK
<1>6. OneCpuPerEnv'
  BY <1>2, <1>4, <1>t DEF SafeInv, PlaceInv, OneCpuPerEnv
<1>7. CurByPc'
  <2>1. \A d \in CPU \ {c} : cur[d] # NoEnv => cur[d] # cur[c]
    BY DEF SafeInv, PlaceInv, OneCpuPerEnv
  <2>2. \A d \in CPU \ {c} : cur[d] # NoEnv => status'[cur[d]] = status[cur[d]]
    BY <2>1, <1>1, <1>2, <1>5
  <2>3. \A d \in CPU \ {c} : pc'[d] = pc[d] /\ cur'[d] = cur[d]
    BY <1>4, <1>t
  <2>4. pc'[c] = "unlock" /\ cur'[c] = e /\ status'[e] = "RUNNING"
    BY <1>4, <1>5, <1>t
  <2>5. \A d \in CPU \ {c} : cur'[d] # NoEnv => status'[cur'[d]] = status[cur[d]]
    BY <2>2, <2>3
  <2>6. e # NoEnv /\ \A d \in CPU \ {c} : pc[d] \in Executing => cur[d] # NoEnv
    BY DEF Env, NoEnv, SafeInv, PlaceInv, CurByPc
  <2> QED BY <1>1, <2>3, <2>4, <2>5, <2>6
      DEF SafeInv, PlaceInv, CurByPc, Executing, Critical
<1>8. RunningHasCpu'
  <2> SUFFICES ASSUME NEW f \in Env, status'[f] \in {"RUNNING", "DYING"}
               PROVE  \E d \in CPU : cur'[d] = f
    BY DEF RunningHasCpu
  <2>1. CASE f = e
    BY <2>1, <1>4, <1>t
  <2>2. CASE f # e
    <3>1. status[f] \in {"RUNNING", "DYING"} /\ f # cur[c]
      BY <2>2, <1>5, <1>3, <1>t DEF Env, NoEnv
    <3>2. PICK d \in CPU : cur[d] = f
      BY <3>1 DEF SafeInv, PlaceInv, RunningHasCpu
    <3> QED BY <3>1, <3>2, <1>4, <1>t
  <2> QED BY <2>1, <2>2
<1>9. MonitorIdle'
  BY <1>1, <1>4, <1>t DEF MonitorIdle, Critical
<1>10. (PgdirWhileUsed /\ ReceiverBlocked /\ FreeListExact)'
  BY <1>5, <1>t
  DEF EnvRun, SafeInv, PgdirWhileUsed, ReceiverBlocked, FreeListExact, Status
<1> QED BY <1>6, <1>7, <1>8, <1>9, <1>10 DEF PlaceInv

\* The end of a trap keeps the invariant.
LEMMA SafeInvLeave == ASSUME SafeInv, NEW c \in CPU, Leave(c) PROVE SafeInv'
<1> USE KernelAssumption
<1>1. LockInv'
  BY LockInvLeave DEF SafeInv
<1>2. pc[c] \in {"ret", "sched"}
  BY DEF Leave, SchedYield, SchedHalt, EnterMonitor, ReturnToEnv, Yielding
<1>t. /\ pc \in [CPU -> Spin \cup Critical \cup Outside]
      /\ cur \in [CPU -> Env \cup {NoEnv}]
      /\ status \in [Env -> Status]
  BY DEF SafeInv, LockInv, TypeOK
<1>3. ASSUME NEW e \in Env, EnvRun(c, e),
             status[e] = "RUNNABLE" \/ (e = cur[c] /\ status[e] = "RUNNING")
      PROVE  SafeInv'
  BY <1>3, <1>1, <1>2, EnvRunPlace DEF SafeInv
<1>4. CASE SchedYield(c) \/ ReturnToEnv(c)
  BY <1>4, <1>3, <1>t
  DEF SchedYield, ReturnToEnv, FirstRunnable, Runnable, StillRunning
<1>o. \A d \in CPU \ {c} : pc[d] \notin Critical
  BY <1>2, Others DEF Critical
<1>5. CASE SchedHalt(c)
  <2>1. cur[c] # NoEnv => status[cur[c]] = "NOT_RUNNABLE"
    BY <1>5, <1>2 DEF SchedHalt, StillRunning, SafeInv, PlaceInv, CurByPc
  <2>2. PlaceInv'
    BY <1>5, <1>o, <2>1, <1>t
    DEF SchedHalt, Goto, envVars, SafeInv, PlaceInv, CurByPc, OneCpuPerEnv,
        RunningHasCpu, MonitorIdle, Critical, Executing, Env, NoEnv
  <2>3. (PgdirWhileUsed /\ ReceiverBlocked /\ FreeListExact)'
    BY <1>5
    DEF SchedHalt, envVars, SafeInv, PgdirWhileUsed, ReceiverBlocked, FreeListExact
  <2> QED BY <1>1, <2>2, <2>3 DEF SafeInv
<1>6. CASE EnterMonitor(c)
  <2>1. PlaceInv'
    BY <1>6, <1>2, <1>t
    DEF EnterMonitor, Goto, envVars, SafeInv, PlaceInv, CurByPc, OneCpuPerEnv,
        RunningHasCpu, MonitorIdle, Executing
  <2>2. (PgdirWhileUsed /\ ReceiverBlocked /\ FreeListExact)'
    BY <1>6
    DEF EnterMonitor, envVars, SafeInv, PgdirWhileUsed, ReceiverBlocked, FreeListExact
  <2> QED BY <1>1, <2>1, <2>2 DEF SafeInv
<1> QED BY <1>4, <1>5, <1>6 DEF Leave

-----------------------------------------------------------------------------
\* Handlers.  At most one environment changes its status: the caller blocks, an
\* environment running elsewhere becomes a zombie, or one that is on no CPU
\* changes between the states in which nothing executes it.
StatusChange(c, e, v) ==
  \/ e = cur[c] /\ v = "NOT_RUNNABLE"
  \/ e # cur[c] /\ status[e] = "RUNNING" /\ v = "DYING"
  \/ /\ e # cur[c] /\ status[e] \notin {"RUNNING", "DYING"}
     /\ v \in {"FREE", "RUNNABLE", "NOT_RUNNABLE"}

\* A change of status that keeps running environments alive keeps the places.
LEMMA StatusChangePlace ==
  ASSUME SafeInv, NEW c \in CPU, pc[c] = "kern", status[cur[c]] = "RUNNING",
         NEW l \in {"ret", "sched"}, Goto(c, l), cur' = cur,
         NEW e \in Env, NEW v, status' = [status EXCEPT ![e] = v],
         StatusChange(c, e, v)
  PROVE  PlaceInv'
<1> USE KernelAssumption
<1>t. /\ pc \in [CPU -> Spin \cup Critical \cup Outside]
      /\ cur \in [CPU -> Env \cup {NoEnv}]
      /\ status \in [Env -> Status]
  BY DEF SafeInv, LockInv, TypeOK
<1>c. cur[c] \in Env
  BY DEF SafeInv, PlaceInv, CurByPc, Executing
<1>o. \A d \in CPU \ {c} :
        /\ pc[d] \notin Critical
        /\ cur[d] # NoEnv =>
             cur[d] \in Env /\ status[cur[d]] \in {"RUNNING", "DYING"}
  BY Others DEF Critical
<1>p. \A d \in CPU \ {c} : pc'[d] = pc[d]
  BY <1>t DEF Goto
<1>q. pc'[c] = l
  BY <1>t DEF Goto
<1>1. \A d \in CPU \ {c} : cur[d] # NoEnv =>
        status'[cur[d]] \in {"RUNNING", "DYING"}
  <2> SUFFICES ASSUME NEW d \in CPU \ {c}, cur[d] # NoEnv
               PROVE  status'[cur[d]] \in {"RUNNING", "DYING"}
    OBVIOUS
  <2>1. cur[d] # cur[c]
    BY DEF SafeInv, PlaceInv, OneCpuPerEnv
  <2> QED BY <2>1, <1>o, <1>t DEF StatusChange
<1>2. status'[cur[c]] \in {"RUNNING", "NOT_RUNNABLE"}
  BY <1>c, <1>t DEF StatusChange
<1>3. CurByPc'
  <2>1. \A d \in CPU \ {c} : pc[d] \in Executing => cur[d] # NoEnv /\ cur[d] \in Env
    BY DEF SafeInv, PlaceInv, CurByPc, Env, NoEnv
  <2> QED BY <1>1, <1>2, <1>o, <1>p, <1>q, <2>1
      DEF SafeInv, PlaceInv, CurByPc, Executing, Critical
<1>4. OneCpuPerEnv'
  BY DEF SafeInv, PlaceInv, OneCpuPerEnv
<1>5. RunningHasCpu'
  <2> SUFFICES ASSUME NEW f \in Env, status'[f] \in {"RUNNING", "DYING"}
               PROVE  status[f] \in {"RUNNING", "DYING"}
    BY DEF SafeInv, PlaceInv, RunningHasCpu
  <2> QED BY <1>t DEF StatusChange
<1>6. MonitorIdle'
  BY <1>o, <1>p, <1>q DEF MonitorIdle, Critical
<1> QED BY <1>3, <1>4, <1>5, <1>6 DEF PlaceInv

\* A handler that leaves the status of every environment alone.
LEMMA QuietPlace ==
  ASSUME SafeInv, NEW c \in CPU,
         \/ pc[c] = "kern" /\ status[cur[c]] = "RUNNING"
         \/ pc[c] = "irq",
         NEW l \in {"ret", "sched", "panic"}, Goto(c, l), cur' = cur,
         status' = status
  PROVE  PlaceInv'
<1>t. pc \in [CPU -> Spin \cup Critical \cup Outside]
  BY DEF SafeInv, LockInv, TypeOK
<1>1. (OneCpuPerEnv /\ RunningHasCpu /\ CurByPc)'
  BY <1>t DEF Goto, SafeInv, PlaceInv, CurByPc, OneCpuPerEnv, RunningHasCpu, Executing
<1>2. MonitorIdle'
  BY <1>t, Others DEF MonitorIdle, Critical, Goto
<1> QED BY <1>1, <1>2 DEF PlaceInv

\* The caller's environment is freed: its CPU has none then.
LEMMA DestroySelfPlace ==
  ASSUME SafeInv, NEW c \in CPU, pc[c] = "kern", DestroySelf(c)
  PROVE  PlaceInv'
<1> USE KernelAssumption
<1>t. /\ pc \in [CPU -> Spin \cup Critical \cup Outside]
      /\ cur \in [CPU -> Env \cup {NoEnv}]
      /\ status \in [Env -> Status]
  BY DEF SafeInv, LockInv, TypeOK
<1>c. cur[c] \in Env /\ pgdir[cur[c]]
  BY DEF SafeInv, PlaceInv, CurByPc, Executing, PgdirWhileUsed
<1>1. /\ pc' = [pc EXCEPT ![c] = "sched"]
      /\ cur' = [cur EXCEPT ![c] = NoEnv]
      /\ status' = [status EXCEPT ![cur[c]] = "FREE"]
  BY <1>c DEF DestroySelf, EnvFree, Goto
<1>o. \A d \in CPU \ {c} :
        /\ pc[d] \notin Critical
        /\ cur[d] # NoEnv =>
             cur[d] \in Env /\ status[cur[d]] \in {"RUNNING", "DYING"}
  BY Others DEF Critical
<1>p. \A d \in CPU \ {c} : pc'[d] = pc[d] /\ cur'[d] = cur[d]
  BY <1>1, <1>t
<1>q. pc'[c] = "sched" /\ cur'[c] = NoEnv
  BY <1>1, <1>t
<1>2. \A d \in CPU \ {c} : cur[d] # NoEnv => status'[cur[d]] = status[cur[d]]
  BY <1>1, <1>o, <1>t DEF SafeInv, PlaceInv, OneCpuPerEnv
<1>3. CurByPc'
  <2>1. \A d \in CPU \ {c} : pc[d] \in Executing => cur[d] # NoEnv /\ cur[d] \in Env
    BY DEF SafeInv, PlaceInv, CurByPc, Env, NoEnv
  <2> QED BY <1>2, <1>o, <1>p, <1>q, <2>1
      DEF SafeInv, PlaceInv, CurByPc, Executing, Critical
<1>4. OneCpuPerEnv'
  BY <1>p, <1>q DEF SafeInv, PlaceInv, OneCpuPerEnv
<1>5. RunningHasCpu'
  <2> SUFFICES ASSUME NEW f \in Env, status'[f] \in {"RUNNING", "DYING"}
               PROVE  \E d \in CPU : cur'[d] = f
    BY DEF RunningHasCpu
  <2>1. f # cur[c] /\ status[f] \in {"RUNNING", "DYING"}
    BY <1>1, <1>c, <1>t
  <2>2. PICK d \in CPU : cur[d] = f
    BY <2>1 DEF SafeInv, PlaceInv, RunningHasCpu
  <2> QED BY <2>1, <2>2, <1>p
<1>6. MonitorIdle'
  BY <1>o, <1>p, <1>q DEF MonitorIdle, Critical
<1> QED BY <1>3, <1>4, <1>5, <1>6 DEF PlaceInv

-----------------------------------------------------------------------------
\* The free list and the page directories.
TableInv == PgdirWhileUsed /\ ReceiverBlocked /\ FreeListExact

\* env_free puts a slot on the list that was not on it.
LEMMA EnvFreeTable ==
  ASSUME SafeInv, NEW c \in CPU, NEW e \in Env, NEW l, status[e] # "FREE",
         EnvFree(c, e, l)
  PROVE  TableInv'
<1>t. freeList \in Seq(Env) /\ status \in [Env -> Status]
      /\ pgdir \in [Env -> BOOLEAN] /\ recving \in [Env -> BOOLEAN]
  BY DEF SafeInv, LockInv, TypeOK
<1>1. /\ status' = [status EXCEPT ![e] = "FREE"]
      /\ pgdir' = [pgdir EXCEPT ![e] = FALSE]
      /\ freeList' = <<e>> \o freeList
      /\ recving' = recving
  BY DEF EnvFree, SafeInv, PgdirWhileUsed
<1>2. (PgdirWhileUsed /\ ReceiverBlocked)'
  BY <1>1, <1>t DEF SafeInv, PgdirWhileUsed, ReceiverBlocked
<1>3. /\ Len(freeList') = Len(freeList) + 1 /\ Len(freeList) \in Nat
      /\ freeList'[1] = e
      /\ \A i \in 1..Len(freeList) : freeList'[i + 1] = freeList[i]
  BY <1>1, <1>t, PushSlot
<1>4. \A i \in 2..Len(freeList') :
        i - 1 \in 1..Len(freeList) /\ freeList'[i] = freeList[i - 1]
  BY <1>3
<1>5. \A i \in 1..Len(freeList) : freeList[i] # e
  BY DEF SafeInv, FreeListExact
<1>6. \A i, j \in 1..Len(freeList') : freeList'[i] = freeList'[j] => i = j
  <2> SUFFICES ASSUME NEW i \in 1..Len(freeList'), NEW j \in 1..Len(freeList'),
                      freeList'[i] = freeList'[j]
               PROVE  i = j
    OBVIOUS
  <2>1. CASE i = 1 \/ j = 1
    BY <2>1, <1>3, <1>4, <1>5
  <2>2. CASE i # 1 /\ j # 1
    BY <2>2, <1>3, <1>4 DEF SafeInv, FreeListExact
  <2> QED BY <2>1, <2>2
<1>7. ASSUME NEW f \in Env
      PROVE  status'[f] = "FREE" <=> \E i \in 1..Len(freeList') : freeList'[i] = f
  <2>1. CASE f = e
    BY <2>1, <1>1, <1>3, <1>t
  <2>2. CASE f # e
    <3>1. status'[f] = "FREE" <=> \E i \in 1..Len(freeList) : freeList[i] = f
      BY <2>2, <1>1, <1>t DEF SafeInv, FreeListExact
    <3>2. ASSUME NEW i \in 1..Len(freeList), freeList[i] = f
          PROVE  i + 1 \in 1..Len(freeList') /\ freeList'[i + 1] = f
      BY <3>2, <1>3
    <3>3. ASSUME NEW i \in 1..Len(freeList'), freeList'[i] = f
          PROVE  i - 1 \in 1..Len(freeList) /\ freeList[i - 1] = f
      BY <3>3, <2>2, <1>3, <1>4
    <3> QED BY <3>1, <3>2, <3>3
  <2> QED BY <2>1, <2>2
<1>8. FreeListExact'
  BY <1>6, <1>7 DEF FreeListExact
<1> QED BY <1>2, <1>8 DEF TableInv

\* env_alloc takes the head, a free slot that is not on the list again.
LEMMA ExoforkTable ==
  ASSUME SafeInv, NEW c \in CPU, SysExofork(c)
  PROVE  /\ status[Head(freeList)] = "FREE" /\ Head(freeList) \in Env
         /\ TableInv'
<1> DEFINE e == Head(freeList)
<1>t. freeList \in Seq(Env) /\ status \in [Env -> Status]
      /\ pgdir \in [Env -> BOOLEAN] /\ recving \in [Env -> BOOLEAN]
  BY DEF SafeInv, LockInv, TypeOK
<1>1. /\ freeList # <<>>
      /\ status' = [status EXCEPT ![e] = "NOT_RUNNABLE"]
      /\ pgdir' = [pgdir EXCEPT ![e] = TRUE]
      /\ recving' = [recving EXCEPT ![e] = FALSE]
      /\ freeList' = Tail(freeList)
  BY DEF SysExofork
<1>2. /\ Len(freeList) \in Nat /\ Len(freeList) >= 1
      /\ e = freeList[1] /\ e \in Env
      /\ Len(freeList') = Len(freeList) - 1
      /\ \A i \in 1..Len(freeList') : freeList'[i] = freeList[i + 1]
  BY <1>1, <1>t, PopSlot
<1>3. status[e] = "FREE"
  BY <1>2 DEF SafeInv, FreeListExact
<1>4. (PgdirWhileUsed /\ ReceiverBlocked)'
  BY <1>1, <1>2, <1>t DEF SafeInv, PgdirWhileUsed, ReceiverBlocked
<1>5. \A i \in 1..Len(freeList') : i + 1 \in 1..Len(freeList)
  BY <1>2
<1>6. \A i, j \in 1..Len(freeList') : freeList'[i] = freeList'[j] => i = j
  <2> SUFFICES ASSUME NEW i \in 1..Len(freeList'), NEW j \in 1..Len(freeList'),
                      freeList'[i] = freeList'[j]
               PROVE  i = j
    OBVIOUS
  <2>1. i + 1 = j + 1
    BY <1>2, <1>5 DEF SafeInv, FreeListExact
  <2> QED BY <2>1
<1>7. ASSUME NEW f \in Env
      PROVE  status'[f] = "FREE" <=> \E i \in 1..Len(freeList') : freeList'[i] = f
  <2>1. CASE f = e
    <3>1. ASSUME NEW i \in 1..Len(freeList'), freeList'[i] = e PROVE FALSE
      <4>1. i + 1 = 1
        BY <3>1, <1>2, <1>5 DEF SafeInv, FreeListExact
      <4> QED BY <4>1
    <3> QED BY <2>1, <3>1, <1>1, <1>2, <1>t
  <2>2. CASE f # e
    <3>1. status'[f] = "FREE" <=> \E i \in 1..Len(freeList) : freeList[i] = f
      BY <2>2, <1>1, <1>t DEF SafeInv, FreeListExact
    <3>2. ASSUME NEW i \in 1..Len(freeList), freeList[i] = f
          PROVE  i - 1 \in 1..Len(freeList') /\ freeList'[i - 1] = f
      <4>1. i # 1
        BY <3>2, <2>2, <1>2
      <4>2. i - 1 \in 1..Len(freeList')
        BY <4>1, <1>2
      <4>3. freeList'[i - 1] = freeList[(i - 1) + 1] /\ (i - 1) + 1 = i
        BY <4>2, <1>2
      <4> QED BY <4>2, <4>3, <3>2
    <3>3. ASSUME NEW i \in 1..Len(freeList'), freeList'[i] = f
          PROVE  i + 1 \in 1..Len(freeList) /\ freeList[i + 1] = f
      BY <3>3, <1>2, <1>5
    <3> QED BY <3>1, <3>2, <3>3
  <2> QED BY <2>1, <2>2
<1>8. FreeListExact'
  BY <1>6, <1>7 DEF FreeListExact
<1> QED BY <1>2, <1>3, <1>4, <1>8 DEF TableInv

\* A change of status that keeps slots in use in use.
LEMMA StatusTable ==
  ASSUME SafeInv, NEW e \in Env, NEW v, status' = [status EXCEPT ![e] = v],
         status[e] # "FREE", v # "FREE", UNCHANGED <<pgdir, freeList>>,
         \A f \in Env : recving'[f] => status'[f] \in {"NOT_RUNNABLE", "FREE"}
  PROVE  TableInv'
BY DEF SafeInv, LockInv, TypeOK, TableInv, PgdirWhileUsed, ReceiverBlocked,
       FreeListExact

\* A step that leaves the table of environments alone.
LEMMA QuietTable ==
  ASSUME SafeInv, UNCHANGED <<status, pgdir, recving, freeList>>
  PROVE  TableInv'
BY DEF SafeInv, TableInv, PgdirWhileUsed, ReceiverBlocked, FreeListExact

\* env_destroy by the caller of itself, of a child elsewhere, of an idle child.
LEMMA DestroyKeeps ==
  ASSUME SafeInv, NEW c \in CPU, pc[c] = "kern", NEW e \in Env,
         EnvDestroy(c, e), status[e] # "FREE",
         e # cur[c] => status[e] # "DYING" /\ status[cur[c]] = "RUNNING"
  PROVE  PlaceInv' /\ TableInv'
<1>t. /\ status \in [Env -> Status]
      /\ recving \in [Env -> BOOLEAN]
  BY DEF SafeInv, LockInv, TypeOK
<1>1. CASE e = cur[c]
  BY <1>1, DestroySelfPlace, EnvFreeTable DEF EnvDestroy, DestroySelf
<1>2. CASE e # cur[c] /\ status[e] = "RUNNING"
  <2>1. /\ status' = [status EXCEPT ![e] = "DYING"]
        /\ UNCHANGED <<pgdir, recving, freeList, cur>> /\ Goto(c, "ret")
    BY <1>2 DEF EnvDestroy, DestroyOther, Done
  <2>2. StatusChange(c, e, "DYING")
    BY <1>2 DEF StatusChange
  <2>3. PlaceInv'
    BY <2>1, <2>2, <1>2, StatusChangePlace
  <2>4. \A f \in Env : recving'[f] => status'[f] \in {"NOT_RUNNABLE", "FREE"}
    BY <2>1, <1>2, <1>t DEF SafeInv, ReceiverBlocked
  <2> QED BY <2>1, <2>3, <2>4, <1>2, StatusTable
<1>3. CASE e # cur[c] /\ status[e] # "RUNNING"
  <2>1. EnvFree(c, e, "ret") /\ cur' = cur
    BY <1>3 DEF EnvDestroy, DestroyOther
  <2>2. status' = [status EXCEPT ![e] = "FREE"] /\ Goto(c, "ret")
    BY <2>1 DEF EnvFree, SafeInv, PgdirWhileUsed
  <2>3. StatusChange(c, e, "FREE")
    BY <1>3 DEF StatusChange
  <2>4. PlaceInv'
    BY <2>1, <2>2, <2>3, <1>3, StatusChangePlace
  <2> QED BY <2>1, <2>4, EnvFreeTable
<1> QED BY <1>1, <1>2, <1>3

\* What envid2env finds is in use.
LEMMA LookupUsed ==
  ASSUME SafeInv, NEW c \in CPU, pc[c] = "kern", NEW id \in EnvId,
         NEW check \in BOOLEAN, Lookup(c, id, check) # NoEnv
  PROVE  Lookup(c, id, check) \in Env /\ status[Lookup(c, id, check)] # "FREE"
<1>1. TypeOK
  BY DEF SafeInv, LockInv
<1>2. Lookup(c, id, check) \in Env
  BY <1>1, LookupType
<1>3. cur[c] \in Env /\ status[cur[c]] \in {"RUNNING", "DYING"}
  BY DEF SafeInv, PlaceInv, CurByPc, Executing
<1> QED BY <1>2, <1>3 DEF Lookup

\* Every system call keeps the invariant.
LEMMA SafeInvSyscall ==
  ASSUME SafeInv, CarefulPrograms, NEW c \in CPU, Syscall(c)
  PROVE  PlaceInv' /\ TableInv'
<1>t. /\ status \in [Env -> Status]
      /\ recving \in [Env -> BOOLEAN]
  BY DEF SafeInv, LockInv, TypeOK
<1>c. pc[c] = "kern" =>
        cur[c] \in Env /\ status[cur[c]] \in {"RUNNING", "DYING"}
  BY DEF SafeInv, PlaceInv, CurByPc, Executing
<1>k. \A s : Calling(c, s) => pc[c] = "kern" /\ status[cur[c]] = "RUNNING"
  BY <1>c DEF Calling, Handling
<1>1. CASE SysExofork(c)
  <2> DEFINE e == Head(freeList)
  <2>1. e \in Env /\ status[e] = "FREE" /\ TableInv'
    BY <1>1, ExoforkTable
  <2>2. /\ status' = [status EXCEPT ![e] = "NOT_RUNNABLE"]
        /\ cur' = cur /\ Goto(c, "ret")
        /\ pc[c] = "kern" /\ status[cur[c]] = "RUNNING"
    BY <1>1, <1>k DEF SysExofork, Done
  <2>3. StatusChange(c, e, "NOT_RUNNABLE")
    BY <2>1, <2>2 DEF StatusChange
  <2> QED BY <2>1, <2>2, <2>3, StatusChangePlace
<1>2. CASE SysIpcRecv(c)
  <2> DEFINE e == cur[c]
  <2>1. /\ pc[c] = "kern" /\ status[e] = "RUNNING" /\ e \in Env
        /\ status' = [status EXCEPT ![e] = "NOT_RUNNABLE"]
        /\ recving' = [recving EXCEPT ![e] = TRUE]
        /\ Goto(c, "sched") /\ UNCHANGED <<cur, pgdir, freeList>>
    BY <1>2, <1>k, <1>c DEF SysIpcRecv
  <2>2. StatusChange(c, e, "NOT_RUNNABLE")
    BY DEF StatusChange
  <2>3. PlaceInv'
    BY <2>1, <2>2, StatusChangePlace
  <2>4. \A f \in Env : recving'[f] => status'[f] \in {"NOT_RUNNABLE", "FREE"}
    BY <2>1, <1>t DEF SafeInv, ReceiverBlocked
  <2> QED BY <2>1, <2>3, <2>4, StatusTable
<1>3. ASSUME NEW id \in EnvId, SysEnvDestroy(c, id)
      PROVE  PlaceInv' /\ TableInv'
  <2> DEFINE e == Lookup(c, id, TRUE)
  <2>1. /\ pc[c] = "kern" /\ status[cur[c]] = "RUNNING"
        /\ e # NoEnv /\ status[e] # "DYING" /\ EnvDestroy(c, e)
    BY <1>3, <1>k DEF SysEnvDestroy, CarefulPrograms
  <2> QED BY <2>1, LookupUsed, DestroyKeeps
<1>4. ASSUME NEW id \in EnvId, SysIpcTrySend(c, id)
      PROVE  PlaceInv' /\ TableInv'
  <2> DEFINE e == Lookup(c, id, FALSE)
  <2>1. /\ pc[c] = "kern" /\ status[cur[c]] = "RUNNING"
        /\ e # NoEnv /\ recving[e]
        /\ status' = [status EXCEPT ![e] = "RUNNABLE"]
        /\ recving' = [recving EXCEPT ![e] = FALSE]
        /\ Goto(c, "ret") /\ UNCHANGED <<cur, pgdir, freeList>>
    BY <1>4, <1>k DEF SysIpcTrySend, Done
  <2>2. e \in Env /\ status[e] = "NOT_RUNNABLE"
    BY <2>1, LookupUsed DEF SafeInv, ReceiverBlocked
  <2>3. StatusChange(c, e, "RUNNABLE")
    BY <2>1, <2>2 DEF StatusChange
  <2>4. PlaceInv'
    BY <2>1, <2>2, <2>3, StatusChangePlace
  <2>5. \A f \in Env : recving'[f] => status'[f] \in {"NOT_RUNNABLE", "FREE"}
    BY <2>1, <2>2, <1>t DEF SafeInv, ReceiverBlocked
  <2> QED BY <2>1, <2>2, <2>4, <2>5, StatusTable
<1>5. ASSUME NEW id \in EnvId, NEW s \in {"RUNNABLE", "NOT_RUNNABLE"},
             SysEnvSetStatus(c, id, s)
      PROVE  PlaceInv' /\ TableInv'
  <2> DEFINE e == Lookup(c, id, TRUE)
  <2>1. /\ pc[c] = "kern" /\ status[cur[c]] = "RUNNING"
        /\ e # NoEnv /\ StartsChild(c, e, s)
        /\ status' = [status EXCEPT ![e] = s]
        /\ Goto(c, "ret") /\ UNCHANGED <<cur, pgdir, recving, freeList>>
    BY <1>5, <1>k DEF SysEnvSetStatus, CarefulPrograms, Done
  <2>2. e \in Env /\ status[e] = "NOT_RUNNABLE" /\ ~recving[e] /\ s = "RUNNABLE"
        /\ e # cur[c]
    BY <2>1, LookupUsed DEF StartsChild
  <2>3. StatusChange(c, e, s)
    BY <2>2 DEF StatusChange
  <2>4. PlaceInv'
    BY <2>1, <2>2, <2>3, StatusChangePlace
  <2>5. \A f \in Env : recving'[f] => status'[f] \in {"NOT_RUNNABLE", "FREE"}
    BY <2>1, <2>2, <1>t DEF SafeInv, ReceiverBlocked
  <2> QED BY <2>1, <2>2, <2>4, <2>5, StatusTable
<1>6. ASSUME NEW id \in EnvId, NEW tf \in Pointers, NEW tfIF \in BOOLEAN,
             SysEnvSetTrapframe(c, id, tf, tfIF)
      PROVE  PlaceInv' /\ TableInv'
  <2>1. /\ pc[c] = "kern" /\ status[cur[c]] = "RUNNING"
        /\ Goto(c, "ret") /\ UNCHANGED <<cur, status, pgdir, recving, freeList>>
    BY <1>6, <1>k DEF SysEnvSetTrapframe, CarefulPrograms, Done
  <2> QED BY <2>1, QuietPlace, QuietTable
<1> QED BY <1>1, <1>2, <1>3, <1>4, <1>5, <1>6 DEF Syscall

\* Every handler keeps the invariant.
LEMMA SafeInvHandler ==
  ASSUME SafeInv, CarefulPrograms, NEW c \in CPU, Handler(c)
  PROVE  SafeInv'
<1> SUFFICES PlaceInv' /\ TableInv'
  BY LockInvHandler DEF SafeInv, TableInv
<1>c. pc[c] = "kern" =>
        cur[c] \in Env /\ status[cur[c]] \in {"RUNNING", "DYING"}
  BY DEF SafeInv, PlaceInv, CurByPc, Executing
<1>1. CASE Syscall(c)
  BY <1>1, SafeInvSyscall
<1>2. CASE ReapZombie(c)
  <2>1. pc[c] = "kern" /\ DestroySelf(c)
    BY <1>2 DEF ReapZombie
  <2> QED BY <2>1, <1>c, DestroyKeeps DEF EnvDestroy
<1>3. CASE KillCurrent(c)
  <2>1. pc[c] = "kern" /\ DestroySelf(c)
    BY <1>3 DEF KillCurrent, Calling, Handling
  <2> QED BY <2>1, <1>c, DestroyKeeps DEF EnvDestroy
<1>4. CASE Timer(c) \/ NoEffect(c) \/ HaltedIrq(c)
  <2>1. /\ \/ pc[c] = "kern" /\ status[cur[c]] = "RUNNING"
           \/ pc[c] = "irq"
        /\ \E l \in {"ret", "sched", "panic"} : Goto(c, l)
        /\ UNCHANGED <<cur, status, pgdir, recving, freeList>>
    BY <1>4, <1>c
    DEF Timer, NoEffect, HaltedIrq, Calling, Handling, Done, envVars
  <2> QED BY <2>1, QuietPlace, QuietTable
<1> QED BY <1>1, <1>2, <1>3, <1>4 DEF Handler

\* The invariant holds of every behaviour of careful programs.
THEOREM KernelSafety ==
  ASSUME CarefulPrograms PROVE Spec => []SafeInv
<1>1. Init => SafeInv
  BY SafeInvInit
<1>2. SafeInv /\ [Next]_vars => SafeInv'
  <2> SUFFICES ASSUME SafeInv, [Next]_vars PROVE SafeInv'
    OBVIOUS
  <2>1. CASE UNCHANGED vars
    BY <2>1
    DEF vars, cpuVars, envVars, SafeInv, LockInv, TypeOK, LockOwner,
        HaltHandshake, HasEnv, PlaceInv, CurByPc, OneCpuPerEnv, RunningHasCpu,
        MonitorIdle, PgdirWhileUsed, ReceiverBlocked, FreeListExact
  <2>2. CASE Next
    BY <2>2, SafeInvTrap, SafeInvHandler, SafeInvLeave DEF Next
  <2> QED BY <2>1, <2>2
<1> QED BY <1>1, <1>2, PTL DEF Spec

\* An environment runs on one CPU at a time, and is alive while it is executed.
THEOREM EnvOnCpuHolds ==
  ASSUME CarefulPrograms PROVE Spec => []EnvOnCpu
<1>1. SafeInv => EnvOnCpu
  BY DEF SafeInv, PlaceInv, CurByPc, EnvOnCpu, OneCpuPerEnv, ExecutedIsAlive,
         RunningHasCpu, PgdirWhileUsed, Env, NoEnv
<1> QED BY <1>1, KernelSafety, PTL

\* No slot of envs[] is lost, and none is given out while it is in use.
THEOREM FreeListExactHolds ==
  ASSUME CarefulPrograms PROVE Spec => []FreeListExact
BY KernelSafety, PTL DEF SafeInv

\* A sender wakes only environments blocked in sys_ipc_recv.
THEOREM ReceiverBlockedHolds ==
  ASSUME CarefulPrograms PROVE Spec => []ReceiverBlocked
BY KernelSafety, PTL DEF SafeInv

\* When a CPU reports that nothing can run, nothing runs.
THEOREM IdleMeansIdleHolds ==
  ASSUME CarefulPrograms PROVE Spec => []IdleMeansIdle
<1>1. SafeInv => IdleMeansIdle
  BY DEF SafeInv, PlaceInv, CurByPc, MonitorIdle, IdleMeansIdle
<1> QED BY <1>1, KernelSafety, PTL

-----------------------------------------------------------------------------
\* What one step does to a zombie: only a CPU that executes it takes it away.
LEMMA ZombieStep ==
  ASSUME SafeInv, CarefulPrograms, NEW c \in CPU, NEW e \in Env, status[e] = "DYING",
         Handler(c)
  PROVE  status'[e] = "DYING" \/ (status'[e] = "FREE" /\ cur[c] = e /\ cur'[c] = NoEnv)
<1>t. /\ status \in [Env -> Status] /\ cur \in [CPU -> Env \cup {NoEnv}]
  BY DEF SafeInv, LockInv, TypeOK
<1>c. pc[c] = "kern" =>
        cur[c] \in Env /\ status[cur[c]] \in {"RUNNING", "DYING"}
  BY DEF SafeInv, PlaceInv, CurByPc, Executing
<1>k. \A s : Calling(c, s) => pc[c] = "kern" /\ status[cur[c]] = "RUNNING"
  BY <1>c DEF Calling, Handling
<1>1. CASE pc[c] = "kern" /\ DestroySelf(c)
  BY <1>1, <1>c, <1>t DEF DestroySelf, EnvFree, SafeInv, PgdirWhileUsed
<1>2. CASE ReapZombie(c) \/ KillCurrent(c)
  BY <1>2, <1>1 DEF ReapZombie, KillCurrent, Calling, Handling
<1>3. CASE Timer(c) \/ NoEffect(c) \/ HaltedIrq(c)
  BY <1>3 DEF Timer, NoEffect, HaltedIrq, envVars
<1>4. CASE SysExofork(c)
  <2>1. status[Head(freeList)] = "FREE" /\ Head(freeList) \in Env
    BY <1>4, ExoforkTable
  <2> QED BY <1>4, <2>1, <1>t DEF SysExofork
<1>5. CASE SysIpcRecv(c)
  BY <1>5, <1>k, <1>t DEF SysIpcRecv
<1>6. ASSUME NEW id \in EnvId, SysEnvDestroy(c, id)
      PROVE  status'[e] = "DYING" \/ (status'[e] = "FREE" /\ cur[c] = e /\ cur'[c] = NoEnv)
  <2> DEFINE f == Lookup(c, id, TRUE)
  <2>1. /\ pc[c] = "kern" /\ f # NoEnv /\ status[f] # "DYING" /\ EnvDestroy(c, f)
    BY <1>6, <1>k DEF SysEnvDestroy, CarefulPrograms
  <2>2. f \in Env /\ f # e
    BY <2>1, LookupUsed
  <2>3. CASE f = cur[c]
    BY <2>1, <2>3, <1>1 DEF EnvDestroy
  <2>4. CASE f # cur[c]
    BY <2>1, <2>2, <2>4, <1>t DEF EnvDestroy, DestroyOther, EnvFree
  <2> QED BY <2>3, <2>4
<1>7. ASSUME NEW id \in EnvId, SysIpcTrySend(c, id) PROVE status'[e] = "DYING"
  <2> DEFINE f == Lookup(c, id, FALSE)
  <2>1. /\ pc[c] = "kern" /\ f # NoEnv /\ recving[f]
        /\ status' = [status EXCEPT ![f] = "RUNNABLE"]
    BY <1>7, <1>k DEF SysIpcTrySend
  <2>2. f \in Env /\ f # e
    BY <2>1, LookupUsed DEF SafeInv, ReceiverBlocked
  <2> QED BY <2>1, <2>2, <1>t
<1>8. ASSUME NEW id \in EnvId, NEW s \in {"RUNNABLE", "NOT_RUNNABLE"},
             SysEnvSetStatus(c, id, s)
      PROVE  status'[e] = "DYING"
  <2> DEFINE f == Lookup(c, id, TRUE)
  <2>1. /\ pc[c] = "kern" /\ f # NoEnv /\ status[f] = "NOT_RUNNABLE"
        /\ status' = [status EXCEPT ![f] = s]
    BY <1>8, <1>k DEF SysEnvSetStatus, CarefulPrograms, StartsChild
  <2>2. f \in Env /\ f # e
    BY <2>1, LookupUsed
  <2> QED BY <2>1, <2>2, <1>t
<1>9. ASSUME NEW id \in EnvId, NEW tf \in Pointers, NEW tfIF \in BOOLEAN,
             SysEnvSetTrapframe(c, id, tf, tfIF)
      PROVE  status'[e] = "DYING"
  BY <1>9 DEF SysEnvSetTrapframe, CarefulPrograms
<1> QED BY <1>2, <1>3, <1>4, <1>5, <1>6, <1>7, <1>8, <1>9 DEF Handler, Syscall

\* A zombie is freed by the CPU that was executing it and by no other.
THEOREM ZombieFreedByOwnCpuHolds ==
  ASSUME CarefulPrograms PROVE Spec => ZombieFreedByOwnCpu
<1> DEFINE Own == \A e \in Env : status[e] = "DYING" /\ status'[e] # "DYING" =>
      status'[e] = "FREE" /\ \E c \in CPU : cur[c] = e /\ cur'[c] = NoEnv
<1>1. SafeInv /\ [Next]_vars => [Own]_vars
  <2> SUFFICES ASSUME SafeInv, NEW c \in CPU, NEW e \in Env, status[e] = "DYING",
                      status'[e] # "DYING",
                      \/ Trap(c) \/ SpinLock(c) \/ SpinUnlock(c) \/ PopTf(c)
                      \/ Handler(c) \/ Leave(c)
               PROVE  status'[e] = "FREE" /\ cur[c] = e /\ cur'[c] = NoEnv
    BY DEF Next
  <2>1. CASE Trap(c) \/ SpinLock(c) \/ SpinUnlock(c) \/ PopTf(c)
    BY <2>1 DEF Trap, TrapFromUser, WakeFromHalt, EnterTrap, SpinLock, SpinUnlock,
              PopTf, envVars
  <2>2. CASE Handler(c)
    BY <2>2, ZombieStep
  <2>3. ASSUME NEW f \in Env, EnvRun(c, f), status[f] # "DYING" PROVE FALSE
    BY <2>3 DEF EnvRun
  <2>4. CASE SchedYield(c) \/ ReturnToEnv(c)
    <3>1. cur[c] \in Env \cup {NoEnv}
      BY DEF SafeInv, LockInv, TypeOK
    <3> QED BY <2>3, <2>4, <3>1
        DEF SchedYield, ReturnToEnv, FirstRunnable, Runnable, StillRunning
  <2>5. CASE SchedHalt(c) \/ EnterMonitor(c)
    BY <2>5 DEF SchedHalt, EnterMonitor, envVars
  <2> QED BY <2>1, <2>2, <2>4, <2>5 DEF Leave
<1> QED BY <1>1, KernelSafety, PTL DEF Spec, ZombieFreedByOwnCpu
=============================================================================
