--------------------------- MODULE SmpBootProofs ---------------------------
(***************************************************************************)
(* The lock implements Mutex and its checks never fire; the boot in        *)
(* SmpBoot uses the lock as SpinLock says, so that what is proved of the   *)
(* lock holds from the first CPU on; and every CPU gets its own stack, for *)
(* any number of CPUs.                                                     *)
(***************************************************************************)
EXTENDS SmpBoot, SequenceTheorems, TLAPS

-----------------------------------------------------------------------------
(* The lock.                                                               *)

\* Where lk->cpu and its pending stores stand at each point of the owner; a
\* CPU outside the lock has no store pending and is not the one named.
OwnerField ==
  \A c \in CPU :
    /\ pc[c] = "record" => buf[c] = <<>> /\ owner = NoCPU
    /\ pc[c] \in {"critical", "release", "releaseCpu", "clear"} =>
         \/ buf[c] = <<c>> /\ owner = NoCPU
         \/ buf[c] = <<>> /\ owner = c
    /\ pc[c] = "store" =>
         \/ buf[c] = <<c, NoCPU>> /\ owner = NoCPU
         \/ buf[c] = <<NoCPU>> /\ owner = c
         \/ buf[c] = <<>> /\ owner = NoCPU
    /\ pc[c] \notin Owning => buf[c] = <<>> /\ owner # c

\* Taken means owned.
LockedIffOwned == locked = 1 <=> \E c \in CPU : pc[c] \in Owning

IInv == TypeOK /\ MutualExclusion /\ NoFalsePanic /\ OwnerField
        /\ LockedIffOwned

\* What storing and draining do to the buffers that occur.
LEMMA Buffers ==
  ASSUME NEW a \in CPU \cup {NoCPU}, NEW b \in CPU \cup {NoCPU}
  PROVE  /\ Append(<<>>, a) = <<a>> /\ Append(<<a>>, b) = <<a, b>>
         /\ Head(<<a>>) = a /\ Tail(<<a>>) = <<>>
         /\ Head(<<a, b>>) = a /\ Tail(<<a, b>>) = <<b>>
         /\ <<a>>[Len(<<a>>)] = a /\ <<a>> # <<>> /\ <<a, b>> # <<>>
<1> DEFINE V == CPU \cup {NoCPU}
<1>0. <<>> \in Seq(V) /\ <<a>> \in Seq(V) /\ <<a, b>> \in Seq(V)
  OBVIOUS
<1>1. Append(<<>>, a) = <<a>> /\ Append(<<a>>, b) = <<a, b>>
  <2>1. /\ Len(<<>>) = 0 /\ Len(<<a>>) = 1 /\ Len(<<a, b>>) = 2
        /\ <<a>>[1] = a /\ <<a, b>>[1] = a /\ <<a, b>>[2] = b
    OBVIOUS
  <2>2. Append(<<>>, a) = <<a>>
    <3>1. /\ Append(<<>>, a) \in Seq(V) /\ Len(Append(<<>>, a)) = 1
          /\ Append(<<>>, a)[1] = a
      BY <1>0, <2>1, AppendProperties
    <3> QED
      BY <1>0, <2>1, <3>1, SeqEqual
  <2>3. Append(<<a>>, b) = <<a, b>>
    <3>1. /\ Append(<<a>>, b) \in Seq(V) /\ Len(Append(<<a>>, b)) = 2
          /\ Append(<<a>>, b)[1] = a /\ Append(<<a>>, b)[2] = b
      BY <1>0, <2>1, AppendProperties
    <3>2. \A i \in 1..2 : Append(<<a>>, b)[i] = <<a, b>>[i]
      BY <2>1, <3>1
    <3> HIDE DEF V
    <3> QED
      BY <1>0, <2>1, <3>1, <3>2, SeqEqual
  <2> QED
    BY <2>2, <2>3
<1>2. Head(<<a>>) = a /\ Tail(<<a>>) = <<>>
  OBVIOUS
<1>3. Head(<<a, b>>) = a /\ Tail(<<a, b>>) = <<b>>
  OBVIOUS
<1>4. <<a>>[Len(<<a>>)] = a /\ <<a>> # <<>> /\ <<a, b>> # <<>>
  OBVIOUS
<1> QED
  BY <1>1, <1>2, <1>3, <1>4

\* The same for the owner's buffers.
LEMMA OwnBuffers ==
  ASSUME NEW c \in CPU
  PROVE  /\ Append(<<>>, NoCPU) = <<NoCPU>>
         /\ Append(<<c>>, NoCPU) = <<c, NoCPU>>
         /\ Head(<<c>>) = c /\ Tail(<<c>>) = <<>>
         /\ Head(<<NoCPU>>) = NoCPU /\ Tail(<<NoCPU>>) = <<>>
         /\ Head(<<c, NoCPU>>) = c /\ Tail(<<c, NoCPU>>) = <<NoCPU>>
         /\ <<c>> \notin {<<>>, <<NoCPU>>, <<c, NoCPU>>}
<1>1. c \in CPU \cup {NoCPU} /\ NoCPU \in CPU \cup {NoCPU}
  OBVIOUS
<1>2. Append(<<>>, NoCPU) = <<NoCPU>>
  BY <1>1, Buffers
<1>3. Append(<<c>>, NoCPU) = <<c, NoCPU>>
  BY <1>1, Buffers
<1>4. Head(<<c>>) = c /\ Tail(<<c>>) = <<>>
  BY <1>1, Buffers
<1>5. Head(<<NoCPU>>) = NoCPU /\ Tail(<<NoCPU>>) = <<>>
  BY <1>1, Buffers
<1>6. Head(<<c, NoCPU>>) = c /\ Tail(<<c, NoCPU>>) = <<NoCPU>>
  BY <1>1, Buffers
<1>7. <<c>> # <<>> /\ <<NoCPU>> # <<>>
  BY <1>1, Buffers
<1>8. <<c>> \notin {<<>>, <<NoCPU>>, <<c, NoCPU>>}
  BY <1>4, <1>5, <1>6, <1>7, CpuAssumption, Zenon
<1> QED
  BY <1>2, <1>3, <1>4, <1>5, <1>6, <1>8

\* Initially nobody owns the lock and no store is pending.
LEMMA InitInv == Init => IInv
  BY CpuAssumption DEF Init, IInv, TypeOK, MutualExclusion, NoFalsePanic,
    OwnerField, LockedIffOwned, Owning, Leaving, Taking

\* Every memory access keeps the invariant (spin_lock, spin_unlock).
LEMMA NextInv == IInv /\ [Next]_vars => IInv'
<1> SUFFICES ASSUME IInv, [Next]_vars PROVE IInv'
  OBVIOUS
<1> USE CpuAssumption DEF IInv, TypeOK, MutualExclusion, NoFalsePanic,
    OwnerField, LockedIffOwned, Owning, Leaving, Taking, Goto
<1>1. CASE UNCHANGED vars
  BY <1>1 DEF vars
<1>2. ASSUME NEW c \in CPU, Call(c) PROVE IInv'
  BY <1>2 DEF Call
<1>3. ASSUME NEW c \in CPU, Holding(c) PROVE IInv'
  BY <1>3 DEF Holding
<1>4. ASSUME NEW c \in CPU, HoldingCpu(c) PROVE IInv'
  BY <1>4 DEF HoldingCpu, Load
<1>5. ASSUME NEW c \in CPU, Xchg(c) PROVE IInv'
  BY <1>5 DEF Xchg
<1>6. ASSUME NEW c \in CPU, Record(c) PROVE IInv'
  <2>0. Append(<<>>, c) = <<c>>
    BY Buffers
  <2> USE <1>6 DEF Record, Put
  <2>1. TypeOK'
    BY <2>0
  <2>2. MutualExclusion' /\ NoFalsePanic'
    OBVIOUS
  <2>3. LockedIffOwned'
    OBVIOUS
  <2>4. OwnerField'
    BY <2>0
  <2> QED
    BY <2>1, <2>2, <2>3, <2>4
<1>7. ASSUME NEW c \in CPU, Unlock(c) PROVE IInv'
  BY <1>7 DEF Unlock
<1>8. ASSUME NEW c \in CPU, Release(c) PROVE IInv'
  <2> USE <1>8 DEF Release
  <2>1. TypeOK'
    OBVIOUS
  <2>2. MutualExclusion' /\ NoFalsePanic'
    OBVIOUS
  <2>3. LockedIffOwned'
    OBVIOUS
  <2>4. OwnerField'
    OBVIOUS
  <2> QED
    BY <2>1, <2>2, <2>3, <2>4
<1>9. ASSUME NEW c \in CPU, ReleaseCpu(c) PROVE IInv'
  <2>0. Load(c) = c
    <3>1. buf[c] = <<c>> \/ (buf[c] = <<>> /\ owner = c)
      BY <1>9 DEF ReleaseCpu
    <3>2. <<c>>[Len(<<c>>)] = c /\ <<c>> # <<>>
      BY Buffers
    <3> QED
      BY <3>1, <3>2 DEF Load
  <2> USE <1>9 DEF ReleaseCpu
  <2>1. TypeOK'
    BY <2>0
  <2>2. MutualExclusion' /\ NoFalsePanic'
    BY <2>0
  <2>3. LockedIffOwned'
    BY <2>0
  <2>4. OwnerField'
    BY <2>0
  <2> QED
    BY <2>1, <2>2, <2>3, <2>4
<1>10. ASSUME NEW c \in CPU, Clear(c) PROVE IInv'
  <2>0. /\ Append(<<>>, NoCPU) = <<NoCPU>>
        /\ Append(<<c>>, NoCPU) = <<c, NoCPU>>
    BY OwnBuffers
  <2> USE <1>10 DEF Clear, Put
  <2>00. <<c>> # <<>>
    BY Buffers
  <2>1. TypeOK'
    BY <2>0
  <2>2. MutualExclusion' /\ NoFalsePanic'
    OBVIOUS
  <2>3. LockedIffOwned'
    OBVIOUS
  <2>4. OwnerField'
    BY <2>0
  <2> QED
    BY <2>1, <2>2, <2>3, <2>4
<1>11. ASSUME NEW c \in CPU, Store(c) PROVE IInv'
  <2>0. owner = NoCPU
    BY <1>11, Buffers DEF Store
  <2> USE <1>11 DEF Store
  <2>1. TypeOK'
    OBVIOUS
  <2>2. MutualExclusion' /\ NoFalsePanic'
    OBVIOUS
  <2>3. LockedIffOwned'
    OBVIOUS
  <2>4. OwnerField'
    BY <2>0
  <2> QED
    BY <2>1, <2>2, <2>3, <2>4
<1>12. ASSUME NEW c \in CPU, Drain(c) PROVE IInv'
  <2>0. \/ buf[c] = <<c>> /\ buf'[c] = <<>> /\ owner' = c
        \/ buf[c] = <<c, NoCPU>> /\ buf'[c] = <<NoCPU>> /\ owner' = c
        \/ buf[c] = <<NoCPU>> /\ buf'[c] = <<>> /\ owner' = NoCPU
    <3>1. buf[c] \in {<<c>>, <<c, NoCPU>>, <<NoCPU>>}
      BY <1>12 DEF Drain
    <3> QED
      BY <1>12, <3>1, OwnBuffers DEF Drain
  <2> USE <1>12 DEF Drain
  <2>1. TypeOK'
    BY <2>0
  <2>2. MutualExclusion' /\ NoFalsePanic'
    OBVIOUS
  <2>3. LockedIffOwned'
    OBVIOUS
  <2>4. OwnerField'
    <3> SUFFICES ASSUME NEW d \in CPU
                 PROVE  OwnerField!(d)'
      OBVIOUS
    <3>1. CASE d # c
      <4>1. pc[d] \notin Owning /\ owner' # d /\ buf'[d] = <<>>
        BY <2>0, <3>1
      <4> QED
        BY <4>1
    <3>2. CASE d = c /\ pc[c] = "store"
      <4>1. buf[c] # <<c>>
        BY <3>2, OwnBuffers
      <4> QED
        BY <2>0, <3>2, <4>1, OwnBuffers
    <3>3. CASE d = c /\ pc[c] # "store"
      BY <2>0, <3>3, OwnBuffers
    <3> QED
      BY <3>1, <3>2, <3>3
  <2> QED
    BY <2>1, <2>2, <2>3, <2>4
<1> QED
  BY <1>1, <1>2, <1>3, <1>4, <1>5, <1>6, <1>7, <1>8, <1>9, <1>10, <1>11, <1>12
  DEF Next, Step, SpinLock, SpinUnlock

\* The invariant in every behaviour.
THEOREM Invariant == Spec => []IInv
  BY InitInv, NextInv, PTL DEF Spec

\* One CPU at most is between the two xchg of spin_lock and spin_unlock.
THEOREM MutualExclusionHolds == Spec => []MutualExclusion
<1>1. IInv => MutualExclusion
  BY DEF IInv
<1> QED
  BY <1>1, Invariant, PTL

\* The debugging checks of spin_lock and spin_unlock never fire, whatever the
\* store buffers delay.
THEOREM NoFalsePanicHolds == Spec => []NoFalsePanic
<1>1. IInv => NoFalsePanic
  BY DEF IInv
<1> QED
  BY <1>1, Invariant, PTL

\* The holder of the abstract lock is the CPU that owns the concrete one.
LEMMA HolderIs ==
  /\ \A c \in CPU : MutualExclusion /\ pc[c] \in Owning => Holder = c
  /\ (\A c \in CPU : pc[c] \notin Owning) => Holder = NoCPU
  BY DEF Holder, MutualExclusion

\* Every access is an Acquire, a Release or a stutter of Mutex.
LEMMA StepImplements ==
  IInv /\ IInv' /\ [Next]_vars => [Abstract!Next]_Holder
<1> SUFFICES ASSUME IInv, IInv', [Next]_vars
             PROVE Abstract!Next \/ Holder' = Holder
  OBVIOUS
<1>1. ASSUME \A c \in CPU : pc'[c] \in Owning <=> pc[c] \in Owning
      PROVE Holder' = Holder
  <2>1. CASE \E c \in CPU : pc[c] \in Owning
    BY <1>1, <2>1, HolderIs DEF Holder, MutualExclusion, IInv
  <2>2. CASE \A c \in CPU : pc[c] \notin Owning
    BY <1>1, <2>2 DEF Holder
  <2> QED
    BY <2>1, <2>2
<1>2. ASSUME NEW c \in CPU, Xchg(c) PROVE Abstract!Acquire(c)
  <2>1. Holder = NoCPU
    BY <1>2, HolderIs DEF Xchg, IInv, LockedIffOwned
  <2>2. pc'[c] \in Owning
    BY <1>2 DEF Xchg, Goto, IInv, TypeOK, Owning
  <2>3. Holder' = c
    BY <2>2 DEF Holder, MutualExclusion, IInv
  <2> QED
    BY <2>1, <2>3 DEF Abstract!Acquire
<1>3. ASSUME NEW c \in CPU, Store(c) PROVE Abstract!Release(c)
  <2>1. Holder = c
    BY <1>3, HolderIs DEF Store, Goto, IInv, Owning, Leaving
  <2>2. \A d \in CPU : pc'[d] \notin Owning
    BY <1>3 DEF Store, IInv, LockedIffOwned
  <2>3. Holder' = NoCPU
    BY <2>2 DEF Holder
  <2> QED
    BY <2>1, <2>3 DEF Abstract!Release
<1>4. ASSUME UNCHANGED vars PROVE Holder' = Holder
  BY <1>1, <1>4 DEF vars
<1>5. ASSUME NEW c \in CPU,
             \/ Call(c) \/ Holding(c) \/ HoldingCpu(c) \/ Record(c)
             \/ Unlock(c) \/ Release(c) \/ ReleaseCpu(c) \/ Clear(c) \/ Drain(c)
      PROVE Holder' = Holder
  BY <1>1, <1>5 DEF Call, Holding, HoldingCpu, Record, Unlock, Release,
    ReleaseCpu, Clear, Drain, Goto, Owning, Leaving, IInv, TypeOK, NoFalsePanic
<1> QED
  BY <1>2, <1>3, <1>4, <1>5
  DEF Next, Step, SpinLock, SpinUnlock, Abstract!Next

\* spin_lock and spin_unlock implement a mutual exclusion lock.
THEOREM Implements == Spec => ImplementsMutex
<1>1. Init => Abstract!Init
  BY HolderIs DEF Init, Abstract!Init, Owning, Leaving
<1> QED
  BY <1>1, Invariant, StepImplements, PTL
  DEF Spec, ImplementsMutex, Abstract!Spec

-----------------------------------------------------------------------------
(* The boot.                                                               *)

\* The boot changes the variables of the lock only as the lock does.
LEMMA StepOfLock == [NextSmp]_allVars => [Next]_vars
<1> SUFFICES ASSUME [NextSmp]_allVars PROVE [Next]_vars
  OBVIOUS
<1>1. CASE UNCHANGED allVars
  BY <1>1 DEF allVars
<1>2. CASE BootStep
  BY <1>2 DEF BootStep, Proceed, BootAp
<1>3. ASSUME NEW c \in CPU, ApStep(c)
      PROVE  UNCHANGED vars
  BY <1>3 DEF ApStep, LoadStack, MpMain
<1>4. ASSUME NEW c \in CPU, Enter(c) \/ Run(c)
      PROVE  Next
  BY <1>4 DEF Enter, Run, Leave, Next, Step
<1> QED
  BY <1>1, <1>2, <1>3, <1>4 DEF NextSmp

\* ImplementsSpinLock: the lock does not notice the boot.
THEOREM BootUsesLock == SpecSmp => ImplementsSpinLock
<1>1. InitSmp => Init
  BY DEF InitSmp
<1> QED
  BY <1>1, StepOfLock, PTL DEF SpecSmp, ImplementsSpinLock, Spec

\* NoFalsePanic, of the boot too: the debugging check of spin_lock and
\* spin_unlock never stops a CPU that uses the lock as it should.
THEOREM BootNeverPanics == SpecSmp => []NoFalsePanic
BY BootUsesLock, NoFalsePanicHolds DEF ImplementsSpinLock

\* ImplementsMutex, from the first CPU on: boot_aps holds the lock while the
\* others come up, and none of them is let in beside it.
THEOREM BootImplementsMutex == SpecSmp => ImplementsMutex
BY BootUsesLock, Implements DEF ImplementsSpinLock

-----------------------------------------------------------------------------
(* Stacks.                                                                 *)

\* Where a CPU is in its boot, and what it finds there.
StackInv ==
  /\ phase \in [CPU -> Phase] /\ status \in [CPU -> Status]
  /\ stack \in [CPU -> CPU \cup {NoCPU}]
  /\ turn \in CPU \cup {NoCPU} /\ mpentry_kstack \in CPU \cup {NoCPU}
  /\ pc \in [CPU -> Taking \cup Owning \cup {"outside", "panic"}]
  /\ \A c \in CPU :
       /\ phase[c] # "up" => pc[c] = "outside" /\ status[c] = "unused"
       /\ phase[c] = "entry" => mpentry_kstack = c
       /\ phase[c] \in {"entry", "setup"} => turn = c
       /\ phase[c] \in {"setup", "up"} => stack[c] = c

\* The boot CPU starts on its stack, the others are off.
LEMMA StackInit == InitSmp => StackInv
BY BootAssumption DEF InitSmp, Init, StackInv, Phase, Status

\* No step of any CPU breaks it.
LEMMA StackStep == StackInv /\ [NextSmp]_allVars => StackInv'
<1> SUFFICES ASSUME StackInv, [NextSmp]_allVars PROVE StackInv'
  OBVIOUS
<1>1. CASE UNCHANGED allVars
  BY <1>1 DEF allVars, bootVars, vars, StackInv
<1>2. CASE Proceed
  BY <1>2 DEF Proceed, Acknowledged, StackInv, vars
<1>3. ASSUME NEW c \in CPU, BootAp(c)
      PROVE  StackInv'
  BY <1>3, CpuAssumption DEF BootAp, MayStart, StackInv, Phase, vars
<1>4. ASSUME NEW c \in CPU, LoadStack(c)
      PROVE  StackInv'
  BY <1>4 DEF LoadStack, StackInv, Phase, vars
<1>5. ASSUME NEW c \in CPU, MpMain(c)
      PROVE  StackInv'
  BY <1>5 DEF MpMain, StackInv, Phase, Status, vars
<1>6. ASSUME NEW c \in CPU, Enter(c)
      PROVE  StackInv'
  BY <1>6 DEF Enter, Call, Goto, StackInv, Status, Taking
<1>7. ASSUME NEW c \in CPU, Leave(c)
      PROVE  StackInv'
  BY <1>7 DEF Leave, Unlock, Goto, StackInv, Status, Leaving, Owning
<1>8. ASSUME NEW c \in CPU, SpinLock(c) \/ SpinUnlock(c) \/ Drain(c),
             UNCHANGED bootVars
      PROVE  StackInv'
  BY <1>8 DEF SpinLock, SpinUnlock, Holding, HoldingCpu, Xchg, Record, Release,
     ReleaseCpu, Clear, Store, Drain, Goto, bootVars, StackInv, Taking, Leaving,
     Owning
<1> QED
  BY <1>1, <1>2, <1>3, <1>4, <1>5, <1>6, <1>7, <1>8
     DEF NextSmp, BootStep, ApStep, Run

\* OwnStack: boot_aps gives mpentry_kstack to the next CPU only when the last
\* one has loaded it, so no two CPUs ever run on one stack.
THEOREM OwnStackHolds == SpecSmp => []OwnStack
<1>1. StackInv => OwnStack
  BY DEF StackInv, OwnStack
<1> QED
  BY StackInit, StackStep, <1>1, PTL DEF SpecSmp

\* TypeSmp: every variable of the lock and of the boot keeps its type.
THEOREM TypeSmpHolds == SpecSmp => []TypeSmp
<1>1. SpecSmp => []TypeOK
  <2>1. IInv => TypeOK
    BY DEF IInv
  <2> QED
    BY BootUsesLock, Invariant, <2>1, PTL DEF ImplementsSpinLock
<1>2. TypeOK /\ StackInv => TypeSmp
  BY DEF StackInv, TypeSmp
<1> QED
  BY StackInit, StackStep, <1>1, <1>2, PTL DEF SpecSmp
=============================================================================
