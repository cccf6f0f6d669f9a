------------------------------ MODULE ForkCow ------------------------------
(***************************************************************************)
(* Copy-on-write fork in user space (lib/fork.c, lib/pgfault.c) on top of  *)
(* the memory system calls (kern/syscall.c) and the page fault upcall      *)
(* (kern/trap.c).                                                          *)
(*                                                                         *)
(* Every system call is one step.  Between two of them the parent's own    *)
(* library code pushes to its stack, which may be copy-on-write already:   *)
(* the fault is then handled in the middle of fork.  Other environments    *)
(* run, fault, fork and die at any moment.                                 *)
(*                                                                         *)
(* The contents of a page are the part a program can observe later.  What  *)
(* fork's own calls push lies below the stack pointer the child starts     *)
(* with, so a Push writes nothing the child reads; it can only fault.      *)
(***************************************************************************)
EXTENDS Naturals

CONSTANTS
  Env, First,   \* environment slots, and the one that runs at the start
  NVA,          \* virtual pages below USTACKTOP; the highest is the stack
  Shared,       \* those mapped PTE_SHARE
  ReadOnly,     \* those mapped without PTE_W: the program's text
  Page,         \* physical pages, numbers
  LowMemory,    \* no page may be left for the page tables of a child
  Value, Zero   \* contents of a page; a fresh page is zero

VA == 0..NVA-1
Stack == NVA-1
XStack == NVA         \* UXSTACKTOP - PGSIZE, above the pages fork copies
PfTemp == NVA+1       \* PFTEMP
Addr == VA \cup {XStack, PfTemp}
Private == VA \ (Shared \cup ReadOnly)

ASSUME ForkAssumption ==
  /\ First \in Env
  /\ NVA \in Nat \ {0}
  /\ Shared \subseteq VA \ {Stack} /\ ReadOnly \subseteq VA \ {Stack}
  /\ Shared \cap ReadOnly = {}
  /\ Page \subseteq Nat /\ VA \subseteq Page
  /\ Zero \in Value /\ LowMemory \in BOOLEAN

\* PTE_W, PTE_COW, PTE_W|PTE_SHARE, neither of them, or not present.
Perm == {"W", "COW", "SHARE", "R", "none"}
Step == {"idle", "exofork", "look", "mapChild", "mapSelf", "xstack", "upcall",
         "start"}
FaultStep == {"none", "alloc", "copy", "map", "unmap", "entry", "retry"}

VARIABLES
  perm,      \* perm[e][v]: permission of e's page table entry for v
  page,      \* page[e][v]: the page it refers to; meaningful if present
  content,   \* content[p]: what page p holds
  status,    \* "free", "embryo" (created, not yet runnable) or "alive"
  upcall,    \* env_pgfault_upcall is set, and _pgfault_handler with it
  fork,      \* fork[e]: the next step of e's call of fork
  child,     \* child[e]: the environment that call creates
  at,        \* at[e]: the page the loop of that call has reached
  seen,      \* seen[e]: the permission duppage read from uvpt
  fault,     \* fault[e]: the next step of e's page fault handler
  addr,      \* addr[e]: the page it makes private
  target,    \* target[e]: the page the program was writing
  pending    \* pending[e]: the value of the write that faulted

memVars == <<perm, page, content>>
forkVars == <<fork, child, at, seen>>
faultVars == <<fault, addr, target, pending>>
vars == <<memVars, status, upcall, forkVars, faultVars>>

Init ==
  /\ perm = [e \in Env |-> [v \in Addr |->
               IF e # First \/ v \notin VA THEN "none"
               ELSE IF v \in Shared THEN "SHARE"
               ELSE IF v \in ReadOnly THEN "R" ELSE "W"]]
  /\ page = [e \in Env |-> [v \in Addr |->
               IF v \in VA THEN v ELSE 0]]
  /\ content = [p \in Page |-> Zero]
  /\ status = [e \in Env |-> IF e = First THEN "alive" ELSE "free"]
  /\ upcall = [e \in Env |-> FALSE]
  /\ fork = [e \in Env |-> "idle"]
  /\ child = [e \in Env |-> First]
  /\ at = [e \in Env |-> 0]
  /\ seen = [e \in Env |-> "none"]
  /\ fault = [e \in Env |-> "none"]
  /\ addr = [e \in Env |-> 0]
  /\ target = [e \in Env |-> 0]
  /\ pending = [e \in Env |-> Zero]

Present(e, v) == perm[e][v] # "none"
Free == {p \in Page : \A e \in Env : \A v \in Addr :
           Present(e, v) => page[e][v] # p}

\* e executes its own code, not its page fault handler.
Runs(e) == status[e] = "alive" /\ fault[e] = "none"
In(e, s) == Runs(e) /\ fork[e] = s
Goto(e, s) == fork' = [fork EXCEPT ![e] = s]

\* The locals of a call are gone when it returns.
Leave(e) ==
  /\ Goto(e, "idle")
  /\ child' = [child EXCEPT ![e] = First]
  /\ at' = [at EXCEPT ![e] = 0]
  /\ seen' = [seen EXCEPT ![e] = "none"]
Handling(e, s) == status[e] = "alive" /\ fault[e] = s
Then(e, s) == fault' = [fault EXCEPT ![e] = s]
Return(e) ==
  /\ Then(e, "none")
  /\ addr' = [addr EXCEPT ![e] = 0]
  /\ target' = [target EXCEPT ![e] = 0]
  /\ pending' = [pending EXCEPT ![e] = Zero]

-----------------------------------------------------------------------------
(* System calls.                                                           *)

\* A page without mappings is free; page_alloc clears it for its next owner.
Reclaim == content' = [p \in Page |->
  IF \E e \in Env : \E v \in Addr : perm'[e][v] # "none" /\ page'[e][v] = p
  THEN content[p] ELSE Zero]

\* sys_page_alloc: a zeroed page, here the lowest free one, writable at v of e.
PageAlloc(e, v) ==
  \E p \in Free :
    /\ \A q \in Free : p <= q
    /\ perm' = [perm EXCEPT ![e][v] = "W"]
    /\ page' = [page EXCEPT ![e][v] = p]
    /\ content' = [content EXCEPT ![p] = Zero]

\* sys_page_map: e's page at v becomes d's page at w.
PageMap(e, v, d, w, r) ==
  /\ perm' = [perm EXCEPT ![d][w] = r]
  /\ page' = [page EXCEPT ![d][w] = page[e][v]]
  /\ Reclaim

PageUnmap(e, v) ==
  /\ perm' = [perm EXCEPT ![e][v] = "none"]
  /\ page' = [page EXCEPT ![e][v] = 0]
  /\ Reclaim

\* env_free: an environment exits or is destroyed.  A child it was about to
\* start stays behind, not runnable.  A panic is a Die too; that it stops the
\* whole machine is left out, which allows more.
Die(e) ==
  /\ status[e] = "alive"
  /\ status' = [status EXCEPT ![e] = "free"]
  /\ perm' = [perm EXCEPT ![e] = [v \in Addr |-> "none"]]
  /\ page' = [page EXCEPT ![e] = [v \in Addr |-> 0]]
  /\ upcall' = [upcall EXCEPT ![e] = FALSE]
  /\ Reclaim
  /\ Leave(e) /\ Return(e)

-----------------------------------------------------------------------------
(* Writes, the kernel's page_fault_handler and the handler pgfault.        *)

Write(e, v, x) ==
  /\ content' = [content EXCEPT ![page[e][v]] = x]
  /\ UNCHANGED <<perm, page>>

\* A write by the program itself.
Store(e, v, x) ==
  /\ In(e, "idle") /\ perm[e][v] = "W"
  /\ Write(e, v, x)
  /\ UNCHANGED <<status, upcall, forkVars, faultVars>>

\* page_fault_handler: branch to the upcall on the exception stack, or destroy
\* an environment that has no upcall or no exception stack.  The handler panics
\* at once when the page is not copy-on-write.
Fault(e, v, x) ==
  /\ Runs(e) /\ perm[e][v] \in {"COW", "R", "none"}
  /\ IF upcall[e] /\ perm[e][XStack] = "W" /\ perm[e][v] = "COW"
     THEN /\ Then(e, "alloc")
          /\ addr' = [addr EXCEPT ![e] = v]
          /\ target' = [target EXCEPT ![e] = v]
          /\ pending' = [pending EXCEPT ![e] = x]
          /\ UNCHANGED <<memVars, status, upcall, forkVars>>
     ELSE Die(e)

StoreFaults(e, v, x) == fork[e] = "idle" /\ Fault(e, v, x)

\* Between two system calls of fork the stack is written.
Push(e) == fork[e] # "idle" /\ Fault(e, Stack, Zero)

HandlerAlloc(e) ==
  /\ Handling(e, "alloc")
  /\ \/ /\ PageAlloc(e, PfTemp)
        /\ Then(e, "copy")
        /\ UNCHANGED <<status, upcall, forkVars, addr, target, pending>>
     \/ Free = {} /\ Die(e)

\* Mutant: the new page is mapped without the old contents.
HandlerCopy_Forgotten(e) ==
  /\ Handling(e, "copy")
  /\ Then(e, "map")
  /\ UNCHANGED <<memVars, status, upcall, forkVars, addr, target, pending>>

HandlerCopy(e) ==
  /\ Handling(e, "copy")
  /\ content' = [content EXCEPT ![page[e][PfTemp]] = content[page[e][addr[e]]]]
  /\ Then(e, "map")
  /\ UNCHANGED <<perm, page, status, upcall, forkVars, addr, target, pending>>

HandlerMap(e) ==
  /\ Handling(e, "map")
  /\ PageMap(e, PfTemp, e, addr[e], "W")
  /\ Then(e, "unmap")
  /\ UNCHANGED <<status, upcall, forkVars, addr, target, pending>>

HandlerUnmap(e) ==
  /\ Handling(e, "unmap")
  /\ PageUnmap(e, PfTemp)
  /\ Then(e, "entry")
  /\ UNCHANGED <<status, upcall, forkVars, addr, target, pending>>

\* _pgfault_upcall pushes the return address to the stack of the program, which
\* may be copy-on-write itself: a fault while the handler runs.
PushEip(e) ==
  /\ Handling(e, "entry")
  /\ IF perm[e][Stack] = "COW"
     THEN Then(e, "alloc") /\ addr' = [addr EXCEPT ![e] = Stack]
     ELSE Then(e, "retry") /\ UNCHANGED addr
  /\ UNCHANGED <<memVars, status, upcall, forkVars, target, pending>>

\* The instruction that faulted is executed again, and no longer faults.
Retry(e) ==
  /\ Handling(e, "retry") /\ perm[e][target[e]] = "W"
  /\ IF fork[e] = "idle" THEN Write(e, target[e], pending[e])
                         ELSE UNCHANGED memVars
  /\ Return(e)
  /\ UNCHANGED <<status, upcall, forkVars>>

-----------------------------------------------------------------------------
(* fork.                                                                   *)

\* set_pgfault_handler allocates the exception stack the first time.
SetHandler(e) ==
  /\ In(e, "idle")
  /\ \/ /\ IF upcall[e] THEN UNCHANGED memVars ELSE PageAlloc(e, XStack)
        /\ upcall' = [upcall EXCEPT ![e] = TRUE]
        /\ Goto(e, "exofork")
        /\ UNCHANGED <<status, child, at, seen, faultVars>>
     \/ ~upcall[e] /\ Free = {} /\ Die(e)

\* sys_exofork: a child with an empty address space and no upcall.
Exofork(e) ==
  /\ In(e, "exofork")
  /\ \/ \E c \in Env :
          /\ status[c] = "free"
          /\ status' = [status EXCEPT ![c] = "embryo"]
          /\ child' = [child EXCEPT ![e] = c]
          /\ at' = [at EXCEPT ![e] = 0]
          /\ Goto(e, "look")
          /\ UNCHANGED <<memVars, upcall, seen, faultVars>>
     \/ (\A c \in Env : status[c] # "free") /\ Die(e)

\* Mutant: the loop goes one page too far, to the exception stack.
Look_OneTooFar(e) ==
  /\ In(e, "look")
  /\ IF at[e] = NVA + 1
     THEN Goto(e, "xstack") /\ UNCHANGED <<at, seen>>
     ELSE /\ Goto(e, "mapChild")
          /\ seen' = [seen EXCEPT ![e] = perm[e][at[e]]]
          /\ UNCHANGED at
  /\ UNCHANGED <<memVars, status, upcall, child, faultVars>>

\* The loop of fork and the first lines of duppage: read uvpt[pn].
Look(e) ==
  /\ In(e, "look")
  /\ IF at[e] = NVA
     THEN Goto(e, "xstack") /\ UNCHANGED <<at, seen>>
     ELSE IF Present(e, at[e])
     THEN /\ Goto(e, "mapChild")
          /\ seen' = [seen EXCEPT ![e] = perm[e][at[e]]]
          /\ UNCHANGED at
     ELSE at' = [at EXCEPT ![e] = @ + 1] /\ UNCHANGED <<fork, seen>>
  /\ UNCHANGED <<memVars, status, upcall, child, faultVars>>

NextPage(e) == at' = [at EXCEPT ![e] = @ + 1] /\ Goto(e, "look")

\* The child's mapping first.  A shared page that cannot be mapped is skipped,
\* because fork ignores what duppage returns; any other failure panics.
MapChild(e) ==
  /\ In(e, "mapChild")
  /\ \/ /\ seen[e] \in {"SHARE", "R"}
        /\ PageMap(e, at[e], child[e], at[e], seen[e])
        /\ NextPage(e)
        /\ UNCHANGED <<status, upcall, child, seen, faultVars>>
     \/ /\ seen[e] \in {"W", "COW"}
        /\ PageMap(e, at[e], child[e], at[e], "COW")
        /\ Goto(e, "mapSelf")
        /\ UNCHANGED <<status, upcall, child, at, seen, faultVars>>
     \/ /\ LowMemory /\ seen[e] = "SHARE"
        /\ NextPage(e)
        /\ UNCHANGED <<memVars, status, upcall, child, seen, faultVars>>
     \/ LowMemory /\ seen[e] # "SHARE" /\ Die(e)

\* Mutant: a page that is copy-on-write already is left as it is.
MapSelf_SkipCow(e) ==
  /\ In(e, "mapSelf")
  /\ IF seen[e] = "COW" THEN UNCHANGED memVars
                        ELSE PageMap(e, at[e], e, at[e], "COW")
  /\ NextPage(e)
  /\ UNCHANGED <<status, upcall, child, seen, faultVars>>

\* Then the parent's own, copy-on-write whatever it was: a fault since Look
\* may have made it writable again.
MapSelf(e) ==
  /\ In(e, "mapSelf")
  /\ PageMap(e, at[e], e, at[e], "COW")
  /\ NextPage(e)
  /\ UNCHANGED <<status, upcall, child, seen, faultVars>>

\* The child's exception stack is a page of its own.
AllocXStack(e) ==
  /\ In(e, "xstack")
  /\ \/ /\ PageAlloc(child[e], XStack)
        /\ Goto(e, "upcall")
        /\ UNCHANGED <<status, upcall, child, at, seen, faultVars>>
     \/ (Free = {} \/ LowMemory) /\ Die(e)

\* Mutant: the child starts without an upcall.
SetUpcall_Forgotten(e) ==
  /\ In(e, "upcall")
  /\ Goto(e, "start")
  /\ UNCHANGED <<memVars, status, upcall, child, at, seen, faultVars>>

SetUpcall(e) ==
  /\ In(e, "upcall")
  /\ upcall' = [upcall EXCEPT ![child[e]] = TRUE]
  /\ Goto(e, "start")
  /\ UNCHANGED <<memVars, status, child, at, seen, faultVars>>

Start(e) ==
  /\ In(e, "start")
  /\ status' = [status EXCEPT ![child[e]] = "alive"]
  /\ Leave(e)
  /\ UNCHANGED <<memVars, upcall, faultVars>>

-----------------------------------------------------------------------------
Handler(e) ==
  HandlerAlloc(e) \/ HandlerCopy(e) \/ HandlerMap(e) \/ HandlerUnmap(e)
  \/ PushEip(e) \/ Retry(e)
ForkStep(e) ==
  Exofork(e) \/ Look(e) \/ MapChild(e) \/ MapSelf(e) \/ AllocXStack(e)
  \/ SetUpcall(e) \/ Start(e)
Program(e) ==
  \/ SetHandler(e)
  \/ \E v \in Private \cup ReadOnly, x \in Value :
       Store(e, v, x) \/ StoreFaults(e, v, x)

Next == \E e \in Env :
  Program(e) \/ Push(e) \/ Handler(e) \/ ForkStep(e) \/ Die(e)

Spec == Init /\ [][Next]_vars

-----------------------------------------------------------------------------
(* Properties.                                                             *)

TypeOK ==
  /\ perm \in [Env -> [Addr -> Perm]]
  /\ page \in [Env -> [Addr -> Page \cup {0}]]
  /\ content \in [Page -> Value]
  /\ status \in [Env -> {"free", "embryo", "alive"}]
  /\ upcall \in [Env -> BOOLEAN]
  /\ fork \in [Env -> Step] /\ child \in [Env -> Env]
  /\ at \in [Env -> 0..NVA] /\ seen \in [Env -> Perm]
  /\ fault \in [Env -> FaultStep]
  /\ addr \in [Env -> VA] /\ target \in [Env -> VA] /\ pending \in [Env -> Value]

\* A page some environment can write without a fault is mapped by nobody else,
\* unless it is shared on purpose.  The parent of a fork in progress and its
\* child, which does not run yet, are the one exception.
WritableIsPrivate == \A e, d \in Env : \A v, w \in Addr :
  /\ status[e] = "alive" /\ status[d] = "alive"
  /\ perm[e][v] = "W" /\ Present(d, w) /\ page[e][v] = page[d][w]
  => e = d /\ (v = w \/ PfTemp \in {v, w})

\* An environment with a copy-on-write page survives the fault: upcall and
\* exception stack are there before the first page is made copy-on-write and
\* before a child runs, and when the handler returns the page is writable.
CowIsHandled == \A e \in Env : status[e] = "alive" =>
  /\ (\E v \in VA : perm[e][v] = "COW") => upcall[e] /\ perm[e][XStack] = "W"
  /\ fault[e] = "retry" => perm[e][target[e]] = "W" /\ perm[e][Stack] = "W"

Contents(e) == [v \in Private |->
  IF status[e] = "alive" THEN content[page[e][v]] ELSE Zero]
Alive == {e \in Env : status[e] = "alive"}
Mem == [e \in Env |-> Contents(e)]
Abstract == INSTANCE PrivateMemory WITH
  Addr <- Private, alive <- Alive, mem <- Mem

\* What an environment reads is what it wrote itself, or what its parent had
\* written when it called fork: copy-on-write implements private copies.
ImplementsPrivateMemory == Abstract!Spec
=============================================================================
