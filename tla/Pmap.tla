-------------------------------- MODULE Pmap --------------------------------
(***************************************************************************)
(* Physical pages, page tables and TLBs of JOS: the page allocator, page   *)
(* insertion and removal (kern/pmap.c) and every kernel path that edits an *)
(* address space (kern/syscall.c, kern/env.c), on several CPUs.            *)
(*                                                                         *)
(* The kernel runs under the big lock, so an action is one whole trap: it  *)
(* ends in env_run or sched_halt, whose lcr3 empties the TLB of its own    *)
(* CPU (tlb_invalidate, which acts on that CPU too, adds nothing to it).   *)
(* Between traps the MMU of every CPU fills its TLB on its own.  Which     *)
(* environment sched_yield prefers is left open; Kernel models that, and   *)
(* what goes wrong when a program destroys a zombie a second time.         *)
(***************************************************************************)
EXTENDS Integers, FiniteSets, Sequences, SequencesExt

CONSTANTS
  CPU, Env, Page,
  None,       \* no page, no environment, no mapping
  First,      \* the environment i386_init creates
  NVA,        \* virtual pages below UTOP: 1..NVA
  PerTable,   \* virtual pages one page table holds
  Perms,      \* the permissions programs pass to the system calls
  Careful     \* programs edit another environment only while it cannot run

VA == 1..NVA
PDX(v) == 1 + (v - 1) \div PerTable
NPDE == PDX(NVA)
PDE == 1..NPDE
Status == {"FREE", "DYING", "RUNNABLE", "RUNNING", "NOT_RUNNABLE"}
NoPage == NVA + 1                   \* dstva or srcva at or above UTOP

Mapping == [page : Page, perm : SUBSET {"U", "W"}]

ASSUME PmapAssumption ==
  /\ None \notin CPU \cup Env \cup Page \cup Mapping \cup (1..NoPage)
  /\ First \in Env /\ NVA \in Nat \ {0} /\ PerTable \in Nat \ {0}
  /\ Perms \subseteq SUBSET {"U", "W"} /\ Careful \in BOOLEAN
  /\ IsFiniteSet(Page) /\ Cardinality(Page) >= 3 /\ IsFiniteSet(Env)

VARIABLES
  mem,        \* pages[] and every page table, see Memory
  status,     \* envs[e].env_status
  parent,     \* envs[e].env_parent_id, None once that environment is gone
  recv,       \* where e, blocked in sys_ipc_recv, wants a page; None if not
  run,        \* the curenv of each CPU, whose page directory is in cr3
  tlb         \* tlb[c]: the translations CPU c has cached

vars == <<mem, status, parent, recv, run, tlb>>

Memory == [ref : [Page -> Nat],                     \* pp_ref
           free : Seq(Page),                        \* page_free_list
           pd : [Env -> Page \cup {None}],          \* env_pgdir
           pt : [Env -> [PDE -> Page \cup {None}]], \* page directory entries
           pte : [Env -> [VA -> Mapping \cup {None}]]]
Cached == [va : VA, page : Page, perm : SUBSET {"U", "W"}]

-----------------------------------------------------------------------------
(* The page allocator and page table manipulation.                         *)

Popped(m) == [m EXCEPT !.free = Tail(@)]                    \* page_alloc
Pushed(m, p) == [m EXCEPT !.free = <<p>> \o @]              \* page_free
IncRef(m, p) == [m EXCEPT !.ref[p] = @ + 1]

\* Mutant: a page is freed while one reference is left.
DecRef_Early(m, p) ==
  LET n == [m EXCEPT !.ref[p] = @ - 1] IN
  IF n.ref[p] <= 1 THEN Pushed(n, p) ELSE n

\* page_decref.
DecRef(m, p) ==
  LET n == [m EXCEPT !.ref[p] = @ - 1] IN
  IF n.ref[p] = 0 THEN Pushed(n, p) ELSE n

CanWalk(m, e, v) == m.pt[e][PDX(v)] # None \/ m.free # <<>>

\* Mutant: the new page table is not counted.
Walk_NoRef(m, e, v) ==
  IF m.pt[e][PDX(v)] # None THEN m
  ELSE [Popped(m) EXCEPT !.pt[e][PDX(v)] = Head(m.free)]

\* pgdir_walk with create: a missing page table is allocated, all zero.
Walk(m, e, v) ==
  IF m.pt[e][PDX(v)] # None THEN m
  ELSE [IncRef(Popped(m), Head(m.free)) EXCEPT
          !.pt[e][PDX(v)] = Head(m.free)]

PageRemove(m, e, v) ==
  IF m.pte[e][v] = None THEN m
  ELSE [DecRef(m, m.pte[e][v].page) EXCEPT !.pte[e][v] = None]

\* Mutant: the old mapping is removed before the new reference is counted.
PageInsert_RemoveFirst(m, e, p, v, perm) ==
  [IncRef(PageRemove(Walk(m, e, v), e, v), p) EXCEPT
     !.pte[e][v] = [page |-> p, perm |-> perm]]

\* page_insert: the count goes up before the old mapping, perhaps of the same
\* page, is removed.
PageInsert(m, e, p, v, perm) ==
  [PageRemove(IncRef(Walk(m, e, v), p), e, v) EXCEPT
     !.pte[e][v] = [page |-> p, perm |-> perm]]

\* page_remove on every virtual page in vs, in ascending order.
RemoveAll(m, e, vs) ==
  LET n[v \in 0..NVA] == IF v = 0 THEN m
                         ELSE IF v \in vs THEN PageRemove(n[v-1], e, v) ELSE n[v-1]
  IN  n[NVA]

\* env_setup_vm: a page for the page directory.
NewSpace(m, e) == [IncRef(Popped(m), Head(m.free)) EXCEPT !.pd[e] = Head(m.free)]

\* Mutant: the loop over a page table stops one entry early.
FreeTable_OffByOne(m, e, i) ==
  IF m.pt[e][i] = None THEN m
  ELSE LET n == RemoveAll(m, e, {v \in VA : PDX(v) = i /\ PDX(v + 1) = i})
       IN  [DecRef(n, n.pt[e][i]) EXCEPT !.pt[e][i] = None]

\* env_free: one page table after the other, then the page directory.
FreeTable(m, e, i) ==
  IF m.pt[e][i] = None THEN m
  ELSE LET n == RemoveAll(m, e, {v \in VA : PDX(v) = i})
       IN  [DecRef(n, n.pt[e][i]) EXCEPT !.pt[e][i] = None]

FreeTables(m, e) ==
  LET n[i \in 0..NPDE] == IF i = 0 THEN m ELSE FreeTable(n[i-1], e, i)
  IN  n[NPDE]

\* Mutant: the page tables are not given back.
FreeSpace_KeepTables(m, e) ==
  LET n == RemoveAll(m, e, VA)
  IN  [DecRef(n, n.pd[e]) EXCEPT
         !.pd[e] = None, !.pt[e] = [i \in PDE |-> None]]

FreeSpace(m, e) ==
  LET n == FreeTables(m, e)
  IN  [DecRef(n, n.pd[e]) EXCEPT !.pd[e] = None]

-----------------------------------------------------------------------------
(* The way out of the kernel: env_run or sched_halt.                       *)

\* Mutant: env_run does not load cr3.
Lcr3_Forgotten(c) == UNCHANGED tlb

Lcr3(c) == tlb' = [tlb EXCEPT ![c] = {}]

\* env_run(f) on a CPU whose curenv is cur, statuses being st.
EnvRun(c, cur, f, st) ==
  /\ run' = [run EXCEPT ![c] = f]
  /\ status' = [e \in Env |->
       CASE e = f -> "RUNNING"
         [] e = cur /\ e # f /\ st[e] = "RUNNING" -> "RUNNABLE"
         [] OTHER -> st[e]]
  /\ Lcr3(c)

SchedYield(c, cur, st) ==
  \/ \E f \in Env : st[f] = "RUNNABLE" /\ EnvRun(c, cur, f, st)
  \/ /\ \A f \in Env : st[f] # "RUNNABLE"
     /\ IF cur # None /\ st[cur] = "RUNNING" THEN EnvRun(c, cur, cur, st)
        ELSE /\ run' = [run EXCEPT ![c] = None]          \* sched_halt
             /\ status' = st
             /\ Lcr3(c)

\* The end of trap().
Return(c, st) ==
  IF st[run[c]] = "RUNNING" THEN EnvRun(c, run[c], run[c], st)
  ELSE SchedYield(c, run[c], st)

\* A system call of CPU c's environment, which is not a zombie.
Calling(c) == run[c] # None /\ status[run[c]] # "DYING"

\* envid2env with checkperm: itself or one of its children.
Permitted(c, e) ==
  /\ status[e] # "FREE" /\ (e = run[c] \/ parent[e] = run[c])
  /\ Careful => e = run[c] \/ status[e] = "NOT_RUNNABLE"

-----------------------------------------------------------------------------
(* System calls that edit an address space.                                *)

\* Mutant: the page is not given back when there is no room for a table.
SysPageAlloc_Leak(c, e, v, perm) ==
  /\ Calling(c) /\ Permitted(c, e)
  /\ LET p == Head(mem.free) m == Popped(mem) IN
     mem' = CASE mem.free = <<>> -> mem
              [] mem.free # <<>> /\ ~CanWalk(m, e, v) -> m
              [] OTHER -> PageInsert(m, e, p, v, perm)
  /\ Return(c, status)
  /\ UNCHANGED <<parent, recv>>

SysPageAlloc(c, e, v, perm) ==
  /\ Calling(c) /\ Permitted(c, e)
  /\ LET p == Head(mem.free) m == Popped(mem) IN
     mem' = CASE mem.free = <<>> -> mem
              [] mem.free # <<>> /\ ~CanWalk(m, e, v) -> Pushed(m, p)
              [] OTHER -> PageInsert(m, e, p, v, perm)
  /\ Return(c, status)
  /\ UNCHANGED <<parent, recv>>

\* Mutant: write permission is not checked against the source mapping.
MayShare_Any(e, v, perm) == mem.pte[e][v] # None

\* The source page is there, and writable if write permission is asked for.
MayShare(e, v, perm) ==
  mem.pte[e][v] # None /\ ("W" \in perm => "W" \in mem.pte[e][v].perm)

SysPageMap(c, s, sv, d, dv, perm) ==
  /\ Calling(c) /\ Permitted(c, s) /\ Permitted(c, d)
  /\ mem' = IF MayShare(s, sv, perm) /\ CanWalk(mem, d, dv)
            THEN PageInsert(mem, d, mem.pte[s][sv].page, dv, perm) ELSE mem
  /\ Return(c, status)
  /\ UNCHANGED <<parent, recv>>

SysPageUnmap(c, e, v) ==
  /\ Calling(c) /\ Permitted(c, e)
  /\ mem' = PageRemove(mem, e, v)
  /\ Return(c, status)
  /\ UNCHANGED <<parent, recv>>

SysIpcRecv(c, dstva) ==
  /\ Calling(c)
  /\ recv' = [recv EXCEPT ![run[c]] = dstva]
  /\ SchedYield(c, run[c], [status EXCEPT ![run[c]] = "NOT_RUNNABLE"])
  /\ UNCHANGED <<mem, parent>>

\* sys_ipc_try_send: the page, if the sender gives one and the receiver wants
\* one, is mapped into the blocked receiver.
SysIpcTrySend(c, e, srcva, perm) ==
  LET page == srcva # NoPage /\ recv[e] # NoPage
      ok == /\ srcva # NoPage => MayShare(run[c], srcva, perm)
            /\ page => CanWalk(mem, e, recv[e])
  IN  /\ Calling(c) /\ status[e] # "FREE" /\ recv[e] # None
      /\ mem' = IF ok /\ page THEN PageInsert(mem, e,
                  mem.pte[run[c]][srcva].page, recv[e], perm) ELSE mem
      /\ recv' = IF ok THEN [recv EXCEPT ![e] = None] ELSE recv
      /\ Return(c, IF ok THEN [status EXCEPT ![e] = "RUNNABLE"] ELSE status)
      /\ UNCHANGED parent

-----------------------------------------------------------------------------
(* System calls and traps that create, start and free environments.        *)

\* sys_exofork, which fails without a page for the directory.
SysExofork(c) ==
  /\ Calling(c)
  /\ IF mem.free = <<>> \/ \A e \in Env : status[e] # "FREE"
     THEN Return(c, status) /\ UNCHANGED <<mem, parent, recv>>
     ELSE \E e \in Env : /\ status[e] = "FREE"
                         /\ mem' = NewSpace(mem, e)
                         /\ parent' = [parent EXCEPT ![e] = run[c]]
                         /\ recv' = [recv EXCEPT ![e] = None]
                         /\ Return(c, [status EXCEPT ![e] = "NOT_RUNNABLE"])

\* sys_env_set_status as lib/fork.c and lib/spawn.c use it.
SysEnvSetStatus(c, e) ==
  /\ Calling(c) /\ status[e] = "NOT_RUNNABLE" /\ recv[e] = None
  /\ parent[e] = run[c]
  /\ Return(c, [status EXCEPT ![e] = "RUNNABLE"])
  /\ UNCHANGED <<mem, parent, recv>>

\* env_free: its children have no parent any more, env_id having changed.
EnvFree(e) ==
  /\ mem' = FreeSpace(mem, e)
  /\ parent' = [f \in Env |-> IF parent[f] = e THEN None ELSE parent[f]]
  /\ recv' = [recv EXCEPT ![e] = None]

\* sys_env_destroy of the caller or of a child that is not yet a zombie.
SysEnvDestroy(c, e) ==
  /\ Calling(c) /\ status[e] \notin {"FREE", "DYING"}
  /\ e = run[c] \/ parent[e] = run[c]
  /\ CASE e = run[c] ->
            EnvFree(e) /\ SchedYield(c, None, [status EXCEPT ![e] = "FREE"])
       [] e # run[c] /\ status[e] = "RUNNING" ->
            /\ Return(c, [status EXCEPT ![e] = "DYING"])
            /\ UNCHANGED <<mem, parent, recv>>
       [] OTHER -> EnvFree(e) /\ Return(c, [status EXCEPT ![e] = "FREE"])

\* Any trap of a zombie: trap() frees it.
ReapZombie(c) ==
  /\ run[c] # None /\ status[run[c]] = "DYING"
  /\ EnvFree(run[c])
  /\ SchedYield(c, None, [status EXCEPT ![run[c]] = "FREE"])

\* The timer interrupt, in user mode or in the hlt loop.
Timer(c) ==
  /\ run[c] # None => status[run[c]] = "RUNNING"
  /\ SchedYield(c, run[c], status)
  /\ UNCHANGED <<mem, parent, recv>>

\* The MMU caches a translation the running program uses.
Touch(c, v) ==
  /\ run[c] # None /\ mem.pte[run[c]][v] # None
  /\ "U" \in mem.pte[run[c]][v].perm
  /\ tlb' = [tlb EXCEPT ![c] = @ \cup
       {[va |-> v, page |-> mem.pte[run[c]][v].page,
         perm |-> mem.pte[run[c]][v].perm]}]
  /\ UNCHANGED <<mem, status, parent, recv, run>>

-----------------------------------------------------------------------------
\* i386_init: page_init, then env_create maps the binary of the first
\* environment; the CPUs are about to look for work.
Init ==
  LET boot == [ref |-> [p \in Page |-> 0], free |-> SetToSeq(Page),
               pd |-> [e \in Env |-> None],
               pt |-> [e \in Env |-> [i \in PDE |-> None]],
               pte |-> [e \in Env |-> [v \in VA |-> None]]]
      pgdir == NewSpace(boot, First)
  IN  /\ mem = PageInsert(Popped(pgdir), First, Head(pgdir.free), 1, {"U", "W"})
      /\ status = [e \in Env |-> IF e = First THEN "RUNNABLE" ELSE "FREE"]
      /\ parent = [e \in Env |-> None]
      /\ recv = [e \in Env |-> None]
      /\ run = [c \in CPU |-> None]
      /\ tlb = [c \in CPU |-> {}]

Next ==
  \E c \in CPU :
    \/ \E e \in Env, v \in VA, perm \in Perms : SysPageAlloc(c, e, v, perm)
    \/ \E s, d \in Env, sv, dv \in VA, perm \in Perms :
         SysPageMap(c, s, sv, d, dv, perm)
    \/ \E e \in Env, v \in VA : SysPageUnmap(c, e, v)
    \/ \E dstva \in VA \cup {NoPage} : SysIpcRecv(c, dstva)
    \/ \E e \in Env, srcva \in VA \cup {NoPage}, perm \in Perms :
         SysIpcTrySend(c, e, srcva, perm)
    \/ SysExofork(c)
    \/ \E e \in Env : SysEnvSetStatus(c, e) \/ SysEnvDestroy(c, e)
    \/ ReapZombie(c)
    \/ Timer(c)
    \/ \E v \in VA : Touch(c, v)

Spec == Init /\ [][Next]_vars

-----------------------------------------------------------------------------
TypeOK ==
  /\ mem \in Memory
  /\ status \in [Env -> Status]
  /\ parent \in [Env -> Env \cup {None}]
  /\ recv \in [Env -> VA \cup {NoPage, None}]
  /\ run \in [CPU -> Env \cup {None}]
  /\ tlb \in [CPU -> SUBSET Cached]

Mappers(p) == {x \in Env \X VA : mem.pte[x[1]][x[2]] # None
                                  /\ mem.pte[x[1]][x[2]].page = p}
Tables(p) == {x \in Env \X PDE : mem.pt[x[1]][x[2]] = p}
Directories(p) == {e \in Env : mem.pd[e] = p}

\* pp_ref counts exactly the page table entries, page directory entries and
\* environments that refer to a page, over every error path (kern/pmap.c).
RefExact ==
  \A p \in Page : mem.ref[p] =
    Cardinality(Mappers(p)) + Cardinality(Tables(p)) + Cardinality(Directories(p))

\* page_free_list holds every page without a reference exactly once: none is
\* lost, none is given out while in use, none is freed twice.
FreeListExact ==
  /\ \A p \in Page :
       mem.ref[p] = 0 <=> \E i \in DOMAIN mem.free : mem.free[i] = p
  /\ \A i, j \in DOMAIN mem.free : mem.free[i] = mem.free[j] => i = j

\* A page that serves as page table or page directory serves one environment
\* in one place, and no program has it mapped.
TablesPrivate ==
  \A p \in Page : Tables(p) \cup Directories(p) # {} =>
    Mappers(p) = {} /\ Cardinality(Tables(p)) + Cardinality(Directories(p)) = 1

\* An address space is torn down completely: without a page directory there
\* is no page table, without a page table there is no mapping.
SpaceTree ==
  \A e \in Env :
    /\ mem.pd[e] = None <=> status[e] = "FREE"
    /\ \A i \in PDE : mem.pt[e][i] # None => mem.pd[e] # None
    /\ \A v \in VA : mem.pte[e][v] # None => mem.pt[e][PDX(v)] # None

\* What a CPU has cached of the address space it executes is what the page
\* table says ("The TLB must be invalidated if you remove an entry from the
\* page table", kern/pmap.c).
TlbFresh ==
  \A c \in CPU : \A t \in tlb[c] :
    /\ run[c] # None
    /\ mem.pte[run[c]][t.va] = [page |-> t.page, perm |-> t.perm]

WritableAt(p) == {x \in Mappers(p) : "W" \in mem.pte[x[1]][x[2]].perm}

\* A page that is mapped, but nowhere writable, does not become writable by
\* any call: sys_page_map "must not grant write access to a read-only page".
ReadOnlyStays ==
  [][\A p \in Page : Mappers(p) # {} /\ WritableAt(p) = {} => WritableAt(p)' = {}]_vars
=============================================================================
