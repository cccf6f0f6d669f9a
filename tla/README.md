# A verification development for JOS (lab5)

The repository holds five snapshots of the same operating system; the models follow the last and most complete one, `lab5/`.
JOS is an exokernel-style system: a small multiprocessor kernel (`kern/`), a user library with fork, pipes and IPC (`lib/`), and a file server that is an ordinary environment (`fs/`).
All line numbers below and in `PROJECT.json` are those of `src/lab5`.

Contents: [1 the system](#1-the-system), [2 plan](#2-plan), [3 modules](#3-modules), [4 runs](#4-runs), [5 proofs](#5-proofs), [6 where code and documentation disagree](#6-where-code-and-documentation-disagree), [7 not modelled](#7-not-modelled).

## 1 The system

### Components

| component | state | operations | what makes it correct |
|---|---|---|---|
| environments and scheduling (`kern/env.c`, `sched.c`, `trap.c`, part of `syscall.c`) | `envs[]`, `env_free_list`, `curenv` and `cpu_status` of each CPU | env_alloc, env_free, env_destroy, env_run, sched_yield, sched_halt, trap | an environment is on one CPU, and alive while executed; no slot lost or handed out twice; zombies are freed; nobody starves |
| big kernel lock (`kern/spinlock.c`) | `locked`, `cpu` | spin_lock, spin_unlock | mutual exclusion; the debugging checks never misfire; somebody gets in |
| physical pages and page tables (`kern/pmap.c`, memory calls of `syscall.c`) | `pages[]`, `page_free_list`, page tables, TLBs | page_alloc, page_free, pgdir_walk, page_insert, page_remove, sys_page_alloc/map/unmap | reference counts and free list exact on every error path; complete teardown; no stale translation; read-only pages stay so |
| IPC (`sys_ipc_*`, `lib/ipc.c`) | five fields of `struct Env` | ipc_send with its retry loop, ipc_recv | one send per receive, unmixed; only waiting environments receive; a waiting one is served |
| pipes (`lib/pipe.c`, `lib/fd.c`, `lib/pageref.c`) | ring buffer in a shared page, mappings counted in page tables | read, write, close, dup, _pipeisclosed | bytes in order; end of file means closed; nobody hangs |
| copy-on-write fork (`lib/fork.c`, `lib/pgfault.c`) | permissions of page table entries | fork, duppage, page fault handler | no write of one side is seen by the other |
| file server (`fs/serv.c`, `lib/file.c`) | open file table, `Fd` pages counted by reference | open, read, write, flush, set_size over IPC | stale file ids are refused; request and reply match; a dead client does no harm |
| file system and block cache (`fs/fs.c`, `fs/bc.c`) | bitmap, files, cached and dirty blocks | alloc_block, file_get_block, file_set_size, flush_block | a block belongs to one file; a crash between two writes is survivable |
| console (`kern/console.c`) | input ring | cons_intr, cons_getc | input in order, overrun |
| start-up (`kern/init.c`, `mpconfig.c`, `mpentry.S`) | `mpentry_kstack`, `cpu_status` | boot_aps, mp_main | each AP gets its own stack; the boot ends |
| spawn, wait, shell (`lib/spawn.c`, `lib/wait.c`, `user/sh.c`) | descriptor table, child | spawn, wait | no child or descriptor is leaked on an error path |

Boot loader, monitor, formatting and string code, and the test programs are listed in `PROJECT.json` with the reason they are left out.

### How they interact

A user environment enters the kernel by a trap.
The kernel is one critical section: `trap()` takes the big kernel lock when it comes from user mode or from a halted CPU, `env_run` and `sched_halt` give it back.
Everything a system call does is atomic for the other CPUs, except what happens *outside* the lock: `env_pop_tf` runs after the unlock, the `cpu_status` exchange before the lock, the TLB works all the time, and user libraries read the kernel's `struct Env` and page tables (`envs`, `uvpt`) directly while other CPUs write them.
That last path is how pipes, `wait`, `ipc_recv` and fork see the kernel, and where most of their races come from.

### Hard behaviours

Interleavings of CPUs at the edges of the kernel; an environment destroyed while it runs elsewhere; ids used again; page counts read one after the other; memory that runs out in the middle of a call; polling loops that have to end; a crash between two disk writes.
`PROJECT.json` lists each under `hazards`, at its line, with the property that covers it or the reason none does.

## 2 Plan

Order of work, most important first:

1. **Done.** `Kernel`: environments, scheduler, traps, lock. Proofs in `KernelProofs`.
2. **Done.** `SpinLock` against `Mutex`, with proofs; `SmpBoot`, the boot of the other CPUs on top of it, with proofs.
3. **Done.** `Pmap`: pages, page tables, TLBs, with proofs of all its checked properties.
4. **Done.** `Pipe` against `Fifo`; safety and the refinement proved.
5. **Done.** `Ipc` against `Rendezvous`, with proofs.
6. **Done.** `ForkCow` against `PrivateMemory`: duppage, the fault handler and the fork loop over a small address space; safety and the refinement proved.
7. **Done.** `FileSys` against `FileStore`: bitmap, direct and indirect blocks, growth and truncation, the order of disk writes, crashes; their safety in the cache and on the disk proved.
8. **Done.** `FsServer`: the open file table, generations of file ids, clients that fork, die, or do not wait for their answer; safety proved.
9. Left: the console ring, spawn with its error paths, a `Pipe` with positions of a word's width.
10. Left: a proof of the refinement of `FileStore` by `FileSys`.

## 3 Modules

| module | models | checked by |
|---|---|---|
| `Kernel` | environments, scheduling, traps, lock | `kernel_*` runs |
| `KernelProofs` | proofs about `Kernel` | tlapm |
| `Mutex`, `SpinLock` | the lock, abstract, per instruction | `spinlock`, tlapm |
| `SmpBoot`, `SmpBootProofs` | the boot of the CPUs, with the lock; proofs about both | `spinlock`, tlapm |
| `Pmap`, `MCPmap`, `PmapProofs` | memory; its small instance; proofs | `pmap_safe`, tlapm |
| `Fifo`, `Pipe`, `PipeProofs` | a bounded queue; the pipe code; proofs | `pipe`, `pipe_drained`, tlapm |
| `Rendezvous`, `Ipc`, `IpcProofs` | message passing, abstract, as coded, proofs | `ipc`, tlapm |
| `PrivateMemory`, `ForkCow`, `MCForkCow`, `ForkCowProofs` | what fork promises; copy-on-write; its instance; proofs | `fork`, tlapm |
| `FileStore`, `FileSys`, `MCFileSys`, `MCFileSysIndirect`, `FileSysProofs` | what a file system promises; `fs.c` and `bc.c`; two instances; proofs | `fs`, `fs_indirect`, tlapm |
| `FsServer`, `FsServerProofs` | the file server and its clients; proofs | `fs_server`, tlapm |

Operators whose name ends in `_Something` and that are introduced by "Mutant:" are wrong variants of the definition after them.
They are not used by any specification; each is a plausible bug, and replacing the definition by it makes TLC find a violation (listed under `mutants`).

### Kernel

`pc[c]` says where CPU `c` is: executing a program (`user`), spinning for the lock (`boot`, `trap`, `wake`), in a handler (`kern`, `irq`), at the tail of `trap()` (`ret`), before `sched_yield` (`sched`), before the unlock, between the unlock and `iret` (`popTf`), or asleep (`halted`).
A step goes from one point to the next at which another CPU can interfere.
A handler is one step, because it holds the lock; the actions after it (`SchedYield`, `SchedHalt`, `ReturnToEnv`, `SpinUnlock`, `PopTf`) are separate because the code outside the lock is what other CPUs can meet.
`trapno[c]` holds the interrupt being handled; which system call or fault an `exception` is, the handler chooses.

What the environments do is arbitrary within `Calls`.
`Careful` names the calls programs make only as `lib/` and `user/` do: set_status and set_trapframe only on a child just created and not yet started, and no second destroy of a child.
The restriction is needed: without it the code does violate the properties (section 6).
Deliberate assumptions: a program's own memory is not modelled, so a call that fails and changes nothing is `NoEffect`; the address space of an environment is one flag `pgdir`, which is enough to tell that a freed one is executed or freed again; `KillCurrent` is an environment destroyed for what it did itself.
A panic of a *user* program is left out: it is a breakpoint (`lib/panic.c:24`) that enters the monitor of the kernel with the lock held, and as no command of the monitor returns a negative number (`kern/monitor.c`) nobody gets out, so the machine stops. For safety that is a prefix of a behaviour the model has; the liveness properties of `Kernel` and `Pipe` are about runs in which no program panics. `Ipc` and `FsServer` do model the panics of `ipc_send` and what they stop; in `ForkCow`, where only safety is stated, a panicking environment dies and the others go on, which allows more than the code.
A panic of the *kernel* is in the model: a CPU that traps afterwards stops at the head of `trap()` (`EnterTrap`, `kern/trap.c:258`), before it exchanges `cpu_status`.

### SpinLock and SmpBoot

`SpinLock`: one action per memory access of `spin_lock` and `spin_unlock`, including the two loads of `holding()` that are made without the lock, with a store buffer per CPU (`Drain`): stores to `lk->cpu` may reach memory late, the locked `xchg` empties the buffer.
`pc` "panic" is a failed check of the debugging code.

`SmpBoot` extends it by the boot: `BootAp` and `Proceed` are one turn of the loop of `boot_aps`, `LoadStack` is `mpentry.S`, `MpMain` the part of `mp_main` before `lock_kernel`, `Enter` and `Leave` the ways into and out of the kernel afterwards.
`MayStart` says that `i386_init` holds the lock when it calls `boot_aps`.
`cpu_status` is the acknowledgement `boot_aps` waits for, and later the flag of a CPU asleep; `Leave` may overwrite it with `halted`, which is what the boot would miss if an AP could get there too early.

### Pmap

`mem` holds `pp_ref`, the free list in order, and per environment the page directory, the page tables and the mappings.
Pure operators on `mem` are the functions of `pmap.c` (`Walk`, `PageInsert`, `PageRemove`, `DecRef`, `FreeSpace`), so the order of increment and decrement in `page_insert`, on which its corner case rests, is in them.
An action is one whole trap, which ends with an `lcr3` on the same CPU: `Lcr3` empties that CPU's TLB, and so `tlb_invalidate`, which only acts on that CPU too, is subsumed.
`Touch` is the MMU that loads an entry at any time.
`Careful` lets a program edit another environment's memory only while that one cannot run.
A page-table page has `PerTable` entries instead of 1024.

### Pipe

Reader and writer are two environments after `pipe()` and `fork()`; each memory access and each system call of `lib/pipe.c` is a step.
`maps` are the mappings from which `pageref` computes its counts, `on` is the set of environments executing now, one of them on one CPU, both on two (`smp`, chosen at the start).
`trapped[p]` says that `env_runs` of `p` changed since it was read.
The order of the two `pageref` calls in one expression is left to the compiler, as C does.

### Ipc

The five `env_ipc_*` fields, and the library around them.
A system call is one step; the three loads of `ipc_recv` are three.
Environments exit in any state and their slots are used again; ids are not, so a call that names a dead environment (`live` false) returns `-E_BAD_ENV`.
`sent` is a history variable, the last successful send to each environment; no action reads it.

### ForkCow

Each system call of `fork`, `duppage` and the page fault handler is a step, and so is the read of `uvpt` at the head of `duppage` (`Look`), because the permission it reads is used two system calls later.
`perm` and `page` are the page tables of all environments, over `NVA` pages below `USTACKTOP`, the exception stack and `PFTEMP`.
Between any two calls of fork the stack may be written (`Push`), which faults when the stack is copy-on-write already; the fault is then handled in the middle of fork, and `PushEip` is the push of `_pgfault_upcall` to the stack of the program, which may fault again.
An environment dies at any moment (`Die`); a parent that dies in fork leaves an embryo behind, as the code does.
`page_alloc` gives the lowest free page; which one does not matter, and the view `View` of the run forgets it.
`PrivateMemory` says what fork promises: every environment has a memory, a child starts with a copy.

### FileSys

The server executes one request after the other, so only a crash can see the middle of one, and only on the disk.
An operation is therefore a function from the cached blocks to the cached blocks it leaves and the disk writes it makes, in order (`FlushBlock` writes a block only if it differs, as `flush_block` does with its dirty bit); `WriteOut` makes the writes one by one and `Crash` may come in between.
The operators carry the names of the functions of `fs.c`; an error stops the loops (`Loop`) where the code returns, with what was changed so far left changed.
A block is a record of all the ways to read it (directory entries, pointers, bytes); a byte of a file is the file's name, so a byte of the wrong file is visible.
The bitmap is one block.
No function of `fs.c` sets `f_type`, so no directory can be created, and every file is in the root directory.
`FileStore` says what clients rely on.
The state begins when the server answers requests, after a start or a crash: what its start-up writes is left out (section 7).
`WholeCuts` is a condition on what clients ask: no size that leaves a file some pointers of its indirect block and takes others. `BlocksOwned` and `ImplementsFileStore` hold under it only.

### FsServer

An open file is a page shared between the server and its clients, and the server sees only its reference count.
`fd[c][n]` is the mapping of descriptor `n` of client `c`; `PageRef` is `pageref`, and `Available`, `InUse` and `Names` are the tests of `openfile_alloc` and `openfile_lookup`.
`close`, `dup` and `exit` send a flush request first and change the mapping when the answer is there (`after`).
`Scan` is one turn of the loop of `openfile_alloc`; clients unmap pages between two turns.
`Reply` is the server's `ipc_send`.
`Panics` are the values of `srv` after a panic, and `Up` says that there was none: a client could not map its first request into the server (`requestUnmapped`), the server's `ipc_send` met a dead client (`clientDied`) or one without memory for the page table of its first descriptor (`fdUnmapped`), or the file system panicked in the operation (`operation`), for example in `bc_pgfault` without memory. Each is a breakpoint and stops everybody.
`Forgers` send any id they ever saw, as a program may that calls the server itself.
`issued` and `full` are history variables.

## 4 Runs

| run | instance | shows |
|---|---|---|
| `kernel_safe` | 2 CPUs, 3 slots, all calls, timer and serial interrupts, careful programs, fair | the safety properties of `Kernel`; destroyed environments are freed unless the kernel panics |
| `kernel_starve` | 2 CPUs, 4 environments, timer, keyboard and spurious interrupts, fair | round robin starves nobody while none exits |
| `spinlock` | 3 CPUs from power-on, store buffers, fair | own stacks, the boot ends; mutex, no false panic, no livelock, from the first CPU on |
| `pmap_safe` | 2 CPUs, 2 environments, 5 pages, 3 virtual pages in 2 tables | counts, free list, teardown, TLBs, read-only sharing |
| `pipe` | ring of 2, 3 bytes, 2 dups, one or two CPUs, fair | FIFO, honest end of file, termination |
| `ipc` | 3 environments, 2 values, one receiver, fair | refinement of `Rendezvous`, honest page announcements, service |
| `fork` | 2 environments, 4 virtual pages (text, shared, data, stack), 9 pages, memory that runs out | private memories, no writable page with two readers, no unhandled copy-on-write page |
| `fs` | 7 blocks, 3 files, one direct and two indirect pointers, a crash, `WholeCuts` | one owner per block, nothing lost, files keep their bytes, flushed files survive |
| `fs_server` | 2 clients, 2 entries, 2 descriptors, 3 opens, fair | descriptors name their file, ids that are closed everywhere are refused, entries come back, requests are answered unless somebody panics |
| `kernel_intr_off`, `pipe_drained`, `fs_indirect` | as above, with the restriction dropped or the stronger property stated | violations, section 6 |

Four configurations are kept beside these to be run by hand; each ends in a counterexample for the property it names, described in section 6.

| configuration | module | property |
|---|---|---|
| `KernelTwoDestroys.cfg` | `Kernel` | `ZombieFreedByOwnCpu` |
| `KernelTwoCpus.cfg` | `Kernel` | `OneCpuPerEnv` |
| `PmapRemoteTlb.cfg` | `MCPmap` | `TlbFresh` |
| `FileSysShowsOther.cfg` | `MCFileSysIndirect` | `ImplementsFileStore` |

Type invariants of modules whose other properties imply most of them, and properties that a refinement implies (`InOrder` of `Pipe`, `MessageIntact` of `Ipc`, `MutualExclusion` of `SpinLock`, `TablesPrivate` of `Pmap`, `ReceiverBlocked` of `Kernel`), are defined in the modules but not listed in a run; some of them are theorems (section 5).

### Bounds

- `NGEN = 1`: an id is valid again as soon as its slot is used again. That is the most permissive choice (in the code it takes 2^19 uses), so safety found for it does not rest on long-lived ids. `KernelProofs` proves the same for every `NGEN`.
- 2 CPUs and 3 or 4 slots: one CPU inside the kernel and one outside is where all interference happens; 3 slots are a parent, a child and a free slot, 4 runnable environments make the circular scan matter on 2 CPUs.
- 5 pages: two environments need a directory, a table and a page each, so memory runs out inside every call that allocates. 3 virtual pages and 2 per table give two tables, one of them partly used.
- `Size = 2`, `NBytes = 3`: the ring wraps and is full and empty. `NDups = 2` lets the data page count rise and fall twice during a check. `NTraps = 2` bounds how many consecutive checks of `_pipeisclosed` are interrupted; without it the retry loop could be interrupted for ever, which a time slice longer than the loop excludes.
- `fork`: one page of each kind, text, shared, data and stack, and enough physical pages that the last allocation of the second environment can fail. A third environment would only repeat what the second does to the first, since a grandchild's pages are the child's; the safety part is proved for any number.
- `fs`: one direct and two indirect pointers, so a file of two blocks needs its indirect block and one of three uses both pointers there; a size of seven bytes is beyond the largest file. Two directory entries per block, so the third file makes the directory grow; four usable blocks beyond the reserved ones, so every allocation can fail. Clients ask for sizes that leave a file all of its indirect block or nothing (`WholeCuts`, which `MCFileSys` assumes and TLC evaluates). One crash: after it the state is one that a shorter run reaches, or a disk that the properties describe already.
- `fs_server`: two entries and three opens make an entry be given out again, with another generation; the second client is born by fork, so that both share descriptors.
- `spinlock`: three CPUs are two APs, so that `mpentry_kstack` is overwritten.
- Three environments in `ipc`: two senders for one receiver, and any of them may die. The receiver may itself send.
- Symmetry over pages and CPUs in `pmap_safe`, which checks safety only and in which they are interchangeable; the order of the initial free list is one of many that differ by a permutation of the pages.

`CHECK_DEADLOCK FALSE` is set where the system may stop: the kernel enters the monitor or panics, all processes of a pipe exit, all environments are blocked in ipc_recv.

### Fairness

- `Kernel`: strong fairness of `SpinLock(c)`: a spinning CPU gets the lock if it is free again and again; the code pauses after every unlock for that reason (comment at `unlock_kernel`, `kern/spinlock.h`). Strong fairness of the timer in user mode: the local APIC fires periodically, and a pending interrupt is taken when interrupts are enabled. Weak fairness of everything a CPU does inside the kernel. Nothing is assumed about programs.
- `SpinLock`: weak fairness of each CPU's steps only. With it "somebody gets in" holds and "everybody gets in" does not. `SmpBoot` adds weak fairness of the loop of `boot_aps`, of an AP's instructions, and of the first `lock_kernel` of the boot CPU, which nobody contends for.
- `FsServer`: weak fairness of the server and of a client inside the library, by `NoStarvation` of the scheduler; nothing about what clients ask. `Answered` has the exceptions the code has, and names them: the client is destroyed, or a panic stops the machine, of the server (the client it answers died between its request and the answer or has no memory for the page of its descriptor, or the operation itself panicked) or of a client that cannot send its request.
- `Pipe`: strong fairness of each environment's steps, that is, a time slice executes at least one instruction, again and again; strong fairness of the timer, which ends a slice.
- `Ipc`: weak fairness of each environment inside the library, by `NoStarvation` of the scheduler. `ReceiverServed` ends, as everything does, when a sender panics.

## 5 Proofs

All theorems hold for every value of the constants under the named assumptions of the modules.

- `KernelProofs`: two invariants. `LockInv` joins types, lock owner and halt handshake with `HasEnv` (a CPU that executes a program or handles its trap has an environment); it is inductive for all programs, careful or not, and across a kernel panic: `HaltHandshake` allows a CPU that a panic stopped on its way out of `sched_halt` to keep `HALTED`, as it does in `trap()`. Theorems `TypeCorrect`, `LockOwned`, `HaltHandshakeHolds`. The second is for careful programs (`CarefulPrograms`). `EnvOnCpu` is not inductive: that the environment a CPU is about to run is alive depends on what `curenv` may be at *every* point of the kernel. The invariant `SafeInv` adds `CurByPc` (`curenv` by program point), `PgdirWhileUsed`, `MonitorIdle`. One lemma per handler. Theorems `EnvOnCpuHolds`, `FreeListExactHolds`, `ReceiverBlockedHolds`, `IdleMeansIdleHolds`; and of every step, from the same invariant, that a zombie is freed by the CPU it was running on (`ZombieStep` per handler, theorem `ZombieFreedByOwnCpuHolds`).
- `SmpBootProofs`: first the lock alone. The invariant relates `locked`, the store buffers and `lk->cpu`: `OwnerField` says at each point of the owner what memory and its store buffer hold, and that a CPU outside has an empty buffer and is not the one named; `LockedIffOwned` that `locked` is 1 exactly while somebody owns. From it mutual exclusion, the absence of false panics, and the refinement of `Mutex`.
  Then the boot: a step of it is a step of `SpinLock` or leaves the lock alone (`BootUsesLock`), so the theorems about the lock hold from the first CPU on (`BootNeverPanics`, `BootImplementsMutex`). `OwnStack` needs `StackInv`: the CPU that is between its start and `mp_main` is the one `boot_aps` waits for, and a CPU that is not up has not touched the lock or its status.
- `ForkCowProofs`: three invariants, each on top of the one before. `HandlerInv` follows each call of fork: where its loop is, whose child it creates, what the child has already, and what the handler works on at each of its steps; `CowIsHandled` alone says nothing of a child that does not run yet or of a handler in the middle. `PageInv` adds that what `duppage` has read is still good enough for what it does with it (`SeenStays`), and `OneMapping`: a writable page has a single mapping, except for the handler's temporary one and for a parent between the two maps of `duppage`. One lemma per action for the first; for the second, one per way to change mappings (none, a fresh page, fewer mappings, a child's, the parent's own, the handler's copy). Theorems `TypeCorrect`, `CowIsHandledHolds`, `WritableIsPrivateHolds`. For the refinement `CopyInv` adds to `PageInv` the bytes: a running environment has all its private pages, the pages a fork has given to the child are copy-on-write there and read what the parent's read, and the handler's copy reads what the page it replaces reads. Each memory call keeps every mapping but one (`KeptBut`); `Others` and `Own` turn that into `Rests` for the environments a step leaves alone and for the one that takes it. The quiet actions rest everywhere and stutter; a store, at once or after the fault, is a `Write`, `Start` a `Fork`, `Die` an `Exit`. Theorem `Implements`.
- `PipeProofs`: `RingInv` is about the bytes: what each end has seen of the other's position is still good enough when it acts (`Positions`), the slots between the positions hold the unread bytes by number (`Bytes`; two positions less than `Size` apart have different slots, `SlotsDiffer`), and the reader has the ones before (`Taken`). With it queue and received bytes are functions of the two positions, so only the two steps that move a position matter (`RingFifo`). `EofInv` is about the mappings: what each end may have mapped at each point of dup and close, always the data page with a descriptor (`MapInv`, from which `DataCountsAll` follows by an injection), and that on one CPU nobody else has executed since a check that was not interrupted began (`OneCpu`), so its two counts belong together. A death in between can make them differ; it closes the other end as well. Theorems `Implements`, `InOrderHolds`, `DataCountsAllHolds`, `EofMeansClosedHolds`.
- `IpcProofs`: `IInv` adds to the checked properties that a live call names an existing environment (`TargetLives`), and that what the receiver has read or has yet to read agrees with the send that woke it (`FromAgrees`, `ValueAgrees`, and in one direction only `PermAgrees`: a page that was sent is announced). From it `MessageIntact`, `OpenIffBlocked`, `PageAnnounced`, the refinement of `Rendezvous`.
- `PmapProofs`: `TlbFresh` and the counts are not inductive over a trap, because a trap is several operations on the memory and in between a page is in the hands of the call. `Sound(m, x, k)` says what the memory `m` is then: the counts are exact except that page `x` has `k` references more, the free list holds exactly the other pages without one, each once, page tables and directories are private, and the tables form a tree. Each operation of `pmap.c` takes such a memory to another (`WalkSound`, `IncRefSound`, `PageRemoveSound`, `PageInsertSound`); the order in `page_insert` is right because the page it inserts is in hand when the old mapping is removed. The inductive invariant `IInv` is `Sound` with no page in hand, and: an environment has a page directory exactly while it exists, a CPU runs an environment that may run and no other CPU does, and only blocked environments wait for a page. The counts are cardinalities of sets; one lemma says what the change of one table entry does to each (`SetPte`, `SetPt`, `SetPd`). The loops of `env_free` are recursive functions; that one has values at all (`Recursion`) and what they are is shown by induction in the form of a least counterexample (`LeastNat`, from the well-foundedness of finite sets in the library, `Induct`), since the library's own induction rules take operators. Theorems `RefExactHolds`, `FreeListExactHolds`, `TablesPrivateHolds`, `SpaceTreeHolds`. Of every trap is also proved that it leaves alone what other CPUs execute if programs are `Careful` (`Kept`), from which `TlbFreshHolds` follows for such programs, and, for all programs, that a page that becomes writable was writable somewhere or not mapped (`NoNewWriter`), which is `ReadOnlyStaysHolds`.
- `FsServerProofs`: `FdNamesItsFile` depends on what the server concludes from `pageref`, so the invariant says that the server has the page of every open descriptor (`FdMapped`); then a count of 1 or less means that no client has it (`RefTells`), and an entry is given away only then. `GrantValid` is the entry between its choice and the reply that maps it, `ScanFinds` that a free entry the scan has not reached yet stays free, because a client cannot get a new descriptor while the server works for another. `StaleIdRefused` is about the step that grants an operation: `InUse` is true only if some client has the page (`RefTells`), whose id is then the one of the request (`GrantedToHolder`). Theorems `FdNamesItsFileHolds`, `StaleIdRefusedHolds`, `FullMeansFullHolds`.
- `FileSysProofs`: an operation is a function, so the proof follows the functions of `fs.c` and has one lemma for each. It has two halves, the cache and the disk.
  The cache: `Image` is a cache or a disk with typed blocks in which the directory has whole blocks and no reserved block is free. `Owned` is stronger than `BlocksOwned` and `NothingLost` of the cache and inductive over the functions: different pointers differ (`Apart`), none names a free block (`NotFree`), no file has a block beyond its size (`WithinSize`), an unused entry owns nothing (`BlankOwnsNothing`), without which a name entered into it would make its blocks appear, and until a crash every used block has a pointer (`AllFound`). Pointers are numbered, those of the blocks and then the one to the indirect block (`Ref`), and each step of the code changes one: `NewBlockOwned` is a pointer that receives a fresh block, `DropOwned` one that is cleared while its block is freed, also the indirect block, whose pointers must be null by then. The truncation loop frees in ascending order, and its invariant says which pointers are null already. `Loop` is a recursive function, unrolled as in `PmapProofs`.
  The disk: what must hold after every single write is that the image there is `Sound`, which is `Owned` without `AllFound` (a crash may leak blocks). Soundness alone is not inductive: whether a write keeps it depends on what the cache and the disk do not agree on yet. `Behind(m, g)` says how the disk `g` may differ from the cache `m`: a pointer is the same or not there yet, no block is free that the cache uses, the sizes of files are equal, and an entry whose name is not on the disk yet owns nothing there. An image behind a sound one is sound (`BehindSound`). The directory is the exception: `dir_alloc_file` does not write its size, so the disk may have an older one, and all that is known is that its blocks there are within it (`RootWithin`). `Leads(disk, out, img)` says that a list of writes takes the disk to `img` by way of sound images only. Each function keeps `Follows`: its writes so far lead the disk to an image behind the cache (`FlushLeads` for one more write). The order of the writes decides: `alloc_block` writes the bitmap before any pointer to the block exists, `file_get_block` the cleared block before it can be found, and `file_set_size` the struct File without the pointers while the disk still has their blocks in use.
  The invariant `IInv`: types; `Owned` of the cache; and the writes still to be made (`todo`) lead the disk, by way of sound images, to one that is behind the cache. A crash drops the rest of `todo` and takes the disk for the cache; that image is sound, and every sound image is behind itself (`BehindSelf`).
  The last two parts hold under `WholeCuts`: no request sets a size that leaves a file some pointers of its indirect block and takes others, because `file_set_size` does not write that block and the next `alloc_block` writes the bitmap. The condition cannot be dropped: the run `fs_indirect` (section 6) is the counterexample. It is a condition on what clients ask by `FSREQ_SET_SIZE` and holds for every request made in the repository: `O_TRUNC` (`fs/serv.c:146`, used by `user/sh.c:74`) and `ftruncate(wfd, 0)` (`user/writemotd.c:24`) cut to 0. Writing may grow a file to any size. In the run `fs` it holds for the sizes of `MCFileSys`. Without it every lemma still gives types and, until a crash, `Owned` of the cache; that is what the parameter `own` of `Good` and `Safe` is for.
  Theorems for all requests: `TypeCorrect`, `CacheOwnedHolds` (the cache half of `BlocksOwned` until a crash, from `Owned` by counting the pointers as in `OwnedOnce`), `NothingLostHolds` (until a crash). Under `WholeCuts`, with crashes between any two writes: `BlocksOwnedHolds`, `NothingLostAlways`.

Assumptions on the constants are those of the code: the sets of clients, environments and pages are finite, `i386_init` finds at least the three pages it needs, and `None` and its like are not values.
In `FileSys`, the disk has at least the three blocks that `fs_init` expects (boot, superblock, bitmap), the sizes of a block, a `struct File` and an indirect block are positive, and clients use offsets and sizes that are not negative and do not read or write zero bytes; `serve_set_size` checks nothing, so this is a limit of the model.

Only model-checked: all liveness properties, which are beyond this prover, and `ImplementsFileStore`.
Its proof would need, over the invariant of `FileSysProofs`, what every block contains: that an operation's writes change the data of no other file, for the names the directory shows at each of them.
`BlocksOwned`, and `NothingLost` after a crash, are theorems under `WholeCuts` only; without it the code violates `BlocksOwned` (section 6).

## 6 Where code and documentation disagree

Shown by a configuration that TLC finds violated; the runs `kernel_intr_off`, `pipe_drained` and `fs_indirect` are listed in `PROJECT.json`, the others are run by hand:

- `KernelTwoDestroys.cfg`: `env_destroy` looks for `ENV_RUNNING` only. A second `sys_env_destroy` of a child that is `ENV_DYING` on another CPU frees it, page directory included, while it is still executing there.
- `KernelTwoCpus.cfg`: `sys_env_set_status` overwrites any status. Applied to a running child it makes the scheduler run the environment on a second CPU.
- `kernel_intr_off`: `sys_env_set_trapframe` forces CPL 3 and interrupts on in the old frame and then replaces the frame.
- `PmapRemoteTlb.cfg`: `tlb_invalidate` reaches the calling CPU only.
- `fs_indirect`: `file_set_size` writes the struct File but not the indirect block it cleared an entry of (`fs/fs.c:468`), and the bitmap is written by the next `alloc_block` or `fs_sync`. After a crash the entry names a block that is free, or that another file owns.
- `FileSysShowsOther.cfg`: the same bug breaks what clients rely on. A file is flushed, cut inside its indirect block and grown again; the crash comes after the bitmap was written; another file takes and fills the block that the indirect block on the disk still names, and the first file shows the bytes of the other.
- `pipe_drained`: on one CPU, `devpipe_read` finds the pipe empty and is preempted before it looks at the counts; the writer writes a byte and ends (is destroyed in the trace, or closes its end); the check finds no writer, and end of file is returned although the pipe holds the byte.

Noticed while modelling, in the code as modelled, without a run of their own:

- A serial interrupt falls out of the switch of `trap_dispatch` (`kern/trap.c:229`), which destroys the interrupted environment, or panics the kernel when it arrives on the halted boot CPU.
- With `curenv` NULL, after an exit or a halt, the scan of `sched_yield` starts at `envs[0]`, not "just after the env this CPU was last running" (`kern/sched.c:18`).
- `sys_page_alloc` and `sys_page_map` accept a permission without `PTE_U` (`kern/syscall.c:207` against line 180).
- `env_ipc_perm` is written only when a page is offered (`kern/syscall.c:372`), so a message without one returns the previous permission, against `kern/syscall.c:316` and `lib/ipc.c:11`.
- On more than one CPU `_pipeisclosed` can report end of file on an open pipe: `env_runs` does not change when another CPU edits the counts between the two reads. This is why `EofMeansClosed` is stated for one CPU.
- The file server answers with `ipc_send`, which panics when the client has been destroyed since it asked, or when there is no memory to map its descriptor (`fs/serv.c:353`, `lib/ipc.c:63`, `kern/syscall.c:375`); the block cache panics without memory (`fs/bc.c:54`). A client that dies at the wrong moment takes the server with it, and with the server's breakpoint the machine. These are the `Panics` of `FsServer`.
- `sys_env_set_trapframe` panics the kernel for a null pointer (`kern/syscall.c:140`); the programs of the repository do not pass one.
- A request without a page is not answered (`fs/serv.c:340`), so its sender waits for ever; and since `env_ipc_perm` may be that of an earlier message, the server may also take such a request for one with a page and read `fsreq` unmapped (`fs/serv.c:338`).
- `fsipc` takes the next message from anybody as the answer of the server (`lib/file.c:28`); after one stray message every answer is taken for that of the next request.
- `fsipcbuf` is copy-on-write after a fork, and `sys_ipc_try_send` refuses to send such a page with `PTE_W`: `sync` does not write the buffer first, as the other calls do, and panics in `ipc_send` when it is the first call after a fork (`lib/file.c`).
- `dup(fd, fd)` closes the descriptor and then maps nothing; `dup` does not check the number of the new descriptor against `MAXFD` (`lib/fd.c`).
- fork ignores the result of `duppage`, so a shared page the child cannot map for lack of memory is silently missing; a parent that dies in fork leaves an embryo that nobody frees (`lib/fork.c:138`). Both are in `ForkCow`.
- spawn leaves its child, its descriptor or the page at `UTEMP` behind on several error paths (`lib/spawn.c:110`).
- `alloc_block` flushes `bitmap` and not the bitmap block that holds the bit, which on a disk with more than one bitmap block is another one (`fs/fs.c:69`).
- `file_set_size` accepts a size beyond `MAXFILESIZE`; reading there fails later (`fs/fs.c:462`).
- `p_rpos` and `p_wpos` are signed and never reset, so after 2^31 bytes the index into the ring is negative (`lib/pipe.c:133`).

## 7 Not modelled

- The components listed as such in `PROJECT.json`, and steps 9 and 10 of the plan. The four earlier labs are earlier states of the same files, in large part the same lines; the models follow lab5. `kern/entrypgdir.c` is a generated table.
- spawn and the shell: sequences of system calls that `Kernel`, `Pmap` and `ForkCow` model one by one. Console: one ring, read and written under the big kernel lock.
- What the file server writes when it starts: `check_bc` overwrites the superblock on the disk and restores it (`fs/bc.c:104`), and `fs_test` allocates a block that it never frees and rewrites `/newmotd` (`fs/test.c:22`, called at `fs/serv.c:371`). `Init` and `Crash` of `FileSys` give the state after that, without the lost block and the rewritten file; no power failure meets the start-up, and `NothingLost` speaks of the blocks requests take.
- Nested directories, disks with several bitmap blocks, the IDE driver, requests without a page.
- Memory of user programs, except the pipe page and the pages of `ForkCow`; the instructions of handlers inside the lock; formatting, devices, the disk controller.
- `page_init`'s choice of usable physical ranges, and boot-time mappings above UTOP.
- `load_icode` and `env_setup_vm` beyond the pages they take in `Pmap`.
- What the monitor lets an operator do.
