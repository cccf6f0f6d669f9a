--------------------------- MODULE ForkCowProofs ---------------------------
(* Copy-on-write in ForkCow: no environment writes to a page that another  *)
(* one reads, and none is killed by a fault that fork caused, for any      *)
(* number of environments and pages; then, that it implements              *)
(* PrivateMemory.                                                          *)
EXTENDS ForkCow, TLAPS

\* A call of fork that has created its child.
Creating(e) == fork[e] \notin {"idle", "exofork"}

\* The loop stays below USTACKTOP and has reached it when it ends.
LoopBound == \A e \in Env :
  /\ fork[e] \in {"mapChild", "mapSelf"} => at[e] \in VA
  /\ fork[e] \in {"xstack", "upcall", "start"} => at[e] = NVA

\* An environment that does not execute is in no call and no handler.
Asleep == \A e \in Env : status[e] # "alive" => fork[e] = "idle" /\ fault[e] = "none"

\* The child of a call belongs to that call alone until it is started.
OwnChild == \A e \in Env : Creating(e) =>
  /\ status[child[e]] = "embryo"
  /\ \A d \in Env : Creating(d) /\ child[d] = child[e] => d = e

\* A call of fork begins with the handler.
HandlerSetAt(e) == status[e] = "alive" =>
  /\ upcall[e] => perm[e][XStack] = "W"
  /\ fork[e] # "idle" => upcall[e]
  /\ \A v \in VA : perm[e][v] = "COW" => upcall[e]
HandlerSet == \A e \in Env : HandlerSetAt(e)

\* An environment has its stack, and a child gets it.
StackMappedAt(e) == status[e] = "alive" =>
  /\ perm[e][Stack] \in {"W", "COW"}
  /\ fork[e] \in {"mapChild", "mapSelf"} /\ at[e] = Stack => seen[e] \in {"W", "COW"}
  /\ fork[e] = "mapSelf" /\ at[e] = Stack => perm[child[e]][Stack] = "COW"
  /\ Creating(e) /\ at[e] = NVA => perm[child[e]][Stack] = "COW"
StackMapped == \A e \in Env : StackMappedAt(e)

\* A child has its handler before it runs.
ChildReadyAt(e) ==
  /\ fork[e] \in {"upcall", "start"} => perm[child[e]][XStack] = "W"
  /\ fork[e] = "start" => upcall[child[e]]
ChildReady == \A e \in Env : ChildReadyAt(e)

\* What the handler works on: the page of the write that faulted, or the stack
\* after that page is done.
FaultingAt(e) ==
  /\ fault[e] \in {"alloc", "copy", "map"} =>
       /\ perm[e][addr[e]] = "COW"
       /\ target[e] = addr[e] \/ (addr[e] = Stack /\ perm[e][target[e]] = "W")
  /\ fault[e] \in {"copy", "map"} => perm[e][PfTemp] = "W"
  /\ fault[e] = "unmap" => perm[e][addr[e]] = "W"
  /\ fault[e] \in {"unmap", "entry", "retry"} => perm[e][target[e]] = "W"
  /\ fault[e] = "retry" => perm[e][Stack] = "W"
Faulting == \A e \in Env : FaultingAt(e)

HandlerInv ==
  /\ TypeOK /\ LoopBound /\ Asleep /\ OwnChild
  /\ HandlerSet /\ StackMapped /\ ChildReady /\ Faulting

\* What duppage read is still true of a page that is never copied, and the page
\* it is about to make copy-on-write is there.
SeenStaysAt(e) ==
  /\ fork[e] = "mapChild" /\ seen[e] \in {"SHARE", "R"} => perm[e][at[e]] = seen[e]
  /\ \/ fork[e] = "mapChild" /\ seen[e] \in {"W", "COW"}
     \/ fork[e] = "mapSelf"
     => perm[e][at[e]] \in {"W", "COW"}
SeenStays == \A e \in Env : SeenStaysAt(e)

\* A page mapped writable has one mapping, but for the handler's temporary one
\* and for a parent between its two maps.
Excepted(e, v, d, w) ==
  \/ e = d /\ v = w
  \/ e = d /\ fault[e] = "unmap" /\ {v, w} = {PfTemp, addr[e]}
  \/ d # e /\ fork[e] = "mapSelf" /\ d = child[e] /\ v = at[e] /\ w = at[e]
OneMapping == \A e, d \in Env : \A v, w \in Addr :
  perm[e][v] = "W" /\ Present(d, w) /\ page[e][v] = page[d][w]
  => Excepted(e, v, d, w)

PageInv == HandlerInv /\ SeenStays /\ OneMapping

-----------------------------------------------------------------------------
(* Addresses and the effect of the memory calls, entry by entry.           *)

\* The stack is below USTACKTOP; the exception stack and PFTEMP are not.
LEMMA AddrFacts ==
  /\ Stack \in VA /\ VA \subseteq Addr /\ XStack \in Addr /\ PfTemp \in Addr
  /\ XStack \notin VA /\ PfTemp \notin VA /\ XStack # PfTemp /\ NVA \notin VA
  /\ \A v \in 0..NVA : v = NVA \/ v \in VA
  /\ 0 \in VA /\ 0 \in Page /\ NVA \in 0..NVA /\ 0 \in 0..NVA
BY ForkAssumption DEF VA, Stack, XStack, PfTemp, Addr

\* The loop goes from one page to the next, and from the stack to USTACKTOP.
LEMMA AddrNext ==
  \A v \in VA : v + 1 \in 0..NVA /\ v \in 0..NVA /\ (v + 1 = NVA <=> v = Stack)
BY ForkAssumption DEF VA, Stack

\* What one entry of every page table holds after d's entry w was set.
LEMMA SetEntry ==
  ASSUME NEW S, NEW f \in [Env -> [Addr -> S]], NEW g, NEW d \in Env,
         NEW w \in Addr, NEW r \in S, g = [f EXCEPT ![d][w] = r]
  PROVE  /\ g \in [Env -> [Addr -> S]]
         /\ g[d][w] = r
         /\ \A x \in Env, y \in Addr : x # d \/ y # w => g[x][y] = f[x][y]
OBVIOUS

\* page_alloc clears what it gives away and what nobody maps.
LEMMA ReclaimType ==
  ASSUME TypeOK, Reclaim
  PROVE  content' \in [Page -> Value]
BY ForkAssumption DEF TypeOK, Reclaim

\* sys_page_alloc maps a page that nobody maps.
LEMMA AllocEffect ==
  ASSUME TypeOK, NEW e \in Env, NEW v \in Addr, PageAlloc(e, v)
  PROVE  /\ perm' \in [Env -> [Addr -> Perm]]
         /\ page' \in [Env -> [Addr -> Page \cup {0}]]
         /\ content' \in [Page -> Value]
         /\ perm'[e][v] = "W"
         /\ \A x \in Env, y \in Addr : x # e \/ y # v =>
              perm'[x][y] = perm[x][y] /\ page'[x][y] = page[x][y]
         /\ \A x \in Env, y \in Addr : Present(x, y) => page[x][y] # page'[e][v]
<1>1. PICK p \in Free : /\ perm' = [perm EXCEPT ![e][v] = "W"]
                        /\ page' = [page EXCEPT ![e][v] = p]
                        /\ content' = [content EXCEPT ![p] = Zero]
  BY DEF PageAlloc
<1>2. /\ p \in Page /\ \A x \in Env, y \in Addr : Present(x, y) => page[x][y] # p
  BY <1>1 DEF Free
<1>3. /\ perm' \in [Env -> [Addr -> Perm]] /\ perm'[e][v] = "W"
      /\ \A x \in Env, y \in Addr : x # e \/ y # v => perm'[x][y] = perm[x][y]
  BY <1>1, SetEntry DEF TypeOK, Perm
<1>4. /\ page' \in [Env -> [Addr -> Page \cup {0}]] /\ page'[e][v] = p
      /\ \A x \in Env, y \in Addr : x # e \/ y # v => page'[x][y] = page[x][y]
  BY <1>1, <1>2, SetEntry DEF TypeOK
<1>5. content' \in [Page -> Value]
  BY <1>1, <1>2, ForkAssumption DEF TypeOK
<1> QED
  BY <1>2, <1>3, <1>4, <1>5

\* sys_page_map sets one entry.
LEMMA MapEffect ==
  ASSUME TypeOK, NEW e \in Env, NEW v \in Addr, NEW d \in Env, NEW w \in Addr,
         NEW r \in Perm, PageMap(e, v, d, w, r)
  PROVE  /\ perm' \in [Env -> [Addr -> Perm]]
         /\ page' \in [Env -> [Addr -> Page \cup {0}]]
         /\ content' \in [Page -> Value]
         /\ perm'[d][w] = r /\ page'[d][w] = page[e][v]
         /\ \A x \in Env, y \in Addr : x # d \/ y # w =>
              perm'[x][y] = perm[x][y] /\ page'[x][y] = page[x][y]
<1>1. /\ perm' = [perm EXCEPT ![d][w] = r]
      /\ page' = [page EXCEPT ![d][w] = page[e][v]]
      /\ content' \in [Page -> Value]
  BY ReclaimType DEF PageMap
<1>2. /\ perm' \in [Env -> [Addr -> Perm]] /\ perm'[d][w] = r
      /\ \A x \in Env, y \in Addr : x # d \/ y # w => perm'[x][y] = perm[x][y]
  BY <1>1, SetEntry DEF TypeOK
<1>3. /\ page' \in [Env -> [Addr -> Page \cup {0}]] /\ page'[d][w] = page[e][v]
      /\ \A x \in Env, y \in Addr : x # d \/ y # w => page'[x][y] = page[x][y]
  BY <1>1, SetEntry DEF TypeOK
<1> QED
  BY <1>1, <1>2, <1>3

\* sys_page_unmap clears one entry.
LEMMA UnmapEffect ==
  ASSUME TypeOK, NEW e \in Env, NEW v \in Addr, PageUnmap(e, v)
  PROVE  /\ perm' \in [Env -> [Addr -> Perm]]
         /\ page' \in [Env -> [Addr -> Page \cup {0}]]
         /\ content' \in [Page -> Value]
         /\ perm'[e][v] = "none"
         /\ \A x \in Env, y \in Addr : x # e \/ y # v =>
              perm'[x][y] = perm[x][y] /\ page'[x][y] = page[x][y]
<1>1. /\ perm' = [perm EXCEPT ![e][v] = "none"]
      /\ page' = [page EXCEPT ![e][v] = 0]
      /\ content' \in [Page -> Value]
  BY ReclaimType DEF PageUnmap
<1>2. /\ perm' \in [Env -> [Addr -> Perm]] /\ perm'[e][v] = "none"
      /\ \A x \in Env, y \in Addr : x # e \/ y # v => perm'[x][y] = perm[x][y]
  BY <1>1, SetEntry DEF TypeOK, Perm
<1>3. /\ page' \in [Env -> [Addr -> Page \cup {0}]]
      /\ \A x \in Env, y \in Addr : x # e \/ y # v => page'[x][y] = page[x][y]
  BY <1>1, SetEntry DEF TypeOK
<1> QED
  BY <1>1, <1>2, <1>3

\* env_free clears the page table of one environment.
LEMMA DieEffect ==
  ASSUME TypeOK, NEW e \in Env, Die(e)
  PROVE  /\ perm' \in [Env -> [Addr -> Perm]]
         /\ page' \in [Env -> [Addr -> Page \cup {0}]]
         /\ content' \in [Page -> Value]
         /\ \A y \in Addr : perm'[e][y] = "none"
         /\ \A x \in Env \ {e} : perm'[x] = perm[x] /\ page'[x] = page[x]
BY ReclaimType DEF Die, TypeOK, Perm

\* A dead environment leaves nothing behind that the others use.
LEMMA DieStep ==
  ASSUME HandlerInv, NEW e \in Env, Die(e)
  PROVE  HandlerInv'
<1>1. /\ fork' = [fork EXCEPT ![e] = "idle"] /\ fault' = [fault EXCEPT ![e] = "none"]
      /\ child' = [child EXCEPT ![e] = First] /\ at' = [at EXCEPT ![e] = 0]
      /\ seen' = [seen EXCEPT ![e] = "none"]
      /\ status[e] = "alive" /\ status' = [status EXCEPT ![e] = "free"]
      /\ upcall' = [upcall EXCEPT ![e] = FALSE]
      /\ addr' = [addr EXCEPT ![e] = 0] /\ target' = [target EXCEPT ![e] = 0]
      /\ pending' = [pending EXCEPT ![e] = Zero]
  BY DEF Die, Leave, Goto, Return, Then
<1>2. /\ perm' \in [Env -> [Addr -> Perm]]
      /\ page' \in [Env -> [Addr -> Page \cup {0}]]
      /\ content' \in [Page -> Value]
      /\ \A x \in Env \ {e} : perm'[x] = perm[x]
  BY DieEffect DEF HandlerInv
<1>3. \A x \in Env : Creating(x) => child[x] \in Env /\ child[x] # e
  BY <1>1 DEF HandlerInv, TypeOK, OwnChild
<1>4. TypeOK'
  BY <1>1, <1>2, AddrFacts, ForkAssumption DEF HandlerInv, TypeOK, Step,
     FaultStep, Perm
<1>5. LoopBound' /\ Asleep' /\ OwnChild'
  BY <1>1, <1>3 DEF HandlerInv, TypeOK, Creating, LoopBound, Asleep, OwnChild
<1>6. HandlerSet' /\ StackMapped' /\ ChildReady' /\ Faulting'
  <2>1. \A x \in Env : fork[x] \in {"mapChild", "mapSelf", "upcall", "start"} => Creating(x)
    BY DEF Creating
  <2>2. HandlerSet'
    BY <1>1, <1>2 DEF HandlerInv, TypeOK, HandlerSet, HandlerSetAt
  <2>3. StackMapped'
    BY <1>1, <1>2, <1>3, <2>1 DEF HandlerInv, TypeOK, StackMapped,
       StackMappedAt, Creating
  <2>4. ChildReady'
    BY <1>1, <1>2, <1>3, <2>1 DEF HandlerInv, TypeOK, ChildReady, ChildReadyAt
  <2>5. Faulting'
    BY <1>1, <1>2 DEF HandlerInv, TypeOK, Faulting, FaultingAt
  <2> QED
    BY <2>2, <2>3, <2>4, <2>5
<1> QED
  BY <1>4, <1>5, <1>6 DEF HandlerInv

\* The exception stack is there when the upcall is set.
LEMMA SetHandlerStep ==
  ASSUME HandlerInv, NEW e \in Env, SetHandler(e), ~Die(e)
  PROVE  HandlerInv'
<1>1. /\ status[e] = "alive" /\ fork[e] = "idle" /\ fault[e] = "none"
      /\ fork' = [fork EXCEPT ![e] = "exofork"]
      /\ upcall' = [upcall EXCEPT ![e] = TRUE]
      /\ UNCHANGED <<status, child, at, seen, fault, addr, target, pending>>
  BY DEF SetHandler, In, Runs, Goto, faultVars
<1>2. /\ perm' \in [Env -> [Addr -> Perm]]
      /\ page' \in [Env -> [Addr -> Page \cup {0}]]
      /\ content' \in [Page -> Value]
      /\ perm'[e][XStack] = "W"
      /\ \A x \in Env, y \in Addr : x # e \/ y # XStack => perm'[x][y] = perm[x][y]
  <2>1. CASE upcall[e]
    <3>1. UNCHANGED memVars /\ perm[e][XStack] = "W"
      BY <1>1, <2>1 DEF SetHandler, HandlerInv, HandlerSet, HandlerSetAt
    <3> QED
      BY <3>1 DEF memVars, HandlerInv, TypeOK
  <2>2. CASE ~upcall[e]
    <3>1. PageAlloc(e, XStack)
      BY <2>2 DEF SetHandler
    <3> QED
      BY <3>1, AllocEffect, AddrFacts DEF HandlerInv
  <2> QED
    BY <2>1, <2>2
<1>3. \A x \in Env : Creating(x) => child[x] \in Env /\ status[child[x]] = "embryo"
  BY DEF HandlerInv, TypeOK, OwnChild
<1>4. \A x \in Env : fork[x] \in {"look", "mapChild", "mapSelf", "xstack", "upcall", "start"} => Creating(x)
  BY DEF Creating
<1>5. TypeOK'
  BY <1>1, <1>2, AddrFacts, AddrNext DEF HandlerInv, TypeOK, Step, FaultStep,
     Perm, LoopBound
<1>p. /\ fork'[e] = "exofork"
      /\ \A x \in Env : x # e => fork'[x] = fork[x]
      /\ upcall'[e]
      /\ \A x \in Env : x # e => (upcall'[x] <=> upcall[x])
      /\ \A x \in Env : status'[x] = status[x]
      /\ \A x \in Env : child'[x] = child[x]
      /\ \A x \in Env : at'[x] = at[x]
      /\ \A x \in Env : seen'[x] = seen[x]
      /\ \A x \in Env : fault'[x] = fault[x]
      /\ \A x \in Env : addr'[x] = addr[x]
      /\ \A x \in Env : target'[x] = target[x]
  BY <1>1 DEF HandlerInv, TypeOK
<1>k. \A x \in Env : Creating(x) /\ status[e] = "alive" => child[x] # e
  BY <1>3
<1>g. /\ status[e] = "alive"
      /\ fork[e] = "idle"
      /\ fault[e] = "none"
      /\ \A x \in Env : addr[x] \in VA /\ target[x] \in VA /\ at[x] \in 0..NVA
  BY <1>1 DEF HandlerInv, TypeOK
<1>m. \A x \in Env : x # e /\ fault[x] # "none" =>
        /\ perm'[x][addr[x]] = perm[x][addr[x]] /\ perm'[x][target[x]] = perm[x][target[x]]
        /\ perm'[x][PfTemp] = perm[x][PfTemp] /\ perm'[x][Stack] = perm[x][Stack]
  BY <1>g, <1>2, AddrFacts
<1>6. LoopBound'
  BY <1>1, <1>2, <1>3, <1>4, AddrFacts DEF HandlerInv, TypeOK, LoopBound, Asleep
<1>7. Asleep'
  BY <1>1, <1>2, <1>3, <1>4, AddrFacts DEF HandlerInv, TypeOK, Asleep, Creating
<1>8. OwnChild'
  BY <1>1, <1>2, <1>3, <1>4, AddrFacts DEF HandlerInv, TypeOK, OwnChild,
     Creating, Asleep
<1>9. HandlerSet'
  BY <1>1, <1>2, <1>3, <1>4, AddrFacts DEF HandlerInv, TypeOK, HandlerSet,
     HandlerSetAt, Asleep
<1>10. StackMapped'
  <2>1. SUFFICES ASSUME NEW x \in Env PROVE StackMappedAt(x)'
    BY DEF StackMapped
  <2>2. CASE x # e
    BY <1>p, <1>g, <1>2, <1>3, <1>4, <1>k, AddrFacts, <2>2 DEF HandlerInv,
       StackMapped, StackMappedAt, LoopBound, Asleep, Creating
  <2>3. CASE x = e
    BY <1>p, <1>g, <1>2, <1>3, <1>4, <1>k, AddrFacts, <2>3 DEF HandlerInv,
       StackMapped, StackMappedAt, LoopBound, Asleep, Creating
  <2> QED
    BY <2>2, <2>3
<1>11. ChildReady'
  BY <1>1, <1>2, <1>3, <1>4, AddrFacts DEF HandlerInv, TypeOK, ChildReady,
     ChildReadyAt, LoopBound, OwnChild, Creating
<1>12. Faulting'
  <2>1. SUFFICES ASSUME NEW x \in Env PROVE FaultingAt(x)'
    BY DEF Faulting
  <2>2. CASE x # e
    BY <1>p, <1>g, <1>m, <1>3, <1>4, <1>k, AddrFacts, <2>2 DEF HandlerInv,
       Faulting, FaultingAt, Asleep, StackMapped, StackMappedAt
  <2>3. CASE x = e
    BY <1>p, <1>g, <1>2, <1>3, <1>4, <1>k, AddrFacts, <2>3 DEF HandlerInv,
       Faulting, FaultingAt, Asleep, StackMapped, StackMappedAt
  <2> QED
    BY <2>2, <2>3
<1> QED
  BY <1>5, <1>6, <1>7, <1>8, <1>9, <1>10, <1>11, <1>12 DEF HandlerInv

\* The child was free, so it is nobody else's.
LEMMA ExoforkStep ==
  ASSUME HandlerInv, NEW e \in Env, Exofork(e), ~Die(e)
  PROVE  HandlerInv'
<1>c. PICK c \in Env :
        /\ status[c] = "free" /\ status' = [status EXCEPT ![c] = "embryo"]
        /\ child' = [child EXCEPT ![e] = c] /\ at' = [at EXCEPT ![e] = 0]
        /\ Goto(e, "look") /\ UNCHANGED <<memVars, upcall, seen, faultVars>>
  BY DEF Exofork
<1>1. /\ status[e] = "alive" /\ fork[e] = "exofork" /\ fault[e] = "none"
      /\ c \in Env /\ status[c] = "free" /\ status' = [status EXCEPT ![c] = "embryo"]
      /\ child' = [child EXCEPT ![e] = c] /\ at' = [at EXCEPT ![e] = 0]
      /\ fork' = [fork EXCEPT ![e] = "look"]
      /\ UNCHANGED <<upcall, seen, fault, addr, target, pending>>
  BY <1>c DEF Exofork, In, Runs, Goto, faultVars
<1>2. /\ perm' = perm
      /\ page' = page
      /\ content' = content
  BY <1>c DEF memVars
<1>3. \A x \in Env : Creating(x) => child[x] \in Env /\ status[child[x]] = "embryo"
  BY DEF HandlerInv, TypeOK, OwnChild
<1>4. \A x \in Env : fork[x] \in {"look", "mapChild", "mapSelf", "xstack", "upcall", "start"} => Creating(x)
  BY DEF Creating
<1>5. TypeOK'
  BY <1>1, <1>2, AddrFacts, AddrNext DEF HandlerInv, TypeOK, Step, FaultStep,
     Perm, LoopBound
<1>6. LoopBound'
  BY <1>1, <1>2, <1>3, <1>4, AddrFacts DEF HandlerInv, TypeOK, LoopBound, Asleep
<1>7. Asleep'
  BY <1>1, <1>2, <1>3, <1>4, AddrFacts DEF HandlerInv, TypeOK, Asleep, Creating
<1>8. OwnChild'
  BY <1>1, <1>2, <1>3, <1>4, AddrFacts DEF HandlerInv, TypeOK, OwnChild,
     Creating, Asleep
<1>9. HandlerSet'
  BY <1>1, <1>2, <1>3, <1>4, AddrFacts DEF HandlerInv, TypeOK, HandlerSet,
     HandlerSetAt, Asleep
<1>10. StackMapped'
  BY <1>1, <1>2, <1>3, <1>4, AddrFacts DEF HandlerInv, TypeOK, StackMapped,
     StackMappedAt, LoopBound, Asleep, OwnChild, Creating
<1>11. ChildReady'
  BY <1>1, <1>2, <1>3, <1>4, AddrFacts DEF HandlerInv, TypeOK, ChildReady,
     ChildReadyAt, LoopBound, OwnChild, Creating
<1>12. Faulting'
  BY <1>1, <1>2, <1>3, <1>4, AddrFacts DEF HandlerInv, TypeOK, Faulting,
     FaultingAt, Asleep, LoopBound, HandlerSet, HandlerSetAt, StackMapped,
     StackMappedAt
<1> QED
  BY <1>5, <1>6, <1>7, <1>8, <1>9, <1>10, <1>11, <1>12 DEF HandlerInv

\* The loop stops at USTACKTOP.
LEMMA LookEnds ==
  ASSUME HandlerInv, NEW e \in Env, Look(e), at[e] = NVA
  PROVE  HandlerInv'
<1>1. /\ status[e] = "alive" /\ fork[e] = "look" /\ fault[e] = "none"
      /\ UNCHANGED <<status, upcall, child, fault, addr, target, pending>>
      /\ fork' = [fork EXCEPT ![e] = "xstack"]
      /\ UNCHANGED <<at, seen>>
  BY AddrFacts, AddrNext DEF Look, In, Runs, Goto, faultVars, HandlerInv,
     TypeOK, StackMapped, StackMappedAt, Present
<1>2. /\ perm' = perm
      /\ page' = page
      /\ content' = content
  BY DEF Look, memVars
<1>3. \A x \in Env : Creating(x) => child[x] \in Env /\ status[child[x]] = "embryo"
  BY DEF HandlerInv, TypeOK, OwnChild
<1>4. \A x \in Env : fork[x] \in {"look", "mapChild", "mapSelf", "xstack", "upcall", "start"} => Creating(x)
  BY DEF Creating
<1>5. TypeOK'
  BY <1>1, <1>2, AddrFacts, AddrNext DEF HandlerInv, TypeOK, Step, FaultStep,
     Perm, LoopBound
<1>6. LoopBound'
  BY <1>1, <1>2, <1>3, <1>4, AddrFacts DEF HandlerInv, TypeOK, LoopBound, Asleep
<1>7. Asleep'
  BY <1>1, <1>2, <1>3, <1>4, AddrFacts DEF HandlerInv, TypeOK, Asleep, Creating
<1>8. OwnChild'
  BY <1>1, <1>2, <1>3, <1>4, AddrFacts DEF HandlerInv, TypeOK, OwnChild,
     Creating, Asleep
<1>9. HandlerSet'
  BY <1>1, <1>2, <1>3, <1>4, AddrFacts DEF HandlerInv, TypeOK, HandlerSet,
     HandlerSetAt, Asleep
<1>10. StackMapped'
  BY <1>1, <1>2, <1>3, <1>4, AddrFacts DEF HandlerInv, TypeOK, StackMapped,
     StackMappedAt, LoopBound, Asleep, OwnChild, Creating
<1>11. ChildReady'
  BY <1>1, <1>2, <1>3, <1>4, AddrFacts DEF HandlerInv, TypeOK, ChildReady,
     ChildReadyAt, LoopBound, OwnChild, Creating
<1>12. Faulting'
  BY <1>1, <1>2, <1>3, <1>4, AddrFacts DEF HandlerInv, TypeOK, Faulting,
     FaultingAt, Asleep, LoopBound, HandlerSet, HandlerSetAt, StackMapped,
     StackMappedAt
<1> QED
  BY <1>5, <1>6, <1>7, <1>8, <1>9, <1>10, <1>11, <1>12 DEF HandlerInv

\* duppage reads the permission of a page that is there.
LEMMA LookReads ==
  ASSUME HandlerInv, NEW e \in Env, Look(e), at[e] # NVA, Present(e, at[e])
  PROVE  HandlerInv'
<1>1. /\ status[e] = "alive" /\ fork[e] = "look" /\ fault[e] = "none"
      /\ UNCHANGED <<status, upcall, child, fault, addr, target, pending>>
      /\ fork' = [fork EXCEPT ![e] = "mapChild"]
      /\ seen' = [seen EXCEPT ![e] = perm[e][at[e]]]
      /\ UNCHANGED at
      /\ at[e] \in VA /\ perm[e][at[e]] \in Perm
  BY AddrFacts, AddrNext DEF Look, In, Runs, Goto, faultVars, HandlerInv,
     TypeOK, StackMapped, StackMappedAt, Present
<1>2. /\ perm' = perm
      /\ page' = page
      /\ content' = content
  BY DEF Look, memVars
<1>3. \A x \in Env : Creating(x) => child[x] \in Env /\ status[child[x]] = "embryo"
  BY DEF HandlerInv, TypeOK, OwnChild
<1>4. \A x \in Env : fork[x] \in {"look", "mapChild", "mapSelf", "xstack", "upcall", "start"} => Creating(x)
  BY DEF Creating
<1>5. TypeOK'
  BY <1>1, <1>2, AddrFacts, AddrNext DEF HandlerInv, TypeOK, Step, FaultStep,
     Perm, LoopBound
<1>6. LoopBound'
  BY <1>1, <1>2, <1>3, <1>4, AddrFacts DEF HandlerInv, TypeOK, LoopBound, Asleep
<1>7. Asleep'
  BY <1>1, <1>2, <1>3, <1>4, AddrFacts DEF HandlerInv, TypeOK, Asleep, Creating
<1>8. OwnChild'
  BY <1>1, <1>2, <1>3, <1>4, AddrFacts DEF HandlerInv, TypeOK, OwnChild,
     Creating, Asleep
<1>9. HandlerSet'
  BY <1>1, <1>2, <1>3, <1>4, AddrFacts DEF HandlerInv, TypeOK, HandlerSet,
     HandlerSetAt, Asleep
<1>10. StackMapped'
  BY <1>1, <1>2, <1>3, <1>4, AddrFacts DEF HandlerInv, TypeOK, StackMapped,
     StackMappedAt, LoopBound, Asleep, OwnChild, Creating
<1>11. ChildReady'
  BY <1>1, <1>2, <1>3, <1>4, AddrFacts DEF HandlerInv, TypeOK, ChildReady,
     ChildReadyAt, LoopBound, OwnChild, Creating
<1>12. Faulting'
  BY <1>1, <1>2, <1>3, <1>4, AddrFacts DEF HandlerInv, TypeOK, Faulting,
     FaultingAt, Asleep, LoopBound, HandlerSet, HandlerSetAt, StackMapped,
     StackMappedAt
<1> QED
  BY <1>5, <1>6, <1>7, <1>8, <1>9, <1>10, <1>11, <1>12 DEF HandlerInv

\* The stack is there, so the loop does not skip it.
LEMMA LookSkips ==
  ASSUME HandlerInv, NEW e \in Env, Look(e), at[e] # NVA, ~Present(e, at[e])
  PROVE  HandlerInv'
<1>1. /\ status[e] = "alive" /\ fork[e] = "look" /\ fault[e] = "none"
      /\ UNCHANGED <<status, upcall, child, fault, addr, target, pending>>
      /\ at' = [at EXCEPT ![e] = @ + 1]
      /\ UNCHANGED <<fork, seen>>
      /\ at[e] \in VA /\ at[e] + 1 \in 0..NVA /\ at[e] + 1 # NVA
  BY AddrFacts, AddrNext DEF Look, In, Runs, Goto, faultVars, HandlerInv,
     TypeOK, StackMapped, StackMappedAt, Present
<1>2. /\ perm' = perm
      /\ page' = page
      /\ content' = content
  BY DEF Look, memVars
<1>3. \A x \in Env : Creating(x) => child[x] \in Env /\ status[child[x]] = "embryo"
  BY DEF HandlerInv, TypeOK, OwnChild
<1>4. \A x \in Env : fork[x] \in {"look", "mapChild", "mapSelf", "xstack", "upcall", "start"} => Creating(x)
  BY DEF Creating
<1>5. TypeOK'
  BY <1>1, <1>2, AddrFacts, AddrNext DEF HandlerInv, TypeOK, Step, FaultStep,
     Perm, LoopBound
<1>6. LoopBound'
  BY <1>1, <1>2, <1>3, <1>4, AddrFacts, AddrNext DEF HandlerInv, TypeOK,
     LoopBound, Asleep
<1>7. Asleep'
  BY <1>1, <1>2, <1>3, <1>4, AddrFacts, AddrNext DEF HandlerInv, TypeOK, Asleep,
     Creating
<1>8. OwnChild'
  BY <1>1, <1>2, <1>3, <1>4, AddrFacts, AddrNext DEF HandlerInv, TypeOK,
     OwnChild, Creating, Asleep
<1>9. HandlerSet'
  BY <1>1, <1>2, <1>3, <1>4, AddrFacts, AddrNext DEF HandlerInv, TypeOK,
     HandlerSet, HandlerSetAt, Asleep
<1>10. StackMapped'
  BY <1>1, <1>2, <1>3, <1>4, AddrFacts, AddrNext DEF HandlerInv, TypeOK,
     StackMapped, StackMappedAt, LoopBound, Asleep, OwnChild, Creating
<1>11. ChildReady'
  BY <1>1, <1>2, <1>3, <1>4, AddrFacts, AddrNext DEF HandlerInv, TypeOK,
     ChildReady, ChildReadyAt, LoopBound, OwnChild, Creating
<1>12. Faulting'
  BY <1>1, <1>2, <1>3, <1>4, AddrFacts, AddrNext DEF HandlerInv, TypeOK,
     Faulting, FaultingAt, Asleep, LoopBound, HandlerSet, HandlerSetAt,
     StackMapped, StackMappedAt
<1> QED
  BY <1>5, <1>6, <1>7, <1>8, <1>9, <1>10, <1>11, <1>12 DEF HandlerInv

\* A page that is never copied.
LEMMA MapChildShares ==
  ASSUME HandlerInv, NEW e \in Env, MapChild(e), ~Die(e), seen[e] \in {"SHARE", "R"}, ~UNCHANGED memVars
  PROVE  HandlerInv'
<1>1. /\ status[e] = "alive" /\ fork[e] = "mapChild" /\ fault[e] = "none"
      /\ child[e] \in Env /\ child[e] # e /\ status[child[e]] = "embryo" /\ fault[child[e]] = "none"
      /\ at[e] \in VA /\ at[e] \in Addr
      /\ UNCHANGED <<status, upcall, child, seen, fault, addr, target, pending>>
      /\ at' = [at EXCEPT ![e] = @ + 1]
      /\ fork' = [fork EXCEPT ![e] = "look"]
  BY AddrFacts DEF MapChild, In, Runs, Goto, NextPage, Handling, Then, Return,
     faultVars, HandlerInv, TypeOK, LoopBound, OwnChild, Creating, Asleep
<1>2. /\ perm' \in [Env -> [Addr -> Perm]]
      /\ page' \in [Env -> [Addr -> Page \cup {0}]]
      /\ content' \in [Page -> Value]
      /\ perm'[child[e]][at[e]] = seen[e]
      /\ \A x \in Env, y \in Addr : x # child[e] \/ y # at[e] => perm'[x][y] = perm[x][y]
  BY <1>1, MapEffect DEF MapChild, HandlerInv, Perm
<1>3. \A x \in Env : Creating(x) => child[x] \in Env /\ status[child[x]] = "embryo"
  BY DEF HandlerInv, TypeOK, OwnChild
<1>4. \A x \in Env : fork[x] \in {"look", "mapChild", "mapSelf", "xstack", "upcall", "start"} => Creating(x)
  BY DEF Creating
<1>5. TypeOK'
  BY <1>1, <1>2, AddrFacts, AddrNext DEF HandlerInv, TypeOK, Step, FaultStep,
     Perm, LoopBound
<1>6. LoopBound'
  BY <1>1, <1>2, <1>3, <1>4, AddrFacts, AddrNext DEF HandlerInv, TypeOK,
     LoopBound, Asleep
<1>7. Asleep'
  BY <1>1, <1>2, <1>3, <1>4, AddrFacts, AddrNext DEF HandlerInv, TypeOK, Asleep,
     Creating
<1>8. OwnChild'
  BY <1>1, <1>2, <1>3, <1>4, AddrFacts, AddrNext DEF HandlerInv, TypeOK,
     OwnChild, Creating, Asleep
<1>9. HandlerSet'
  BY <1>1, <1>2, <1>3, <1>4, AddrFacts, AddrNext DEF HandlerInv, TypeOK,
     HandlerSet, HandlerSetAt, Asleep
<1>10. StackMapped'
  BY <1>1, <1>2, <1>3, <1>4, AddrFacts, AddrNext DEF HandlerInv, TypeOK,
     StackMapped, StackMappedAt, LoopBound, Asleep, OwnChild, Creating
<1>11. ChildReady'
  BY <1>1, <1>2, <1>3, <1>4, AddrFacts, AddrNext DEF HandlerInv, TypeOK,
     ChildReady, ChildReadyAt, LoopBound, OwnChild, Creating
<1>12. Faulting'
  BY <1>1, <1>2, <1>3, <1>4, AddrFacts, AddrNext DEF HandlerInv, TypeOK,
     Faulting, FaultingAt, Asleep, LoopBound, HandlerSet, HandlerSetAt,
     StackMapped, StackMappedAt
<1> QED
  BY <1>5, <1>6, <1>7, <1>8, <1>9, <1>10, <1>11, <1>12 DEF HandlerInv

\* The stack is no shared page, so it is not skipped.
LEMMA MapChildSkips ==
  ASSUME HandlerInv, NEW e \in Env, MapChild(e), ~Die(e), seen[e] \in {"SHARE", "R"}, UNCHANGED memVars
  PROVE  HandlerInv'
<1>1. /\ status[e] = "alive" /\ fork[e] = "mapChild" /\ fault[e] = "none"
      /\ child[e] \in Env /\ child[e] # e /\ status[child[e]] = "embryo" /\ fault[child[e]] = "none"
      /\ at[e] \in VA /\ at[e] \in Addr
      /\ UNCHANGED <<status, upcall, child, seen, fault, addr, target, pending>>
      /\ at' = [at EXCEPT ![e] = @ + 1]
      /\ fork' = [fork EXCEPT ![e] = "look"]
  BY AddrFacts DEF MapChild, In, Runs, Goto, NextPage, Handling, Then, Return,
     faultVars, HandlerInv, TypeOK, LoopBound, OwnChild, Creating, Asleep
<1>2. /\ perm' = perm
      /\ page' = page
      /\ content' = content
  BY DEF memVars
<1>3. \A x \in Env : Creating(x) => child[x] \in Env /\ status[child[x]] = "embryo"
  BY DEF HandlerInv, TypeOK, OwnChild
<1>4. \A x \in Env : fork[x] \in {"look", "mapChild", "mapSelf", "xstack", "upcall", "start"} => Creating(x)
  BY DEF Creating
<1>5. TypeOK'
  BY <1>1, <1>2, AddrFacts, AddrNext DEF HandlerInv, TypeOK, Step, FaultStep,
     Perm, LoopBound
<1>6. LoopBound'
  BY <1>1, <1>2, <1>3, <1>4, AddrFacts, AddrNext DEF HandlerInv, TypeOK,
     LoopBound, Asleep
<1>7. Asleep'
  BY <1>1, <1>2, <1>3, <1>4, AddrFacts, AddrNext DEF HandlerInv, TypeOK, Asleep,
     Creating
<1>8. OwnChild'
  BY <1>1, <1>2, <1>3, <1>4, AddrFacts, AddrNext DEF HandlerInv, TypeOK,
     OwnChild, Creating, Asleep
<1>9. HandlerSet'
  BY <1>1, <1>2, <1>3, <1>4, AddrFacts, AddrNext DEF HandlerInv, TypeOK,
     HandlerSet, HandlerSetAt, Asleep
<1>10. StackMapped'
  BY <1>1, <1>2, <1>3, <1>4, AddrFacts, AddrNext DEF HandlerInv, TypeOK,
     StackMapped, StackMappedAt, LoopBound, Asleep, OwnChild, Creating
<1>11. ChildReady'
  BY <1>1, <1>2, <1>3, <1>4, AddrFacts, AddrNext DEF HandlerInv, TypeOK,
     ChildReady, ChildReadyAt, LoopBound, OwnChild, Creating
<1>12. Faulting'
  BY <1>1, <1>2, <1>3, <1>4, AddrFacts, AddrNext DEF HandlerInv, TypeOK,
     Faulting, FaultingAt, Asleep, LoopBound, HandlerSet, HandlerSetAt,
     StackMapped, StackMappedAt
<1> QED
  BY <1>5, <1>6, <1>7, <1>8, <1>9, <1>10, <1>11, <1>12 DEF HandlerInv

\* The child gets the page copy-on-write.
LEMMA MapChildCopies ==
  ASSUME HandlerInv, NEW e \in Env, MapChild(e), ~Die(e), seen[e] \in {"W", "COW"}
  PROVE  HandlerInv'
<1>1. /\ status[e] = "alive" /\ fork[e] = "mapChild" /\ fault[e] = "none"
      /\ child[e] \in Env /\ child[e] # e /\ status[child[e]] = "embryo" /\ fault[child[e]] = "none"
      /\ at[e] \in VA /\ at[e] \in Addr
      /\ fork' = [fork EXCEPT ![e] = "mapSelf"]
      /\ UNCHANGED <<status, upcall, child, at, seen, fault, addr, target, pending>>
  BY AddrFacts DEF MapChild, In, Runs, Goto, NextPage, Handling, Then, Return,
     faultVars, HandlerInv, TypeOK, LoopBound, OwnChild, Creating, Asleep
<1>2. /\ perm' \in [Env -> [Addr -> Perm]]
      /\ page' \in [Env -> [Addr -> Page \cup {0}]]
      /\ content' \in [Page -> Value]
      /\ perm'[child[e]][at[e]] = "COW"
      /\ \A x \in Env, y \in Addr : x # child[e] \/ y # at[e] => perm'[x][y] = perm[x][y]
  BY <1>1, MapEffect DEF MapChild, HandlerInv, Perm
<1>3. \A x \in Env : Creating(x) => child[x] \in Env /\ status[child[x]] = "embryo"
  BY DEF HandlerInv, TypeOK, OwnChild
<1>4. \A x \in Env : fork[x] \in {"look", "mapChild", "mapSelf", "xstack", "upcall", "start"} => Creating(x)
  BY DEF Creating
<1>5. TypeOK'
  BY <1>1, <1>2, AddrFacts, AddrNext DEF HandlerInv, TypeOK, Step, FaultStep,
     Perm, LoopBound
<1>p. /\ fork'[e] = "mapSelf"
      /\ \A x \in Env : x # e => fork'[x] = fork[x]
      /\ \A x \in Env : status'[x] = status[x]
      /\ \A x \in Env : upcall'[x] <=> upcall[x]
      /\ \A x \in Env : child'[x] = child[x]
      /\ \A x \in Env : at'[x] = at[x]
      /\ \A x \in Env : seen'[x] = seen[x]
      /\ \A x \in Env : fault'[x] = fault[x]
      /\ \A x \in Env : addr'[x] = addr[x]
      /\ \A x \in Env : target'[x] = target[x]
  BY <1>1 DEF HandlerInv, TypeOK
<1>k. \A x \in Env : Creating(x) /\ status[e] = "alive" => child[x] # e
  BY <1>3
<1>g. /\ status[e] = "alive"
      /\ fork[e] = "mapChild"
      /\ fault[e] = "none"
      /\ child[e] \in Env
      /\ child[e] # e
      /\ status[child[e]] = "embryo"
      /\ fault[child[e]] = "none"
      /\ at[e] \in VA
      /\ at[e] \in Addr
      /\ \A x \in Env : addr[x] \in VA /\ target[x] \in VA /\ at[x] \in 0..NVA
  BY <1>1 DEF HandlerInv, TypeOK
<1>m. \A x \in Env : x # e /\ fault[x] # "none" =>
        /\ perm'[x][addr[x]] = perm[x][addr[x]] /\ perm'[x][target[x]] = perm[x][target[x]]
        /\ perm'[x][PfTemp] = perm[x][PfTemp] /\ perm'[x][Stack] = perm[x][Stack]
  BY <1>g, <1>2, AddrFacts
<1>6. LoopBound'
  BY <1>1, <1>2, <1>3, <1>4, AddrFacts DEF HandlerInv, TypeOK, LoopBound, Asleep
<1>7. Asleep'
  BY <1>1, <1>2, <1>3, <1>4, AddrFacts DEF HandlerInv, TypeOK, Asleep, Creating
<1>8. OwnChild'
  BY <1>1, <1>2, <1>3, <1>4, AddrFacts DEF HandlerInv, TypeOK, OwnChild,
     Creating, Asleep
<1>9. HandlerSet'
  BY <1>1, <1>2, <1>3, <1>4, AddrFacts DEF HandlerInv, TypeOK, HandlerSet,
     HandlerSetAt, Asleep
<1>10. StackMapped'
  BY <1>1, <1>2, <1>3, <1>4, AddrFacts DEF HandlerInv, TypeOK, StackMapped,
     StackMappedAt, LoopBound, Asleep, OwnChild, Creating
<1>11. ChildReady'
  BY <1>1, <1>2, <1>3, <1>4, AddrFacts DEF HandlerInv, TypeOK, ChildReady,
     ChildReadyAt, LoopBound, OwnChild, Creating
<1>12. Faulting'
  <2>1. SUFFICES ASSUME NEW x \in Env PROVE FaultingAt(x)'
    BY DEF Faulting
  <2>2. CASE x # e
    BY <1>p, <1>g, <1>m, <1>3, <1>4, <1>k, AddrFacts, <2>2 DEF HandlerInv,
       Faulting, FaultingAt, Asleep, StackMapped, StackMappedAt
  <2>3. CASE x = e
    BY <1>p, <1>g, <1>2, <1>3, <1>4, <1>k, AddrFacts, <2>3 DEF HandlerInv,
       Faulting, FaultingAt, Asleep, StackMapped, StackMappedAt
  <2> QED
    BY <2>2, <2>3
<1> QED
  BY <1>5, <1>6, <1>7, <1>8, <1>9, <1>10, <1>11, <1>12 DEF HandlerInv

\* The parent has its handler when its own page becomes copy-on-write.
LEMMA MapSelfStep ==
  ASSUME HandlerInv, NEW e \in Env, MapSelf(e)
  PROVE  HandlerInv'
<1>1. /\ status[e] = "alive" /\ fork[e] = "mapSelf" /\ fault[e] = "none"
      /\ child[e] \in Env /\ child[e] # e /\ status[child[e]] = "embryo" /\ fault[child[e]] = "none"
      /\ at[e] \in VA /\ at[e] \in Addr
      /\ UNCHANGED <<status, upcall, child, seen, fault, addr, target, pending>>
      /\ at' = [at EXCEPT ![e] = @ + 1]
      /\ fork' = [fork EXCEPT ![e] = "look"]
  BY AddrFacts DEF MapSelf, In, Runs, Goto, NextPage, Handling, Then, Return,
     faultVars, HandlerInv, TypeOK, LoopBound, OwnChild, Creating, Asleep
<1>2. /\ perm' \in [Env -> [Addr -> Perm]]
      /\ page' \in [Env -> [Addr -> Page \cup {0}]]
      /\ content' \in [Page -> Value]
      /\ perm'[e][at[e]] = "COW"
      /\ \A x \in Env, y \in Addr : x # e \/ y # at[e] => perm'[x][y] = perm[x][y]
  BY <1>1, MapEffect DEF MapSelf, HandlerInv, Perm
<1>3. \A x \in Env : Creating(x) => child[x] \in Env /\ status[child[x]] = "embryo"
  BY DEF HandlerInv, TypeOK, OwnChild
<1>4. \A x \in Env : fork[x] \in {"look", "mapChild", "mapSelf", "xstack", "upcall", "start"} => Creating(x)
  BY DEF Creating
<1>5. TypeOK'
  BY <1>1, <1>2, AddrFacts, AddrNext DEF HandlerInv, TypeOK, Step, FaultStep,
     Perm, LoopBound
<1>p. /\ \A x \in Env : status'[x] = status[x]
      /\ \A x \in Env : upcall'[x] <=> upcall[x]
      /\ \A x \in Env : child'[x] = child[x]
      /\ \A x \in Env : seen'[x] = seen[x]
      /\ \A x \in Env : fault'[x] = fault[x]
      /\ \A x \in Env : addr'[x] = addr[x]
      /\ \A x \in Env : target'[x] = target[x]
      /\ at'[e] = at[e] + 1
      /\ \A x \in Env : x # e => at'[x] = at[x]
      /\ fork'[e] = "look"
      /\ \A x \in Env : x # e => fork'[x] = fork[x]
  BY <1>1 DEF HandlerInv, TypeOK
<1>k. \A x \in Env : Creating(x) /\ status[e] = "alive" => child[x] # e
  BY <1>3
<1>g. /\ status[e] = "alive"
      /\ fork[e] = "mapSelf"
      /\ fault[e] = "none"
      /\ child[e] \in Env
      /\ child[e] # e
      /\ status[child[e]] = "embryo"
      /\ fault[child[e]] = "none"
      /\ at[e] \in VA
      /\ at[e] \in Addr
      /\ \A x \in Env : addr[x] \in VA /\ target[x] \in VA /\ at[x] \in 0..NVA
  BY <1>1 DEF HandlerInv, TypeOK
<1>6. LoopBound'
  BY <1>1, <1>2, <1>3, <1>4, AddrFacts, AddrNext DEF HandlerInv, TypeOK,
     LoopBound, Asleep
<1>7. Asleep'
  BY <1>1, <1>2, <1>3, <1>4, AddrFacts, AddrNext DEF HandlerInv, TypeOK, Asleep,
     Creating
<1>8. OwnChild'
  BY <1>1, <1>2, <1>3, <1>4, AddrFacts, AddrNext DEF HandlerInv, TypeOK,
     OwnChild, Creating, Asleep
<1>9. HandlerSet'
  BY <1>1, <1>2, <1>3, <1>4, AddrFacts, AddrNext DEF HandlerInv, TypeOK,
     HandlerSet, HandlerSetAt, Asleep
<1>10. StackMapped'
  BY <1>1, <1>2, <1>3, <1>4, AddrFacts, AddrNext DEF HandlerInv, TypeOK,
     StackMapped, StackMappedAt, LoopBound, Asleep, OwnChild, Creating
<1>11. ChildReady'
  <2>1. SUFFICES ASSUME NEW x \in Env PROVE ChildReadyAt(x)'
    BY DEF ChildReady
  <2>2. CASE x # e
    BY <1>p, <1>g, <1>2, <1>3, <1>4, <1>k, AddrFacts, AddrNext, <2>2 DEF
       HandlerInv, ChildReady, ChildReadyAt, LoopBound, Creating
  <2>3. CASE x = e
    BY <1>p, <1>g, <1>2, <1>3, <1>4, <1>k, AddrFacts, AddrNext, <2>3 DEF
       HandlerInv, ChildReady, ChildReadyAt, LoopBound, Creating
  <2> QED
    BY <2>2, <2>3
<1>12. Faulting'
  BY <1>1, <1>2, <1>3, <1>4, AddrFacts, AddrNext DEF HandlerInv, TypeOK,
     Faulting, FaultingAt, Asleep, LoopBound, HandlerSet, HandlerSetAt,
     StackMapped, StackMappedAt
<1> QED
  BY <1>5, <1>6, <1>7, <1>8, <1>9, <1>10, <1>11, <1>12 DEF HandlerInv

\* The exception stack of the child.
LEMMA AllocXStackStep ==
  ASSUME HandlerInv, NEW e \in Env, AllocXStack(e), ~Die(e)
  PROVE  HandlerInv'
<1>1. /\ status[e] = "alive" /\ fork[e] = "xstack" /\ fault[e] = "none"
      /\ child[e] \in Env /\ child[e] # e /\ status[child[e]] = "embryo" /\ fault[child[e]] = "none"
      /\ fork' = [fork EXCEPT ![e] = "upcall"]
      /\ UNCHANGED <<status, upcall, child, at, seen, fault, addr, target, pending>>
  BY DEF AllocXStack, In, Runs, Goto, NextPage, Handling, Then, Return,
     faultVars, HandlerInv, TypeOK, LoopBound, OwnChild, Creating, Asleep
<1>2. /\ perm' \in [Env -> [Addr -> Perm]]
      /\ page' \in [Env -> [Addr -> Page \cup {0}]]
      /\ content' \in [Page -> Value]
      /\ perm'[child[e]][XStack] = "W"
      /\ \A x \in Env, y \in Addr : x # child[e] \/ y # XStack => perm'[x][y] = perm[x][y]
  BY <1>1, AllocEffect, AddrFacts DEF AllocXStack, HandlerInv
<1>3. \A x \in Env : Creating(x) => child[x] \in Env /\ status[child[x]] = "embryo"
  BY DEF HandlerInv, TypeOK, OwnChild
<1>4. \A x \in Env : fork[x] \in {"look", "mapChild", "mapSelf", "xstack", "upcall", "start"} => Creating(x)
  BY DEF Creating
<1>5. TypeOK'
  BY <1>1, <1>2, AddrFacts, AddrNext DEF HandlerInv, TypeOK, Step, FaultStep,
     Perm, LoopBound
<1>p. /\ fork'[e] = "upcall"
      /\ \A x \in Env : x # e => fork'[x] = fork[x]
      /\ \A x \in Env : status'[x] = status[x]
      /\ \A x \in Env : upcall'[x] <=> upcall[x]
      /\ \A x \in Env : child'[x] = child[x]
      /\ \A x \in Env : at'[x] = at[x]
      /\ \A x \in Env : seen'[x] = seen[x]
      /\ \A x \in Env : fault'[x] = fault[x]
      /\ \A x \in Env : addr'[x] = addr[x]
      /\ \A x \in Env : target'[x] = target[x]
  BY <1>1 DEF HandlerInv, TypeOK
<1>k. \A x \in Env : Creating(x) /\ status[e] = "alive" => child[x] # e
  BY <1>3
<1>g. /\ status[e] = "alive"
      /\ fork[e] = "xstack"
      /\ fault[e] = "none"
      /\ child[e] \in Env
      /\ child[e] # e
      /\ status[child[e]] = "embryo"
      /\ fault[child[e]] = "none"
      /\ \A x \in Env : addr[x] \in VA /\ target[x] \in VA /\ at[x] \in 0..NVA
  BY <1>1 DEF HandlerInv, TypeOK
<1>m. \A x \in Env : x # e /\ fault[x] # "none" =>
        /\ perm'[x][addr[x]] = perm[x][addr[x]] /\ perm'[x][target[x]] = perm[x][target[x]]
        /\ perm'[x][PfTemp] = perm[x][PfTemp] /\ perm'[x][Stack] = perm[x][Stack]
  BY <1>g, <1>2, AddrFacts
<1>6. LoopBound'
  BY <1>1, <1>2, <1>3, <1>4, AddrFacts DEF HandlerInv, TypeOK, LoopBound, Asleep
<1>7. Asleep'
  BY <1>1, <1>2, <1>3, <1>4, AddrFacts DEF HandlerInv, TypeOK, Asleep, Creating
<1>8. OwnChild'
  BY <1>1, <1>2, <1>3, <1>4, AddrFacts DEF HandlerInv, TypeOK, OwnChild,
     Creating, Asleep
<1>9. HandlerSet'
  BY <1>1, <1>2, <1>3, <1>4, AddrFacts DEF HandlerInv, TypeOK, HandlerSet,
     HandlerSetAt, Asleep
<1>10. StackMapped'
  BY <1>1, <1>2, <1>3, <1>4, AddrFacts DEF HandlerInv, TypeOK, StackMapped,
     StackMappedAt, LoopBound, Asleep, OwnChild, Creating
<1>11. ChildReady'
  BY <1>1, <1>2, <1>3, <1>4, AddrFacts DEF HandlerInv, TypeOK, ChildReady,
     ChildReadyAt, LoopBound, OwnChild, Creating
<1>12. Faulting'
  <2>1. SUFFICES ASSUME NEW x \in Env PROVE FaultingAt(x)'
    BY DEF Faulting
  <2>2. CASE x # e
    BY <1>p, <1>g, <1>m, <1>3, <1>4, <1>k, AddrFacts, <2>2 DEF HandlerInv,
       Faulting, FaultingAt, Asleep, StackMapped, StackMappedAt
  <2>3. CASE x = e
    BY <1>p, <1>g, <1>2, <1>3, <1>4, <1>k, AddrFacts, <2>3 DEF HandlerInv,
       Faulting, FaultingAt, Asleep, StackMapped, StackMappedAt
  <2> QED
    BY <2>2, <2>3
<1> QED
  BY <1>5, <1>6, <1>7, <1>8, <1>9, <1>10, <1>11, <1>12 DEF HandlerInv

\* Only the child's upcall is set.
LEMMA SetUpcallStep ==
  ASSUME HandlerInv, NEW e \in Env, SetUpcall(e)
  PROVE  HandlerInv'
<1>1. /\ status[e] = "alive" /\ fork[e] = "upcall" /\ fault[e] = "none"
      /\ child[e] \in Env /\ child[e] # e /\ status[child[e]] = "embryo" /\ fault[child[e]] = "none"
      /\ fork' = [fork EXCEPT ![e] = "start"]
      /\ upcall' = [upcall EXCEPT ![child[e]] = TRUE]
      /\ UNCHANGED <<status, child, at, seen, fault, addr, target, pending>>
  BY DEF SetUpcall, In, Runs, Goto, NextPage, Handling, Then, Return, faultVars,
     HandlerInv, TypeOK, LoopBound, OwnChild, Creating, Asleep
<1>2. /\ perm' = perm
      /\ page' = page
      /\ content' = content
  BY DEF SetUpcall, memVars
<1>3. \A x \in Env : Creating(x) => child[x] \in Env /\ status[child[x]] = "embryo"
  BY DEF HandlerInv, TypeOK, OwnChild
<1>4. \A x \in Env : fork[x] \in {"look", "mapChild", "mapSelf", "xstack", "upcall", "start"} => Creating(x)
  BY DEF Creating
<1>5. TypeOK'
  BY <1>1, <1>2, AddrFacts, AddrNext DEF HandlerInv, TypeOK, Step, FaultStep,
     Perm, LoopBound
<1>6. LoopBound'
  BY <1>1, <1>2, <1>3, <1>4, AddrFacts DEF HandlerInv, TypeOK, LoopBound, Asleep
<1>7. Asleep'
  BY <1>1, <1>2, <1>3, <1>4, AddrFacts DEF HandlerInv, TypeOK, Asleep, Creating
<1>8. OwnChild'
  BY <1>1, <1>2, <1>3, <1>4, AddrFacts DEF HandlerInv, TypeOK, OwnChild,
     Creating, Asleep
<1>9. HandlerSet'
  BY <1>1, <1>2, <1>3, <1>4, AddrFacts DEF HandlerInv, TypeOK, HandlerSet,
     HandlerSetAt, Asleep
<1>10. StackMapped'
  BY <1>1, <1>2, <1>3, <1>4, AddrFacts DEF HandlerInv, TypeOK, StackMapped,
     StackMappedAt, LoopBound, Asleep, OwnChild, Creating
<1>11. ChildReady'
  BY <1>1, <1>2, <1>3, <1>4, AddrFacts DEF HandlerInv, TypeOK, ChildReady,
     ChildReadyAt, LoopBound, OwnChild, Creating
<1>12. Faulting'
  BY <1>1, <1>2, <1>3, <1>4, AddrFacts DEF HandlerInv, TypeOK, Faulting,
     FaultingAt, Asleep, LoopBound, HandlerSet, HandlerSetAt, StackMapped,
     StackMappedAt
<1> QED
  BY <1>5, <1>6, <1>7, <1>8, <1>9, <1>10, <1>11, <1>12 DEF HandlerInv

\* The child starts with its handler and its stack.
LEMMA StartStep ==
  ASSUME HandlerInv, NEW e \in Env, Start(e)
  PROVE  HandlerInv'
<1>1. /\ status[e] = "alive" /\ fork[e] = "start" /\ fault[e] = "none"
      /\ child[e] \in Env /\ child[e] # e /\ status[child[e]] = "embryo" /\ fault[child[e]] = "none"
      /\ at[e] = NVA
      /\ status' = [status EXCEPT ![child[e]] = "alive"]
      /\ fork' = [fork EXCEPT ![e] = "idle"]
      /\ child' = [child EXCEPT ![e] = First] /\ at' = [at EXCEPT ![e] = 0]
      /\ seen' = [seen EXCEPT ![e] = "none"]
      /\ UNCHANGED <<upcall, fault, addr, target, pending>>
      /\ fork[child[e]] = "idle" /\ fault[child[e]] = "none"
  BY DEF Start, Leave, Asleep, In, Runs, Goto, NextPage, Handling, Then, Return,
     faultVars, HandlerInv, TypeOK, LoopBound, OwnChild, Creating, Asleep
<1>2. /\ perm' = perm
      /\ page' = page
      /\ content' = content
  BY DEF Start, memVars
<1>3. \A x \in Env : Creating(x) => child[x] \in Env /\ status[child[x]] = "embryo"
  BY DEF HandlerInv, TypeOK, OwnChild
<1>4. \A x \in Env : fork[x] \in {"look", "mapChild", "mapSelf", "xstack", "upcall", "start"} => Creating(x)
  BY DEF Creating
<1>5. TypeOK'
  BY <1>1, <1>2, AddrFacts, AddrNext, ForkAssumption DEF HandlerInv, TypeOK,
     Step, FaultStep, Perm, LoopBound
<1>p. /\ status'[child[e]] = "alive"
      /\ \A x \in Env : x # child[e] => status'[x] = status[x]
      /\ fork'[e] = "idle"
      /\ \A x \in Env : x # e => fork'[x] = fork[x]
      /\ child'[e] = First
      /\ \A x \in Env : x # e => child'[x] = child[x]
      /\ at'[e] = 0
      /\ \A x \in Env : x # e => at'[x] = at[x]
      /\ seen'[e] = "none"
      /\ \A x \in Env : x # e => seen'[x] = seen[x]
      /\ \A x \in Env : upcall'[x] <=> upcall[x]
      /\ \A x \in Env : fault'[x] = fault[x]
      /\ \A x \in Env : addr'[x] = addr[x]
      /\ \A x \in Env : target'[x] = target[x]
  BY <1>1, ForkAssumption DEF HandlerInv, TypeOK
<1>k. \A x \in Env : Creating(x) /\ status[e] = "alive" => child[x] # e
  BY <1>3
<1>g. /\ status[e] = "alive"
      /\ fork[e] = "start"
      /\ fault[e] = "none"
      /\ child[e] \in Env
      /\ child[e] # e
      /\ status[child[e]] = "embryo"
      /\ fault[child[e]] = "none"
      /\ at[e] = NVA
      /\ fork[child[e]] = "idle"
      /\ fault[child[e]] = "none"
      /\ \A x \in Env : addr[x] \in VA /\ target[x] \in VA /\ at[x] \in 0..NVA
  BY <1>1 DEF HandlerInv, TypeOK
<1>6. LoopBound'
  BY <1>1, <1>2, <1>3, <1>4, AddrFacts, ForkAssumption DEF HandlerInv, TypeOK,
     LoopBound, Asleep
<1>7. Asleep'
  BY <1>1, <1>2, <1>3, <1>4, AddrFacts, ForkAssumption DEF HandlerInv, TypeOK,
     Asleep, Creating
<1>8. OwnChild'
  BY <1>1, <1>2, <1>3, <1>4, AddrFacts, ForkAssumption DEF HandlerInv, TypeOK,
     OwnChild, Creating, Asleep
<1>9. HandlerSet'
  <2>1. SUFFICES ASSUME NEW x \in Env PROVE HandlerSetAt(x)'
    BY DEF HandlerSet
  <2>2. CASE x # e
    BY <1>p, <1>g, <1>2, <1>3, <1>4, <1>k, AddrFacts, <2>2 DEF HandlerInv,
       HandlerSet, HandlerSetAt, Asleep, ChildReady, ChildReadyAt
  <2>3. CASE x = e
    BY <1>p, <1>g, <1>2, <1>3, <1>4, <1>k, AddrFacts, <2>3 DEF HandlerInv,
       HandlerSet, HandlerSetAt, Asleep, ChildReady, ChildReadyAt
  <2> QED
    BY <2>2, <2>3
<1>10. StackMapped'
  BY <1>1, <1>2, <1>3, <1>4, AddrFacts, ForkAssumption DEF HandlerInv, TypeOK,
     StackMapped, StackMappedAt, LoopBound, Asleep, OwnChild, Creating
<1>11. ChildReady'
  BY <1>1, <1>2, <1>3, <1>4, AddrFacts, ForkAssumption DEF HandlerInv, TypeOK,
     ChildReady, ChildReadyAt, LoopBound, OwnChild, Creating
<1>12. Faulting'
  BY <1>1, <1>2, <1>3, <1>4, AddrFacts, ForkAssumption DEF HandlerInv, TypeOK,
     Faulting, FaultingAt, Asleep, LoopBound, HandlerSet, HandlerSetAt,
     StackMapped, StackMappedAt
<1> QED
  BY <1>5, <1>6, <1>7, <1>8, <1>9, <1>10, <1>11, <1>12 DEF HandlerInv

\* The handler starts on a page that is copy-on-write.
LEMMA FaultStarts ==
  ASSUME HandlerInv, NEW e \in Env, NEW v \in VA, NEW z \in Value, Fault(e, v, z), ~Die(e)
  PROVE  HandlerInv'
<1>1. /\ status[e] = "alive" /\ fault[e] = "none" /\ perm[e][v] = "COW"
      /\ fault' = [fault EXCEPT ![e] = "alloc"]
      /\ addr' = [addr EXCEPT ![e] = v] /\ target' = [target EXCEPT ![e] = v]
      /\ pending' = [pending EXCEPT ![e] = z]
      /\ UNCHANGED <<status, upcall, fork, child, at, seen>>
  BY DEF Fault, Runs, Then, forkVars
<1>2. /\ perm' = perm
      /\ page' = page
      /\ content' = content
  BY DEF Fault, memVars
<1>3. \A x \in Env : Creating(x) => child[x] \in Env /\ status[child[x]] = "embryo"
  BY DEF HandlerInv, TypeOK, OwnChild
<1>4. \A x \in Env : fork[x] \in {"look", "mapChild", "mapSelf", "xstack", "upcall", "start"} => Creating(x)
  BY DEF Creating
<1>5. TypeOK'
  BY <1>1, <1>2, AddrFacts, AddrNext DEF HandlerInv, TypeOK, Step, FaultStep,
     Perm, LoopBound
<1>6. LoopBound'
  BY <1>1, <1>2, <1>3, <1>4, AddrFacts DEF HandlerInv, TypeOK, LoopBound, Asleep
<1>7. Asleep'
  BY <1>1, <1>2, <1>3, <1>4, AddrFacts DEF HandlerInv, TypeOK, Asleep, Creating
<1>8. OwnChild'
  BY <1>1, <1>2, <1>3, <1>4, AddrFacts DEF HandlerInv, TypeOK, OwnChild,
     Creating, Asleep
<1>9. HandlerSet'
  BY <1>1, <1>2, <1>3, <1>4, AddrFacts DEF HandlerInv, TypeOK, HandlerSet,
     HandlerSetAt, Asleep
<1>10. StackMapped'
  BY <1>1, <1>2, <1>3, <1>4, AddrFacts DEF HandlerInv, TypeOK, StackMapped,
     StackMappedAt, LoopBound, Asleep, OwnChild, Creating
<1>11. ChildReady'
  BY <1>1, <1>2, <1>3, <1>4, AddrFacts DEF HandlerInv, TypeOK, ChildReady,
     ChildReadyAt, LoopBound, OwnChild, Creating
<1>12. Faulting'
  BY <1>1, <1>2, <1>3, <1>4, AddrFacts DEF HandlerInv, TypeOK, Faulting,
     FaultingAt, Asleep, LoopBound, HandlerSet, HandlerSetAt, StackMapped,
     StackMappedAt
<1> QED
  BY <1>5, <1>6, <1>7, <1>8, <1>9, <1>10, <1>11, <1>12 DEF HandlerInv

\* The new page goes to PFTEMP.
LEMMA HandlerAllocStep ==
  ASSUME HandlerInv, NEW e \in Env, HandlerAlloc(e), ~Die(e)
  PROVE  HandlerInv'
<1>1. /\ status[e] = "alive" /\ fault[e] = "alloc"
      /\ addr[e] \in VA /\ addr[e] \in Addr /\ target[e] \in VA
      /\ fault' = [fault EXCEPT ![e] = "copy"]
      /\ UNCHANGED addr
      /\ UNCHANGED <<status, upcall, fork, child, at, seen, target, pending>>
  BY AddrFacts DEF HandlerAlloc, Handling, Then, Return, forkVars, HandlerInv,
     TypeOK
<1>2. /\ perm' \in [Env -> [Addr -> Perm]]
      /\ page' \in [Env -> [Addr -> Page \cup {0}]]
      /\ content' \in [Page -> Value]
      /\ perm'[e][PfTemp] = "W"
      /\ \A x \in Env, y \in Addr : x # e \/ y # PfTemp => perm'[x][y] = perm[x][y]
  BY AllocEffect, AddrFacts DEF HandlerAlloc, HandlerInv
<1>3. \A x \in Env : Creating(x) => child[x] \in Env /\ status[child[x]] = "embryo"
  BY DEF HandlerInv, TypeOK, OwnChild
<1>4. \A x \in Env : fork[x] \in {"look", "mapChild", "mapSelf", "xstack", "upcall", "start"} => Creating(x)
  BY DEF Creating
<1>5. TypeOK'
  BY <1>1, <1>2, AddrFacts, AddrNext DEF HandlerInv, TypeOK, Step, FaultStep,
     Perm, LoopBound
<1>p. /\ fault'[e] = "copy"
      /\ \A x \in Env : x # e => fault'[x] = fault[x]
      /\ \A x \in Env : addr'[x] = addr[x]
      /\ \A x \in Env : status'[x] = status[x]
      /\ \A x \in Env : upcall'[x] <=> upcall[x]
      /\ \A x \in Env : fork'[x] = fork[x]
      /\ \A x \in Env : child'[x] = child[x]
      /\ \A x \in Env : at'[x] = at[x]
      /\ \A x \in Env : seen'[x] = seen[x]
      /\ \A x \in Env : target'[x] = target[x]
  BY <1>1 DEF HandlerInv, TypeOK
<1>k. \A x \in Env : Creating(x) /\ status[e] = "alive" => child[x] # e
  BY <1>3
<1>g. /\ status[e] = "alive"
      /\ fault[e] = "alloc"
      /\ addr[e] \in VA
      /\ addr[e] \in Addr
      /\ target[e] \in VA
      /\ \A x \in Env : addr[x] \in VA /\ target[x] \in VA /\ at[x] \in 0..NVA
  BY <1>1 DEF HandlerInv, TypeOK
<1>h. \A x \in Env : /\ perm'[x][XStack] = perm[x][XStack]
                     /\ \A v \in VA : perm'[x][v] = "COW" => perm[x][v] = "COW"
  BY <1>g, <1>2, AddrFacts
<1>6. LoopBound'
  BY <1>1, <1>2, <1>3, <1>4, AddrFacts DEF HandlerInv, TypeOK, LoopBound, Asleep
<1>7. Asleep'
  BY <1>1, <1>2, <1>3, <1>4, AddrFacts DEF HandlerInv, TypeOK, Asleep, Creating
<1>8. OwnChild'
  BY <1>1, <1>2, <1>3, <1>4, AddrFacts DEF HandlerInv, TypeOK, OwnChild,
     Creating, Asleep
<1>9. HandlerSet'
  BY <1>p, <1>g, <1>h DEF HandlerInv, HandlerSet, HandlerSetAt
<1>10. StackMapped'
  BY <1>1, <1>2, <1>3, <1>4, AddrFacts DEF HandlerInv, TypeOK, StackMapped,
     StackMappedAt, LoopBound, Asleep, OwnChild, Creating
<1>11. ChildReady'
  BY <1>1, <1>2, <1>3, <1>4, AddrFacts DEF HandlerInv, TypeOK, ChildReady,
     ChildReadyAt, LoopBound, OwnChild, Creating
<1>12. Faulting'
  BY <1>1, <1>2, <1>3, <1>4, AddrFacts DEF HandlerInv, TypeOK, Faulting,
     FaultingAt, Asleep, LoopBound, HandlerSet, HandlerSetAt, StackMapped,
     StackMappedAt
<1> QED
  BY <1>5, <1>6, <1>7, <1>8, <1>9, <1>10, <1>11, <1>12 DEF HandlerInv

\* Copying changes no mapping.
LEMMA HandlerCopyStep ==
  ASSUME HandlerInv, NEW e \in Env, HandlerCopy(e)
  PROVE  HandlerInv'
<1>1. /\ status[e] = "alive" /\ fault[e] = "copy"
      /\ addr[e] \in VA /\ addr[e] \in Addr /\ target[e] \in VA
      /\ fault' = [fault EXCEPT ![e] = "map"]
      /\ UNCHANGED addr
      /\ UNCHANGED <<status, upcall, fork, child, at, seen, target, pending>>
  BY AddrFacts DEF HandlerCopy, Handling, Then, Return, forkVars, HandlerInv, TypeOK
<1>2. /\ perm' = perm
      /\ page' = page
      /\ content' \in [Page -> Value]
  <2>1. page[e][addr[e]] \in Page
    BY <1>1, AddrFacts DEF HandlerInv, TypeOK
  <2>2. content[page[e][addr[e]]] \in Value
    BY <2>1 DEF HandlerInv, TypeOK
  <2> QED
    BY <2>2 DEF HandlerCopy, HandlerInv, TypeOK
<1>3. \A x \in Env : Creating(x) => child[x] \in Env /\ status[child[x]] = "embryo"
  BY DEF HandlerInv, TypeOK, OwnChild
<1>4. \A x \in Env : fork[x] \in {"look", "mapChild", "mapSelf", "xstack", "upcall", "start"} => Creating(x)
  BY DEF Creating
<1>5. TypeOK'
  BY <1>1, <1>2, AddrFacts, AddrNext DEF HandlerInv, TypeOK, Step, FaultStep,
     Perm, LoopBound
<1>6. LoopBound'
  BY <1>1, <1>2, <1>3, <1>4, AddrFacts DEF HandlerInv, TypeOK, LoopBound, Asleep
<1>7. Asleep'
  BY <1>1, <1>2, <1>3, <1>4, AddrFacts DEF HandlerInv, TypeOK, Asleep, Creating
<1>8. OwnChild'
  BY <1>1, <1>2, <1>3, <1>4, AddrFacts DEF HandlerInv, TypeOK, OwnChild,
     Creating, Asleep
<1>9. HandlerSet'
  BY <1>1, <1>2, <1>3, <1>4, AddrFacts DEF HandlerInv, TypeOK, HandlerSet,
     HandlerSetAt, Asleep
<1>10. StackMapped'
  BY <1>1, <1>2, <1>3, <1>4, AddrFacts DEF HandlerInv, TypeOK, StackMapped,
     StackMappedAt, LoopBound, Asleep, OwnChild, Creating
<1>11. ChildReady'
  BY <1>1, <1>2, <1>3, <1>4, AddrFacts DEF HandlerInv, TypeOK, ChildReady,
     ChildReadyAt, LoopBound, OwnChild, Creating
<1>12. Faulting'
  BY <1>1, <1>2, <1>3, <1>4, AddrFacts DEF HandlerInv, TypeOK, Faulting,
     FaultingAt, Asleep, LoopBound, HandlerSet, HandlerSetAt, StackMapped,
     StackMappedAt
<1> QED
  BY <1>5, <1>6, <1>7, <1>8, <1>9, <1>10, <1>11, <1>12 DEF HandlerInv

\* The page that faulted becomes writable.
LEMMA HandlerMapStep ==
  ASSUME HandlerInv, NEW e \in Env, HandlerMap(e)
  PROVE  HandlerInv'
<1>1. /\ status[e] = "alive" /\ fault[e] = "map"
      /\ addr[e] \in VA /\ addr[e] \in Addr /\ target[e] \in VA
      /\ fault' = [fault EXCEPT ![e] = "unmap"]
      /\ UNCHANGED addr
      /\ UNCHANGED <<status, upcall, fork, child, at, seen, target, pending>>
  BY AddrFacts DEF HandlerMap, Handling, Then, Return, forkVars, HandlerInv, TypeOK
<1>2. /\ perm' \in [Env -> [Addr -> Perm]]
      /\ page' \in [Env -> [Addr -> Page \cup {0}]]
      /\ content' \in [Page -> Value]
      /\ perm'[e][addr[e]] = "W"
      /\ \A x \in Env, y \in Addr : x # e \/ y # addr[e] => perm'[x][y] = perm[x][y]
  BY <1>1, MapEffect, AddrFacts DEF HandlerMap, HandlerInv, Perm
<1>3. \A x \in Env : Creating(x) => child[x] \in Env /\ status[child[x]] = "embryo"
  BY DEF HandlerInv, TypeOK, OwnChild
<1>4. \A x \in Env : fork[x] \in {"look", "mapChild", "mapSelf", "xstack", "upcall", "start"} => Creating(x)
  BY DEF Creating
<1>5. TypeOK'
  BY <1>1, <1>2, AddrFacts, AddrNext DEF HandlerInv, TypeOK, Step, FaultStep,
     Perm, LoopBound
<1>p. /\ fault'[e] = "unmap"
      /\ \A x \in Env : x # e => fault'[x] = fault[x]
      /\ \A x \in Env : addr'[x] = addr[x]
      /\ \A x \in Env : status'[x] = status[x]
      /\ \A x \in Env : upcall'[x] <=> upcall[x]
      /\ \A x \in Env : fork'[x] = fork[x]
      /\ \A x \in Env : child'[x] = child[x]
      /\ \A x \in Env : at'[x] = at[x]
      /\ \A x \in Env : seen'[x] = seen[x]
      /\ \A x \in Env : target'[x] = target[x]
  BY <1>1 DEF HandlerInv, TypeOK
<1>k. \A x \in Env : Creating(x) /\ status[e] = "alive" => child[x] # e
  BY <1>3
<1>g. /\ status[e] = "alive"
      /\ fault[e] = "map"
      /\ addr[e] \in VA
      /\ addr[e] \in Addr
      /\ target[e] \in VA
      /\ \A x \in Env : addr[x] \in VA /\ target[x] \in VA /\ at[x] \in 0..NVA
  BY <1>1 DEF HandlerInv, TypeOK
<1>h. \A x \in Env : /\ perm'[x][XStack] = perm[x][XStack]
                     /\ \A v \in VA : perm'[x][v] = "COW" => perm[x][v] = "COW"
  BY <1>g, <1>2, AddrFacts
<1>6. LoopBound'
  BY <1>1, <1>2, <1>3, <1>4, AddrFacts DEF HandlerInv, TypeOK, LoopBound, Asleep
<1>7. Asleep'
  BY <1>1, <1>2, <1>3, <1>4, AddrFacts DEF HandlerInv, TypeOK, Asleep, Creating
<1>8. OwnChild'
  BY <1>1, <1>2, <1>3, <1>4, AddrFacts DEF HandlerInv, TypeOK, OwnChild,
     Creating, Asleep
<1>9. HandlerSet'
  BY <1>p, <1>g, <1>h DEF HandlerInv, HandlerSet, HandlerSetAt
<1>10. StackMapped'
  <2>1. SUFFICES ASSUME NEW x \in Env PROVE StackMappedAt(x)'
    BY DEF StackMapped
  <2>2. CASE x # e
    BY <1>p, <1>g, <1>2, <1>3, <1>4, <1>k, AddrFacts, <2>2 DEF HandlerInv,
       StackMapped, StackMappedAt, LoopBound, Asleep, Creating
  <2>3. CASE x = e
    BY <1>p, <1>g, <1>2, <1>3, <1>4, <1>k, AddrFacts, <2>3 DEF HandlerInv,
       StackMapped, StackMappedAt, LoopBound, Asleep, Creating
  <2> QED
    BY <2>2, <2>3
<1>11. ChildReady'
  <2>1. SUFFICES ASSUME NEW x \in Env PROVE ChildReadyAt(x)'
    BY DEF ChildReady
  <2>2. CASE x # e
    BY <1>p, <1>g, <1>2, <1>3, <1>4, <1>k, AddrFacts, <2>2 DEF HandlerInv,
       ChildReady, ChildReadyAt, LoopBound, Creating
  <2>3. CASE x = e
    BY <1>p, <1>g, <1>2, <1>3, <1>4, <1>k, AddrFacts, <2>3 DEF HandlerInv,
       ChildReady, ChildReadyAt, LoopBound, Creating
  <2> QED
    BY <2>2, <2>3
<1>12. Faulting'
  BY <1>1, <1>2, <1>3, <1>4, AddrFacts DEF HandlerInv, TypeOK, Faulting,
     FaultingAt, Asleep, LoopBound, HandlerSet, HandlerSetAt, StackMapped,
     StackMappedAt
<1> QED
  BY <1>5, <1>6, <1>7, <1>8, <1>9, <1>10, <1>11, <1>12 DEF HandlerInv

\* PFTEMP is none of the program's pages.
LEMMA HandlerUnmapStep ==
  ASSUME HandlerInv, NEW e \in Env, HandlerUnmap(e)
  PROVE  HandlerInv'
<1>1. /\ status[e] = "alive" /\ fault[e] = "unmap"
      /\ addr[e] \in VA /\ addr[e] \in Addr /\ target[e] \in VA
      /\ fault' = [fault EXCEPT ![e] = "entry"]
      /\ UNCHANGED addr
      /\ UNCHANGED <<status, upcall, fork, child, at, seen, target, pending>>
  BY AddrFacts DEF HandlerUnmap, Handling, Then, Return, forkVars, HandlerInv,
     TypeOK
<1>2. /\ perm' \in [Env -> [Addr -> Perm]]
      /\ page' \in [Env -> [Addr -> Page \cup {0}]]
      /\ content' \in [Page -> Value]
      /\ perm'[e][PfTemp] = "none"
      /\ \A x \in Env, y \in Addr : x # e \/ y # PfTemp => perm'[x][y] = perm[x][y]
  BY <1>1, UnmapEffect, AddrFacts DEF HandlerUnmap, HandlerInv
<1>3. \A x \in Env : Creating(x) => child[x] \in Env /\ status[child[x]] = "embryo"
  BY DEF HandlerInv, TypeOK, OwnChild
<1>4. \A x \in Env : fork[x] \in {"look", "mapChild", "mapSelf", "xstack", "upcall", "start"} => Creating(x)
  BY DEF Creating
<1>5. TypeOK'
  BY <1>1, <1>2, AddrFacts, AddrNext DEF HandlerInv, TypeOK, Step, FaultStep,
     Perm, LoopBound
<1>p. /\ fault'[e] = "entry"
      /\ \A x \in Env : x # e => fault'[x] = fault[x]
      /\ \A x \in Env : addr'[x] = addr[x]
      /\ \A x \in Env : status'[x] = status[x]
      /\ \A x \in Env : upcall'[x] <=> upcall[x]
      /\ \A x \in Env : fork'[x] = fork[x]
      /\ \A x \in Env : child'[x] = child[x]
      /\ \A x \in Env : at'[x] = at[x]
      /\ \A x \in Env : seen'[x] = seen[x]
      /\ \A x \in Env : target'[x] = target[x]
  BY <1>1 DEF HandlerInv, TypeOK
<1>k. \A x \in Env : Creating(x) /\ status[e] = "alive" => child[x] # e
  BY <1>3
<1>g. /\ status[e] = "alive"
      /\ fault[e] = "unmap"
      /\ addr[e] \in VA
      /\ addr[e] \in Addr
      /\ target[e] \in VA
      /\ \A x \in Env : addr[x] \in VA /\ target[x] \in VA /\ at[x] \in 0..NVA
  BY <1>1 DEF HandlerInv, TypeOK
<1>h. \A x \in Env : /\ perm'[x][XStack] = perm[x][XStack]
                     /\ \A v \in VA : perm'[x][v] = "COW" => perm[x][v] = "COW"
  BY <1>g, <1>2, AddrFacts
<1>6. LoopBound'
  BY <1>1, <1>2, <1>3, <1>4, AddrFacts DEF HandlerInv, TypeOK, LoopBound, Asleep
<1>7. Asleep'
  BY <1>1, <1>2, <1>3, <1>4, AddrFacts DEF HandlerInv, TypeOK, Asleep, Creating
<1>8. OwnChild'
  BY <1>1, <1>2, <1>3, <1>4, AddrFacts DEF HandlerInv, TypeOK, OwnChild,
     Creating, Asleep
<1>9. HandlerSet'
  BY <1>p, <1>g, <1>h DEF HandlerInv, HandlerSet, HandlerSetAt
<1>10. StackMapped'
  BY <1>1, <1>2, <1>3, <1>4, AddrFacts DEF HandlerInv, TypeOK, StackMapped,
     StackMappedAt, LoopBound, Asleep, OwnChild, Creating
<1>11. ChildReady'
  BY <1>1, <1>2, <1>3, <1>4, AddrFacts DEF HandlerInv, TypeOK, ChildReady,
     ChildReadyAt, LoopBound, OwnChild, Creating
<1>12. Faulting'
  BY <1>1, <1>2, <1>3, <1>4, AddrFacts DEF HandlerInv, TypeOK, Faulting,
     FaultingAt, Asleep, LoopBound, HandlerSet, HandlerSetAt, StackMapped,
     StackMappedAt
<1> QED
  BY <1>5, <1>6, <1>7, <1>8, <1>9, <1>10, <1>11, <1>12 DEF HandlerInv

\* The handler starts again on the stack.
LEMMA PushEipFaults ==
  ASSUME HandlerInv, NEW e \in Env, PushEip(e), perm[e][Stack] = "COW"
  PROVE  HandlerInv'
<1>1. /\ status[e] = "alive" /\ fault[e] = "entry"
      /\ addr[e] \in VA /\ addr[e] \in Addr /\ target[e] \in VA
      /\ fault' = [fault EXCEPT ![e] = "alloc"]
      /\ addr' = [addr EXCEPT ![e] = Stack]
      /\ UNCHANGED <<status, upcall, fork, child, at, seen, target, pending>>
  BY AddrFacts DEF PushEip, Handling, Then, Return, forkVars, HandlerInv, TypeOK
<1>2. /\ perm' = perm
      /\ page' = page
      /\ content' = content
  BY DEF PushEip, memVars
<1>3. \A x \in Env : Creating(x) => child[x] \in Env /\ status[child[x]] = "embryo"
  BY DEF HandlerInv, TypeOK, OwnChild
<1>4. \A x \in Env : fork[x] \in {"look", "mapChild", "mapSelf", "xstack", "upcall", "start"} => Creating(x)
  BY DEF Creating
<1>5. TypeOK'
  BY <1>1, <1>2, AddrFacts, AddrNext DEF HandlerInv, TypeOK, Step, FaultStep,
     Perm, LoopBound
<1>6. LoopBound'
  BY <1>1, <1>2, <1>3, <1>4, AddrFacts DEF HandlerInv, TypeOK, LoopBound, Asleep
<1>7. Asleep'
  BY <1>1, <1>2, <1>3, <1>4, AddrFacts DEF HandlerInv, TypeOK, Asleep, Creating
<1>8. OwnChild'
  BY <1>1, <1>2, <1>3, <1>4, AddrFacts DEF HandlerInv, TypeOK, OwnChild,
     Creating, Asleep
<1>9. HandlerSet'
  BY <1>1, <1>2, <1>3, <1>4, AddrFacts DEF HandlerInv, TypeOK, HandlerSet,
     HandlerSetAt, Asleep
<1>10. StackMapped'
  BY <1>1, <1>2, <1>3, <1>4, AddrFacts DEF HandlerInv, TypeOK, StackMapped,
     StackMappedAt, LoopBound, Asleep, OwnChild, Creating
<1>11. ChildReady'
  BY <1>1, <1>2, <1>3, <1>4, AddrFacts DEF HandlerInv, TypeOK, ChildReady,
     ChildReadyAt, LoopBound, OwnChild, Creating
<1>12. Faulting'
  BY <1>1, <1>2, <1>3, <1>4, AddrFacts DEF HandlerInv, TypeOK, Faulting,
     FaultingAt, Asleep, LoopBound, HandlerSet, HandlerSetAt, StackMapped,
     StackMappedAt
<1> QED
  BY <1>5, <1>6, <1>7, <1>8, <1>9, <1>10, <1>11, <1>12 DEF HandlerInv

\* The stack is writable when the program goes on.
LEMMA PushEipReturns ==
  ASSUME HandlerInv, NEW e \in Env, PushEip(e), perm[e][Stack] # "COW"
  PROVE  HandlerInv'
<1>1. /\ status[e] = "alive" /\ fault[e] = "entry"
      /\ addr[e] \in VA /\ addr[e] \in Addr /\ target[e] \in VA
      /\ fault' = [fault EXCEPT ![e] = "retry"]
      /\ perm[e][Stack] = "W"
      /\ UNCHANGED addr
      /\ UNCHANGED <<status, upcall, fork, child, at, seen, target, pending>>
  BY AddrFacts DEF PushEip, Handling, Then, Return, forkVars, HandlerInv,
     TypeOK, StackMapped, StackMappedAt
<1>2. /\ perm' = perm
      /\ page' = page
      /\ content' = content
  BY DEF PushEip, memVars
<1>3. \A x \in Env : Creating(x) => child[x] \in Env /\ status[child[x]] = "embryo"
  BY DEF HandlerInv, TypeOK, OwnChild
<1>4. \A x \in Env : fork[x] \in {"look", "mapChild", "mapSelf", "xstack", "upcall", "start"} => Creating(x)
  BY DEF Creating
<1>5. TypeOK'
  BY <1>1, <1>2, AddrFacts, AddrNext DEF HandlerInv, TypeOK, Step, FaultStep,
     Perm, LoopBound
<1>6. LoopBound'
  BY <1>1, <1>2, <1>3, <1>4, AddrFacts DEF HandlerInv, TypeOK, LoopBound, Asleep
<1>7. Asleep'
  BY <1>1, <1>2, <1>3, <1>4, AddrFacts DEF HandlerInv, TypeOK, Asleep, Creating
<1>8. OwnChild'
  BY <1>1, <1>2, <1>3, <1>4, AddrFacts DEF HandlerInv, TypeOK, OwnChild,
     Creating, Asleep
<1>9. HandlerSet'
  BY <1>1, <1>2, <1>3, <1>4, AddrFacts DEF HandlerInv, TypeOK, HandlerSet,
     HandlerSetAt, Asleep
<1>10. StackMapped'
  BY <1>1, <1>2, <1>3, <1>4, AddrFacts DEF HandlerInv, TypeOK, StackMapped,
     StackMappedAt, LoopBound, Asleep, OwnChild, Creating
<1>11. ChildReady'
  BY <1>1, <1>2, <1>3, <1>4, AddrFacts DEF HandlerInv, TypeOK, ChildReady,
     ChildReadyAt, LoopBound, OwnChild, Creating
<1>12. Faulting'
  BY <1>1, <1>2, <1>3, <1>4, AddrFacts DEF HandlerInv, TypeOK, Faulting,
     FaultingAt, Asleep, LoopBound, HandlerSet, HandlerSetAt, StackMapped,
     StackMappedAt
<1> QED
  BY <1>5, <1>6, <1>7, <1>8, <1>9, <1>10, <1>11, <1>12 DEF HandlerInv

\* The write changes no mapping.
LEMMA RetryStep ==
  ASSUME HandlerInv, NEW e \in Env, Retry(e)
  PROVE  HandlerInv'
<1>1. /\ status[e] = "alive" /\ fault[e] = "retry"
      /\ addr[e] \in VA /\ addr[e] \in Addr /\ target[e] \in VA
      /\ fault' = [fault EXCEPT ![e] = "none"]
      /\ addr' = [addr EXCEPT ![e] = 0] /\ target' = [target EXCEPT ![e] = 0]
      /\ pending' = [pending EXCEPT ![e] = Zero]
      /\ UNCHANGED <<status, upcall, fork, child, at, seen>>
  BY AddrFacts DEF Retry, Handling, Then, Return, forkVars, HandlerInv, TypeOK
<1>2. /\ perm' = perm
      /\ page' = page
      /\ content' \in [Page -> Value]
  BY <1>1 DEF Retry, Write, memVars, HandlerInv, TypeOK
<1>3. \A x \in Env : Creating(x) => child[x] \in Env /\ status[child[x]] = "embryo"
  BY DEF HandlerInv, TypeOK, OwnChild
<1>4. \A x \in Env : fork[x] \in {"look", "mapChild", "mapSelf", "xstack", "upcall", "start"} => Creating(x)
  BY DEF Creating
<1>5. TypeOK'
  BY <1>1, <1>2, AddrFacts, AddrNext, ForkAssumption DEF HandlerInv, TypeOK,
     Step, FaultStep, Perm, LoopBound
<1>6. LoopBound'
  BY <1>1, <1>2, <1>3, <1>4, AddrFacts, ForkAssumption DEF HandlerInv, TypeOK,
     LoopBound, Asleep
<1>7. Asleep'
  BY <1>1, <1>2, <1>3, <1>4, AddrFacts, ForkAssumption DEF HandlerInv, TypeOK,
     Asleep, Creating
<1>8. OwnChild'
  BY <1>1, <1>2, <1>3, <1>4, AddrFacts, ForkAssumption DEF HandlerInv, TypeOK,
     OwnChild, Creating, Asleep
<1>9. HandlerSet'
  BY <1>1, <1>2, <1>3, <1>4, AddrFacts, ForkAssumption DEF HandlerInv, TypeOK,
     HandlerSet, HandlerSetAt, Asleep
<1>10. StackMapped'
  BY <1>1, <1>2, <1>3, <1>4, AddrFacts, ForkAssumption DEF HandlerInv, TypeOK,
     StackMapped, StackMappedAt, LoopBound, Asleep, OwnChild, Creating
<1>11. ChildReady'
  BY <1>1, <1>2, <1>3, <1>4, AddrFacts, ForkAssumption DEF HandlerInv, TypeOK,
     ChildReady, ChildReadyAt, LoopBound, OwnChild, Creating
<1>12. Faulting'
  BY <1>1, <1>2, <1>3, <1>4, AddrFacts, ForkAssumption DEF HandlerInv, TypeOK,
     Faulting, FaultingAt, Asleep, LoopBound, HandlerSet, HandlerSetAt,
     StackMapped, StackMappedAt
<1> QED
  BY <1>5, <1>6, <1>7, <1>8, <1>9, <1>10, <1>11, <1>12 DEF HandlerInv

\* A write that does not fault changes no mapping.
LEMMA StoreStep ==
  ASSUME HandlerInv, NEW e \in Env, NEW v \in VA, NEW z \in Value, Store(e, v, z)
  PROVE  HandlerInv'
<1>1. /\ UNCHANGED <<status, upcall, fork, child, at, seen, fault, addr, target, pending>>
  BY DEF Store, forkVars, faultVars
<1>2. /\ perm' = perm
      /\ page' = page
      /\ content' \in [Page -> Value]
  BY DEF Store, Write, HandlerInv, TypeOK
<1>3. \A x \in Env : Creating(x) => child[x] \in Env /\ status[child[x]] = "embryo"
  BY DEF HandlerInv, TypeOK, OwnChild
<1>4. \A x \in Env : fork[x] \in {"look", "mapChild", "mapSelf", "xstack", "upcall", "start"} => Creating(x)
  BY DEF Creating
<1>5. TypeOK'
  BY <1>1, <1>2, AddrFacts, AddrNext DEF HandlerInv, TypeOK, Step, FaultStep,
     Perm, LoopBound
<1>6. LoopBound'
  BY <1>1, <1>2, <1>3, <1>4, AddrFacts DEF HandlerInv, TypeOK, LoopBound, Asleep
<1>7. Asleep'
  BY <1>1, <1>2, <1>3, <1>4, AddrFacts DEF HandlerInv, TypeOK, Asleep, Creating
<1>8. OwnChild'
  BY <1>1, <1>2, <1>3, <1>4, AddrFacts DEF HandlerInv, TypeOK, OwnChild,
     Creating, Asleep
<1>9. HandlerSet'
  BY <1>1, <1>2, <1>3, <1>4, AddrFacts DEF HandlerInv, TypeOK, HandlerSet,
     HandlerSetAt, Asleep
<1>10. StackMapped'
  BY <1>1, <1>2, <1>3, <1>4, AddrFacts DEF HandlerInv, TypeOK, StackMapped,
     StackMappedAt, LoopBound, Asleep, OwnChild, Creating
<1>11. ChildReady'
  BY <1>1, <1>2, <1>3, <1>4, AddrFacts DEF HandlerInv, TypeOK, ChildReady,
     ChildReadyAt, LoopBound, OwnChild, Creating
<1>12. Faulting'
  BY <1>1, <1>2, <1>3, <1>4, AddrFacts DEF HandlerInv, TypeOK, Faulting,
     FaultingAt, Asleep, LoopBound, HandlerSet, HandlerSetAt, StackMapped,
     StackMappedAt
<1> QED
  BY <1>5, <1>6, <1>7, <1>8, <1>9, <1>10, <1>11, <1>12 DEF HandlerInv

-----------------------------------------------------------------------------
(* The invariant.                                                          *)

\* One environment runs at the start, and it has a stack.
LEMMA HandlerInvInit == Init => HandlerInv
<1> SUFFICES ASSUME Init PROVE HandlerInv
  OBVIOUS
<1>1. TypeOK
  <2>1. perm \in [Env -> [Addr -> Perm]]
    BY DEF Init, Perm
  <2>2. page \in [Env -> [Addr -> Page \cup {0}]]
    BY ForkAssumption, AddrFacts DEF Init
  <2>3. content \in [Page -> Value]
    BY ForkAssumption DEF Init
  <2> QED
    BY <2>1, <2>2, <2>3, ForkAssumption, AddrFacts DEF Init, TypeOK, Step,
       FaultStep, Perm
<1>2. LoopBound /\ Asleep /\ OwnChild /\ ChildReady /\ Faulting
  BY DEF Init, LoopBound, Asleep, OwnChild, Creating, ChildReady, ChildReadyAt,
         Faulting, FaultingAt
<1>3. HandlerSet
  BY AddrFacts DEF Init, HandlerSet, HandlerSetAt
<1>4. StackMapped
  BY AddrFacts, ForkAssumption DEF Init, StackMapped, StackMappedAt, Creating
<1> QED
  BY <1>1, <1>2, <1>3, <1>4 DEF HandlerInv

\* The third way out of duppage: a shared page that the child does not get.
LEMMA MapChildStep ==
  ASSUME HandlerInv, NEW e \in Env, MapChild(e)
  PROVE  HandlerInv'
<1>1. CASE Die(e)
  BY <1>1, DieStep
<1>2. CASE ~Die(e)
  <2>1. seen[e] \in {"SHARE", "R"} \/ seen[e] \in {"W", "COW"}
    BY <1>2 DEF MapChild
  <2>2. CASE seen[e] \in {"W", "COW"}
    BY <1>2, <2>2, MapChildCopies
  <2>3. CASE seen[e] \in {"SHARE", "R"} /\ UNCHANGED memVars
    BY <1>2, <2>3, MapChildSkips
  <2>4. CASE seen[e] \in {"SHARE", "R"} /\ ~UNCHANGED memVars
    BY <1>2, <2>4, MapChildShares
  <2> QED
    BY <2>1, <2>2, <2>3, <2>4
<1> QED
  BY <1>1, <1>2

\* A write that faults, in the program or in fork's own calls.
LEMMA FaultEntersOrDies ==
  ASSUME HandlerInv, NEW e \in Env, NEW v \in VA, NEW x \in Value, Fault(e, v, x)
  PROVE  HandlerInv'
<1>1. CASE Die(e)
  BY <1>1, DieStep
<1>2. CASE ~Die(e)
  BY <1>2, FaultStarts
<1> QED
  BY <1>1, <1>2

\* No step of any environment breaks the invariant.
LEMMA HandlerInvStep == HandlerInv /\ [Next]_vars => HandlerInv'
<1> SUFFICES ASSUME HandlerInv, [Next]_vars PROVE HandlerInv'
  OBVIOUS
<1>1. CASE UNCHANGED vars
  BY <1>1 DEF vars, memVars, forkVars, faultVars, HandlerInv, TypeOK, LoopBound,
     Asleep, OwnChild, Creating, HandlerSet, HandlerSetAt, StackMapped,
     StackMappedAt, ChildReady, ChildReadyAt, Faulting, FaultingAt
<1>2. CASE Next
  <2>1. PICK e \in Env : Program(e) \/ Push(e) \/ Handler(e) \/ ForkStep(e) \/ Die(e)
    BY <1>2 DEF Next
  <2>2. CASE Die(e)
    BY <2>2, DieStep
  <2> SUFFICES ASSUME ~Die(e) PROVE HandlerInv'
    BY <2>2
  <2>3. CASE SetHandler(e)
    BY <2>3, SetHandlerStep
  <2>4. ASSUME NEW v \in Private \cup ReadOnly, NEW x \in Value,
               Store(e, v, x) \/ StoreFaults(e, v, x)
        PROVE  HandlerInv'
    <3>1. v \in VA
      BY ForkAssumption DEF Private
    <3>2. CASE Store(e, v, x)
      BY <3>1, <3>2, StoreStep
    <3>3. CASE StoreFaults(e, v, x)
      BY <3>1, <3>3, FaultEntersOrDies DEF StoreFaults
    <3> QED
      BY <2>4, <3>2, <3>3
  <2>5. CASE Push(e)
    BY <2>5, FaultEntersOrDies, AddrFacts, ForkAssumption DEF Push
  <2>6. CASE HandlerAlloc(e)
    BY <2>6, HandlerAllocStep
  <2>7. CASE HandlerCopy(e)
    BY <2>7, HandlerCopyStep
  <2>8. CASE HandlerMap(e)
    BY <2>8, HandlerMapStep
  <2>9. CASE HandlerUnmap(e)
    BY <2>9, HandlerUnmapStep
  <2>10. CASE PushEip(e)
    BY <2>10, PushEipFaults, PushEipReturns
  <2>11. CASE Retry(e)
    BY <2>11, RetryStep
  <2>12. CASE Exofork(e)
    BY <2>12, ExoforkStep
  <2>13. CASE Look(e)
    BY <2>13, LookEnds, LookReads, LookSkips
  <2>14. CASE MapChild(e)
    BY <2>14, MapChildStep
  <2>15. CASE MapSelf(e)
    BY <2>15, MapSelfStep
  <2>16. CASE AllocXStack(e)
    BY <2>16, AllocXStackStep
  <2>17. CASE SetUpcall(e)
    BY <2>17, SetUpcallStep
  <2>18. CASE Start(e)
    BY <2>18, StartStep
  <2> QED
    BY <2>1, <2>3, <2>4, <2>5, <2>6, <2>7, <2>8, <2>9, <2>10, <2>11, <2>12,
       <2>13, <2>14, <2>15, <2>16, <2>17, <2>18 DEF Program, Handler, ForkStep
<1> QED
  BY <1>1, <1>2 DEF vars

\* The invariant holds in every reachable state.
LEMMA Reachable == Spec => []HandlerInv
BY HandlerInvInit, HandlerInvStep, PTL DEF Spec

\* Every variable keeps its type, whatever the number of environments and pages.
THEOREM TypeCorrect == Spec => []TypeOK
<1>1. HandlerInv => TypeOK
  BY DEF HandlerInv
<1> QED
  BY Reachable, <1>1, PTL

\* CowIsHandled: nobody is destroyed for a write to a page that fork made
\* copy-on-write.  The upcall and its exception stack are there before the
\* parent's first page and before the child runs, and the write that is tried
\* again finds its page writable.
THEOREM CowIsHandledHolds == Spec => []CowIsHandled
<1>1. HandlerInv => CowIsHandled
  <2> SUFFICES ASSUME HandlerInv, NEW e \in Env, status[e] = "alive"
               PROVE  /\ (\E v \in VA : perm[e][v] = "COW") =>
                           upcall[e] /\ perm[e][XStack] = "W"
                      /\ fault[e] = "retry" =>
                           perm[e][target[e]] = "W" /\ perm[e][Stack] = "W"
    BY DEF CowIsHandled
  <2>1. (\E v \in VA : perm[e][v] = "COW") => upcall[e] /\ perm[e][XStack] = "W"
    BY DEF HandlerInv, HandlerSet, HandlerSetAt
  <2>2. fault[e] = "retry" => perm[e][target[e]] = "W" /\ perm[e][Stack] = "W"
    BY DEF HandlerInv, Faulting, FaultingAt
  <2> QED
    BY <2>1, <2>2
<1> QED
  BY Reachable, <1>1, PTL

-----------------------------------------------------------------------------
(* One mapping for a writable page.                                        *)

\* The exceptions that were made stay made.
Keeps == \A x \in Env :
  /\ fault[x] = "unmap" => fault'[x] = "unmap" /\ addr'[x] = addr[x]
  /\ fork[x] = "mapSelf" =>
       fork'[x] = "mapSelf" /\ child'[x] = child[x] /\ at'[x] = at[x]

\* No loop reads an entry or moves, and the entry it is at stays as it is.
LoopsRest == \A x \in Env : fork'[x] \in {"mapChild", "mapSelf"} =>
  /\ fork'[x] = fork[x] /\ seen'[x] = seen[x]
  /\ perm'[x][at'[x]] = perm[x][at[x]]

\* Then what the loops have seen is still true.
LEMMA SeenRest ==
  ASSUME SeenStays, LoopsRest
  PROVE  SeenStays'
BY DEF SeenStays, SeenStaysAt, LoopsRest

\* Without a new mapping no page gets a second one.
LEMMA MappingsRest ==
  ASSUME OneMapping, Keeps, perm' = perm, page' = page
  PROVE  OneMapping'
<1> SUFFICES ASSUME NEW e \in Env, NEW d \in Env, NEW v \in Addr, NEW w \in Addr,
                    perm[e][v] = "W", perm[d][w] # "none", page[e][v] = page[d][w]
             PROVE  Excepted(e, v, d, w)'
  BY DEF OneMapping, Present
<1>1. Excepted(e, v, d, w)
  BY DEF OneMapping, Present
<1> QED
  BY <1>1 DEF Excepted, Keeps

\* The page that sys_page_alloc maps has no other mapping.
LEMMA MappingsAlloc ==
  ASSUME TypeOK, OneMapping, Keeps, NEW a \in Env, NEW u \in Addr, PageAlloc(a, u)
  PROVE  OneMapping'
<1> SUFFICES ASSUME NEW e \in Env, NEW d \in Env, NEW v \in Addr, NEW w \in Addr,
                    perm'[e][v] = "W", perm'[d][w] # "none",
                    page'[e][v] = page'[d][w]
             PROVE  Excepted(e, v, d, w)'
  BY DEF OneMapping, Present
<1>1. /\ \A x \in Env, y \in Addr : x # a \/ y # u =>
           perm'[x][y] = perm[x][y] /\ page'[x][y] = page[x][y]
      /\ \A x \in Env, y \in Addr : perm[x][y] # "none" => page[x][y] # page'[a][u]
  BY AllocEffect DEF Present
<1>2. CASE (e = a /\ v = u) /\ (d = a /\ w = u)
  BY <1>2 DEF Excepted
<1>3. CASE ~(e = a /\ v = u) /\ ~(d = a /\ w = u)
  <2>1. Excepted(e, v, d, w)
    BY <1>1, <1>3 DEF OneMapping, Present
  <2> QED
    BY <2>1 DEF Excepted, Keeps
<1>4. CASE (e = a /\ v = u) /\ ~(d = a /\ w = u)
  BY <1>1, <1>4
<1>5. CASE ~(e = a /\ v = u) /\ (d = a /\ w = u)
  BY <1>1, <1>5
<1> QED
  BY <1>2, <1>3, <1>4, <1>5

\* A page that leaves page tables gets no new mapping.
LEMMA MappingsGo ==
  ASSUME OneMapping,
         \A x \in Env, y \in Addr : perm'[x][y] # "none" =>
           perm'[x][y] = perm[x][y] /\ page'[x][y] = page[x][y],
         \A x \in Env : fault[x] = "unmap" =>
           \/ fault'[x] = "unmap" /\ addr'[x] = addr[x]
           \/ perm'[x][PfTemp] = "none",
         \A x \in Env : fork[x] = "mapSelf" =>
           \/ fork'[x] = "mapSelf" /\ child'[x] = child[x] /\ at'[x] = at[x]
           \/ perm'[x][at[x]] = "none"
  PROVE  OneMapping'
<1> SUFFICES ASSUME NEW e \in Env, NEW d \in Env, NEW v \in Addr, NEW w \in Addr,
                    perm'[e][v] = "W", perm'[d][w] # "none",
                    page'[e][v] = page'[d][w]
             PROVE  Excepted(e, v, d, w)'
  BY DEF OneMapping, Present
<1>1. Excepted(e, v, d, w)
  BY DEF OneMapping, Present
<1> QED
  BY <1>1 DEF Excepted

\* The child's mapping of a page that the parent cannot write, or is about to
\* make copy-on-write.
LEMMA MappingsChild ==
  ASSUME HandlerInv, OneMapping, Keeps, NEW a \in Env, NEW r \in Perm, r # "W",
         status[a] = "alive", fork[a] = "mapChild", fault[a] = "none",
         perm[a][at[a]] # "none",
         \/ perm[a][at[a]] # "W"
         \/ fork'[a] = "mapSelf" /\ child'[a] = child[a] /\ at'[a] = at[a],
         PageMap(a, at[a], child[a], at[a], r)
  PROVE  OneMapping'
<1> DEFINE k == child[a]
           u == at[a]
<1> SUFFICES ASSUME NEW e \in Env, NEW d \in Env, NEW v \in Addr, NEW w \in Addr,
                    perm'[e][v] = "W", perm'[d][w] # "none",
                    page'[e][v] = page'[d][w]
             PROVE  Excepted(e, v, d, w)'
  BY DEF OneMapping, Present
<1>1. u \in Addr /\ k \in Env /\ u \in VA /\ status[k] = "embryo"
  BY AddrFacts DEF HandlerInv, TypeOK, LoopBound, OwnChild, Creating
<1>2. /\ perm'[k][u] = r /\ page'[k][u] = page[a][u]
      /\ \A x \in Env, y \in Addr : x # k \/ y # u =>
           perm'[x][y] = perm[x][y] /\ page'[x][y] = page[x][y]
  BY <1>1, MapEffect DEF HandlerInv
<1>3. ~(e = k /\ v = u) /\ perm[e][v] = "W" /\ page[e][v] = page'[d][w]
  BY <1>2
<1>4. CASE ~(d = k /\ w = u)
  <2>1. Excepted(e, v, d, w)
    BY <1>2, <1>3, <1>4 DEF OneMapping, Present
  <2> QED
    BY <2>1 DEF Excepted, Keeps
<1>5. CASE d = k /\ w = u
  <2>1. Excepted(e, v, a, u)
    BY <1>1, <1>2, <1>3, <1>5 DEF OneMapping, Present
  <2>2. fork[e] = "mapSelf" => a # child[e]
    BY DEF HandlerInv, OwnChild, Creating
  <2>3. e = a /\ v = u
    BY <2>1, <2>2 DEF Excepted
  <2> QED
    BY <1>1, <1>3, <1>5, <2>3 DEF Excepted
<1> QED
  BY <1>4, <1>5

\* The parent's own page, which it shares with the child from now on.
LEMMA MappingsSelf ==
  ASSUME HandlerInv, OneMapping, NEW a \in Env, fork[a] = "mapSelf",
         fork' = [fork EXCEPT ![a] = "look"], UNCHANGED <<child, fault, addr>>,
         \A x \in Env : x # a => at'[x] = at[x],
         perm[a][at[a]] # "none", PageMap(a, at[a], a, at[a], "COW")
  PROVE  OneMapping'
<1> SUFFICES ASSUME NEW e \in Env, NEW d \in Env, NEW v \in Addr, NEW w \in Addr,
                    perm'[e][v] = "W", perm'[d][w] # "none",
                    page'[e][v] = page'[d][w]
             PROVE  Excepted(e, v, d, w)'
  BY DEF OneMapping, Present
<1>1. at[a] \in Addr
  BY AddrFacts DEF HandlerInv, LoopBound
<1>2. /\ perm'[a][at[a]] = "COW" /\ page'[a][at[a]] = page[a][at[a]]
      /\ \A x \in Env, y \in Addr : x # a \/ y # at[a] =>
           perm'[x][y] = perm[x][y] /\ page'[x][y] = page[x][y]
  BY <1>1, MapEffect DEF HandlerInv, Perm
<1>3. ~(e = a /\ v = at[a]) /\ perm[e][v] = "W" /\ perm[d][w] # "none"
      /\ page[e][v] = page[d][w]
  BY <1>2
<1>4. Excepted(e, v, d, w)
  BY <1>3 DEF OneMapping, Present
<1>5. \A x \in Env : x # a => fork'[x] = fork[x]
  BY DEF HandlerInv, TypeOK
<1> QED
  BY <1>3, <1>4, <1>5 DEF Excepted

\* The handler's copy: for a moment it has two mappings, both of one environment.
LEMMA MappingsCopy ==
  ASSUME HandlerInv, OneMapping, NEW a \in Env, fault[a] = "map",
         fault' = [fault EXCEPT ![a] = "unmap"], UNCHANGED <<fork, child, at, addr>>,
         PageMap(a, PfTemp, a, addr[a], "W")
  PROVE  OneMapping'
<1> SUFFICES ASSUME NEW e \in Env, NEW d \in Env, NEW v \in Addr, NEW w \in Addr,
                    perm'[e][v] = "W", perm'[d][w] # "none",
                    page'[e][v] = page'[d][w]
             PROVE  Excepted(e, v, d, w)'
  BY DEF OneMapping, Present
<1> DEFINE u == addr[a]
<1>1. /\ u \in Addr /\ u # PfTemp /\ perm[a][PfTemp] = "W"
      /\ \A x \in Env : fork[x] = "mapSelf" => at[x] # PfTemp
  BY AddrFacts DEF HandlerInv, TypeOK, LoopBound, Faulting, FaultingAt
<1>2. /\ page'[a][u] = page[a][PfTemp]
      /\ \A x \in Env, y \in Addr : x # a \/ y # u =>
           perm'[x][y] = perm[x][y] /\ page'[x][y] = page[x][y]
  BY <1>1, AddrFacts, MapEffect DEF HandlerInv, Perm
<1>3. fault'[a] = "unmap" /\ \A x \in Env : x # a => fault'[x] = fault[x]
  BY DEF HandlerInv, TypeOK
<1>4. CASE ~(e = a /\ v = u) /\ ~(d = a /\ w = u)
  <2>1. Excepted(e, v, d, w)
    BY <1>2, <1>4 DEF OneMapping, Present
  <2> QED
    BY <2>1, <1>3 DEF Excepted
<1>5. CASE (e = a /\ v = u) /\ (d = a /\ w = u)
  BY <1>5 DEF Excepted
<1>6. CASE (e = a /\ v = u) /\ ~(d = a /\ w = u)
  <2>1. Excepted(a, PfTemp, d, w)
    BY <1>1, <1>2, <1>6, AddrFacts DEF OneMapping, Present
  <2>2. d = a /\ w = PfTemp
    BY <1>1, <2>1 DEF Excepted
  <2> QED
    BY <1>3, <1>6, <2>2 DEF Excepted
<1>7. CASE ~(e = a /\ v = u) /\ (d = a /\ w = u)
  <2>1. Excepted(e, v, a, PfTemp)
    BY <1>1, <1>2, <1>7, AddrFacts DEF OneMapping, Present
  <2>2. e = a /\ v = PfTemp
    BY <1>1, <2>1 DEF Excepted
  <2> QED
    BY <1>3, <1>7, <2>2 DEF Excepted
<1> QED
  BY <1>4, <1>5, <1>6, <1>7

\* A step that maps at most a fresh page, outside the pages fork copies, and
\* moves no loop.
Calm(d, w) ==
  /\ Keeps
  /\ \/ perm' = perm /\ page' = page
     \/ w \in Addr \ VA /\ PageAlloc(d, w)
  /\ \A x \in Env : fork'[x] \in {"mapChild", "mapSelf"} =>
       fork'[x] = fork[x] /\ seen'[x] = seen[x] /\ at'[x] = at[x]

\* Such a step keeps what is known of the pages.
LEMMA CalmStep ==
  ASSUME PageInv, HandlerInv', NEW d \in Env, NEW w, Calm(d, w)
  PROVE  PageInv'
<1>1. OneMapping'
  BY MappingsRest, MappingsAlloc DEF Calm, PageInv, HandlerInv
<1>2. LoopsRest
  <2>1. CASE perm' = perm
    BY <2>1 DEF Calm, LoopsRest
  <2>2. CASE w \in Addr \ VA /\ PageAlloc(d, w)
    <3>1. \A x \in Env, y \in VA : perm'[x][y] = perm[x][y]
      BY <2>2, AllocEffect, AddrFacts DEF PageInv, HandlerInv
    <3> QED
      BY <3>1 DEF Calm, LoopsRest, PageInv, HandlerInv, LoopBound
  <2> QED
    BY <2>1, <2>2 DEF Calm
<1> QED
  BY <1>1, <1>2, SeenRest DEF PageInv

\* The steps that are calm.
LEMMA CalmSteps ==
  ASSUME HandlerInv, NEW e \in Env, ~Die(e),
         \/ SetHandler(e) \/ Exofork(e) \/ HandlerAlloc(e) \/ HandlerCopy(e)
         \/ PushEip(e) \/ Retry(e) \/ AllocXStack(e) \/ SetUpcall(e) \/ Start(e)
  PROVE  \E d \in Env, w \in Addr : Calm(d, w)
<1>1. /\ e \in Env /\ XStack \in Addr \ VA /\ PfTemp \in Addr \ VA
      /\ fork[e] \in {"xstack", "upcall", "start"} => child[e] \in Env
  BY AddrFacts DEF HandlerInv, TypeOK
<1>2. CASE SetHandler(e)
  <2>1. Keeps
    BY <1>2 DEF SetHandler, Keeps, memVars, faultVars, In, Runs, Goto,
       HandlerInv, TypeOK
  <2>2. \A x \in Env : fork'[x] \in {"mapChild", "mapSelf"} =>
          fork'[x] = fork[x] /\ seen'[x] = seen[x] /\ at'[x] = at[x]
    BY <1>2 DEF SetHandler, memVars, faultVars, In, Runs, Goto, HandlerInv, TypeOK
  <2>3. Calm(e, XStack)
    BY <1>1, <1>2, <2>1, <2>2 DEF Calm, SetHandler, memVars
  <2> QED
    BY <1>1, <2>3
<1>3. CASE Exofork(e)
  <2>1. Keeps
    BY <1>3 DEF Exofork, Keeps, memVars, faultVars, In, Runs, Goto, HandlerInv,
       TypeOK
  <2>2. \A x \in Env : fork'[x] \in {"mapChild", "mapSelf"} =>
          fork'[x] = fork[x] /\ seen'[x] = seen[x] /\ at'[x] = at[x]
    BY <1>3 DEF Exofork, memVars, faultVars, In, Runs, Goto, HandlerInv, TypeOK
  <2>3. Calm(e, XStack)
    BY <1>1, <1>3, <2>1, <2>2 DEF Calm, Exofork, memVars
  <2> QED
    BY <1>1, <2>3
<1>4. CASE HandlerAlloc(e)
  <2>1. Keeps
    BY <1>4 DEF HandlerAlloc, Keeps, Handling, Then, forkVars, HandlerInv, TypeOK
  <2>2. \A x \in Env : fork'[x] \in {"mapChild", "mapSelf"} =>
          fork'[x] = fork[x] /\ seen'[x] = seen[x] /\ at'[x] = at[x]
    BY <1>4 DEF HandlerAlloc, Handling, Then, forkVars, HandlerInv, TypeOK
  <2>3. Calm(e, PfTemp)
    BY <1>1, <1>4, <2>1, <2>2 DEF Calm, HandlerAlloc
  <2> QED
    BY <1>1, <2>3
<1>5. CASE HandlerCopy(e)
  <2>1. Keeps
    BY <1>5 DEF HandlerCopy, Keeps, Handling, Then, forkVars, HandlerInv, TypeOK
  <2>2. \A x \in Env : fork'[x] \in {"mapChild", "mapSelf"} =>
          fork'[x] = fork[x] /\ seen'[x] = seen[x] /\ at'[x] = at[x]
    BY <1>5 DEF HandlerCopy, Handling, Then, forkVars, HandlerInv, TypeOK
  <2>3. Calm(e, XStack)
    BY <1>1, <1>5, <2>1, <2>2 DEF Calm, HandlerCopy
  <2> QED
    BY <1>1, <2>3
<1>6. CASE PushEip(e)
  <2>1. Keeps
    BY <1>6 DEF PushEip, Keeps, memVars, Handling, Then, forkVars, HandlerInv,
       TypeOK
  <2>2. \A x \in Env : fork'[x] \in {"mapChild", "mapSelf"} =>
          fork'[x] = fork[x] /\ seen'[x] = seen[x] /\ at'[x] = at[x]
    BY <1>6 DEF PushEip, memVars, Handling, Then, forkVars, HandlerInv, TypeOK
  <2>3. Calm(e, XStack)
    BY <1>1, <1>6, <2>1, <2>2 DEF Calm, PushEip, memVars
  <2> QED
    BY <1>1, <2>3
<1>7. CASE Retry(e)
  <2>1. Keeps
    BY <1>7 DEF Retry, Keeps, memVars, Write, Handling, Then, Return, forkVars,
       HandlerInv, TypeOK
  <2>2. \A x \in Env : fork'[x] \in {"mapChild", "mapSelf"} =>
          fork'[x] = fork[x] /\ seen'[x] = seen[x] /\ at'[x] = at[x]
    BY <1>7 DEF Retry, memVars, Write, Handling, Then, Return, forkVars,
       HandlerInv, TypeOK
  <2>3. Calm(e, XStack)
    BY <1>1, <1>7, <2>1, <2>2 DEF Calm, Retry, Write, memVars
  <2> QED
    BY <1>1, <2>3
<1>8. CASE AllocXStack(e)
  <2>1. Keeps
    BY <1>8 DEF AllocXStack, Keeps, faultVars, In, Runs, Goto, HandlerInv, TypeOK
  <2>2. \A x \in Env : fork'[x] \in {"mapChild", "mapSelf"} =>
          fork'[x] = fork[x] /\ seen'[x] = seen[x] /\ at'[x] = at[x]
    BY <1>8 DEF AllocXStack, faultVars, In, Runs, Goto, HandlerInv, TypeOK
  <2>3. Calm(child[e], XStack)
    BY <1>1, <1>8, <2>1, <2>2 DEF Calm, AllocXStack
  <2> QED
    BY <1>1, <2>3, <1>8 DEF AllocXStack, In
<1>9. CASE SetUpcall(e)
  <2>1. Keeps
    BY <1>9 DEF SetUpcall, Keeps, memVars, faultVars, In, Runs, Goto,
       HandlerInv, TypeOK
  <2>2. \A x \in Env : fork'[x] \in {"mapChild", "mapSelf"} =>
          fork'[x] = fork[x] /\ seen'[x] = seen[x] /\ at'[x] = at[x]
    BY <1>9 DEF SetUpcall, memVars, faultVars, In, Runs, Goto, HandlerInv, TypeOK
  <2>3. Calm(e, XStack)
    BY <1>1, <1>9, <2>1, <2>2 DEF Calm, SetUpcall, memVars
  <2> QED
    BY <1>1, <2>3
<1>10. CASE Start(e)
  <2>1. Keeps
    BY <1>10 DEF Start, Keeps, memVars, faultVars, In, Runs, Goto, Leave,
       HandlerInv, TypeOK
  <2>2. \A x \in Env : fork'[x] \in {"mapChild", "mapSelf"} =>
          fork'[x] = fork[x] /\ seen'[x] = seen[x] /\ at'[x] = at[x]
    BY <1>10 DEF Start, memVars, faultVars, In, Runs, Goto, Leave, HandlerInv,
       TypeOK
  <2>3. Calm(e, XStack)
    BY <1>1, <1>10, <2>1, <2>2 DEF Calm, Start, memVars
  <2> QED
    BY <1>1, <2>3
<1> QED
  BY <1>2, <1>3, <1>4, <1>5, <1>6, <1>7, <1>8, <1>9, <1>10

\* A death takes its mappings with it, and no loop belongs to the dead.
LEMMA PagesDie ==
  ASSUME PageInv, HandlerInv', NEW a \in Env, Die(a)
  PROVE  PageInv'
<1>1. /\ \A y \in Addr : perm'[a][y] = "none"
      /\ \A x \in Env \ {a} : perm'[x] = perm[x] /\ page'[x] = page[x]
  BY DieEffect DEF PageInv, HandlerInv
<1>2. /\ fork' = [fork EXCEPT ![a] = "idle"] /\ child' = [child EXCEPT ![a] = First]
      /\ at' = [at EXCEPT ![a] = 0] /\ seen' = [seen EXCEPT ![a] = "none"]
      /\ fault' = [fault EXCEPT ![a] = "none"] /\ addr' = [addr EXCEPT ![a] = 0]
  BY DEF Die, Leave, Return, Goto, Then
<1>3. OneMapping'
  <2>1. \A x \in Env, y \in Addr : perm'[x][y] # "none" =>
          perm'[x][y] = perm[x][y] /\ page'[x][y] = page[x][y]
    BY <1>1
  <2>2. \A x \in Env : fault[x] = "unmap" =>
          \/ fault'[x] = "unmap" /\ addr'[x] = addr[x]
          \/ perm'[x][PfTemp] = "none"
    BY <1>1, <1>2, AddrFacts DEF PageInv, HandlerInv, TypeOK
  <2>3. \A x \in Env : fork[x] = "mapSelf" =>
          \/ fork'[x] = "mapSelf" /\ child'[x] = child[x] /\ at'[x] = at[x]
          \/ perm'[x][at[x]] = "none"
    BY <1>1, <1>2, AddrFacts DEF PageInv, HandlerInv, TypeOK, LoopBound
  <2> QED
    BY <2>1, <2>2, <2>3, MappingsGo DEF PageInv
<1>4. LoopsRest
  BY <1>1, <1>2 DEF LoopsRest, PageInv, HandlerInv, TypeOK
<1> QED
  BY <1>3, <1>4, SeenRest DEF PageInv

\* A write changes contents only; a fault starts the handler.
LEMMA PagesWrite ==
  ASSUME PageInv, HandlerInv', NEW a \in Env, NEW v \in VA, NEW x \in Value,
         Store(a, v, x) \/ Fault(a, v, x), ~Die(a)
  PROVE  PageInv'
<1>1. Keeps
  BY DEF Keeps, Store, Fault, Runs, In, Then, forkVars, faultVars, PageInv,
     HandlerInv, TypeOK
<1>2. Calm(a, XStack)
  BY <1>1 DEF Calm, Store, Fault, Write, memVars, forkVars
<1> QED
  BY <1>2, CalmStep

\* duppage reads the entry of a page that is there.
LEMMA PagesLook ==
  ASSUME PageInv, HandlerInv', NEW a \in Env, Look(a)
  PROVE  PageInv'
<1>1. perm' = perm /\ page' = page /\ child' = child /\ fault' = fault /\ addr' = addr
  BY DEF Look, memVars, faultVars
<1>2. fork[a] = "look" /\ status[a] = "alive" /\ at[a] \in 0..NVA
  BY DEF Look, In, Runs, PageInv, HandlerInv, TypeOK
<1>3. \A x \in Env : x # a =>
        fork'[x] = fork[x] /\ at'[x] = at[x] /\ seen'[x] = seen[x]
  BY DEF Look, Goto, PageInv, HandlerInv, TypeOK
<1>4. OneMapping'
  <2>1. Keeps
    BY <1>1, <1>2, <1>3 DEF Keeps
  <2> QED
    BY <1>1, <2>1, MappingsRest DEF PageInv
<1>5. SeenStays'
  <2>1. SUFFICES ASSUME NEW x \in Env PROVE SeenStaysAt(x)'
    BY DEF SeenStays
  <2>2. CASE x # a
    BY <1>1, <1>3, <2>2 DEF PageInv, SeenStays, SeenStaysAt
  <2>3. CASE x = a /\ at[a] # NVA /\ Present(a, at[a])
    <3>1. /\ fork'[a] = "mapChild" /\ seen'[a] = perm[a][at[a]] /\ at'[a] = at[a]
          /\ at[a] \in Addr
      BY <1>2, <2>3, AddrFacts DEF Look, Goto, PageInv, HandlerInv, TypeOK
    <3> QED
      BY <1>1, <2>3, <3>1 DEF SeenStaysAt
  <2>4. CASE x = a /\ ~(at[a] # NVA /\ Present(a, at[a]))
    <3>1. fork'[a] \in {"xstack", "look"}
      BY <1>2, <2>4 DEF Look, Goto, PageInv, HandlerInv, TypeOK
    <3> QED
      BY <2>4, <3>1 DEF SeenStaysAt
  <2> QED
    BY <2>2, <2>3, <2>4
<1> QED
  BY <1>4, <1>5 DEF PageInv

\* duppage maps the page for the child.
LEMMA PagesMapChild ==
  ASSUME PageInv, HandlerInv', NEW a \in Env, MapChild(a), ~Die(a)
  PROVE  PageInv'
<1>1. /\ status[a] = "alive" /\ fork[a] = "mapChild" /\ fault[a] = "none"
      /\ at[a] \in VA /\ at[a] \in Addr /\ child[a] \in Env /\ child[a] # a
      /\ status[child[a]] = "embryo" /\ fork[child[a]] = "idle"
      /\ fault' = fault /\ addr' = addr /\ child' = child /\ seen' = seen
      /\ seen[a] \in Perm
  BY AddrFacts DEF MapChild, In, Runs, faultVars, PageInv, HandlerInv, TypeOK,
     LoopBound, OwnChild, Creating, Asleep
<1>2. \A x \in Env : x # a => fork'[x] = fork[x] /\ at'[x] = at[x]
  BY DEF MapChild, NextPage, Goto, PageInv, HandlerInv, TypeOK
<1>3. Keeps
  BY <1>1, <1>2 DEF Keeps
<1>4. CASE seen[a] \in {"W", "COW"}
  <2>1. /\ PageMap(a, at[a], child[a], at[a], "COW")
        /\ fork'[a] = "mapSelf" /\ at' = at
    BY <1>4 DEF MapChild, Goto, PageInv, HandlerInv, TypeOK
  <2>2. perm[a][at[a]] \in {"W", "COW"}
    BY <1>1, <1>4 DEF PageInv, SeenStays, SeenStaysAt
  <2>3. OneMapping'
    BY <1>1, <1>3, <2>1, <2>2, MappingsChild DEF PageInv, Perm
  <2>4. \A x \in Env, y \in Addr : x # child[a] => perm'[x][y] = perm[x][y]
    BY <1>1, <2>1, MapEffect DEF PageInv, HandlerInv, Perm
  <2>5. SeenStays'
    BY <1>1, <1>2, <2>1, <2>2, <2>4, AddrFacts DEF SeenStays, SeenStaysAt, PageInv,
       HandlerInv, LoopBound
  <2> QED
    BY <2>3, <2>5 DEF PageInv
<1>5. CASE seen[a] \notin {"W", "COW"}
  <2>1. /\ fork'[a] = "look"
        /\ \/ UNCHANGED memVars
           \/ /\ seen[a] \in {"SHARE", "R"}
              /\ PageMap(a, at[a], child[a], at[a], seen[a])
    BY <1>5 DEF MapChild, NextPage, Goto, PageInv, HandlerInv, TypeOK
  <2>2. CASE UNCHANGED memVars
    <3>1. OneMapping'
      BY <1>3, <2>2, MappingsRest DEF PageInv, memVars
    <3>2. SeenStays'
      BY <1>1, <1>2, <2>1, <2>2 DEF SeenStays, SeenStaysAt, PageInv, memVars
    <3> QED
      BY <3>1, <3>2 DEF PageInv
  <2>3. CASE /\ seen[a] \in {"SHARE", "R"}
             /\ PageMap(a, at[a], child[a], at[a], seen[a])
    <3>1. perm[a][at[a]] = seen[a]
      BY <1>1, <2>3 DEF PageInv, SeenStays, SeenStaysAt
    <3>2. OneMapping'
      BY <1>1, <1>3, <2>3, <3>1, MappingsChild DEF PageInv
    <3>3. \A x \in Env, y \in Addr : x # child[a] => perm'[x][y] = perm[x][y]
      BY <1>1, <2>3, MapEffect DEF PageInv, HandlerInv
    <3>4. SeenStays'
      BY <1>1, <1>2, <2>1, <3>3, AddrFacts DEF SeenStays, SeenStaysAt, PageInv,
         HandlerInv, LoopBound
    <3> QED
      BY <3>2, <3>4 DEF PageInv
  <2> QED
    BY <2>1, <2>2, <2>3
<1> QED
  BY <1>4, <1>5

\* And then for the parent.
LEMMA PagesMapSelf ==
  ASSUME PageInv, HandlerInv', NEW a \in Env, MapSelf(a)
  PROVE  PageInv'
<1>1. /\ fork[a] = "mapSelf" /\ fork' = [fork EXCEPT ![a] = "look"]
      /\ UNCHANGED <<child, seen, fault, addr>>
      /\ at' = [at EXCEPT ![a] = @ + 1]
      /\ PageMap(a, at[a], a, at[a], "COW")
      /\ at[a] \in VA /\ at[a] \in Addr
  BY AddrFacts DEF MapSelf, In, Runs, NextPage, Goto, faultVars, PageInv,
     HandlerInv, LoopBound
<1>2. perm[a][at[a]] \in {"W", "COW"}
  BY <1>1 DEF PageInv, SeenStays, SeenStaysAt
<1>3. \A x \in Env : x # a => fork'[x] = fork[x] /\ at'[x] = at[x]
  BY <1>1 DEF PageInv, HandlerInv, TypeOK
<1>4. OneMapping'
  BY <1>1, <1>2, <1>3, MappingsSelf DEF PageInv
<1>5. SeenStays'
  <2>1. \A x \in Env, y \in Addr : x # a => perm'[x][y] = perm[x][y]
    BY <1>1, MapEffect DEF PageInv, HandlerInv, Perm
  <2>2. fork'[a] = "look"
    BY <1>1 DEF PageInv, HandlerInv, TypeOK
  <2> QED
    BY <1>1, <1>3, <2>1, <2>2, AddrFacts DEF SeenStays, SeenStaysAt, PageInv,
       HandlerInv, LoopBound
<1> QED
  BY <1>4, <1>5 DEF PageInv

\* The handler puts its copy in the place of the page that faulted.
LEMMA PagesHandlerMap ==
  ASSUME PageInv, HandlerInv', NEW a \in Env, HandlerMap(a)
  PROVE  PageInv'
<1>1. /\ fault[a] = "map" /\ fault' = [fault EXCEPT ![a] = "unmap"]
      /\ UNCHANGED <<fork, child, at, seen, addr>>
      /\ PageMap(a, PfTemp, a, addr[a], "W")
      /\ addr[a] \in Addr
  BY AddrFacts DEF HandlerMap, Handling, Then, forkVars, PageInv, HandlerInv, TypeOK
<1>2. OneMapping'
  BY <1>1, MappingsCopy DEF PageInv
<1>3. perm[a][addr[a]] = "COW"
  BY <1>1 DEF PageInv, HandlerInv, Faulting, FaultingAt
<1>4. /\ perm'[a][addr[a]] = "W"
      /\ \A x \in Env, y \in Addr : x # a \/ y # addr[a] => perm'[x][y] = perm[x][y]
  BY <1>1, AddrFacts, MapEffect DEF PageInv, HandlerInv, Perm
<1>5. SeenStays'
  BY <1>1, <1>3, <1>4, AddrFacts DEF SeenStays, SeenStaysAt, PageInv, HandlerInv,
     LoopBound
<1> QED
  BY <1>2, <1>5 DEF PageInv

\* The temporary mapping goes.
LEMMA PagesHandlerUnmap ==
  ASSUME PageInv, HandlerInv', NEW a \in Env, HandlerUnmap(a)
  PROVE  PageInv'
<1>1. /\ fault' = [fault EXCEPT ![a] = "entry"]
      /\ UNCHANGED <<fork, child, at, seen, addr>> /\ PageUnmap(a, PfTemp)
  BY DEF HandlerUnmap, Then, forkVars
<1>2. /\ perm'[a][PfTemp] = "none"
      /\ \A x \in Env, y \in Addr : x # a \/ y # PfTemp =>
           perm'[x][y] = perm[x][y] /\ page'[x][y] = page[x][y]
  BY <1>1, AddrFacts, UnmapEffect DEF PageInv, HandlerInv
<1>3. OneMapping'
  <2>1. \A x \in Env, y \in Addr : perm'[x][y] # "none" =>
          perm'[x][y] = perm[x][y] /\ page'[x][y] = page[x][y]
    BY <1>2
  <2>2. \A x \in Env : fault[x] = "unmap" =>
          \/ fault'[x] = "unmap" /\ addr'[x] = addr[x]
          \/ perm'[x][PfTemp] = "none"
    BY <1>1, <1>2 DEF PageInv, HandlerInv, TypeOK
  <2> QED
    BY <1>1, <2>1, <2>2, MappingsGo DEF PageInv
<1>4. LoopsRest
  BY <1>1, <1>2, AddrFacts DEF LoopsRest, PageInv, HandlerInv, LoopBound
<1> QED
  BY <1>3, <1>4, SeenRest DEF PageInv

\* At the start every page has one mapping.
LEMMA PageInvInit == Init => PageInv
<1> SUFFICES ASSUME Init PROVE PageInv
  OBVIOUS
<1>1. SeenStays
  BY DEF Init, SeenStays, SeenStaysAt
<1>2. OneMapping
  BY AddrFacts DEF Init, OneMapping, Present, Excepted
<1> QED
  BY <1>1, <1>2, HandlerInvInit DEF PageInv

\* No step gives a writable page a second mapping.
LEMMA PageInvStep == PageInv /\ [Next]_vars => PageInv'
<1> SUFFICES ASSUME PageInv, [Next]_vars PROVE PageInv'
  OBVIOUS
<1>1. HandlerInv /\ HandlerInv'
  BY HandlerInvStep DEF PageInv
<1>2. CASE UNCHANGED vars
  BY <1>1, <1>2 DEF vars, memVars, forkVars, faultVars, PageInv, SeenStays,
     SeenStaysAt, OneMapping, Excepted, Present
<1>3. CASE Next
  <2>1. PICK e \in Env : Program(e) \/ Push(e) \/ Handler(e) \/ ForkStep(e) \/ Die(e)
    BY <1>3 DEF Next
  <2>2. CASE Die(e)
    BY <1>1, <2>2, PagesDie
  <2> SUFFICES ASSUME ~Die(e) PROVE PageInv'
    BY <2>2
  <2>3. ASSUME NEW v \in Private \cup ReadOnly, NEW x \in Value,
               Store(e, v, x) \/ StoreFaults(e, v, x)
        PROVE  PageInv'
    <3>1. v \in VA
      BY ForkAssumption DEF Private
    <3> QED
      BY <1>1, <2>3, <3>1, PagesWrite DEF StoreFaults
  <2>4. CASE Push(e)
    BY <1>1, <2>4, PagesWrite, AddrFacts, ForkAssumption DEF Push
  <2>5. CASE \/ SetHandler(e) \/ Exofork(e) \/ HandlerAlloc(e) \/ HandlerCopy(e)
             \/ PushEip(e) \/ Retry(e) \/ AllocXStack(e) \/ SetUpcall(e) \/ Start(e)
    BY <1>1, <2>5, CalmSteps, CalmStep
  <2>6. CASE HandlerMap(e)
    BY <1>1, <2>6, PagesHandlerMap
  <2>7. CASE HandlerUnmap(e)
    BY <1>1, <2>7, PagesHandlerUnmap
  <2>8. CASE Look(e)
    BY <1>1, <2>8, PagesLook
  <2>9. CASE MapChild(e)
    BY <1>1, <2>9, PagesMapChild
  <2>10. CASE MapSelf(e)
    BY <1>1, <2>10, PagesMapSelf
  <2> QED
    BY <2>1, <2>3, <2>4, <2>5, <2>6, <2>7, <2>8, <2>9, <2>10
       DEF Program, Handler, ForkStep
<1> QED
  BY <1>2, <1>3

\* WritableIsPrivate: whatever a process may write without a fault is its own,
\* unless it was shared on purpose: no order of the two maps of duppage, of
\* faults in between and of deaths lets a process write what another one reads.
THEOREM WritableIsPrivateHolds == Spec => []WritableIsPrivate
<1>1. PageInv => WritableIsPrivate
  <2> SUFFICES ASSUME PageInv, NEW e \in Env, NEW d \in Env, NEW v \in Addr,
                      NEW w \in Addr, status[e] = "alive", status[d] = "alive",
                      perm[e][v] = "W", Present(d, w), page[e][v] = page[d][w]
               PROVE  e = d /\ (v = w \/ PfTemp \in {v, w})
    BY DEF WritableIsPrivate
  <2>1. Excepted(e, v, d, w)
    BY DEF PageInv, OneMapping
  <2>2. fork[e] = "mapSelf" => d # child[e]
    BY DEF PageInv, HandlerInv, OwnChild, Creating
  <2>3. {v, w} = {PfTemp, addr[e]} => PfTemp \in {v, w}
    OBVIOUS
  <2> QED
    BY <2>1, <2>2, <2>3 DEF Excepted
<1> QED
  BY PageInvInit, PageInvStep, <1>1, PTL DEF Spec

-----------------------------------------------------------------------------
(***************************************************************************)
(* Copy-on-write gives every environment a memory of its own: ForkCow      *)
(* implements PrivateMemory for any number of environments and pages.      *)
(***************************************************************************)

\* What a mapping reads.
Val(e, v) == content[page[e][v]]

\* And will read after the step.
NewVal(e, v) == content'[page'[e][v]]

\* A private page is there, and writable or copy-on-write.
PrivateMapped(e) == \A v \in Private : perm[e][v] \in {"W", "COW"}

\* The pages a call of fork has given to the child.
Given(e, v) == v < at[e] \/ (v = at[e] /\ fork[e] = "mapSelf")

CopyAt(e) ==
  /\ status[e] = "alive" => PrivateMapped(e)
  /\ fork[e] = "mapChild" /\ at[e] \in Private => seen[e] \in {"W", "COW"}
  /\ Creating(e) => \A v \in Private : Given(e, v) =>
       perm[child[e]][v] = "COW" /\ Val(child[e], v) = Val(e, v)
  /\ fault[e] = "map" => Val(e, PfTemp) = Val(e, addr[e])

\* A child has the bytes its parent had, page by page, and the handler's copy
\* those of the page it is about to replace.
CopyInv == PageInv /\ \A e \in Env : CopyAt(e)

-----------------------------------------------------------------------------
(* What a step does to the bytes that other mappings read.                 *)

\* The mappings of x stay, and read what they read.
Untouched(x) == \A y \in Addr : Present(x, y) =>
  perm'[x][y] = perm[x][y] /\ NewVal(x, y) = Val(x, y)

\* So do all mappings but one.
KeptBut(d, w) == \A x \in Env, y \in Addr : (x # d \/ y # w) /\ Present(x, y) =>
  perm'[x][y] = perm[x][y] /\ NewVal(x, y) = Val(x, y)

\* Private pages are pages below USTACKTOP, and mappings refer to pages.
LEMMA PageFacts ==
  /\ Private \subseteq VA /\ Private \subseteq Addr
  /\ TypeOK => \A x \in Env, y \in Addr : page[x][y] \in Page \cup {0}
  /\ TypeOK => \A x \in Env, y \in Addr : page[x][y] \in Page
BY AddrFacts DEF Private, TypeOK

\* A page that is mapped is not cleared.
LEMMA KeptByReclaim ==
  ASSUME TypeOK, Reclaim, NEW x \in Env, NEW y \in Addr,
         perm'[x][y] # "none", page'[x][y] \in Page
  PROVE  NewVal(x, y) = content[page'[x][y]]
BY DEF Reclaim, NewVal

\* The page that sys_page_alloc clears was nobody's.
LEMMA KeptByAlloc ==
  ASSUME TypeOK, NEW a \in Env, NEW u \in Addr, PageAlloc(a, u)
  PROVE  KeptBut(a, u)
<1> SUFFICES ASSUME NEW x \in Env, NEW y \in Addr, x # a \/ y # u, Present(x, y)
             PROVE  perm'[x][y] = perm[x][y] /\ NewVal(x, y) = Val(x, y)
  BY DEF KeptBut
<1>1. PICK p \in Free : page' = [page EXCEPT ![a][u] = p]
                        /\ content' = [content EXCEPT ![p] = Zero]
  BY DEF PageAlloc
<1>2. /\ perm'[x][y] = perm[x][y] /\ page'[x][y] = page[x][y]
      /\ page[x][y] # page'[a][u]
  BY AllocEffect
<1>3. page'[a][u] = p /\ page[x][y] \in Page
  BY <1>1, PageFacts DEF TypeOK
<1>4. content'[page[x][y]] = content[page[x][y]]
  BY <1>1, <1>2, <1>3 DEF TypeOK
<1> QED
  BY <1>2, <1>4 DEF Val, NewVal

\* sys_page_map makes one entry read what another one reads.
LEMMA KeptByMap ==
  ASSUME TypeOK, NEW e \in Env, NEW v \in Addr, NEW d \in Env, NEW w \in Addr,
         NEW r \in Perm, r # "none", PageMap(e, v, d, w, r)
  PROVE  KeptBut(d, w) /\ NewVal(d, w) = Val(e, v)
<1>1. /\ perm'[d][w] = r /\ page'[d][w] = page[e][v]
      /\ \A x \in Env, y \in Addr : x # d \/ y # w =>
           perm'[x][y] = perm[x][y] /\ page'[x][y] = page[x][y]
  BY MapEffect
<1>2. Reclaim
  BY DEF PageMap
<1>3. ASSUME NEW x \in Env, NEW y \in Addr, x # d \/ y # w, Present(x, y)
      PROVE  perm'[x][y] = perm[x][y] /\ NewVal(x, y) = Val(x, y)
  BY <1>1, <1>2, <1>3, PageFacts, KeptByReclaim DEF Present, Val, NewVal
<1>4. NewVal(d, w) = Val(e, v)
  BY <1>1, <1>2, PageFacts, KeptByReclaim DEF Val, NewVal
<1> QED
  BY <1>3, <1>4 DEF KeptBut

\* sys_page_unmap takes one entry away.
LEMMA KeptByUnmap ==
  ASSUME TypeOK, NEW e \in Env, NEW v \in Addr, PageUnmap(e, v)
  PROVE  KeptBut(e, v)
<1>1. \A x \in Env, y \in Addr : x # e \/ y # v =>
        perm'[x][y] = perm[x][y] /\ page'[x][y] = page[x][y]
  BY UnmapEffect
<1>2. Reclaim
  BY DEF PageUnmap
<1>3. ASSUME NEW x \in Env, NEW y \in Addr, x # e \/ y # v, Present(x, y)
      PROVE  perm'[x][y] = perm[x][y] /\ NewVal(x, y) = Val(x, y)
  BY <1>1, <1>2, <1>3, PageFacts, KeptByReclaim DEF Present, Val, NewVal
<1> QED
  BY <1>3 DEF KeptBut

\* env_free takes the entries of one environment away.
LEMMA KeptByDie ==
  ASSUME TypeOK, NEW e \in Env, Die(e), NEW x \in Env, x # e
  PROVE  Untouched(x)
<1>1. perm'[x] = perm[x] /\ page'[x] = page[x]
  BY DieEffect
<1>2. Reclaim
  BY DEF Die
<1>3. ASSUME NEW y \in Addr, Present(x, y)
      PROVE  perm'[x][y] = perm[x][y] /\ NewVal(x, y) = Val(x, y)
  BY <1>1, <1>2, <1>3, PageFacts, KeptByReclaim DEF Present, Val, NewVal
<1> QED
  BY <1>3 DEF Untouched

\* A write to a page mapped writable is read through no other mapping.
LEMMA KeptByWrite ==
  ASSUME PageInv, NEW e \in Env, NEW v \in Addr, NEW z \in Value,
         perm[e][v] = "W", fault[e] # "unmap", fork[e] # "mapSelf" \/ v # at[e],
         content' = [content EXCEPT ![page[e][v]] = z], perm' = perm, page' = page
  PROVE  KeptBut(e, v) /\ NewVal(e, v) = z
<1>1. page[e][v] \in Page
  BY PageFacts DEF PageInv, HandlerInv
<1>2. ASSUME NEW x \in Env, NEW y \in Addr, x # e \/ y # v, Present(x, y)
      PROVE  perm'[x][y] = perm[x][y] /\ NewVal(x, y) = Val(x, y)
  <2>1. ~Excepted(e, v, x, y)
    BY <1>2 DEF Excepted
  <2>2. page[x][y] # page[e][v]
    BY <1>2, <2>1 DEF PageInv, OneMapping
  <2>3. page[x][y] \in Page
    BY PageFacts DEF PageInv, HandlerInv
  <2> QED
    BY <1>1, <2>2, <2>3 DEF Val, NewVal, PageInv, HandlerInv, TypeOK
<1>3. NewVal(e, v) = z
  BY <1>1 DEF Val, NewVal, PageInv, HandlerInv, TypeOK
<1> QED
  BY <1>2, <1>3 DEF KeptBut

-----------------------------------------------------------------------------
(* The environments a step leaves alone.                                   *)

\* x is where it was in its calls.
Control(x) ==
  /\ status'[x] = "alive" <=> status[x] = "alive"
  /\ fork'[x] = fork[x] /\ child'[x] = child[x] /\ at'[x] = at[x]
  /\ seen'[x] = seen[x] /\ fault'[x] = fault[x] /\ addr'[x] = addr[x]

\* x reads what it read, and its calls are as far as their pages are.
Rests(x) ==
  /\ CopyAt(x)' /\ Contents(x)' = Contents(x)
  /\ status'[x] = "alive" <=> status[x] = "alive"

\* An environment whose mappings, and whose child's, nobody touches.
LEMMA Undisturbed ==
  ASSUME CopyInv, NEW x \in Env, Control(x),
         status[x] = "alive" => Untouched(x),
         Creating(x) => Untouched(child[x])
  PROVE  Rests(x)
<1>1. CopyAt(x) /\ TypeOK
  BY DEF CopyInv, PageInv, HandlerInv
<1>2. status[x] # "alive" => fork[x] = "idle" /\ fault[x] = "none"
  BY DEF CopyInv, PageInv, HandlerInv, Asleep
<1>3. status[x] = "alive" => \A v \in Private :
        perm'[x][v] = perm[x][v] /\ NewVal(x, v) = Val(x, v)
  BY <1>1, PageFacts DEF CopyAt, PrivateMapped, Untouched, Present
<1>4. Creating(x)' => Creating(x) /\ child'[x] = child[x]
  BY DEF Creating, Control
<1>5. \A v \in Private : Given(x, v)' <=> Given(x, v)
  BY DEF Given, Control
<1>6. (status[x] = "alive" => PrivateMapped(x))'
  BY <1>1, <1>3 DEF CopyAt, PrivateMapped, Control
<1>7. (fork[x] = "mapChild" /\ at[x] \in Private => seen[x] \in {"W", "COW"})'
  BY <1>1 DEF CopyAt, Control
<1>8. (Creating(x) => \A v \in Private : Given(x, v) =>
        perm[child[x]][v] = "COW" /\ Val(child[x], v) = Val(x, v))'
  <2> SUFFICES ASSUME Creating(x)', NEW v \in Private, Given(x, v)'
               PROVE  perm'[child'[x]][v] = "COW" /\ NewVal(child[x], v) = NewVal(x, v)
    BY <1>4 DEF Val, NewVal
  <2>1. perm[child[x]][v] = "COW" /\ Val(child[x], v) = Val(x, v)
    BY <1>1, <1>4, <1>5 DEF CopyAt
  <2>2. status[x] = "alive"
    BY <1>2, <1>4 DEF Creating
  <2>3. perm'[child[x]][v] = "COW"
    BY <1>4, <2>1, PageFacts DEF Untouched, Present
  <2>4. NewVal(child[x], v) = Val(child[x], v)
    BY <1>4, <2>1, PageFacts DEF Untouched, Present, Val, NewVal
  <2> QED
    BY <1>3, <1>4, <2>1, <2>2, <2>3, <2>4 DEF Val, NewVal
<1>9. (fault[x] = "map" => Val(x, PfTemp) = Val(x, addr[x]))'
  <2> SUFFICES ASSUME fault'[x] = "map" PROVE NewVal(x, PfTemp) = NewVal(x, addr[x])
    BY DEF Control, Val, NewVal
  <2>1. fault[x] = "map" /\ addr'[x] = addr[x] /\ status[x] = "alive"
    BY <1>2 DEF Control
  <2>2. Present(x, PfTemp) /\ Present(x, addr[x]) /\ addr[x] \in Addr
    BY <1>1, <2>1, AddrFacts DEF CopyInv, PageInv, HandlerInv, Faulting, FaultingAt,
       Present, TypeOK
  <2>3. NewVal(x, PfTemp) = Val(x, PfTemp)
    BY <2>1, <2>2, AddrFacts DEF Untouched
  <2>4. NewVal(x, addr[x]) = content[page[x][addr[x]]]
    BY <2>1, <2>2 DEF Untouched, Val, NewVal
  <2> QED
    BY <1>1, <2>1, <2>3, <2>4 DEF CopyAt, Val, NewVal
<1>10. CopyAt(x)'
  BY <1>6, <1>7, <1>8, <1>9 DEF CopyAt
<1>11. Contents(x)' = Contents(x)
  BY <1>3 DEF Contents, Control, Val, NewVal
<1> QED
  BY <1>10, <1>11 DEF Rests, Control

\* A step of e touches its own mappings and those of the child it creates.
LEMMA Others ==
  ASSUME CopyInv, NEW e \in Env, status[e] = "alive",
         \A x \in Env : x # e => Control(x),
         \A x \in Env : x # e /\ ~(Creating(e) /\ x = child[e]) => Untouched(x)
  PROVE  \A x \in Env : x # e => Rests(x)
<1> SUFFICES ASSUME NEW x \in Env, x # e PROVE Rests(x)
  OBVIOUS
<1>1. Creating(e) => status[child[e]] = "embryo"
  BY DEF CopyInv, PageInv, HandlerInv, OwnChild
<1>2. Creating(x) => child[x] \in Env /\ child[x] # e
                     /\ ~(Creating(e) /\ child[x] = child[e])
  BY DEF CopyInv, PageInv, HandlerInv, OwnChild, TypeOK
<1>3. status[x] = "alive" => Untouched(x)
  BY <1>1
<1>4. Creating(x) => Untouched(child[x])
  BY <1>2
<1> QED
  BY <1>3, <1>4, Undisturbed

\* A step of e that changes neither what it reads nor what it has given.
LEMMA Own ==
  ASSUME CopyInv, NEW e \in Env, status[e] = "alive", status'[e] = "alive",
         \A v \in Private : perm'[e][v] \in {"W", "COW"} /\ NewVal(e, v) = Val(e, v),
         fork'[e] = "mapChild" /\ at'[e] \in Private => seen'[e] \in {"W", "COW"},
         Creating(e)' => Creating(e) /\ child'[e] = child[e],
         Creating(e)' => \A v \in Private : Given(e, v)' => Given(e, v),
         Creating(e)' => \A v \in Private : Given(e, v) =>
           perm'[child[e]][v] = "COW" /\ NewVal(child[e], v) = Val(child[e], v),
         fault'[e] = "map" => NewVal(e, PfTemp) = NewVal(e, addr'[e])
  PROVE  Rests(e)
<1>1. CopyAt(e)
  BY DEF CopyInv
<1>2. (Creating(e) => \A v \in Private : Given(e, v) =>
        perm[child[e]][v] = "COW" /\ Val(child[e], v) = Val(e, v))'
  <2> SUFFICES ASSUME Creating(e)', NEW v \in Private, Given(e, v)'
               PROVE  perm'[child'[e]][v] = "COW" /\ NewVal(child[e], v) = NewVal(e, v)
    BY DEF Val, NewVal
  <2>1. Creating(e) /\ Given(e, v) /\ child'[e] = child[e]
    OBVIOUS
  <2>2. Val(child[e], v) = Val(e, v)
    BY <1>1, <2>1 DEF CopyAt
  <2> QED
    BY <2>1, <2>2 DEF Val, NewVal
<1>3. CopyAt(e)'
  BY <1>2 DEF CopyAt, PrivateMapped, Val, NewVal
<1>4. Contents(e)' = Contents(e)
  BY DEF Contents, Val, NewVal
<1> QED
  BY <1>3, <1>4 DEF Rests


-----------------------------------------------------------------------------
(* Steps that no program can tell from a stutter.                          *)

\* The pages given grow by the one the loop has reached.
LEMMA GivenNext ==
  ASSUME NEW v \in Private, NEW a \in 0..NVA
  PROVE  v < a + 1 <=> v < a \/ v = a
<1>1. v \in 0..NVA-1
  BY PageFacts DEF VA
<1> QED
  BY <1>1, ForkAssumption

\* One entry changes, and it is no private page.
LEMMA Quiet ==
  ASSUME CopyInv, NEW e \in Env, status[e] = "alive", status'[e] = "alive",
         \A x \in Env : x # e => Control(x),
         NEW d, d = e \/ (Creating(e) /\ d = child[e]), NEW w \in Addr, w \notin Private,
         KeptBut(d, w),
         fork'[e] = "mapChild" /\ at'[e] \in Private => seen'[e] \in {"W", "COW"},
         Creating(e)' => Creating(e) /\ child'[e] = child[e],
         Creating(e)' => \A v \in Private : Given(e, v)' => Given(e, v),
         fault'[e] = "map" => NewVal(e, PfTemp) = NewVal(e, addr'[e])
  PROVE  \A x \in Env : Rests(x)
<1>1. \A x \in Env, v \in Private : Present(x, v) =>
        perm'[x][v] = perm[x][v] /\ NewVal(x, v) = Val(x, v)
  BY PageFacts DEF KeptBut
<1>2. \A x \in Env : x # e /\ ~(Creating(e) /\ x = child[e]) => Untouched(x)
  BY DEF KeptBut, Untouched
<1>3. \A x \in Env : x # e => Rests(x)
  BY <1>2, Others
<1>4. \A v \in Private : perm'[e][v] \in {"W", "COW"} /\ NewVal(e, v) = Val(e, v)
  BY <1>1 DEF CopyInv, CopyAt, PrivateMapped, Present
<1>5. Creating(e)' => \A v \in Private : Given(e, v) =>
        perm'[child[e]][v] = "COW" /\ NewVal(child[e], v) = Val(child[e], v)
  <2> SUFFICES ASSUME Creating(e)', NEW v \in Private, Given(e, v)
               PROVE  /\ perm'[child[e]][v] = "COW"
                      /\ NewVal(child[e], v) = Val(child[e], v)
    OBVIOUS
  <2>1. Creating(e) /\ child[e] \in Env
    BY DEF CopyInv, PageInv, HandlerInv, TypeOK
  <2>2. perm[child[e]][v] = "COW"
    BY <2>1 DEF CopyInv, CopyAt
  <2> QED
    BY <1>1, <2>1, <2>2 DEF Present, Val, NewVal
<1>6. Rests(e)
  BY <1>4, <1>5, Own
<1> QED
  BY <1>3, <1>6

\* No memory changes at all.
LEMMA QuietStill ==
  ASSUME CopyInv, NEW e \in Env, status[e] = "alive", status'[e] = "alive",
         \A x \in Env : x # e => Control(x), UNCHANGED memVars,
         fork'[e] = "mapChild" /\ at'[e] \in Private => seen'[e] \in {"W", "COW"},
         Creating(e)' => Creating(e) /\ child'[e] = child[e],
         Creating(e)' => \A v \in Private : Given(e, v)' => Given(e, v),
         fault'[e] = "map" => NewVal(e, PfTemp) = NewVal(e, addr'[e])
  PROVE  \A x \in Env : Rests(x)
<1>1. KeptBut(e, XStack)
  BY DEF KeptBut, Val, NewVal, memVars
<1>2. XStack \in Addr /\ XStack \notin Private
  BY AddrFacts, PageFacts
<1> QED
  BY <1>1, <1>2, Quiet

\* The system calls before the child exists, and the first access to a page.
LEMMA QuietSetHandler ==
  ASSUME CopyInv, NEW e \in Env, SetHandler(e), ~Die(e)
  PROVE  \A x \in Env : Rests(x)
<1>1. /\ status[e] = "alive" /\ fork' = [fork EXCEPT ![e] = "exofork"]
      /\ UNCHANGED <<status, child, at, seen, fault, addr>> /\ fault[e] = "none"
  BY DEF SetHandler, In, Runs, Goto, faultVars
<1>2. TypeOK
  BY DEF CopyInv, PageInv, HandlerInv
<1>3. \A x \in Env : x # e => Control(x)
  BY <1>1, <1>2 DEF Control, TypeOK
<1>4. fork'[e] = "exofork"
  BY <1>1, <1>2 DEF TypeOK
<1>5. ~Creating(e)'
  BY <1>4 DEF Creating
<1>6. KeptBut(e, XStack)
  <2>1. CASE UNCHANGED memVars
    BY <2>1 DEF KeptBut, Val, NewVal, memVars
  <2>2. CASE PageAlloc(e, XStack)
    BY <1>2, <2>2, KeptByAlloc, AddrFacts
  <2> QED
    BY <2>1, <2>2 DEF SetHandler
<1>7. XStack \in Addr /\ XStack \notin Private
  BY AddrFacts, PageFacts
<1> QED
  BY <1>1, <1>3, <1>4, <1>5, <1>6, <1>7, Quiet

\* duppage reads the entry of a page.
LEMMA QuietLook ==
  ASSUME CopyInv, NEW e \in Env, Look(e)
  PROVE  \A x \in Env : Rests(x)
<1>1. /\ status[e] = "alive" /\ fork[e] = "look" /\ fault[e] = "none"
      /\ UNCHANGED <<memVars, status, child, fault, addr>>
  BY DEF Look, In, Runs, faultVars
<1>2. TypeOK
  BY DEF CopyInv, PageInv, HandlerInv
<1>3. \A x \in Env : x # e => Control(x)
  BY <1>1, <1>2 DEF Look, Goto, Control, TypeOK
<1>4. \A v \in Private : Present(e, v) /\ perm[e][v] \in {"W", "COW"}
  BY <1>1 DEF CopyInv, CopyAt, PrivateMapped, Present
<1>5. Creating(e)
  BY <1>1 DEF Creating
<1>6. at[e] \in 0..NVA
  BY <1>2 DEF TypeOK
<1>7. CASE at[e] = NVA
  <2>1. fork'[e] = "xstack" /\ at'[e] = at[e]
    BY <1>2, <1>7 DEF Look, Goto, TypeOK
  <2>2. \A v \in Private : Given(e, v)' => Given(e, v)
    BY <2>1 DEF Given
  <2> QED
    BY <1>1, <1>3, <1>5, <2>1, <2>2, QuietStill
<1>8. CASE at[e] # NVA /\ Present(e, at[e])
  <2>1. fork'[e] = "mapChild" /\ at'[e] = at[e] /\ seen'[e] = perm[e][at[e]]
    BY <1>2, <1>8 DEF Look, Goto, TypeOK
  <2>2. \A v \in Private : Given(e, v)' => Given(e, v)
    BY <2>1 DEF Given
  <2> QED
    BY <1>1, <1>3, <1>4, <1>5, <2>1, <2>2, QuietStill
<1>9. CASE at[e] # NVA /\ ~Present(e, at[e])
  <2>1. fork'[e] = "look" /\ at'[e] = at[e] + 1
    BY <1>1, <1>2, <1>9 DEF Look, TypeOK
  <2>2. \A v \in Private : Given(e, v)' => Given(e, v)
    BY <1>4, <1>6, <1>9, <2>1, GivenNext DEF Given
  <2> QED
    BY <1>1, <1>3, <1>5, <2>1, <2>2, QuietStill
<1> QED
  BY <1>7, <1>8, <1>9

\* The child's exception stack and its upcall.
LEMMA QuietUpcall ==
  ASSUME CopyInv, NEW e \in Env, AllocXStack(e) \/ SetUpcall(e), ~Die(e)
  PROVE  \A x \in Env : Rests(x)
<1>1. /\ status[e] = "alive" /\ fork[e] \in {"xstack", "upcall"} /\ fault[e] = "none"
      /\ UNCHANGED <<status, child, at, seen, fault, addr>>
  BY DEF AllocXStack, SetUpcall, In, Runs, faultVars
<1>2. TypeOK
  BY DEF CopyInv, PageInv, HandlerInv
<1>3. \A x \in Env : x # e => Control(x)
  BY <1>1, <1>2 DEF AllocXStack, SetUpcall, Goto, Control, TypeOK
<1>4. fork'[e] \in {"upcall", "start"}
  BY <1>2 DEF AllocXStack, SetUpcall, Goto, TypeOK
<1>5. Creating(e) /\ child[e] \in Env
  BY <1>1, <1>2 DEF Creating, TypeOK
<1>6. \A v \in Private : Given(e, v)' => Given(e, v)
  BY <1>1, <1>4 DEF Given
<1>7. KeptBut(child[e], XStack)
  <2>1. CASE UNCHANGED memVars
    BY <2>1 DEF KeptBut, Val, NewVal, memVars
  <2>2. CASE PageAlloc(child[e], XStack)
    BY <1>2, <1>5, <2>2, KeptByAlloc, AddrFacts
  <2> QED
    BY <2>1, <2>2 DEF AllocXStack, SetUpcall
<1>8. XStack \in Addr /\ XStack \notin Private
  BY AddrFacts, PageFacts
<1> QED
  BY <1>1, <1>3, <1>4, <1>5, <1>6, <1>7, <1>8, Quiet

\* A fault begins; the handler allocates its copy, takes PFTEMP away, and goes
\* on with the stack or back to the program.
LEMMA QuietFault ==
  ASSUME CopyInv, NEW e \in Env, NEW v, NEW z,
         Fault(e, v, z) \/ HandlerAlloc(e) \/ HandlerUnmap(e) \/ PushEip(e), ~Die(e)
  PROVE  \A x \in Env : Rests(x)
<1>1. /\ status[e] = "alive" /\ UNCHANGED <<status, fork, child, at, seen>>
  BY DEF Fault, HandlerAlloc, HandlerUnmap, PushEip, Runs, Handling, forkVars
<1>2. TypeOK
  BY DEF CopyInv, PageInv, HandlerInv
<1>3. \A x \in Env : x # e => Control(x)
  BY <1>1, <1>2 DEF Fault, HandlerAlloc, HandlerUnmap, PushEip, Then, Control, TypeOK
<1>4. fault'[e] # "map"
  BY <1>2 DEF Fault, HandlerAlloc, HandlerUnmap, PushEip, Then, TypeOK
<1>5. Creating(e)' => Creating(e) /\ child'[e] = child[e]
  BY <1>1 DEF Creating
<1>6. \A y \in Private : Given(e, y)' => Given(e, y)
  BY <1>1 DEF Given
<1>7. fork'[e] = "mapChild" /\ at'[e] \in Private => seen'[e] \in {"W", "COW"}
  BY <1>1 DEF CopyInv, CopyAt
<1>8. KeptBut(e, PfTemp)
  <2>1. CASE UNCHANGED memVars
    BY <2>1 DEF KeptBut, Val, NewVal, memVars
  <2>2. CASE PageAlloc(e, PfTemp)
    BY <1>2, <2>2, KeptByAlloc, AddrFacts
  <2>3. CASE PageUnmap(e, PfTemp)
    BY <1>2, <2>3, KeptByUnmap, AddrFacts
  <2> QED
    BY <2>1, <2>2, <2>3 DEF Fault, HandlerAlloc, HandlerUnmap, PushEip
<1>9. PfTemp \in Addr /\ PfTemp \notin Private
  BY AddrFacts, PageFacts
<1> QED
  BY <1>1, <1>3, <1>4, <1>5, <1>6, <1>7, <1>8, <1>9, Quiet


\* duppage maps a page for the child: shared, or copy-on-write.
LEMMA QuietMapChild ==
  ASSUME CopyInv, NEW e \in Env, MapChild(e), ~Die(e)
  PROVE  \A x \in Env : Rests(x)
<1>1. /\ status[e] = "alive" /\ fork[e] = "mapChild" /\ fault[e] = "none"
      /\ UNCHANGED <<status, child, seen, fault, addr>>
  BY DEF MapChild, In, Runs, faultVars
<1>2. TypeOK
  BY DEF CopyInv, PageInv, HandlerInv
<1>3. \A x \in Env : x # e => Control(x)
  BY <1>1, <1>2 DEF MapChild, NextPage, Goto, Control, TypeOK
<1>4. Creating(e) /\ child[e] \in Env /\ child[e] # e
  BY <1>1, <1>2 DEF Creating, CopyInv, PageInv, HandlerInv, OwnChild, TypeOK
<1>5. at[e] \in 0..NVA /\ at[e] \in Addr
  BY <1>1, <1>2, AddrFacts DEF CopyInv, PageInv, HandlerInv, LoopBound, TypeOK
<1>6. \A v \in Private : Present(e, v) /\ perm[e][v] \in {"W", "COW"}
  BY <1>1 DEF CopyInv, CopyAt, PrivateMapped, Present
<1>7. CASE seen[e] \notin {"W", "COW"}
  <2>1. at[e] \notin Private
    BY <1>1, <1>7 DEF CopyInv, CopyAt
  <2>2. fork'[e] = "look" /\ at'[e] = at[e] + 1
    BY <1>2, <1>7 DEF MapChild, NextPage, Goto, TypeOK
  <2>3. \A v \in Private : Given(e, v)' => Given(e, v)
    BY <1>5, <2>1, <2>2, GivenNext DEF Given
  <2>4. KeptBut(child[e], at[e])
    <3>1. CASE UNCHANGED memVars
      BY <3>1 DEF KeptBut, Val, NewVal, memVars
    <3>2. CASE seen[e] \in {"SHARE", "R"} /\ PageMap(e, at[e], child[e], at[e], seen[e])
      BY <1>2, <1>4, <1>5, <3>2, KeptByMap DEF TypeOK
    <3> QED
      BY <1>7, <3>1, <3>2 DEF MapChild
  <2> QED
    BY <1>1, <1>3, <1>4, <1>5, <2>1, <2>2, <2>3, <2>4, Quiet
<1>8. CASE seen[e] \in {"W", "COW"}
  <2>1. /\ PageMap(e, at[e], child[e], at[e], "COW")
        /\ fork'[e] = "mapSelf" /\ at'[e] = at[e]
    BY <1>2, <1>8 DEF MapChild, Goto, TypeOK
  <2>2. KeptBut(child[e], at[e]) /\ NewVal(child[e], at[e]) = Val(e, at[e])
    BY <1>2, <1>4, <1>5, <2>1, KeptByMap DEF Perm
  <2>3. perm'[child[e]][at[e]] = "COW"
    BY <1>2, <1>4, <1>5, <2>1, MapEffect DEF Perm
  <2>4. \A x \in Env : x # e => Rests(x)
    <3>1. \A x \in Env : x # e /\ ~(Creating(e) /\ x = child[e]) => Untouched(x)
      BY <1>4, <2>2 DEF KeptBut, Untouched
    <3> QED
      BY <1>1, <1>3, <3>1, Others
  <2>5. \A v \in Private : perm'[e][v] = perm[e][v] /\ NewVal(e, v) = Val(e, v)
    BY <1>4, <1>6, <2>2, PageFacts DEF KeptBut
  <2>6. (Creating(e) => \A v \in Private : Given(e, v) =>
          perm[child[e]][v] = "COW" /\ Val(child[e], v) = Val(e, v))'
    <3> SUFFICES ASSUME NEW v \in Private, Given(e, v)'
                 PROVE  /\ perm'[child[e]][v] = "COW"
                        /\ NewVal(child[e], v) = Val(e, v)
      BY <1>1, <2>5 DEF Val, NewVal
    <3>1. CASE v = at[e]
      BY <2>2, <2>3, <3>1 DEF Val, NewVal
    <3>2. CASE v # at[e]
      <4>1. Given(e, v)
        BY <2>1, <3>2 DEF Given
      <4>2. perm[child[e]][v] = "COW" /\ Val(child[e], v) = Val(e, v)
        BY <1>4, <4>1 DEF CopyInv, CopyAt
      <4>3. perm'[child[e]][v] = "COW" /\ NewVal(child[e], v) = Val(child[e], v)
        BY <1>4, <2>2, <3>2, <4>2, PageFacts DEF KeptBut, Present
      <4> QED
        BY <1>1, <4>2, <4>3 DEF Val, NewVal
    <3> QED
      BY <3>1, <3>2
  <2>7. Rests(e)
    <3>1. fault'[e] # "map" /\ fork'[e] # "mapChild" /\ status'[e] = "alive"
      BY <1>1, <2>1
    <3>2. CopyAt(e)'
      BY <1>6, <2>5, <2>6, <3>1 DEF CopyAt, PrivateMapped
    <3>3. Contents(e)' = Contents(e)
      BY <1>1, <2>5 DEF Contents, Val, NewVal
    <3> QED
      BY <1>1, <3>2, <3>3 DEF Rests
  <2> QED
    BY <2>4, <2>7
<1> QED
  BY <1>7, <1>8

\* The parent's mapping becomes copy-on-write, of the same page.
LEMMA QuietMapSelf ==
  ASSUME CopyInv, NEW e \in Env, MapSelf(e)
  PROVE  \A x \in Env : Rests(x)
<1>1. /\ status[e] = "alive" /\ fork[e] = "mapSelf" /\ fault[e] = "none"
      /\ PageMap(e, at[e], e, at[e], "COW")
      /\ UNCHANGED <<status, child, seen, fault, addr>>
  BY DEF MapSelf, In, Runs, faultVars
<1>2. TypeOK
  BY DEF CopyInv, PageInv, HandlerInv
<1>3. \A x \in Env : x # e => Control(x)
  BY <1>1, <1>2 DEF MapSelf, NextPage, Goto, Control, TypeOK
<1>4. Creating(e) /\ child[e] \in Env /\ child[e] # e
  BY <1>1, <1>2 DEF Creating, CopyInv, PageInv, HandlerInv, OwnChild, TypeOK
<1>5. at[e] \in 0..NVA /\ at[e] \in Addr
  BY <1>1, <1>2, AddrFacts DEF CopyInv, PageInv, HandlerInv, LoopBound, TypeOK
<1>6. fork'[e] = "look" /\ at'[e] = at[e] + 1
  BY <1>2 DEF MapSelf, NextPage, Goto, TypeOK
<1>7. KeptBut(e, at[e]) /\ NewVal(e, at[e]) = Val(e, at[e])
  BY <1>1, <1>2, <1>5, KeptByMap DEF Perm
<1>8. perm'[e][at[e]] = "COW"
  BY <1>1, <1>2, <1>5, MapEffect DEF Perm
<1>9. \A x \in Env : x # e => Rests(x)
  <2>1. \A x \in Env : x # e => Untouched(x)
    BY <1>7 DEF KeptBut, Untouched
  <2> QED
    BY <1>1, <1>3, <2>1, Others
<1>10. \A v \in Private : perm'[e][v] \in {"W", "COW"} /\ NewVal(e, v) = Val(e, v)
  <2> SUFFICES ASSUME NEW v \in Private
               PROVE  perm'[e][v] \in {"W", "COW"} /\ NewVal(e, v) = Val(e, v)
    OBVIOUS
  <2>1. Present(e, v) /\ perm[e][v] \in {"W", "COW"} /\ v \in Addr
    BY <1>1, PageFacts DEF CopyInv, CopyAt, PrivateMapped, Present
  <2>2. CASE v = at[e]
    <3>1. NewVal(e, v) = Val(e, at[e])
      BY <1>7, <2>2 DEF Val, NewVal
    <3> QED
      BY <1>8, <2>2, <3>1 DEF Val, NewVal
  <2>3. CASE v # at[e]
    BY <1>7, <2>1, <2>3 DEF KeptBut
  <2> QED
    BY <2>2, <2>3
<1>11. \A v \in Private : Given(e, v)' => Given(e, v)
  BY <1>1, <1>5, <1>6, GivenNext DEF Given
<1>12. \A v \in Private : Given(e, v) =>
         perm'[child[e]][v] = "COW" /\ NewVal(child[e], v) = Val(child[e], v)
  <2> SUFFICES ASSUME NEW v \in Private, Given(e, v)
               PROVE  /\ perm'[child[e]][v] = "COW"
                      /\ NewVal(child[e], v) = Val(child[e], v)
    OBVIOUS
  <2>1. perm[child[e]][v] = "COW"
    BY <1>4 DEF CopyInv, CopyAt
  <2> QED
    BY <1>4, <1>7, <2>1, PageFacts DEF KeptBut, Present, Val, NewVal
<1>13. Rests(e)
  BY <1>1, <1>4, <1>6, <1>10, <1>11, <1>12, Own
<1> QED
  BY <1>9, <1>13

\* The handler's copy takes the place of the page, with the same bytes.
LEMMA QuietHandlerMap ==
  ASSUME CopyInv, NEW e \in Env, HandlerMap(e)
  PROVE  \A x \in Env : Rests(x)
<1>1. /\ status[e] = "alive" /\ fault[e] = "map"
      /\ PageMap(e, PfTemp, e, addr[e], "W")
      /\ UNCHANGED <<status, fork, child, at, seen, addr>>
  BY DEF HandlerMap, Handling, forkVars
<1>2. TypeOK
  BY DEF CopyInv, PageInv, HandlerInv
<1>3. \A x \in Env : x # e => Control(x)
  BY <1>1, <1>2 DEF HandlerMap, Then, Control, TypeOK
<1>4. addr[e] \in Addr /\ PfTemp \in Addr /\ fault'[e] = "unmap"
  BY <1>2, AddrFacts DEF HandlerMap, Then, TypeOK
<1>5. Creating(e) => child[e] \in Env /\ child[e] # e
  BY <1>1, <1>2 DEF CopyInv, PageInv, HandlerInv, OwnChild, TypeOK
<1>6. KeptBut(e, addr[e]) /\ NewVal(e, addr[e]) = Val(e, PfTemp)
  BY <1>1, <1>2, <1>4, KeptByMap DEF Perm
<1>7. perm'[e][addr[e]] = "W"
  BY <1>1, <1>2, <1>4, MapEffect DEF Perm
<1>8. Val(e, PfTemp) = Val(e, addr[e])
  BY <1>1 DEF CopyInv, CopyAt
<1>9. \A x \in Env : x # e => Rests(x)
  <2>1. \A x \in Env : x # e => Untouched(x)
    BY <1>6 DEF KeptBut, Untouched
  <2> QED
    BY <1>1, <1>3, <2>1, Others
<1>10. \A v \in Private : perm'[e][v] \in {"W", "COW"} /\ NewVal(e, v) = Val(e, v)
  <2> SUFFICES ASSUME NEW v \in Private
               PROVE  perm'[e][v] \in {"W", "COW"} /\ NewVal(e, v) = Val(e, v)
    OBVIOUS
  <2>1. Present(e, v) /\ perm[e][v] \in {"W", "COW"} /\ v \in Addr
    BY <1>1, PageFacts DEF CopyInv, CopyAt, PrivateMapped, Present
  <2>2. CASE v = addr[e]
    <3>1. NewVal(e, v) = Val(e, addr[e])
      BY <1>1, <1>6, <1>8, <2>2 DEF Val, NewVal
    <3> QED
      BY <1>7, <2>2, <3>1 DEF Val, NewVal
  <2>3. CASE v # addr[e]
    BY <1>6, <2>1, <2>3 DEF KeptBut
  <2> QED
    BY <2>2, <2>3
<1>11. Creating(e)' => \A v \in Private : Given(e, v) =>
         perm'[child[e]][v] = "COW" /\ NewVal(child[e], v) = Val(child[e], v)
  <2> SUFFICES ASSUME Creating(e), NEW v \in Private, Given(e, v)
               PROVE  /\ perm'[child[e]][v] = "COW"
                      /\ NewVal(child[e], v) = Val(child[e], v)
    BY <1>1 DEF Creating
  <2>1. perm[child[e]][v] = "COW"
    BY DEF CopyInv, CopyAt
  <2> QED
    BY <1>5, <1>6, <2>1, PageFacts DEF KeptBut, Present, Val, NewVal
<1>12. /\ Creating(e)' => Creating(e) /\ child'[e] = child[e]
       /\ \A v \in Private : Given(e, v)' => Given(e, v)
       /\ fork'[e] = "mapChild" /\ at'[e] \in Private => seen'[e] \in {"W", "COW"}
  BY <1>1 DEF Creating, Given, CopyInv, CopyAt
<1>13. Rests(e)
  BY <1>1, <1>4, <1>10, <1>11, <1>12, Own
<1> QED
  BY <1>9, <1>13


\* The bytes are copied to the page at PFTEMP, which nobody else reads.
LEMMA QuietHandlerCopy ==
  ASSUME CopyInv, NEW e \in Env, HandlerCopy(e)
  PROVE  \A x \in Env : Rests(x)
<1>1. /\ status[e] = "alive" /\ fault[e] = "copy" /\ perm' = perm /\ page' = page
      /\ content' = [content EXCEPT ![page[e][PfTemp]] = content[page[e][addr[e]]]]
      /\ UNCHANGED <<status, fork, child, at, seen, addr>>
  BY DEF HandlerCopy, Handling, forkVars
<1>2. TypeOK
  BY DEF CopyInv, PageInv, HandlerInv
<1>3. \A x \in Env : x # e => Control(x)
  BY <1>1, <1>2 DEF HandlerCopy, Then, Control, TypeOK
<1>4. addr[e] \in Addr /\ addr[e] # PfTemp /\ PfTemp \in Addr /\ PfTemp \notin Private
  BY <1>2, AddrFacts, PageFacts DEF TypeOK
<1>5. perm[e][addr[e]] = "COW" /\ perm[e][PfTemp] = "W"
  BY <1>1 DEF CopyInv, PageInv, HandlerInv, Faulting, FaultingAt
<1>6. fork[e] = "mapSelf" => PfTemp # at[e]
  BY AddrFacts DEF CopyInv, PageInv, HandlerInv, LoopBound
<1>7. content[page[e][addr[e]]] \in Value
  BY <1>2, <1>4, PageFacts DEF TypeOK
<1>8. KeptBut(e, PfTemp) /\ NewVal(e, PfTemp) = content[page[e][addr[e]]]
  BY <1>1, <1>4, <1>5, <1>6, <1>7, KeptByWrite DEF CopyInv
<1>9. NewVal(e, PfTemp) = NewVal(e, addr'[e])
  <2>1. NewVal(e, addr[e]) = Val(e, addr[e])
    BY <1>4, <1>5, <1>8 DEF KeptBut, Present
  <2> QED
    BY <1>1, <1>8, <2>1 DEF Val
<1>10. /\ Creating(e)' => Creating(e) /\ child'[e] = child[e]
       /\ \A v \in Private : Given(e, v)' => Given(e, v)
       /\ fork'[e] = "mapChild" /\ at'[e] \in Private => seen'[e] \in {"W", "COW"}
  BY <1>1 DEF Creating, Given, CopyInv, CopyAt
<1> QED
  BY <1>1, <1>3, <1>4, <1>8, <1>9, <1>10, Quiet

\* A new child has nothing yet.
LEMMA QuietExofork ==
  ASSUME CopyInv, NEW e \in Env, Exofork(e), ~Die(e)
  PROVE  \A x \in Env : Rests(x)
<1>1. PICK c \in Env :
        /\ status[c] = "free" /\ status' = [status EXCEPT ![c] = "embryo"]
        /\ child' = [child EXCEPT ![e] = c] /\ at' = [at EXCEPT ![e] = 0]
        /\ fork' = [fork EXCEPT ![e] = "look"]
        /\ UNCHANGED <<perm, page, content, seen, fault, addr>>
  BY DEF Exofork, Goto, memVars, faultVars
<1>2. TypeOK /\ status[e] = "alive" /\ fault[e] = "none"
  BY DEF CopyInv, PageInv, HandlerInv, Exofork, In, Runs
<1>3. \A x \in Env : x # e => Control(x)
  BY <1>1, <1>2 DEF Control, TypeOK
<1>4. \A x \in Env : Untouched(x)
  BY <1>1 DEF Untouched, Val, NewVal
<1>5. \A x \in Env : x # e => Rests(x)
  BY <1>2, <1>3, <1>4, Others
<1>6. status'[e] = "alive" /\ fork'[e] = "look" /\ at'[e] = 0 /\ fault'[e] = "none"
  BY <1>1, <1>2 DEF TypeOK
<1>7. \A v \in Private : ~Given(e, v)'
  <2>1. \A v \in Private : ~(v < 0)
    BY PageFacts, ForkAssumption DEF VA
  <2> QED
    BY <1>6, <2>1 DEF Given
<1>8. CopyAt(e)'
  BY <1>1, <1>2, <1>6, <1>7 DEF CopyInv, CopyAt, PrivateMapped
<1>9. Contents(e)' = Contents(e)
  BY <1>1, <1>2, <1>6 DEF Contents
<1> QED
  BY <1>2, <1>5, <1>6, <1>8, <1>9 DEF Rests

-----------------------------------------------------------------------------
(* Steps of PrivateMemory.                                                 *)

\* What rests keeps its place in the memory.
LEMMA RestsMem ==
  ASSUME \A x \in Env : Rests(x)
  PROVE  (\A x \in Env : CopyAt(x)') /\ UNCHANGED <<Alive, Mem>>
<1>1. Alive' = Alive
  BY DEF Rests, Alive
<1>2. Mem' = Mem
  BY DEF Rests, Mem
<1> QED
  BY <1>1, <1>2 DEF Rests

\* A write of a program, at once or after the fault, is a write to its memory.
LEMMA Writes ==
  ASSUME CopyInv, NEW e \in Env, NEW v \in Addr, NEW z \in Value,
         Write(e, v, z), perm[e][v] = "W", status[e] = "alive", fork[e] = "idle",
         fault[e] # "unmap", fault'[e] = "none", UNCHANGED <<status, forkVars>>,
         \A x \in Env : x # e => fault'[x] = fault[x] /\ addr'[x] = addr[x]
  PROVE  /\ \A x \in Env : CopyAt(x)'
         /\ (Abstract!Write(e, v, z) /\ v \in Private) \/ UNCHANGED <<Alive, Mem>>
<1>1. KeptBut(e, v) /\ NewVal(e, v) = z /\ perm' = perm
  BY KeptByWrite DEF CopyInv, Write
<1>2. \A x \in Env : x # e => Rests(x)
  <2>1. \A x \in Env : x # e => Untouched(x)
    BY <1>1 DEF KeptBut, Untouched
  <2>2. \A x \in Env : x # e => Control(x)
    BY DEF Control, forkVars
  <2> QED
    BY <2>1, <2>2, Others
<1>3. PrivateMapped(e) /\ PrivateMapped(e)'
  BY <1>1 DEF CopyInv, CopyAt, PrivateMapped
<1>4. CopyAt(e)'
  BY <1>3 DEF CopyAt, Creating, forkVars
<1>5. \A y \in Private : y # v => NewVal(e, y) = Val(e, y)
  BY <1>1, <1>3, PageFacts DEF KeptBut, PrivateMapped, Present
<1>6. Alive' = Alive
  BY DEF Alive
<1>7. CASE v \notin Private
  <2>1. Contents(e)' = Contents(e)
    BY <1>5, <1>7 DEF Contents, Val, NewVal
  <2>2. Rests(e)
    BY <1>4, <2>1 DEF Rests
  <2> QED
    BY <1>2, <2>2, RestsMem
<1>8. CASE v \in Private
  <2>1. Contents(e)' = [Contents(e) EXCEPT ![v] = z]
    BY <1>1, <1>5, <1>8 DEF Contents, Val, NewVal
  <2>2. Mem' = [Mem EXCEPT ![e][v] = z]
    BY <1>2, <2>1 DEF Mem, Rests
  <2>3. e \in Alive
    BY DEF Alive
  <2>4. Abstract!Write(e, v, z)
    BY <1>6, <2>2, <2>3 DEF Abstract!Write
  <2> QED
    BY <1>2, <1>4, <1>8, <2>4 DEF Rests
<1> QED
  BY <1>7, <1>8

\* A child starts with the memory of its parent.
LEMMA StartForks ==
  ASSUME CopyInv, NEW e \in Env, Start(e)
  PROVE  (\A x \in Env : CopyAt(x)') /\ Abstract!Fork(e, child[e])
<1>1. /\ status[e] = "alive" /\ fork[e] = "start" /\ fault[e] = "none"
      /\ status' = [status EXCEPT ![child[e]] = "alive"]
      /\ fork' = [fork EXCEPT ![e] = "idle"] /\ child' = [child EXCEPT ![e] = First]
      /\ at' = [at EXCEPT ![e] = 0] /\ seen' = [seen EXCEPT ![e] = "none"]
      /\ UNCHANGED <<perm, page, content, fault, addr>>
  BY DEF Start, In, Runs, Leave, Goto, memVars, faultVars
<1>2. TypeOK
  BY DEF CopyInv, PageInv, HandlerInv
<1>3. Creating(e)
  BY <1>1 DEF Creating
<1>4. PICK c \in Env : c = child[e]
  BY <1>2 DEF TypeOK
<1>5. c # e /\ status[c] = "embryo" /\ fork[c] = "idle" /\ fault[c] = "none"
  BY <1>1, <1>3, <1>4 DEF CopyInv, PageInv, HandlerInv, OwnChild, Asleep
<1>6. \A x \in Env : x # e /\ x # c => Rests(x)
  <2>1. \A x \in Env : Untouched(x)
    BY <1>1 DEF Untouched, Val, NewVal
  <2>2. \A x \in Env : x # e /\ x # c => Control(x)
    BY <1>1, <1>2, <1>4 DEF Control, TypeOK
  <2>3. \A x \in Env : Creating(x) => child[x] \in Env
    BY <1>2 DEF TypeOK
  <2> QED
    BY <2>1, <2>2, <2>3, Undisturbed
<1>7. \A v \in Private : perm[c][v] = "COW" /\ Val(c, v) = Val(e, v)
  <2> SUFFICES ASSUME NEW v \in Private
               PROVE  perm[c][v] = "COW" /\ Val(c, v) = Val(e, v)
    OBVIOUS
  <2>1. at[e] = NVA
    BY <1>1 DEF CopyInv, PageInv, HandlerInv, LoopBound
  <2>2. v < NVA
    BY PageFacts, ForkAssumption DEF VA
  <2>3. Given(e, v)
    BY <2>1, <2>2 DEF Given
  <2> QED
    BY <1>3, <1>4, <2>3 DEF CopyInv, CopyAt
<1>8. /\ status'[e] = "alive" /\ status'[c] = "alive"
      /\ fork'[e] = "idle" /\ fork'[c] = "idle"
      /\ fault'[e] = "none" /\ fault'[c] = "none"
  BY <1>1, <1>2, <1>4, <1>5 DEF TypeOK
<1>9. CopyAt(c)'
  BY <1>1, <1>7, <1>8 DEF CopyAt, PrivateMapped, Creating
<1>10. CopyAt(e)'
  BY <1>1, <1>8 DEF CopyInv, CopyAt, PrivateMapped, Creating
<1>11. Contents(e)' = Contents(e) /\ Contents(c)' = Contents(e)
  BY <1>1, <1>7, <1>8 DEF Contents, Val
<1>12. Mem' = [Mem EXCEPT ![c] = Mem[e]]
  BY <1>6, <1>11 DEF Mem, Rests
<1>13. Alive' = Alive \cup {c} /\ e \in Alive /\ c \notin Alive
  BY <1>1, <1>2, <1>4, <1>5 DEF Alive, TypeOK
<1> QED
  BY <1>4, <1>6, <1>9, <1>10, <1>12, <1>13 DEF Abstract!Fork, Rests

\* A death takes one memory away and leaves the others.
LEMMA DieExits ==
  ASSUME CopyInv, NEW e \in Env, Die(e)
  PROVE  (\A x \in Env : CopyAt(x)') /\ Abstract!Exit(e)
<1>1. /\ status[e] = "alive" /\ status' = [status EXCEPT ![e] = "free"]
      /\ fork' = [fork EXCEPT ![e] = "idle"] /\ child' = [child EXCEPT ![e] = First]
      /\ at' = [at EXCEPT ![e] = 0] /\ seen' = [seen EXCEPT ![e] = "none"]
      /\ fault' = [fault EXCEPT ![e] = "none"] /\ addr' = [addr EXCEPT ![e] = 0]
  BY DEF Die, Leave, Return, Goto, Then
<1>2. TypeOK
  BY DEF CopyInv, PageInv, HandlerInv
<1>3. \A x \in Env : x # e => Rests(x)
  <2>1. \A x \in Env : x # e => Untouched(x)
    BY <1>2, KeptByDie
  <2>2. \A x \in Env : x # e => Control(x)
    BY <1>1, <1>2 DEF Control, TypeOK
  <2> QED
    BY <1>1, <2>1, <2>2, Others
<1>4. status'[e] = "free" /\ fork'[e] = "idle" /\ fault'[e] = "none"
  BY <1>1, <1>2 DEF TypeOK
<1>5. CopyAt(e)'
  BY <1>4 DEF CopyAt, Creating
<1>6. Contents(e)' = Abstract!Blank
  BY <1>4 DEF Contents, Abstract!Blank
<1>7. Mem' = [Mem EXCEPT ![e] = Abstract!Blank]
  BY <1>3, <1>6 DEF Mem, Rests
<1>8. Alive' = Alive \ {e} /\ e \in Alive
  BY <1>1, <1>2 DEF Alive, TypeOK
<1> QED
  BY <1>3, <1>5, <1>7, <1>8 DEF Abstract!Exit, Rests

-----------------------------------------------------------------------------
\* At the start one environment executes, and its pages are zero.
LEMMA CopyInvInit == Init => CopyInv /\ Abstract!Init
<1> SUFFICES ASSUME Init PROVE CopyInv /\ Abstract!Init
  OBVIOUS
<1>1. \A e \in Env : CopyAt(e)
  BY PageFacts, ForkAssumption DEF Init, CopyAt, PrivateMapped, Creating, Private
<1>2. CopyInv
  BY <1>1, PageInvInit DEF CopyInv
<1>3. Alive = {First}
  BY ForkAssumption DEF Init, Alive
<1>4. \A e \in Env : Contents(e) = Abstract!Blank
  <2>1. \A e \in Env, v \in Private : Val(e, v) = Zero
    BY PageFacts, ForkAssumption DEF Init, Val
  <2> QED
    BY <2>1 DEF Contents, Val, Abstract!Blank
<1>5. Mem = [e \in Env |-> Abstract!Blank]
  BY <1>4 DEF Mem
<1> QED
  BY <1>2, <1>3, <1>5 DEF Abstract!Init

\* Every step keeps the copies, and is a step of PrivateMemory or a stutter.
LEMMA CopyInvStep ==
  CopyInv /\ [Next]_vars => CopyInv' /\ [Abstract!Next]_<<Alive, Mem>>
<1> SUFFICES ASSUME CopyInv, [Next]_vars
             PROVE  CopyInv' /\ [Abstract!Next]_<<Alive, Mem>>
  OBVIOUS
<1>p. PageInv'
  BY PageInvStep DEF CopyInv
<1> SUFFICES /\ \A x \in Env : CopyAt(x)'
             /\ Abstract!Next \/ UNCHANGED <<Alive, Mem>>
  BY <1>p DEF CopyInv
<1>1. CASE UNCHANGED vars
  <2>1. \A x \in Env : CopyAt(x)'
    BY <1>1 DEF vars, memVars, forkVars, faultVars, CopyInv, CopyAt, PrivateMapped,
       Creating, Given, Val
  <2>2. UNCHANGED <<Alive, Mem>>
    BY <1>1 DEF vars, memVars, Alive, Mem, Contents
  <2> QED
    BY <2>1, <2>2
<1>2. CASE Next
  <2>1. PICK e \in Env : Program(e) \/ Push(e) \/ Handler(e) \/ ForkStep(e) \/ Die(e)
    BY <1>2 DEF Next
  <2>t. TypeOK
    BY DEF CopyInv, PageInv, HandlerInv
  <2>2. CASE Die(e)
    BY <2>2, DieExits DEF Abstract!Next
  <2> SUFFICES ASSUME ~Die(e)
               PROVE  /\ \A x \in Env : CopyAt(x)'
                      /\ Abstract!Next \/ UNCHANGED <<Alive, Mem>>
    BY <2>2
  <2>3. ASSUME NEW v \in Private \cup ReadOnly, NEW x \in Value, Store(e, v, x)
        PROVE  /\ \A y \in Env : CopyAt(y)'
               /\ Abstract!Next \/ UNCHANGED <<Alive, Mem>>
    <3>1. /\ v \in Addr /\ Write(e, v, x) /\ perm[e][v] = "W" /\ status[e] = "alive"
          /\ fork[e] = "idle" /\ fault[e] = "none" /\ fault' = fault /\ addr' = addr
          /\ UNCHANGED <<status, forkVars>>
      BY <2>3, PageFacts, AddrFacts, ForkAssumption DEF Store, In, Runs, faultVars
    <3>2. /\ \A y \in Env : CopyAt(y)'
          /\ (Abstract!Write(e, v, x) /\ v \in Private) \/ UNCHANGED <<Alive, Mem>>
      BY <3>1, Writes
    <3> QED
      BY <3>2 DEF Abstract!Next
  <2>4. CASE Start(e)
    <3>1. child[e] \in Env
      BY <2>t DEF TypeOK
    <3> QED
      BY <2>4, <3>1, StartForks DEF Abstract!Next
  <2>5. CASE Retry(e)
    <3>1. /\ status[e] = "alive" /\ fault[e] = "retry" /\ perm[e][target[e]] = "W"
          /\ target[e] \in Addr /\ pending[e] \in Value
          /\ fault'[e] = "none" /\ UNCHANGED <<status, fork, child, at, seen>>
          /\ \A x \in Env : x # e => fault'[x] = fault[x] /\ addr'[x] = addr[x]
      BY <2>t, <2>5, AddrFacts DEF Retry, Handling, Return, Then, forkVars, TypeOK
    <3>2. CASE fork[e] = "idle"
      <4>1. /\ \A y \in Env : CopyAt(y)'
            /\ \/ Abstract!Write(e, target[e], pending[e]) /\ target[e] \in Private
               \/ UNCHANGED <<Alive, Mem>>
        BY <2>5, <3>1, <3>2, Writes DEF Retry, forkVars
      <4> QED
        BY <3>1, <4>1 DEF Abstract!Next
    <3>3. CASE fork[e] # "idle"
      <4>1. UNCHANGED memVars
        BY <2>5, <3>3 DEF Retry
      <4>2. \A x \in Env : x # e => Control(x)
        BY <3>1 DEF Control
      <4>3. /\ Creating(e)' => Creating(e) /\ child'[e] = child[e]
            /\ \A v \in Private : Given(e, v)' => Given(e, v)
            /\ fork'[e] = "mapChild" /\ at'[e] \in Private => seen'[e] \in {"W", "COW"}
        BY <3>1 DEF Creating, Given, CopyInv, CopyAt
      <4>4. fault'[e] # "map"
        BY <3>1
      <4> QED
        BY <3>1, <4>1, <4>2, <4>3, <4>4, QuietStill, RestsMem
    <3> QED
      BY <3>2, <3>3
  <2>6. ASSUME NEW v, NEW x, Fault(e, v, x) PROVE \A y \in Env : Rests(y)
    BY <2>6, QuietFault
  <2>7. CASE Push(e) \/ HandlerAlloc(e) \/ HandlerUnmap(e) \/ PushEip(e)
    BY <2>6, <2>7, QuietFault, RestsMem DEF Push
  <2>8. CASE SetHandler(e) \/ Look(e) \/ AllocXStack(e) \/ SetUpcall(e) \/ Exofork(e)
    BY <2>8, QuietSetHandler, QuietLook, QuietUpcall, QuietExofork, RestsMem
  <2>9. CASE MapChild(e) \/ MapSelf(e) \/ HandlerMap(e) \/ HandlerCopy(e)
    BY <2>9, QuietMapChild, QuietMapSelf, QuietHandlerMap, QuietHandlerCopy, RestsMem
  <2>10. ASSUME NEW v, NEW x, StoreFaults(e, v, x)
         PROVE  (\A y \in Env : CopyAt(y)') /\ UNCHANGED <<Alive, Mem>>
    BY <2>6, <2>10, RestsMem DEF StoreFaults
  <2> QED
    BY <2>1, <2>3, <2>4, <2>5, <2>7, <2>8, <2>9, <2>10 DEF Program, Handler, ForkStep
<1> QED
  BY <1>1, <1>2

\* ImplementsPrivateMemory: whatever the order of faults, forks and deaths, an
\* environment reads what it wrote itself, or what its parent had when it forked.
THEOREM Implements == Spec => ImplementsPrivateMemory
BY CopyInvInit, CopyInvStep, PTL DEF Spec, ImplementsPrivateMemory, Abstract!Spec

=============================================================================
