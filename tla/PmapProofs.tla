---------------------------- MODULE PmapProofs -----------------------------
(***************************************************************************)
(* Pages and address spaces, for any number of CPUs, environments, pages   *)
(* and virtual pages: pp_ref and page_free_list are exact, page tables are *)
(* private, teardown is complete, no page becomes writable on the way, and *)
(* no CPU uses a stale translation if programs are careful.                *)
(*                                                                         *)
(* A system call takes a page into its hands and puts it down in several   *)
(* steps.  Sound describes the memory after each of them; a trap begins    *)
(* and ends with no page in hand, and that is the invariant IInv.          *)
(***************************************************************************)
EXTENDS Pmap, FiniteSetTheorems, SequenceTheorems, WellFoundedInduction, TLAPS

-----------------------------------------------------------------------------
(* Arithmetic, lists, sizes of sets, and loops.                            *)

\* Every virtual page has a page directory entry (PDX, inc/mmu.h).
LEMMA PdxInPde == \A v \in VA : PDX(v) \in PDE
<1> USE PmapAssumption
<1> SUFFICES ASSUME NEW v \in VA PROVE PDX(v) \in PDE
  OBVIOUS
<1> DEFINE a == v - 1
           b == NVA - 1
<1>1. a \in Nat /\ b \in Nat /\ a <= b
  BY DEF VA
<1> DEFINE q == a \div PerTable
           r == b \div PerTable
<1>2. q \in Nat /\ r \in Nat
  BY <1>1
<1>3. q * PerTable <= a /\ b < (r + 1) * PerTable
  BY <1>1
<1>4. q <= r
  <2>1. ASSUME q >= r + 1 PROVE FALSE
    <3>1. q * PerTable >= (r + 1) * PerTable BY <2>1, <1>2
    <3> QED BY <3>1, <1>1, <1>2, <1>3
  <2> QED BY <2>1, <1>2
<1> QED BY <1>2, <1>4 DEF PDX, PDE, NPDE

\* p is somewhere in the list s.
InList(s, p) == \E i \in 1..Len(s) : s[i] = p

\* s holds nothing twice.
Injective(s) == \A i, j \in 1..Len(s) : s[i] = s[j] => i = j

\* What taking the head off page_free_list leaves (page_alloc).
LEMMA PopSeq ==
  ASSUME NEW s \in Seq(Page), s # <<>>, Injective(s)
  PROVE  /\ Head(s) \in Page /\ Tail(s) \in Seq(Page) /\ Injective(Tail(s))
         /\ InList(s, Head(s))
         /\ \A p : InList(Tail(s), p) <=> InList(s, p) /\ p # Head(s)
<1> DEFINE t == Tail(s)
<1>1. /\ Head(s) \in Page /\ t \in Seq(Page) /\ Len(t) = Len(s) - 1
      /\ \A i \in 1..Len(t) : t[i] = s[i+1]
  BY HeadTailProperties
<1>2. Len(s) \in Nat /\ Len(s) >= 1 /\ Head(s) = s[1]
  BY EmptySeq
<1> HIDE DEF t
<1>3. Injective(t)
  BY <1>1, <1>2 DEF Injective
<1>4. InList(s, Head(s))
  BY <1>2 DEF InList
<1>5. ASSUME NEW p, InList(t, p) PROVE InList(s, p) /\ p # Head(s)
  <2>1. PICK i \in 1..Len(t) : t[i] = p
    BY <1>5 DEF InList
  <2>2. i + 1 \in 1..Len(s) /\ s[i+1] = p /\ 1 \in 1..Len(s) /\ i + 1 # 1
    BY <2>1, <1>1, <1>2
  <2> QED BY <2>2, <1>2 DEF InList, Injective
<1>6. ASSUME NEW p, InList(s, p), p # Head(s) PROVE InList(t, p)
  <2>1. PICK i \in 1..Len(s) : s[i] = p
    BY <1>6 DEF InList
  <2>2. i # 1
    BY <2>1, <1>2, <1>6
  <2>3. i - 1 \in 1..Len(t) /\ t[i-1] = p
    BY <2>1, <2>2, <1>1, <1>2
  <2> QED BY <2>3 DEF InList
<1> QED BY <1>1, <1>3, <1>4, <1>5, <1>6 DEF t

\* What putting a page that is not in it on page_free_list makes (page_free).
LEMMA PushSeq ==
  ASSUME NEW s \in Seq(Page), NEW q \in Page, Injective(s), ~InList(s, q)
  PROVE  /\ <<q>> \o s \in Seq(Page) /\ Injective(<<q>> \o s)
         /\ \A p : InList(<<q>> \o s, p) <=> InList(s, p) \/ p = q
<1> DEFINE t == <<q>> \o s
<1>1. <<q>> \in Seq(Page) /\ Len(<<q>>) = 1 /\ <<q>>[1] = q /\ Len(s) \in Nat
  OBVIOUS
<1>2. /\ t \in Seq(Page) /\ Len(t) = 1 + Len(s)
      /\ \A i \in 1..1 + Len(s) : t[i] = IF i <= 1 THEN <<q>>[i] ELSE s[i-1]
  BY <1>1, ConcatProperties
<1> HIDE DEF t
<1>3. t[1] = q /\ \A i \in 2..Len(t) : i - 1 \in 1..Len(s) /\ t[i] = s[i-1]
  BY <1>1, <1>2
<1>4. Injective(t)
  <2> SUFFICES ASSUME NEW i \in 1..Len(t), NEW j \in 1..Len(t), t[i] = t[j] PROVE i = j
    BY DEF Injective
  <2>1. CASE i # 1 /\ j # 1
    BY <2>1, <1>1, <1>2, <1>3 DEF Injective
  <2>2. CASE i = 1 /\ j # 1
    <3>1. j \in 2..Len(t) BY <2>2, <1>1, <1>2
    <3> QED BY <2>2, <3>1, <1>3 DEF InList
  <2>3. CASE i # 1 /\ j = 1
    <3>1. i \in 2..Len(t) BY <2>3, <1>1, <1>2
    <3> QED BY <2>3, <3>1, <1>3 DEF InList
  <2> QED BY <2>1, <2>2, <2>3
<1>5. ASSUME NEW p, InList(t, p) PROVE InList(s, p) \/ p = q
  <2>1. PICK i \in 1..Len(t) : t[i] = p BY <1>5 DEF InList
  <2>2. i = 1 \/ i \in 2..Len(t) BY <1>1, <1>2
  <2> QED BY <2>1, <2>2, <1>3 DEF InList
<1>6. ASSUME NEW p, InList(s, p) \/ p = q PROVE InList(t, p)
  <2>1. CASE p = q
    <3>1. 1 \in 1..Len(t) BY <1>1, <1>2
    <3> QED BY <2>1, <3>1, <1>3 DEF InList
  <2>2. CASE InList(s, p)
    <3>1. PICK i \in 1..Len(s) : s[i] = p BY <2>2 DEF InList
    <3>2. i + 1 \in 2..Len(t) /\ i + 1 \in 1..Len(t) /\ (i + 1) - 1 = i BY <1>1, <1>2
    <3>3. t[i+1] = p BY <3>1, <3>2, <1>3
    <3> QED BY <3>2, <3>3 DEF InList
  <2> QED BY <2>1, <2>2, <1>6
<1> QED BY <1>2, <1>4, <1>5, <1>6 DEF t

\* Two subsets that differ in one element at most differ in size by it.
LEMMA Recount ==
  ASSUME NEW D, IsFiniteSet(D), NEW A \in SUBSET D, NEW B \in SUBSET D, NEW d,
         \A x \in D : x # d => (x \in A <=> x \in B)
  PROVE  /\ Cardinality(A) \in Nat /\ Cardinality(B) \in Nat
         /\ Cardinality(B) = Cardinality(A) - (IF d \in A THEN 1 ELSE 0)
                                            + (IF d \in B THEN 1 ELSE 0)
<1>1. IsFiniteSet(A) /\ IsFiniteSet(B)
  BY FS_Subset
<1>2. Cardinality(A) \in Nat /\ Cardinality(B) \in Nat
  BY <1>1, FS_CardinalityType
<1>3. A \ {d} = B \ {d}
  OBVIOUS
<1>4. /\ Cardinality(A \ {d}) = IF d \in A THEN Cardinality(A) - 1 ELSE Cardinality(A)
      /\ Cardinality(B \ {d}) = IF d \in B THEN Cardinality(B) - 1 ELSE Cardinality(B)
  BY <1>1, FS_RemoveElement
<1> QED BY <1>2, <1>3, <1>4

\* Every non-empty set of natural numbers has a least element.
LEMMA LeastNat ==
  ASSUME NEW T, T \subseteq Nat, T # {}
  PROVE  \E x \in T : \A y \in T : x <= y
<1> DEFINE I == {0..x : x \in T}
<1>1. I \subseteq FiniteSubsetsOf(Nat) /\ I # {}
  <2>1. ASSUME NEW x \in T PROVE 0..x \in FiniteSubsetsOf(Nat)
    <3>1. 0 \in Int /\ x \in Int OBVIOUS
    <3>2. IsFiniteSet(0..x) BY <3>1, FS_Interval, Zenon
    <3>3. 0..x \subseteq Nat BY <3>1
    <3> QED BY <3>2, <3>3 DEF FiniteSubsetsOf
  <2> QED BY <2>1
<1>2. \E i \in I : \A j \in I : <<j, i>> \notin StrictSubsetOrdering(Nat)
  BY <1>1, FS_StrictSubsetOrderingWellFounded, WFMin, Zenon
<1>3. ASSUME NEW x \in T, \A j \in I : <<j, 0..x>> \notin StrictSubsetOrdering(Nat)
      PROVE  \A y \in T : x <= y
  <2>1. ASSUME NEW y \in T, y < x PROVE FALSE
    <3>1. <<0..y, 0..x>> \in StrictSubsetOrdering(Nat)
      <4>1. x \in 0..x /\ x \notin 0..y /\ 0..y \subseteq 0..x /\ 0..x \subseteq Nat BY <2>1
      <4> QED BY <4>1 DEF StrictSubsetOrdering
    <3> QED BY <3>1, <1>3
  <2> QED BY <2>1
<1> QED BY <1>2, <1>3

\* Induction from 0 to n, for a set instead of a predicate.
LEMMA Induct ==
  ASSUME NEW T, NEW n \in Nat, 0 \in T, \A i \in 0..n-1 : i \in T => i + 1 \in T
  PROVE  \A i \in 0..n : i \in T
<1> SUFFICES ASSUME {i \in 0..n : i \notin T} # {} PROVE FALSE
  OBVIOUS
<1>1. PICK x \in {i \in 0..n : i \notin T} : \A y \in {i \in 0..n : i \notin T} : x <= y
  <2>1. {i \in 0..n : i \notin T} \subseteq Nat OBVIOUS
  <2> QED BY <2>1, LeastNat, Zenon
<1>2. x # 0 /\ x - 1 \in 0..n-1 BY <1>1
<1>3. x - 1 \in T BY <1>1, <1>2
<1> QED BY <1>1, <1>2, <1>3

\* g[i] is what the first i steps of a loop, F[1] to F[i], make of a.
Unrolls(g, N, a, F) == g[0] = a /\ \A i \in 1..N : g[i] = F[i][g[i-1]]

\* A loop of N steps has a sequence of intermediate states.
LEMMA Recursion ==
  ASSUME NEW S, NEW N \in Nat, NEW a \in S, NEW F \in [1..N -> [S -> S]]
  PROVE  \E g \in [0..N -> S] : Unrolls(g, N, a, F)
<1> DEFINE Chain(g, k) == g[0] = a /\ \A i \in 1..k : g[i] = F[i][g[i-1]]
           T == {k \in 0..N : \E g \in [0..k -> S] : Chain(g, k)}
<1>1. 0 \in T
  <2>1. [i \in 0..0 |-> a] \in [0..0 -> S] /\ Chain([i \in 0..0 |-> a], 0)
    OBVIOUS
  <2>2. \E g \in [0..0 -> S] : Chain(g, 0)
    <3> HIDE DEF Chain
    <3> QED BY <2>1
  <2> QED BY <2>2
<1>2. ASSUME NEW k \in 0..N-1, k \in T PROVE k + 1 \in T
  <2>1. PICK g \in [0..k -> S] : Chain(g, k)
    BY <1>2
  <2>2. k + 1 \in 1..N /\ k \in 0..k /\ g[k] \in S /\ F[k+1][g[k]] \in S
    BY <2>1
  <2> DEFINE h == [i \in 0..k+1 |-> IF i = k + 1 THEN F[k+1][g[k]] ELSE g[i]]
  <2>3. h \in [0..k+1 -> S]
    BY <2>2
  <2>4. ASSUME NEW i \in 1..k+1 PROVE h[i] = F[i][h[i-1]]
    <3>1. CASE i = k + 1
      <4>1. h[i] = F[k+1][g[k]] /\ h[i-1] = g[k]
        BY <3>1, <2>2
      <4> QED BY <3>1, <4>1
    <3>2. CASE i # k + 1
      <4>1. i \in 1..k /\ h[i] = g[i] /\ h[i-1] = g[i-1]
        BY <3>2
      <4> QED BY <4>1, <2>1
    <3> QED BY <3>1, <3>2
  <2>5. h[0] = a
    BY <2>1
  <2> HIDE DEF h
  <2> QED BY <2>2, <2>3, <2>4, <2>5
<1>3. \A k \in 0..N : k \in T
  <2> HIDE DEF T
  <2> QED BY <1>1, <1>2, Induct
<1> QED BY <1>3 DEF Unrolls

-----------------------------------------------------------------------------
(* References to a page, and what a write to the tables does to them.      *)

\* The places that refer to page p in memory m: as Mappers, Tables and
\* Directories, but for the memory in the middle of a call.
Mapped(m, p) == {x \in Env \X VA : m.pte[x[1]][x[2]] # None
                                   /\ m.pte[x[1]][x[2]].page = p}
AsTable(m, p) == {x \in Env \X PDE : m.pt[x[1]][x[2]] = p}
AsDirectory(m, p) == {e \in Env : m.pd[e] = p}
NMapped(m, p) == Cardinality(Mapped(m, p))
NTable(m, p) == Cardinality(AsTable(m, p))
NDirectory(m, p) == Cardinality(AsDirectory(m, p))

\* The page table entry x maps page p.
Refs(x, p) == x # None /\ x.page = p

\* There are finitely many places a page can be referred to from.
LEMMA FiniteDomains == IsFiniteSet(Env) /\ IsFiniteSet(Env \X VA) /\ IsFiniteSet(Env \X PDE)
<1>1. IsFiniteSet(Env) BY PmapAssumption
<1>2. IsFiniteSet(VA)
  <2>1. 1 \in Int /\ NVA \in Int BY PmapAssumption
  <2> QED BY <2>1, FS_Interval, Zenon DEF VA
<1>3. IsFiniteSet(PDE)
  <2>1. 1 \in Int /\ NPDE \in Int BY PmapAssumption DEF NPDE, PDX
  <2> QED BY <2>1, FS_Interval, Zenon DEF PDE
<1> QED BY <1>1, <1>2, <1>3, FS_Product

\* The numbers of references are natural numbers.
LEMMA CountType ==
  ASSUME NEW m, NEW p
  PROVE  NMapped(m, p) \in Nat /\ NTable(m, p) \in Nat /\ NDirectory(m, p) \in Nat
<1>1. /\ Mapped(m, p) \in SUBSET (Env \X VA) /\ AsTable(m, p) \in SUBSET (Env \X PDE)
      /\ AsDirectory(m, p) \in SUBSET Env
  BY DEF Mapped, AsTable, AsDirectory
<1> QED BY <1>1, FiniteDomains, FS_Subset, FS_CardinalityType DEF NMapped, NTable, NDirectory

\* What a write of one page table entry does to the numbers of references.
LEMMA SetPte ==
  ASSUME NEW m \in Memory, NEW n, NEW e \in Env, NEW v \in VA, NEW x,
         n.pte = [m.pte EXCEPT ![e][v] = x], NEW p
  PROVE  NMapped(n, p) = NMapped(m, p) - (IF Refs(m.pte[e][v], p) THEN 1 ELSE 0)
                                       + (IF Refs(x, p) THEN 1 ELSE 0)
<1> DEFINE D == Env \X VA
           A == Mapped(m, p)
           B == Mapped(n, p)
           d == <<e, v>>
<1>0. m.pte \in [Env -> [VA -> Mapping \cup {None}]]
  BY DEF Memory
<1>1. \A f \in Env, w \in VA : n.pte[f][w] = IF f = e /\ w = v THEN x ELSE m.pte[f][w]
  BY <1>0
<1>2. A \in SUBSET D /\ B \in SUBSET D /\ d \in D
  BY DEF Mapped
<1>3. \A f \in Env, w \in VA : (<<f, w>> \in A <=> Refs(m.pte[f][w], p))
                            /\ (<<f, w>> \in B <=> Refs(n.pte[f][w], p))
  BY DEF Mapped, Refs
<1>4. \A y \in D : y # d => (y \in A <=> y \in B)
  <2> SUFFICES ASSUME NEW f \in Env, NEW w \in VA, <<f, w>> # d
               PROVE  <<f, w>> \in A <=> <<f, w>> \in B
    OBVIOUS
  <2>1. n.pte[f][w] = m.pte[f][w] BY <1>1
  <2> QED BY <2>1, <1>3
<1>5. (d \in A <=> Refs(m.pte[e][v], p)) /\ (d \in B <=> Refs(x, p))
  BY <1>1, <1>3
<1> HIDE DEF A, B, D, d
<1>6. Cardinality(B) = Cardinality(A) - (IF d \in A THEN 1 ELSE 0) + (IF d \in B THEN 1 ELSE 0)
  <2>1. IsFiniteSet(D) BY FiniteDomains DEF D
  <2> QED BY <2>1, <1>2, <1>4, Recount
<1> QED BY <1>5, <1>6 DEF A, B, NMapped

\* The same for one page directory entry.
LEMMA SetPt ==
  ASSUME NEW m \in Memory, NEW n, NEW e \in Env, NEW i \in PDE,
         n.pt = [m.pt EXCEPT ![e][i] = n.pt[e][i]], NEW p
  PROVE  NTable(n, p) = NTable(m, p) - (IF m.pt[e][i] = p THEN 1 ELSE 0)
                                     + (IF n.pt[e][i] = p THEN 1 ELSE 0)
<1> DEFINE D == Env \X PDE
           A == AsTable(m, p)
           B == AsTable(n, p)
           d == <<e, i>>
<1>0. m.pt \in [Env -> [PDE -> Page \cup {None}]]
  BY DEF Memory
<1>1. \A f \in Env, j \in PDE : n.pt[f][j] = IF f = e /\ j = i THEN n.pt[e][i] ELSE m.pt[f][j]
  BY <1>0
<1>2. A \in SUBSET D /\ B \in SUBSET D /\ d \in D
  BY DEF AsTable
<1>3. \A f \in Env, j \in PDE : (<<f, j>> \in A <=> m.pt[f][j] = p)
                             /\ (<<f, j>> \in B <=> n.pt[f][j] = p)
  BY DEF AsTable
<1>4. \A y \in D : y # d => (y \in A <=> y \in B)
  <2> SUFFICES ASSUME NEW f \in Env, NEW j \in PDE, <<f, j>> # d
               PROVE  <<f, j>> \in A <=> <<f, j>> \in B
    OBVIOUS
  <2>1. n.pt[f][j] = m.pt[f][j] BY <1>1
  <2> QED BY <2>1, <1>3
<1>5. (d \in A <=> m.pt[e][i] = p) /\ (d \in B <=> n.pt[e][i] = p)
  BY <1>1, <1>3
<1> HIDE DEF A, B, D, d
<1>6. Cardinality(B) = Cardinality(A) - (IF d \in A THEN 1 ELSE 0) + (IF d \in B THEN 1 ELSE 0)
  <2>1. IsFiniteSet(D) BY FiniteDomains DEF D
  <2> QED BY <2>1, <1>2, <1>4, Recount
<1> QED BY <1>5, <1>6 DEF A, B, NTable

\* The same for the page directory of an environment.
LEMMA SetPd ==
  ASSUME NEW m \in Memory, NEW n, NEW e \in Env,
         n.pd = [m.pd EXCEPT ![e] = n.pd[e]], NEW p
  PROVE  NDirectory(n, p) = NDirectory(m, p) - (IF m.pd[e] = p THEN 1 ELSE 0)
                                             + (IF n.pd[e] = p THEN 1 ELSE 0)
<1> DEFINE A == AsDirectory(m, p)
           B == AsDirectory(n, p)
<1>0. m.pd \in [Env -> Page \cup {None}]
  BY DEF Memory
<1>1. \A f \in Env : n.pd[f] = IF f = e THEN n.pd[e] ELSE m.pd[f]
  BY <1>0
<1>2. A \in SUBSET Env /\ B \in SUBSET Env
  BY DEF AsDirectory
<1>3. \A f \in Env : (f \in A <=> m.pd[f] = p) /\ (f \in B <=> n.pd[f] = p)
  BY DEF AsDirectory
<1>4. \A f \in Env : f # e => (f \in A <=> f \in B)
  BY <1>1, <1>3
<1>5. (e \in A <=> m.pd[e] = p) /\ (e \in B <=> n.pd[e] = p)
  BY <1>1, <1>3
<1> HIDE DEF A, B
<1>6. Cardinality(B) = Cardinality(A) - (IF e \in A THEN 1 ELSE 0) + (IF e \in B THEN 1 ELSE 0)
  BY FiniteDomains, <1>2, <1>4, Recount
<1> QED BY <1>5, <1>6 DEF A, B, NDirectory

\* The numbers of references depend on nothing but the tables.
LEMMA SameCounts ==
  ASSUME NEW m, NEW n, NEW p
  PROVE  /\ n.pte = m.pte => NMapped(n, p) = NMapped(m, p)
         /\ n.pt = m.pt => NTable(n, p) = NTable(m, p)
         /\ n.pd = m.pd => NDirectory(n, p) = NDirectory(m, p)
BY DEF NMapped, NTable, NDirectory, Mapped, AsTable, AsDirectory

-----------------------------------------------------------------------------
(* What each operation does to the parts of the memory.                    *)

\* page_alloc changes the free list only.
LEMMA PopParts ==
  ASSUME NEW m \in Memory, m.free # <<>>
  PROVE  LET h == Head(m.free)
             n == IncRef(Popped(m), h)
         IN  /\ h \in Page
             /\ Popped(m) \in Memory /\ n \in Memory
             /\ Popped(m).free = Tail(m.free) /\ n.free = Tail(m.free)
             /\ Popped(m).ref = m.ref /\ n.ref = [m.ref EXCEPT ![h] = @ + 1]
             /\ Popped(m).pd = m.pd /\ Popped(m).pt = m.pt /\ Popped(m).pte = m.pte
             /\ n.pd = m.pd /\ n.pt = m.pt /\ n.pte = m.pte
<1>1. Head(m.free) \in Page /\ Tail(m.free) \in Seq(Page)
  BY HeadTailProperties DEF Memory
<1>2. [m.ref EXCEPT ![Head(m.free)] = @ + 1] \in [Page -> Nat]
  BY <1>1 DEF Memory
<1> QED BY <1>1, <1>2 DEF Popped, IncRef, Memory

\* pp_ref++ changes one count only.
LEMMA IncRefParts ==
  ASSUME NEW m \in Memory, NEW p \in Page
  PROVE  LET n == IncRef(m, p)
         IN  /\ n \in Memory /\ n.ref = [m.ref EXCEPT ![p] = @ + 1]
             /\ n.free = m.free /\ n.pd = m.pd /\ n.pt = m.pt /\ n.pte = m.pte
<1>1. [m.ref EXCEPT ![p] = @ + 1] \in [Page -> Nat]
  BY DEF Memory
<1> QED BY <1>1 DEF IncRef, Memory

\* page_decref changes one count and, at zero, the free list.
LEMMA DecRefParts ==
  ASSUME NEW m \in Memory, NEW p \in Page, m.ref[p] # 0
  PROVE  LET n == DecRef(m, p)
         IN  /\ n \in Memory /\ n.ref = [m.ref EXCEPT ![p] = @ - 1]
             /\ n.free = IF m.ref[p] = 1 THEN <<p>> \o m.free ELSE m.free
             /\ n.pd = m.pd /\ n.pt = m.pt /\ n.pte = m.pte
<1>1. [m.ref EXCEPT ![p] = @ - 1] \in [Page -> Nat] /\ [m.ref EXCEPT ![p] = @ - 1][p] = m.ref[p] - 1
  BY DEF Memory
<1>2. <<p>> \o m.free \in Seq(Page)
  BY ConcatProperties DEF Memory
<1>3. m.ref[p] - 1 = 0 <=> m.ref[p] = 1
  BY DEF Memory
<1> QED BY <1>1, <1>2, <1>3 DEF DecRef, Pushed, Memory

-----------------------------------------------------------------------------
(* The memory in the middle of a call.                                     *)

\* All references to page p.
Count(m, p) == NMapped(m, p) + NTable(m, p) + NDirectory(m, p)

\* x is a page in the hands of a system call, which has k references to it.
Accounted(m, x, k) ==
  /\ \A p \in Page :
       /\ m.ref[p] = Count(m, p) + (IF p = x THEN k ELSE 0)
       /\ InList(m.free, p) <=> m.ref[p] = 0 /\ p # x
       /\ NTable(m, p) + NDirectory(m, p) > 0 => Count(m, p) = 1 /\ p # x
  /\ Injective(m.free)

\* No mapping without page table, no page table without page directory.
Tree(m) == \A e \in Env :
  /\ \A i \in PDE : m.pt[e][i] # None => m.pd[e] # None
  /\ \A v \in VA : m.pte[e][v] # None => m.pt[e][PDX(v)] # None

\* What holds of the memory after each step of a system call.
Sound(m, x, k) == m \in Memory /\ Accounted(m, x, k) /\ Tree(m)

\* Only the address space of e differs.
Within(m, n, e) == n.pd = m.pd /\ \A f \in Env \ {e} : n.pt[f] = m.pt[f] /\ n.pte[f] = m.pte[f]

\* The page page_alloc takes is referred to from nowhere.
LEMMA HeadIsFree ==
  ASSUME NEW m \in Memory, m.free # <<>>, NEW x, NEW k, Accounted(m, x, k)
  PROVE  LET h == Head(m.free)
         IN  /\ h \in Page /\ h # x /\ m.ref[h] = 0
             /\ NMapped(m, h) = 0 /\ NTable(m, h) = 0 /\ NDirectory(m, h) = 0
             /\ Tail(m.free) \in Seq(Page) /\ Injective(Tail(m.free))
             /\ \A p : InList(Tail(m.free), p) <=> InList(m.free, p) /\ p # h
<1> DEFINE h == Head(m.free)
<1>0. m.free \in Seq(Page) /\ Injective(m.free)
  BY DEF Memory, Accounted
<1>1. /\ h \in Page /\ InList(m.free, h)
      /\ Tail(m.free) \in Seq(Page) /\ Injective(Tail(m.free))
      /\ \A p : InList(Tail(m.free), p) <=> InList(m.free, p) /\ p # h
  BY <1>0, PopSeq
<1> HIDE DEF h
<1>2. h # x /\ m.ref[h] = 0 /\ m.ref[h] = Count(m, h) + 0
  BY <1>1 DEF Accounted
<1>3. NMapped(m, h) = 0 /\ NTable(m, h) = 0 /\ NDirectory(m, h) = 0
  BY <1>2, CountType DEF Count
<1> QED BY <1>1, <1>2, <1>3 DEF h

\* pgdir_walk with create keeps the counts exact and maps nothing.
LEMMA WalkSound ==
  ASSUME NEW m, NEW x, NEW k \in Nat, Sound(m, x, k), NEW e \in Env, NEW v \in VA,
         m.pd[e] # None, CanWalk(m, e, v)
  PROVE  LET n == Walk(m, e, v)
         IN  /\ Sound(n, x, k) /\ Within(m, n, e)
             /\ n.pte = m.pte /\ n.pt[e][PDX(v)] # None
             /\ x \in Page => n.ref[x] = m.ref[x]
<1> DEFINE i == PDX(v)
           h == Head(m.free)
<1>0. m \in Memory /\ Accounted(m, x, k) /\ Tree(m) /\ i \in PDE
  BY PdxInPde DEF Sound
<1>1. CASE m.pt[e][i] # None
  <2>1. Walk(m, e, v) = m BY <1>1 DEF Walk
  <2> QED BY <1>1, <2>1 DEF Within
<1>2. CASE m.pt[e][i] = None
  <2>1. m.free # <<>> BY <1>2 DEF CanWalk
  <2> DEFINE b == IncRef(Popped(m), h)
             n == [b EXCEPT !.pt[e][i] = h]
  <2>2. Walk(m, e, v) = n BY <1>2 DEF Walk
  <2>3. /\ h \in Page /\ h # x /\ m.ref[h] = 0
        /\ NMapped(m, h) = 0 /\ NTable(m, h) = 0 /\ NDirectory(m, h) = 0
        /\ Injective(Tail(m.free))
        /\ \A p : InList(Tail(m.free), p) <=> InList(m.free, p) /\ p # h
    BY <1>0, <2>1, HeadIsFree
  <2>4. /\ b \in Memory /\ b.free = Tail(m.free) /\ b.ref = [m.ref EXCEPT ![h] = @ + 1]
        /\ b.pd = m.pd /\ b.pt = m.pt /\ b.pte = m.pte
    BY <1>0, <2>1, PopParts
  <2> HIDE DEF b, h
  <2>5. n \in Memory /\ n.free = Tail(m.free) /\ n.ref = [m.ref EXCEPT ![h] = @ + 1]
        /\ n.pd = m.pd /\ n.pt = [m.pt EXCEPT ![e][i] = h] /\ n.pte = m.pte
    BY <2>3, <2>4, <1>0 DEF Memory
  <2> HIDE DEF n, i
  <2>6. \A p \in Page : n.ref[p] = IF p = h THEN 1 ELSE m.ref[p]
    BY <2>3, <2>5, <1>0 DEF Memory
  <2>7. \A p \in Page : /\ NMapped(n, p) = NMapped(m, p) /\ NDirectory(n, p) = NDirectory(m, p)
                        /\ NTable(n, p) = NTable(m, p) + (IF p = h THEN 1 ELSE 0)
    <3> SUFFICES ASSUME NEW p \in Page
                 PROVE  /\ NMapped(n, p) = NMapped(m, p) /\ NDirectory(n, p) = NDirectory(m, p)
                        /\ NTable(n, p) = NTable(m, p) + (IF p = h THEN 1 ELSE 0)
      OBVIOUS
    <3>0. n.pt[e][i] = h
      BY <1>0, <2>5 DEF Memory
    <3>a. n.pt = [m.pt EXCEPT ![e][i] = n.pt[e][i]]
      BY <2>5, <3>0, Zenon
    <3>1. NTable(n, p) = NTable(m, p) - (IF m.pt[e][i] = p THEN 1 ELSE 0)
                                      + (IF n.pt[e][i] = p THEN 1 ELSE 0)
      BY <1>0, <3>a, SetPt
    <3>2. m.pt[e][i] # p BY <1>2, PmapAssumption
    <3> QED BY <3>0, <3>1, <3>2, <2>5, SameCounts, CountType
  <2>8. Accounted(n, x, k)
    <3> SUFFICES ASSUME NEW p \in Page
                 PROVE  /\ n.ref[p] = Count(n, p) + (IF p = x THEN k ELSE 0)
                        /\ InList(n.free, p) <=> n.ref[p] = 0 /\ p # x
                        /\ NTable(n, p) + NDirectory(n, p) > 0 => Count(n, p) = 1 /\ p # x
      BY <2>3, <2>5 DEF Accounted
    <3>1. /\ m.ref[p] = Count(m, p) + (IF p = x THEN k ELSE 0)
          /\ InList(m.free, p) <=> m.ref[p] = 0 /\ p # x
          /\ NTable(m, p) + NDirectory(m, p) > 0 => Count(m, p) = 1 /\ p # x
      BY <1>0 DEF Accounted
    <3>2. Count(m, p) \in Nat /\ Count(n, p) = Count(m, p) + (IF p = h THEN 1 ELSE 0)
      BY <2>7, CountType DEF Count
    <3>3. CASE p = h
      <4>1. Count(m, p) = 0 BY <3>3, <2>3 DEF Count
      <4> QED BY <3>1, <3>2, <3>3, <4>1, <2>3, <2>5, <2>6
    <3>4. CASE p # h
      <4>1. n.ref[p] = m.ref[p] /\ Count(n, p) = Count(m, p)
            /\ NTable(n, p) = NTable(m, p) /\ NDirectory(n, p) = NDirectory(m, p)
        BY <3>2, <3>4, <2>6, <2>7, CountType
      <4>2. InList(n.free, p) <=> InList(m.free, p)
        BY <3>4, <2>3, <2>5
      <4> QED BY <3>1, <4>1, <4>2
    <3> QED BY <3>3, <3>4
  <2>9. \A f \in Env, j \in PDE : n.pt[f][j] = IF f = e /\ j = i THEN h ELSE m.pt[f][j]
    BY <1>0, <2>5 DEF Memory
  <2>10. h # None BY <2>3, PmapAssumption
  <2>11. Tree(n)
    BY <1>0, <2>5, <2>9, <2>10, PdxInPde DEF Tree, i
  <2>12. Within(m, n, e)
    BY <1>0, <2>5 DEF Within, Memory
  <2>13. x \in Page => n.ref[x] = m.ref[x]
    BY <2>3, <2>6
  <2> QED BY <1>0, <2>2, <2>5, <2>8, <2>9, <2>10, <2>11, <2>12, <2>13 DEF Sound, i
<1> QED BY <1>1, <1>2

\* The system call counts one more reference in its hands.
LEMMA IncRefSound ==
  ASSUME NEW m, NEW x \in Page, Sound(m, x, 0)
  PROVE  LET n == IncRef(m, x)
         IN  Sound(n, x, 1) /\ n.pd = m.pd /\ n.pt = m.pt /\ n.pte = m.pte
<1> DEFINE n == IncRef(m, x)
<1>0. m \in Memory /\ Accounted(m, x, 0) /\ Tree(m)
  BY DEF Sound
<1>1. /\ n \in Memory /\ n.ref = [m.ref EXCEPT ![x] = @ + 1]
      /\ n.free = m.free /\ n.pd = m.pd /\ n.pt = m.pt /\ n.pte = m.pte
  BY <1>0, IncRefParts
<1> HIDE DEF n
<1>2. \A p \in Page : n.ref[p] = IF p = x THEN m.ref[p] + 1 ELSE m.ref[p]
  BY <1>0, <1>1 DEF Memory
<1>3. \A p : Count(n, p) = Count(m, p) /\ NTable(n, p) = NTable(m, p)
             /\ NDirectory(n, p) = NDirectory(m, p) /\ Count(m, p) \in Nat
  BY <1>1, SameCounts, CountType DEF Count
<1>4. Accounted(n, x, 1)
  BY <1>0, <1>1, <1>2, <1>3 DEF Accounted
<1>5. Tree(n)
  BY <1>0, <1>1 DEF Tree
<1> QED BY <1>1, <1>4, <1>5 DEF Sound, n

\* page_remove gives back what the page table entry held.
LEMMA PageRemoveSound ==
  ASSUME NEW m, NEW x, x \in Page \/ x = None, Sound(m, x, 1), NEW e \in Env, NEW v \in VA
  PROVE  LET n == PageRemove(m, e, v)
         IN  /\ Sound(n, x, 1) /\ Within(m, n, e) /\ n.pt = m.pt
             /\ n.pte = [m.pte EXCEPT ![e][v] = None]
<1>0. m \in Memory /\ Accounted(m, x, 1) /\ Tree(m)
  BY DEF Sound
<1>1. CASE m.pte[e][v] = None
  <2>1. PageRemove(m, e, v) = m BY <1>1 DEF PageRemove
  <2>2. m.pte = [m.pte EXCEPT ![e][v] = None]
    BY <1>0, <1>1 DEF Memory
  <2> QED BY <2>1, <2>2 DEF Within
<1>2. CASE m.pte[e][v] # None
  <2> DEFINE y == m.pte[e][v].page
             b == DecRef(m, y)
             n == [b EXCEPT !.pte[e][v] = None]
  <2>1. PageRemove(m, e, v) = n BY <1>2 DEF PageRemove
  <2>2. m.pte[e][v] \in Mapping /\ y \in Page
    BY <1>0, <1>2 DEF Memory, Mapping
  <2> HIDE DEF y
  <2>3. \A p \in Page : Refs(m.pte[e][v], p) <=> p = y
    BY <1>2 DEF Refs, y
  <2> DEFINE n0 == [m EXCEPT !.pte[e][v] = None]
  <2>4. n0.pte = [m.pte EXCEPT ![e][v] = None]
    BY <1>0 DEF Memory
  <2> HIDE DEF n0
  <2>5. NMapped(n0, y) = NMapped(m, y) - 1
    <3>1. ~Refs(None, y) BY DEF Refs
    <3>2. NMapped(n0, y) = NMapped(m, y) - (IF Refs(m.pte[e][v], y) THEN 1 ELSE 0)
                                         + (IF Refs(None, y) THEN 1 ELSE 0)
      BY <1>0, <2>4, SetPte
    <3> QED BY <3>1, <3>2, <2>2, <2>3, CountType
  <2>6. NMapped(m, y) > 0 /\ m.ref[y] = Count(m, y) + (IF y = x THEN 1 ELSE 0)
        /\ Count(m, y) > 0 /\ Count(m, y) \in Nat
    BY <1>0, <2>2, <2>5, CountType DEF Accounted, Count
  <2>7. m.ref[y] # 0 /\ (m.ref[y] = 1 => y # x)
    BY <2>6
  <2>8. /\ b \in Memory /\ b.ref = [m.ref EXCEPT ![y] = @ - 1]
        /\ b.free = IF m.ref[y] = 1 THEN <<y>> \o m.free ELSE m.free
        /\ b.pd = m.pd /\ b.pt = m.pt /\ b.pte = m.pte
    BY <1>0, <2>2, <2>7, DecRefParts
  <2> HIDE DEF b
  <2>9. n \in Memory /\ n.ref = b.ref /\ n.free = b.free /\ n.pd = m.pd /\ n.pt = m.pt
        /\ n.pte = [m.pte EXCEPT ![e][v] = None]
    BY <2>8 DEF Memory
  <2> HIDE DEF n
  <2>10. \A p \in Page : n.ref[p] = IF p = y THEN m.ref[p] - 1 ELSE m.ref[p]
    BY <1>0, <2>2, <2>8, <2>9 DEF Memory
  <2>11. \A p \in Page : /\ NTable(n, p) = NTable(m, p) /\ NDirectory(n, p) = NDirectory(m, p)
                         /\ NMapped(n, p) = NMapped(m, p) - (IF p = y THEN 1 ELSE 0)
    <3> SUFFICES ASSUME NEW p \in Page
                 PROVE  /\ NTable(n, p) = NTable(m, p) /\ NDirectory(n, p) = NDirectory(m, p)
                        /\ NMapped(n, p) = NMapped(m, p) - (IF p = y THEN 1 ELSE 0)
      OBVIOUS
    <3>1. ~Refs(None, p) BY DEF Refs
    <3>2. NMapped(n, p) = NMapped(m, p) - (IF Refs(m.pte[e][v], p) THEN 1 ELSE 0)
                                        + (IF Refs(None, p) THEN 1 ELSE 0)
      BY <1>0, <2>9, SetPte
    <3> QED BY <3>1, <3>2, <2>3, <2>9, SameCounts, CountType
  <2>12. Injective(n.free) /\ \A p \in Page :
           InList(n.free, p) <=> InList(m.free, p) \/ (p = y /\ m.ref[y] = 1)
    <3>1. m.free \in Seq(Page) /\ Injective(m.free) /\ ~InList(m.free, y)
      BY <1>0, <2>2, <2>7 DEF Accounted, Memory
    <3> QED BY <3>1, <2>2, <2>8, <2>9, PushSeq
  <2>13. Accounted(n, x, 1)
    <3> SUFFICES ASSUME NEW p \in Page
                 PROVE  /\ n.ref[p] = Count(n, p) + (IF p = x THEN 1 ELSE 0)
                        /\ InList(n.free, p) <=> n.ref[p] = 0 /\ p # x
                        /\ NTable(n, p) + NDirectory(n, p) > 0 => Count(n, p) = 1 /\ p # x
      BY <2>12 DEF Accounted
    <3>1. /\ m.ref[p] = Count(m, p) + (IF p = x THEN 1 ELSE 0)
          /\ InList(m.free, p) <=> m.ref[p] = 0 /\ p # x
          /\ NTable(m, p) + NDirectory(m, p) > 0 => Count(m, p) = 1 /\ p # x
      BY <1>0 DEF Accounted
    <3>2. Count(m, p) \in Nat /\ Count(n, p) = Count(m, p) - (IF p = y THEN 1 ELSE 0)
      BY <2>11, CountType DEF Count
    <3>3. CASE p = y
      <4>1. NTable(m, p) + NDirectory(m, p) = 0
        BY <2>6, <3>1, <3>3, CountType DEF Count
      <4> QED BY <3>1, <3>2, <3>3, <4>1, <2>6, <2>7, <2>10, <2>11, <2>12
    <3>4. CASE p # y
      BY <3>1, <3>2, <3>4, <2>10, <2>11, <2>12
    <3> QED BY <3>3, <3>4
  <2>14. \A f \in Env, w \in VA : n.pte[f][w] = IF f = e /\ w = v THEN None ELSE m.pte[f][w]
    BY <1>0, <2>9 DEF Memory
  <2>15. Tree(n)
    BY <1>0, <2>9, <2>14 DEF Tree
  <2>16. Within(m, n, e)
    BY <1>0, <2>9 DEF Within, Memory
  <2> QED BY <2>1, <2>9, <2>13, <2>15, <2>16 DEF Sound
<1> QED BY <1>1, <1>2

\* page_insert of a page in the caller's hands puts it into the page table and
\* nowhere else.
LEMMA PageInsertSound ==
  ASSUME NEW m, NEW p \in Page, Sound(m, p, 0), NEW e \in Env, NEW v \in VA,
         m.pd[e] # None, CanWalk(m, e, v), NEW perm \in SUBSET {"U", "W"}
  PROVE  LET n == PageInsert(m, e, p, v, perm)
         IN  /\ Sound(n, None, 0) /\ Within(m, n, e)
             /\ n.pte = [m.pte EXCEPT ![e][v] = [page |-> p, perm |-> perm]]
<1> DEFINE a == Walk(m, e, v)
           b == IncRef(a, p)
           c == PageRemove(b, e, v)
           x == [page |-> p, perm |-> perm]
           n == [c EXCEPT !.pte[e][v] = x]
<1>1. Sound(a, p, 0) /\ Within(m, a, e) /\ a.pte = m.pte /\ a.pt[e][PDX(v)] # None
  BY WalkSound
<1> HIDE DEF a
<1>2. Sound(b, p, 1) /\ b.pd = a.pd /\ b.pt = a.pt /\ b.pte = a.pte
  BY <1>1, IncRefSound
<1> HIDE DEF b
<1>3. Sound(c, p, 1) /\ Within(b, c, e) /\ c.pt = b.pt /\ c.pte = [b.pte EXCEPT ![e][v] = None]
  BY <1>2, PageRemoveSound
<1> HIDE DEF c
<1>4. x \in Mapping /\ x # None
  BY PmapAssumption DEF Mapping
<1>5. c \in Memory /\ Accounted(c, p, 1) /\ Tree(c) /\ m \in Memory /\ c.pte[e][v] = None
  <2>1. c \in Memory /\ b \in Memory BY <1>2, <1>3 DEF Sound
  <2>2. c.pte[e][v] = None BY <1>3, <2>1 DEF Memory
  <2> QED BY <2>1, <2>2, <1>3 DEF Sound
<1>6. n \in Memory /\ n.ref = c.ref /\ n.free = c.free /\ n.pd = c.pd /\ n.pt = c.pt
      /\ n.pte = [c.pte EXCEPT ![e][v] = x]
  BY <1>4, <1>5 DEF Memory
<1>x. x.page = p OBVIOUS
<1>pi. PageInsert(m, e, p, v, perm) = n
  BY DEF PageInsert, n, c, b, a
<1> HIDE DEF n, x
<1>7. \A q \in Page : /\ NTable(n, q) = NTable(c, q) /\ NDirectory(n, q) = NDirectory(c, q)
                      /\ NMapped(n, q) = NMapped(c, q) + (IF q = p THEN 1 ELSE 0)
  <2> SUFFICES ASSUME NEW q \in Page
               PROVE  /\ NTable(n, q) = NTable(c, q) /\ NDirectory(n, q) = NDirectory(c, q)
                      /\ NMapped(n, q) = NMapped(c, q) + (IF q = p THEN 1 ELSE 0)
    OBVIOUS
  <2>1. NMapped(n, q) = NMapped(c, q) - (IF Refs(c.pte[e][v], q) THEN 1 ELSE 0)
                                      + (IF Refs(x, q) THEN 1 ELSE 0)
    BY <1>5, <1>6, SetPte
  <2>2. ~Refs(c.pte[e][v], q) /\ (Refs(x, q) <=> q = p)
    BY <1>4, <1>5, <1>x DEF Refs
  <2> QED BY <2>1, <2>2, <1>6, SameCounts, CountType
<1>8. Accounted(n, None, 0)
  <2> SUFFICES ASSUME NEW q \in Page
               PROVE  /\ n.ref[q] = Count(n, q) + (IF q = None THEN 0 ELSE 0)
                      /\ InList(n.free, q) <=> n.ref[q] = 0 /\ q # None
                      /\ NTable(n, q) + NDirectory(n, q) > 0 => Count(n, q) = 1 /\ q # None
    BY <1>5, <1>6 DEF Accounted
  <2>1. /\ c.ref[q] = Count(c, q) + (IF q = p THEN 1 ELSE 0)
        /\ InList(c.free, q) <=> c.ref[q] = 0 /\ q # p
        /\ NTable(c, q) + NDirectory(c, q) > 0 => Count(c, q) = 1 /\ q # p
    BY <1>5 DEF Accounted
  <2>2. Count(c, q) \in Nat /\ Count(n, q) = Count(c, q) + (IF q = p THEN 1 ELSE 0)
    BY <1>7, CountType DEF Count
  <2>3. q # None BY PmapAssumption
  <2>4. CASE q = p
    BY <2>1, <2>2, <2>3, <2>4, <1>6, <1>7
  <2>5. CASE q # p
    BY <2>1, <2>2, <2>3, <2>5, <1>6, <1>7
  <2> QED BY <2>4, <2>5
<1>9. n.pte = [m.pte EXCEPT ![e][v] = x]
  <2> DEFINE G == m.pte
  <2>1. G \in [Env -> [VA -> Mapping \cup {None}]]
    BY <1>5 DEF Memory
  <2>2. n.pte = [[G EXCEPT ![e][v] = None] EXCEPT ![e][v] = x]
    <3>1. c.pte = [G EXCEPT ![e][v] = None]
      BY <1>1, <1>2, <1>3, Zenon
    <3> QED BY <3>1, <1>6, Zenon
  <2> HIDE DEF G
  <2>3. [[G EXCEPT ![e][v] = None] EXCEPT ![e][v] = x] = [G EXCEPT ![e][v] = x]
    BY <2>1
  <2> QED BY <2>2, <2>3 DEF G
<1>10. \A f \in Env, w \in VA : n.pte[f][w] = IF f = e /\ w = v THEN x ELSE c.pte[f][w]
  BY <1>5, <1>6 DEF Memory
<1>11. Tree(n)
  BY <1>1, <1>2, <1>3, <1>5, <1>6, <1>10 DEF Tree
<1>12. Within(m, n, e)
  BY <1>1, <1>2, <1>3, <1>5, <1>6, <1>9 DEF Within, Memory
<1> QED BY <1>pi, <1>6, <1>8, <1>9, <1>11, <1>12 DEF Sound, x

\* A page that programs have mapped can be mapped once more.
LEMMA HoldMapped ==
  ASSUME NEW m, Sound(m, None, 0), NEW e \in Env, NEW v \in VA, m.pte[e][v] # None
  PROVE  /\ m.pte[e][v].page \in Page /\ m.pte[e][v].perm \in SUBSET {"U", "W"}
         /\ NMapped(m, m.pte[e][v].page) > 0
         /\ Sound(m, m.pte[e][v].page, 0)
<1> DEFINE p == m.pte[e][v].page
<1>0. m \in Memory /\ Accounted(m, None, 0) /\ Tree(m)
  BY DEF Sound
<1>1. p \in Page /\ m.pte[e][v].perm \in SUBSET {"U", "W"}
  BY <1>0 DEF Memory, Mapping
<1>2. <<e, v>> \in Mapped(m, p) BY DEF Mapped
<1> HIDE DEF p
<1>3. NMapped(m, p) # 0
  <2>1. Mapped(m, p) \in SUBSET (Env \X VA) BY DEF Mapped
  <2> QED BY <2>1, <1>2, FiniteDomains, FS_Subset, FS_EmptySet DEF NMapped
<1>4. NMapped(m, p) > 0
  BY <1>3, CountType
<1>5. Accounted(m, p, 0)
  <2> SUFFICES ASSUME NEW q \in Page
               PROVE  /\ m.ref[q] = Count(m, q) + (IF q = p THEN 0 ELSE 0)
                      /\ InList(m.free, q) <=> m.ref[q] = 0 /\ q # p
                      /\ NTable(m, q) + NDirectory(m, q) > 0 => Count(m, q) = 1 /\ q # p
    BY <1>0 DEF Accounted
  <2>1. /\ m.ref[q] = Count(m, q) + (IF q = None THEN 0 ELSE 0)
        /\ InList(m.free, q) <=> m.ref[q] = 0 /\ q # None
        /\ NTable(m, q) + NDirectory(m, q) > 0 => Count(m, q) = 1 /\ q # None
    BY <1>0 DEF Accounted
  <2>2. q # None /\ Count(m, q) = NMapped(m, q) + NTable(m, q) + NDirectory(m, q)
        /\ NMapped(m, q) \in Nat /\ NTable(m, q) \in Nat /\ NDirectory(m, q) \in Nat
    BY PmapAssumption, CountType DEF Count
  <2> QED BY <2>1, <2>2, <1>4
<1> QED BY <1>0, <1>1, <1>4, <1>5 DEF Sound, p

\* page_alloc: the page is in the caller's hands.
LEMMA HoldPopped ==
  ASSUME NEW m, Sound(m, None, 0), m.free # <<>>
  PROVE  LET h == Head(m.free)
             n == Popped(m)
         IN  /\ h \in Page /\ NMapped(m, h) = 0 /\ Sound(n, h, 0)
             /\ n.pd = m.pd /\ n.pt = m.pt /\ n.pte = m.pte
             /\ Pushed(n, h) = m
<1> DEFINE h == Head(m.free)
           n == Popped(m)
<1>0. m \in Memory /\ Accounted(m, None, 0) /\ Tree(m)
  BY DEF Sound
<1>1. /\ h \in Page /\ m.ref[h] = 0
      /\ NMapped(m, h) = 0 /\ NTable(m, h) = 0 /\ NDirectory(m, h) = 0
      /\ Injective(Tail(m.free))
      /\ \A p : InList(Tail(m.free), p) <=> InList(m.free, p) /\ p # h
  BY <1>0, HeadIsFree
<1>2. /\ n \in Memory /\ n.free = Tail(m.free) /\ n.ref = m.ref
      /\ n.pd = m.pd /\ n.pt = m.pt /\ n.pte = m.pte
  BY <1>0, PopParts
<1>3. Pushed(n, h) = m
  <2>1. <<h>> \o Tail(m.free) = m.free
    <3> DEFINE s == m.free
               t == <<h>> \o Tail(s)
    <3>1. s \in Seq(Page) /\ Tail(s) \in Seq(Page) /\ Len(Tail(s)) = Len(s) - 1
          /\ (\A i \in 1..Len(Tail(s)) : Tail(s)[i] = s[i+1]) /\ h = s[1] /\ h \in Page
          /\ Len(s) \in Nat /\ Len(s) >= 1
      BY <1>0, HeadTailProperties, EmptySeq DEF Memory
    <3>2. <<h>> \in Seq(Page) /\ Len(<<h>>) = 1 /\ <<h>>[1] = h
      BY <3>1
    <3> HIDE DEF s, h
    <3>3. t \in Seq(Page) /\ Len(t) = Len(s)
          /\ \A i \in 1..Len(s) : t[i] = IF i <= 1 THEN <<h>>[i] ELSE Tail(s)[i - 1]
      BY <3>1, <3>2, ConcatProperties
    <3>4. \A i \in 1..Len(s) : t[i] = s[i]
      <4> SUFFICES ASSUME NEW i \in 1..Len(s) PROVE t[i] = s[i]
        OBVIOUS
      <4>1. CASE i = 1 BY <4>1, <3>1, <3>2, <3>3
      <4>2. CASE i # 1
        <5>1. i - 1 \in 1..Len(Tail(s)) /\ (i - 1) + 1 = i BY <4>2, <3>1
        <5>2. Tail(s)[i - 1] = s[i] BY <5>1, <3>1
        <5> QED BY <4>2, <5>2, <3>3
      <4> QED BY <4>1, <4>2
    <3> HIDE DEF t
    <3>5. t = s BY <3>1, <3>3, <3>4, SeqEqual
    <3> QED BY <3>5 DEF t, s
  <2> QED BY <2>1, <1>0 DEF Pushed, Popped, Memory
<1> HIDE DEF n, h
<1>4. \A q : Count(n, q) = Count(m, q) /\ NTable(n, q) = NTable(m, q)
             /\ NDirectory(n, q) = NDirectory(m, q)
  BY <1>2, SameCounts DEF Count
<1>5. Accounted(n, h, 0)
  <2> SUFFICES ASSUME NEW q \in Page
               PROVE  /\ n.ref[q] = Count(n, q) + (IF q = h THEN 0 ELSE 0)
                      /\ InList(n.free, q) <=> n.ref[q] = 0 /\ q # h
                      /\ NTable(n, q) + NDirectory(n, q) > 0 => Count(n, q) = 1 /\ q # h
    BY <1>1, <1>2 DEF Accounted
  <2>1. /\ m.ref[q] = Count(m, q) + (IF q = None THEN 0 ELSE 0)
        /\ InList(m.free, q) <=> m.ref[q] = 0 /\ q # None
        /\ NTable(m, q) + NDirectory(m, q) > 0 => Count(m, q) = 1 /\ q # None
    BY <1>0 DEF Accounted
  <2>2. q # None BY PmapAssumption
  <2> QED BY <2>1, <2>2, <1>1, <1>2, <1>4
<1>6. Tree(n) BY <1>0, <1>2 DEF Tree
<1> QED BY <1>1, <1>2, <1>3, <1>5, <1>6 DEF Sound, n, h

-----------------------------------------------------------------------------
(* Address spaces as a whole.                                              *)

\* env_setup_vm gives e a page directory that nothing else is.
LEMMA NewSpaceSound ==
  ASSUME NEW m, Sound(m, None, 0), m.free # <<>>, NEW e \in Env, m.pd[e] = None
  PROVE  LET n == NewSpace(m, e)
         IN  /\ Sound(n, None, 0) /\ n.pte = m.pte
             /\ n.free = Tail(m.free)
             /\ n.pd[e] # None /\ \A f \in Env : f # e => n.pd[f] = m.pd[f]
<1> DEFINE h == Head(m.free)
           b == IncRef(Popped(m), h)
           n == [b EXCEPT !.pd[e] = h]
<1>0. m \in Memory /\ Accounted(m, None, 0) /\ Tree(m)
  BY DEF Sound
<1>1. NewSpace(m, e) = n BY DEF NewSpace
<1>3. /\ h \in Page /\ m.ref[h] = 0
      /\ NMapped(m, h) = 0 /\ NTable(m, h) = 0 /\ NDirectory(m, h) = 0
      /\ Injective(Tail(m.free))
      /\ \A p : InList(Tail(m.free), p) <=> InList(m.free, p) /\ p # h
  BY <1>0, HeadIsFree
<1>4. /\ b \in Memory /\ b.free = Tail(m.free) /\ b.ref = [m.ref EXCEPT ![h] = @ + 1]
      /\ b.pd = m.pd /\ b.pt = m.pt /\ b.pte = m.pte
  BY <1>0, PopParts
<1> HIDE DEF b, h
<1>5. n \in Memory /\ n.free = Tail(m.free) /\ n.ref = [m.ref EXCEPT ![h] = @ + 1]
      /\ n.pd = [m.pd EXCEPT ![e] = h] /\ n.pt = m.pt /\ n.pte = m.pte
  BY <1>3, <1>4, <1>0 DEF Memory
<1> HIDE DEF n
<1>6. \A p \in Page : n.ref[p] = IF p = h THEN 1 ELSE m.ref[p]
  BY <1>3, <1>5, <1>0 DEF Memory
<1>7. \A p \in Page : /\ NMapped(n, p) = NMapped(m, p) /\ NTable(n, p) = NTable(m, p)
                      /\ NDirectory(n, p) = NDirectory(m, p) + (IF p = h THEN 1 ELSE 0)
  <2> SUFFICES ASSUME NEW p \in Page
               PROVE  /\ NMapped(n, p) = NMapped(m, p) /\ NTable(n, p) = NTable(m, p)
                      /\ NDirectory(n, p) = NDirectory(m, p) + (IF p = h THEN 1 ELSE 0)
    OBVIOUS
  <2>1. n.pd[e] = h BY <1>0, <1>5 DEF Memory
  <2>2. n.pd = [m.pd EXCEPT ![e] = n.pd[e]] BY <1>5, <2>1, Zenon
  <2>3. NDirectory(n, p) = NDirectory(m, p) - (IF m.pd[e] = p THEN 1 ELSE 0)
                                            + (IF n.pd[e] = p THEN 1 ELSE 0)
    BY <1>0, <2>2, SetPd
  <2>4. m.pd[e] # p BY PmapAssumption
  <2> QED BY <2>1, <2>3, <2>4, <1>5, SameCounts, CountType
<1>8. Accounted(n, None, 0)
  <2> SUFFICES ASSUME NEW p \in Page
               PROVE  /\ n.ref[p] = Count(n, p) + (IF p = None THEN 0 ELSE 0)
                      /\ InList(n.free, p) <=> n.ref[p] = 0 /\ p # None
                      /\ NTable(n, p) + NDirectory(n, p) > 0 => Count(n, p) = 1 /\ p # None
    BY <1>3, <1>5 DEF Accounted
  <2>1. /\ m.ref[p] = Count(m, p) + (IF p = None THEN 0 ELSE 0)
        /\ InList(m.free, p) <=> m.ref[p] = 0 /\ p # None
        /\ NTable(m, p) + NDirectory(m, p) > 0 => Count(m, p) = 1 /\ p # None
    BY <1>0 DEF Accounted
  <2>2. p # None /\ Count(m, p) \in Nat /\ Count(n, p) = Count(m, p) + (IF p = h THEN 1 ELSE 0)
    BY <1>7, CountType, PmapAssumption DEF Count
  <2>3. CASE p = h
    <3>1. Count(m, p) = 0 BY <2>3, <1>3 DEF Count
    <3> QED BY <2>2, <2>3, <3>1, <1>3, <1>5, <1>6
  <2>4. CASE p # h
    <3>1. n.ref[p] = m.ref[p] /\ Count(n, p) = Count(m, p)
          /\ NTable(n, p) = NTable(m, p) /\ NDirectory(n, p) = NDirectory(m, p)
      BY <2>2, <2>4, <1>6, <1>7, CountType
    <3>2. InList(n.free, p) <=> InList(m.free, p)
      BY <2>4, <1>3, <1>5
    <3> QED BY <2>1, <3>1, <3>2
  <2> QED BY <2>3, <2>4
<1>9. \A f \in Env : n.pd[f] = IF f = e THEN h ELSE m.pd[f]
  BY <1>0, <1>5 DEF Memory
<1>10. h # None BY <1>3, PmapAssumption
<1>11. Tree(n) BY <1>0, <1>5, <1>9, <1>10 DEF Tree
<1> QED BY <1>1, <1>5, <1>8, <1>9, <1>10, <1>11 DEF Sound

-----------------------------------------------------------------------------
(* Teardown.                                                               *)

\* The inner loop of env_free takes away the mappings it covers, by induction
\* over its steps.
LEMMA RemoveAllSound ==
  ASSUME NEW m, Sound(m, None, 0), NEW e \in Env, NEW vs \in SUBSET VA
  PROVE  LET n == RemoveAll(m, e, vs)
         IN  /\ Sound(n, None, 0) /\ n.pd = m.pd /\ n.pt = m.pt
             /\ \A f \in Env, v \in VA :
                  n.pte[f][v] = IF f = e /\ v \in vs THEN None ELSE m.pte[f][v]
<1> DEFINE S == {x \in Memory : Sound(x, None, 0)}
           Step(x, v) == IF v \in vs THEN PageRemove(x, e, v) ELSE x
           F == [v \in 1..NVA |-> [x \in S |-> Step(x, v)]]
<1>0. NVA \in Nat /\ m \in S
  BY PmapAssumption DEF Sound
<1>1. ASSUME NEW x \in S, NEW v \in 1..NVA
      PROVE  /\ Step(x, v) \in S /\ Step(x, v).pd = x.pd /\ Step(x, v).pt = x.pt
             /\ \A f \in Env, w \in VA :
                  Step(x, v).pte[f][w] = IF f = e /\ w = v /\ v \in vs THEN None ELSE x.pte[f][w]
  <2>1. v \in VA BY DEF VA
  <2>2. CASE v \in vs
    <3> DEFINE y == PageRemove(x, e, v)
    <3>1. Sound(x, None, 1) <=> Sound(x, None, 0)
      BY PmapAssumption DEF Sound, Accounted
    <3>2. Sound(y, None, 1) /\ Within(x, y, e) /\ y.pt = x.pt
          /\ y.pte = [x.pte EXCEPT ![e][v] = None]
      BY <2>1, <3>1, PageRemoveSound
    <3> HIDE DEF y
    <3>3. Sound(y, None, 0)
      BY <3>2, PmapAssumption DEF Sound, Accounted
    <3>4. y \in S /\ y.pd = x.pd /\ y.pt = x.pt
          /\ \A f \in Env, w \in VA : y.pte[f][w] = IF f = e /\ w = v THEN None ELSE x.pte[f][w]
      BY <3>2, <3>3 DEF Sound, Within, Memory
    <3>5. Step(x, v) = y BY <2>2 DEF y
    <3> QED BY <2>2, <3>4, <3>5
  <2>3. CASE v \notin vs
    BY <2>3
  <2> QED BY <2>2, <2>3
<1> HIDE DEF Step
<1>2. F \in [1..NVA -> [S -> S]]
  BY <1>1
<1>3. \E g \in [0..NVA -> S] : Unrolls(g, NVA, m, F)
  <2> HIDE DEF F, S
  <2> QED BY <1>0, <1>2, Recursion, Zenon
<1> DEFINE Rec(n) == n = [v \in 0..NVA |-> IF v = 0 THEN m
                            ELSE IF v \in vs THEN PageRemove(n[v-1], e, v) ELSE n[v-1]]
<1>4. \E g : Rec(g)
  <2>1. PICK g \in [0..NVA -> S] : g[0] = m /\ \A v \in 1..NVA : g[v] = F[v][g[v-1]]
    BY <1>3 DEF Unrolls
  <2>2. ASSUME NEW v \in 1..NVA PROVE g[v] = Step(g[v-1], v)
    <3>1. v - 1 \in 0..NVA BY <1>0
    <3> QED BY <2>1, <3>1
  <2>3. g = [v \in 0..NVA |-> IF v = 0 THEN m ELSE Step(g[v-1], v)]
    <3>1. \A v \in 0..NVA : v # 0 => v \in 1..NVA BY <1>0
    <3> QED BY <2>1, <2>2, <3>1
  <2>4. Rec(g) BY <2>3 DEF Step
  <2> QED BY <2>4
<1> DEFINE n == CHOOSE n : Rec(n)
<1>5. RemoveAll(m, e, vs) = n[NVA]
  BY DEF RemoveAll
<1>6. Rec(n) BY <1>4
<1> HIDE DEF n
<1>7. n[0] = m /\ \A v \in 1..NVA : n[v] = Step(n[v-1], v)
  <2>1. \A v \in 0..NVA : n[v] = IF v = 0 THEN m
                            ELSE IF v \in vs THEN PageRemove(n[v-1], e, v) ELSE n[v-1]
    BY <1>6
  <2>2. 0 \in 0..NVA /\ \A v \in 1..NVA : v \in 0..NVA /\ v # 0 BY <1>0
  <2> QED BY <2>1, <2>2 DEF Step
<1> DEFINE P(k) == /\ n[k] \in S /\ n[k].pd = m.pd /\ n[k].pt = m.pt
                   /\ \A f \in Env, v \in VA :
                        n[k].pte[f][v] = IF f = e /\ v \in vs /\ v <= k THEN None ELSE m.pte[f][v]
           T == {k \in 0..NVA : P(k)}
<1>8. 0 \in T
  <2>1. \A v \in VA : ~(v <= 0) BY DEF VA
  <2>2. P(0) BY <1>0, <1>7, <2>1
  <2> QED BY <1>0, <2>2
<1>9. ASSUME NEW k \in 0..NVA-1, k \in T PROVE k + 1 \in T
  <2>1. P(k) BY <1>9
  <2>2. k + 1 \in 1..NVA /\ k + 1 \in 0..NVA /\ (k + 1) - 1 = k BY <1>0
  <2>3. n[k+1] = Step(n[k], k+1) BY <1>7, <2>2
  <2>4. /\ n[k+1] \in S /\ n[k+1].pd = n[k].pd /\ n[k+1].pt = n[k].pt
        /\ \A f \in Env, w \in VA : n[k+1].pte[f][w] =
             IF f = e /\ w = k + 1 /\ k + 1 \in vs THEN None ELSE n[k].pte[f][w]
    BY <1>1, <2>1, <2>2, <2>3
  <2>5. \A v \in VA : v <= k + 1 <=> (v <= k \/ v = k + 1)
    BY DEF VA
  <2>6. P(k+1) BY <2>1, <2>4, <2>5
  <2> HIDE DEF P
  <2> QED BY <2>2, <2>6
<1>10. \A k \in 0..NVA : k \in T
  <2> HIDE DEF T
  <2> QED BY <1>0, <1>8, <1>9, Induct
<1>11. P(NVA)
  BY <1>0, <1>10
<1>12. \A v \in VA : v <= NVA BY DEF VA
<1> QED BY <1>5, <1>11, <1>12

\* A page table without entries goes back to the free list.
LEMMA FreeTableSound ==
  ASSUME NEW m, Sound(m, None, 0), NEW e \in Env, NEW i \in PDE
  PROVE  LET n == FreeTable(m, e, i)
         IN  /\ Sound(n, None, 0) /\ n.pd = m.pd
             /\ \A f \in Env, j \in PDE : n.pt[f][j] = IF f = e /\ j = i THEN None ELSE m.pt[f][j]
             /\ \A f \in Env, v \in VA :
                  n.pte[f][v] = m.pte[f][v] \/ (f = e /\ n.pte[f][v] = None)
<1>0. m \in Memory
  BY DEF Sound
<1>1. CASE m.pt[e][i] = None
  BY <1>1 DEF FreeTable
<1>2. CASE m.pt[e][i] # None
  <2> DEFINE vs == {v \in VA : PDX(v) = i}
             a == RemoveAll(m, e, vs)
             t == a.pt[e][i]
             b == DecRef(a, t)
             n == [b EXCEPT !.pt[e][i] = None]
  <2>1. FreeTable(m, e, i) = n
    BY <1>2 DEF FreeTable
  <2>2. /\ Sound(a, None, 0) /\ a.pd = m.pd /\ a.pt = m.pt
        /\ \A f \in Env, v \in VA :
             a.pte[f][v] = IF f = e /\ v \in vs THEN None ELSE m.pte[f][v]
    <3>1. vs \in SUBSET VA OBVIOUS
    <3> HIDE DEF vs
    <3> QED BY <3>1, RemoveAllSound
  <2> HIDE DEF a
  <2>3. a \in Memory /\ Accounted(a, None, 0) /\ Tree(a)
    BY <2>2 DEF Sound
  <2>4. t \in Page /\ t # None
    BY <1>2, <2>2, <2>3 DEF Memory
  <2> HIDE DEF t
  <2> DEFINE n0 == [a EXCEPT !.pt[e][i] = None]
  <2>5. n0.pt = [a.pt EXCEPT ![e][i] = None] /\ n0.pt[e][i] = None
    BY <2>3 DEF Memory
  <2> HIDE DEF n0
  <2>6. NTable(n0, t) = NTable(a, t) - 1
    <3>1. n0.pt = [a.pt EXCEPT ![e][i] = n0.pt[e][i]] BY <2>5, Zenon
    <3>2. NTable(n0, t) = NTable(a, t) - (IF a.pt[e][i] = t THEN 1 ELSE 0)
                                       + (IF n0.pt[e][i] = t THEN 1 ELSE 0)
      BY <2>3, <3>1, SetPt
    <3>3. a.pt[e][i] = t BY DEF t
    <3> QED BY <3>2, <3>3, <2>4, <2>5, CountType
  <2>7. NTable(a, t) = 1 /\ NMapped(a, t) = 0 /\ NDirectory(a, t) = 0 /\ a.ref[t] = 1
    <3>1. NTable(a, t) > 0 BY <2>6, CountType
    <3>2. /\ a.ref[t] = Count(a, t) + (IF t = None THEN 0 ELSE 0)
          /\ NTable(a, t) + NDirectory(a, t) > 0 => Count(a, t) = 1
      BY <2>3, <2>4 DEF Accounted
    <3> QED BY <3>1, <3>2, CountType DEF Count
  <2>8. /\ b \in Memory /\ b.ref = [a.ref EXCEPT ![t] = @ - 1]
        /\ b.free = <<t>> \o a.free
        /\ b.pd = a.pd /\ b.pt = a.pt /\ b.pte = a.pte
    <3>1. a.ref[t] # 0 BY <2>7
    <3>2. /\ b \in Memory /\ b.ref = [a.ref EXCEPT ![t] = @ - 1]
          /\ b.free = IF a.ref[t] = 1 THEN <<t>> \o a.free ELSE a.free
          /\ b.pd = a.pd /\ b.pt = a.pt /\ b.pte = a.pte
      BY <2>3, <2>4, <3>1, DecRefParts
    <3> HIDE DEF b
    <3> QED BY <3>2, <2>7
  <2> HIDE DEF b
  <2>9. n \in Memory /\ n.ref = b.ref /\ n.free = b.free /\ n.pd = a.pd /\ n.pte = a.pte
        /\ n.pt = [a.pt EXCEPT ![e][i] = None]
    BY <2>8 DEF Memory
  <2> HIDE DEF n
  <2>10. \A p \in Page : n.ref[p] = IF p = t THEN 0 ELSE a.ref[p]
    BY <2>3, <2>4, <2>7, <2>8, <2>9 DEF Memory
  <2>11. \A p \in Page : /\ NMapped(n, p) = NMapped(a, p) /\ NDirectory(n, p) = NDirectory(a, p)
                         /\ NTable(n, p) = NTable(a, p) - (IF p = t THEN 1 ELSE 0)
    <3> SUFFICES ASSUME NEW p \in Page
                 PROVE  /\ NMapped(n, p) = NMapped(a, p) /\ NDirectory(n, p) = NDirectory(a, p)
                        /\ NTable(n, p) = NTable(a, p) - (IF p = t THEN 1 ELSE 0)
      OBVIOUS
    <3>1. n.pt[e][i] = None BY <2>3, <2>9 DEF Memory
    <3>2. n.pt = [a.pt EXCEPT ![e][i] = n.pt[e][i]] BY <2>9, <3>1, Zenon
    <3>3. NTable(n, p) = NTable(a, p) - (IF a.pt[e][i] = p THEN 1 ELSE 0)
                                      + (IF n.pt[e][i] = p THEN 1 ELSE 0)
      BY <2>3, <3>2, SetPt
    <3>4. a.pt[e][i] = t /\ p # None BY PmapAssumption DEF t
    <3> QED BY <3>1, <3>3, <3>4, <2>9, SameCounts, CountType
  <2>12. Injective(n.free) /\ \A p \in Page : InList(n.free, p) <=> InList(a.free, p) \/ p = t
    <3>1. a.free \in Seq(Page) /\ Injective(a.free) /\ ~InList(a.free, t)
      BY <2>3, <2>4, <2>7 DEF Accounted, Memory
    <3> QED BY <3>1, <2>4, <2>8, <2>9, PushSeq
  <2>13. Accounted(n, None, 0)
    <3> SUFFICES ASSUME NEW p \in Page
                 PROVE  /\ n.ref[p] = Count(n, p) + (IF p = None THEN 0 ELSE 0)
                        /\ InList(n.free, p) <=> n.ref[p] = 0 /\ p # None
                        /\ NTable(n, p) + NDirectory(n, p) > 0 => Count(n, p) = 1 /\ p # None
      BY <2>12 DEF Accounted
    <3>1. /\ a.ref[p] = Count(a, p) + (IF p = None THEN 0 ELSE 0)
          /\ InList(a.free, p) <=> a.ref[p] = 0 /\ p # None
          /\ NTable(a, p) + NDirectory(a, p) > 0 => Count(a, p) = 1 /\ p # None
      BY <2>3 DEF Accounted
    <3>2. p # None /\ Count(a, p) \in Nat /\ Count(n, p) = Count(a, p) - (IF p = t THEN 1 ELSE 0)
      BY <2>11, CountType, PmapAssumption DEF Count
    <3>3. CASE p = t
      BY <3>2, <3>3, <2>7, <2>10, <2>11, <2>12 DEF Count
    <3>4. CASE p # t
      <4>1. n.ref[p] = a.ref[p] /\ Count(n, p) = Count(a, p)
            /\ NTable(n, p) = NTable(a, p) /\ NDirectory(n, p) = NDirectory(a, p)
        BY <3>2, <3>4, <2>10, <2>11, CountType
      <4>2. InList(n.free, p) <=> InList(a.free, p)
        BY <3>4, <2>12
      <4> QED BY <3>1, <4>1, <4>2
    <3> QED BY <3>3, <3>4
  <2>14. \A f \in Env, j \in PDE : n.pt[f][j] = IF f = e /\ j = i THEN None ELSE a.pt[f][j]
    BY <2>3, <2>9 DEF Memory
  <2>15. Tree(n)
    BY <2>2, <2>3, <2>9, <2>14, PdxInPde DEF Tree
  <2> QED BY <2>1, <2>2, <2>9, <2>13, <2>14, <2>15 DEF Sound
<1> QED BY <1>1, <1>2

\* The outer loop of env_free leaves no page table, by induction over its
\* steps.
LEMMA FreeTablesSound ==
  ASSUME NEW m, Sound(m, None, 0), NEW e \in Env
  PROVE  LET n == FreeTables(m, e)
         IN  /\ Sound(n, None, 0) /\ n.pd = m.pd
             /\ \A f \in Env, j \in PDE : n.pt[f][j] = IF f = e THEN None ELSE m.pt[f][j]
             /\ \A f \in Env, v \in VA :
                  n.pte[f][v] = m.pte[f][v] \/ (f = e /\ n.pte[f][v] = None)
<1> DEFINE S == {x \in Memory : Sound(x, None, 0)}
           F == [i \in 1..NPDE |-> [x \in S |-> FreeTable(x, e, i)]]
<1>0. NPDE \in Nat /\ NPDE >= 1 /\ m \in S /\ PDE = 1..NPDE
  BY PmapAssumption DEF Sound, NPDE, PDX, PDE
<1>1. ASSUME NEW x \in S, NEW i \in 1..NPDE
      PROVE  /\ FreeTable(x, e, i) \in S /\ FreeTable(x, e, i).pd = x.pd
             /\ \A f \in Env, j \in PDE : FreeTable(x, e, i).pt[f][j]
                  = IF f = e /\ j = i THEN None ELSE x.pt[f][j]
             /\ \A f \in Env, v \in VA : FreeTable(x, e, i).pte[f][v] = x.pte[f][v]
                  \/ (f = e /\ FreeTable(x, e, i).pte[f][v] = None)
  <2>1. i \in PDE /\ Sound(x, None, 0) BY <1>0
  <2> DEFINE y == FreeTable(x, e, i)
  <2>2. /\ Sound(y, None, 0) /\ y.pd = x.pd
        /\ \A f \in Env, j \in PDE : y.pt[f][j] = IF f = e /\ j = i THEN None ELSE x.pt[f][j]
        /\ \A f \in Env, v \in VA :
             y.pte[f][v] = x.pte[f][v] \/ (f = e /\ y.pte[f][v] = None)
    BY <2>1, FreeTableSound
  <2>3. y \in S
    <3> HIDE DEF y
    <3> QED BY <2>2 DEF Sound
  <2> QED BY <2>2, <2>3
<1>2. F \in [1..NPDE -> [S -> S]]
  BY <1>1
<1>3. \E g \in [0..NPDE -> S] : Unrolls(g, NPDE, m, F)
  <2> HIDE DEF F, S
  <2> QED BY <1>0, <1>2, Recursion, Zenon
<1> DEFINE Rec(n) == n = [i \in 0..NPDE |-> IF i = 0 THEN m ELSE FreeTable(n[i-1], e, i)]
<1>4. \E g : Rec(g)
  <2>1. PICK g \in [0..NPDE -> S] : g[0] = m /\ \A i \in 1..NPDE : g[i] = F[i][g[i-1]]
    BY <1>3 DEF Unrolls
  <2>2. ASSUME NEW i \in 1..NPDE PROVE g[i] = FreeTable(g[i-1], e, i)
    <3>1. i - 1 \in 0..NPDE BY <1>0
    <3> QED BY <2>1, <3>1
  <2>3. g = [i \in 0..NPDE |-> IF i = 0 THEN m ELSE FreeTable(g[i-1], e, i)]
    <3>1. \A i \in 0..NPDE : i # 0 => i \in 1..NPDE BY <1>0
    <3> QED BY <2>1, <2>2, <3>1
  <2> QED BY <2>3
<1> DEFINE n == CHOOSE n : Rec(n)
<1>5. FreeTables(m, e) = n[NPDE]
  BY DEF FreeTables
<1>6. Rec(n) BY <1>4
<1> HIDE DEF n
<1>7. n[0] = m /\ \A i \in 1..NPDE : n[i] = FreeTable(n[i-1], e, i)
  <2>1. \A i \in 0..NPDE : n[i] = IF i = 0 THEN m ELSE FreeTable(n[i-1], e, i)
    BY <1>6
  <2>2. 0 \in 0..NPDE /\ \A i \in 1..NPDE : i \in 0..NPDE /\ i # 0 BY <1>0
  <2> QED BY <2>1, <2>2
<1> DEFINE P(k) == /\ n[k] \in S /\ n[k].pd = m.pd
                   /\ \A f \in Env, j \in PDE :
                        n[k].pt[f][j] = IF f = e /\ j <= k THEN None ELSE m.pt[f][j]
                   /\ \A f \in Env, v \in VA :
                        n[k].pte[f][v] = m.pte[f][v] \/ (f = e /\ n[k].pte[f][v] = None)
           T == {k \in 0..NPDE : P(k)}
<1>8. 0 \in T
  <2>1. \A j \in PDE : ~(j <= 0) BY DEF PDE
  <2>2. P(0) BY <1>0, <1>7, <2>1
  <2> QED BY <1>0, <2>2
<1>9. ASSUME NEW k \in 0..NPDE-1, k \in T PROVE k + 1 \in T
  <2>1. P(k) BY <1>9
  <2>2. k + 1 \in 1..NPDE /\ k + 1 \in 0..NPDE /\ (k + 1) - 1 = k BY <1>0
  <2>3. n[k+1] = FreeTable(n[k], e, k+1) BY <1>7, <2>2
  <2>4. /\ n[k+1] \in S /\ n[k+1].pd = n[k].pd
        /\ \A f \in Env, j \in PDE : n[k+1].pt[f][j]
                  = IF f = e /\ j = k + 1 THEN None ELSE n[k].pt[f][j]
        /\ \A f \in Env, v \in VA : n[k+1].pte[f][v] = n[k].pte[f][v]
                  \/ (f = e /\ n[k+1].pte[f][v] = None)
    BY <1>1, <2>1, <2>2, <2>3
  <2>5. \A j \in PDE : j <= k + 1 <=> (j <= k \/ j = k + 1)
    BY DEF PDE
  <2>6. P(k+1) BY <2>1, <2>4, <2>5
  <2> HIDE DEF P
  <2> QED BY <2>2, <2>6
<1>10. \A k \in 0..NPDE : k \in T
  <2> HIDE DEF T
  <2> QED BY <1>0, <1>8, <1>9, Induct
<1>11. P(NPDE)
  BY <1>0, <1>10
<1>12. \A j \in PDE : j <= NPDE BY DEF PDE
<1> QED BY <1>5, <1>11, <1>12

\* env_free leaves nothing of the address space and touches no other.
LEMMA FreeSpaceSound ==
  ASSUME NEW m, Sound(m, None, 0), NEW e \in Env, m.pd[e] # None
  PROVE  LET n == FreeSpace(m, e)
         IN  /\ Sound(n, None, 0) /\ n.pd[e] = None
             /\ \A f \in Env : f # e => n.pd[f] = m.pd[f]
             /\ \A f \in Env, v \in VA :
                  n.pte[f][v] = m.pte[f][v] \/ (f = e /\ n.pte[f][v] = None)
<1> DEFINE a == FreeTables(m, e)
           t == a.pd[e]
           b == DecRef(a, t)
           n == [b EXCEPT !.pd[e] = None]
<1>1. FreeSpace(m, e) = n
  BY DEF FreeSpace
<1>2. /\ Sound(a, None, 0) /\ a.pd = m.pd
      /\ \A f \in Env, j \in PDE : a.pt[f][j] = IF f = e THEN None ELSE m.pt[f][j]
      /\ \A f \in Env, v \in VA :
           a.pte[f][v] = m.pte[f][v] \/ (f = e /\ a.pte[f][v] = None)
  BY FreeTablesSound
<1> HIDE DEF a
<1>3. a \in Memory /\ Accounted(a, None, 0) /\ Tree(a)
  BY <1>2 DEF Sound
<1>4. t \in Page /\ t # None
  BY <1>2, <1>3 DEF Memory
<1> HIDE DEF t
<1> DEFINE n0 == [a EXCEPT !.pd[e] = None]
<1>5. n0.pd = [a.pd EXCEPT ![e] = None] /\ n0.pd[e] = None
  BY <1>3 DEF Memory
<1> HIDE DEF n0
<1>6. NDirectory(n0, t) = NDirectory(a, t) - 1
  <2>1. n0.pd = [a.pd EXCEPT ![e] = n0.pd[e]] BY <1>5, Zenon
  <2>2. NDirectory(n0, t) = NDirectory(a, t) - (IF a.pd[e] = t THEN 1 ELSE 0)
                                             + (IF n0.pd[e] = t THEN 1 ELSE 0)
    BY <1>3, <2>1, SetPd
  <2>3. a.pd[e] = t BY DEF t
  <2> QED BY <2>2, <2>3, <1>4, <1>5, CountType
<1>7. NDirectory(a, t) = 1 /\ NMapped(a, t) = 0 /\ NTable(a, t) = 0 /\ a.ref[t] = 1
  <2>1. NDirectory(a, t) > 0 BY <1>6, CountType
  <2>2. /\ a.ref[t] = Count(a, t) + (IF t = None THEN 0 ELSE 0)
        /\ NTable(a, t) + NDirectory(a, t) > 0 => Count(a, t) = 1
    BY <1>3, <1>4 DEF Accounted
  <2> QED BY <2>1, <2>2, CountType DEF Count
<1>8. /\ b \in Memory /\ b.ref = [a.ref EXCEPT ![t] = @ - 1]
      /\ b.free = <<t>> \o a.free
      /\ b.pd = a.pd /\ b.pt = a.pt /\ b.pte = a.pte
  <2>1. a.ref[t] # 0 BY <1>7
  <2>2. /\ b \in Memory /\ b.ref = [a.ref EXCEPT ![t] = @ - 1]
        /\ b.free = IF a.ref[t] = 1 THEN <<t>> \o a.free ELSE a.free
        /\ b.pd = a.pd /\ b.pt = a.pt /\ b.pte = a.pte
    BY <1>3, <1>4, <2>1, DecRefParts
  <2> HIDE DEF b
  <2> QED BY <2>2, <1>7
<1> HIDE DEF b
<1>9. n \in Memory /\ n.ref = b.ref /\ n.free = b.free /\ n.pt = a.pt /\ n.pte = a.pte
      /\ n.pd = [a.pd EXCEPT ![e] = None]
  BY <1>8 DEF Memory
<1> HIDE DEF n
<1>10. \A p \in Page : n.ref[p] = IF p = t THEN 0 ELSE a.ref[p]
  BY <1>3, <1>4, <1>7, <1>8, <1>9 DEF Memory
<1>11. \A p \in Page : /\ NMapped(n, p) = NMapped(a, p) /\ NTable(n, p) = NTable(a, p)
                       /\ NDirectory(n, p) = NDirectory(a, p) - (IF p = t THEN 1 ELSE 0)
  <2> SUFFICES ASSUME NEW p \in Page
               PROVE  /\ NMapped(n, p) = NMapped(a, p) /\ NTable(n, p) = NTable(a, p)
                      /\ NDirectory(n, p) = NDirectory(a, p) - (IF p = t THEN 1 ELSE 0)
    OBVIOUS
  <2>1. n.pd[e] = None BY <1>3, <1>9 DEF Memory
  <2>2. n.pd = [a.pd EXCEPT ![e] = n.pd[e]] BY <1>9, <2>1, Zenon
  <2>3. NDirectory(n, p) = NDirectory(a, p) - (IF a.pd[e] = p THEN 1 ELSE 0)
                                            + (IF n.pd[e] = p THEN 1 ELSE 0)
    BY <1>3, <2>2, SetPd
  <2>4. a.pd[e] = t /\ p # None BY PmapAssumption DEF t
  <2> QED BY <2>1, <2>3, <2>4, <1>9, SameCounts, CountType
<1>12. Injective(n.free) /\ \A p \in Page : InList(n.free, p) <=> InList(a.free, p) \/ p = t
  <2>1. a.free \in Seq(Page) /\ Injective(a.free) /\ ~InList(a.free, t)
    BY <1>3, <1>4, <1>7 DEF Accounted, Memory
  <2> QED BY <2>1, <1>4, <1>8, <1>9, PushSeq
<1>13. Accounted(n, None, 0)
  <2> SUFFICES ASSUME NEW p \in Page
               PROVE  /\ n.ref[p] = Count(n, p) + (IF p = None THEN 0 ELSE 0)
                      /\ InList(n.free, p) <=> n.ref[p] = 0 /\ p # None
                      /\ NTable(n, p) + NDirectory(n, p) > 0 => Count(n, p) = 1 /\ p # None
    BY <1>12 DEF Accounted
  <2>1. /\ a.ref[p] = Count(a, p) + (IF p = None THEN 0 ELSE 0)
        /\ InList(a.free, p) <=> a.ref[p] = 0 /\ p # None
        /\ NTable(a, p) + NDirectory(a, p) > 0 => Count(a, p) = 1 /\ p # None
    BY <1>3 DEF Accounted
  <2>2. p # None /\ Count(a, p) \in Nat /\ Count(n, p) = Count(a, p) - (IF p = t THEN 1 ELSE 0)
    BY <1>11, CountType, PmapAssumption DEF Count
  <2>3. CASE p = t
    BY <2>2, <2>3, <1>7, <1>10, <1>11, <1>12 DEF Count
  <2>4. CASE p # t
    <3>1. n.ref[p] = a.ref[p] /\ Count(n, p) = Count(a, p)
          /\ NTable(n, p) = NTable(a, p) /\ NDirectory(n, p) = NDirectory(a, p)
      BY <2>2, <2>4, <1>10, <1>11, CountType
    <3>2. InList(n.free, p) <=> InList(a.free, p)
      BY <2>4, <1>12
    <3> QED BY <2>1, <3>1, <3>2
  <2> QED BY <2>3, <2>4
<1>14. \A f \in Env : n.pd[f] = IF f = e THEN None ELSE a.pd[f]
  BY <1>3, <1>9 DEF Memory
<1>15. Tree(n)
  BY <1>2, <1>3, <1>9, <1>14 DEF Tree
<1> QED BY <1>1, <1>2, <1>9, <1>13, <1>14, <1>15 DEF Sound

-----------------------------------------------------------------------------
(* The invariant, and what every trap has to show.                         *)

\* The types of the variables other than the memory.
StateType ==
  /\ status \in [Env -> Status]
  /\ parent \in [Env -> Env \cup {None}]
  /\ recv \in [Env -> VA \cup {NoPage, None}]
  /\ run \in [CPU -> Env \cup {None}]
  /\ tlb \in [CPU -> SUBSET Cached]

\* An environment that exists has an address space, and no other has.
SpaceIffEnv == \A e \in Env : mem.pd[e] = None <=> status[e] = "FREE"

\* A CPU runs an environment that may run, and it alone runs it.
RunsLive == \A c \in CPU : run[c] # None => status[run[c]] \in {"RUNNING", "DYING"}

\* No environment is executed by two CPUs.
RunsAlone == \A c, d \in CPU : run[c] # None /\ run[c] = run[d] => c = d

\* Only a blocked environment waits for a page.
RecvBlocked == \A e \in Env : recv[e] # None => status[e] = "NOT_RUNNABLE"

\* The inductive invariant: no call is under way, so no page is in hand.
IInv == /\ Sound(mem, None, 0) /\ StateType /\ SpaceIffEnv
        /\ RunsLive /\ RunsAlone /\ RecvBlocked

\* The parts of the invariant, to cite.
LEMMA IInvParts == ASSUME IInv PROVE
   /\ Sound(mem, None, 0) /\ StateType /\ SpaceIffEnv
   /\ RunsLive /\ RunsAlone /\ RecvBlocked
   /\ mem \in Memory
BY DEF IInv, Sound

\* The CPU in the kernel empties its TLB; what the other CPUs run is left alone.
Kept(c) ==
  /\ tlb' = [tlb EXCEPT ![c] = {}]
  /\ \A d \in CPU \ {c} : run'[d] = run[d] /\ (run[d] # None => mem'.pte[run[d]] = mem.pte[run[d]])

\* Environment e may write at virtual page v.
Writable(e, v) == mem.pte[e][v] # None /\ "W" \in mem.pte[e][v].perm

\* A page that becomes writable somewhere was writable somewhere or not mapped.
NoNewWriter == \A e \in Env, v \in VA : Writable(e, v)' =>
  LET p == mem'.pte[e][v].page
  IN  \/ \A f \in Env, w \in VA : ~Refs(mem.pte[f][w], p)
      \/ \E f \in Env, w \in VA : Writable(f, w) /\ mem.pte[f][w].page = p

\* A call edits the address space of e, or none.
Edits(e) == /\ Sound(mem', None, 0)
            /\ \A f \in Env : f # e => mem'.pte[f] = mem.pte[f]
            /\ NoNewWriter

-----------------------------------------------------------------------------
(* The way out of the kernel.                                              *)

\* The statuses st let the other CPUs go on with what they run.
LiveOthers(c, st) == \A d \in CPU \ {c} : run[d] # None => st[run[d]] \in {"RUNNING", "DYING"}

\* What env_run and sched_halt leave of the statuses st a call asks for.
Left(c, st) ==
  /\ status' \in [Env -> Status] /\ run' \in [CPU -> Env \cup {None}]
  /\ tlb' = [tlb EXCEPT ![c] = {}] /\ tlb' \in [CPU -> SUBSET Cached]
  /\ RunsLive' /\ RunsAlone'
  /\ \A e \in Env : /\ status'[e] = "FREE" <=> st[e] = "FREE"
                    /\ st[e] = "NOT_RUNNABLE" => status'[e] = "NOT_RUNNABLE"
  /\ \A d \in CPU \ {c} : run'[d] = run[d]

\* env_run leaves what Left says.
LEMMA EnvRunLeaves ==
  ASSUME IInv, NEW c \in CPU, NEW st \in [Env -> Status], LiveOthers(c, st),
         NEW cur, cur = run[c] \/ cur = None, NEW f \in Env,
         st[f] = "RUNNABLE" \/ (f = cur /\ st[f] = "RUNNING"), EnvRun(c, cur, f, st)
  PROVE  Left(c, st)
<1> USE PmapAssumption
<1>0. StateType /\ RunsLive /\ RunsAlone BY IInvParts
<1>1. /\ run' = [run EXCEPT ![c] = f]
      /\ status' = [e \in Env |-> IF e = f THEN "RUNNING"
                                  ELSE IF e = cur /\ st[e] = "RUNNING" THEN "RUNNABLE" ELSE st[e]]
      /\ tlb' = [tlb EXCEPT ![c] = {}]
  BY DEF EnvRun, Lcr3
<1>2. status' \in [Env -> Status] /\ run' \in [CPU -> Env \cup {None}] /\ tlb' \in [CPU -> SUBSET Cached]
  BY <1>0, <1>1 DEF StateType, Status
<1>3. run'[c] = f /\ \A d \in CPU \ {c} : run'[d] = run[d]
  BY <1>0, <1>1 DEF StateType
<1>4. ASSUME NEW d \in CPU \ {c}, run[d] # None
      PROVE  run[d] \in Env /\ run[d] # f /\ run[d] # cur
  BY <1>0, <1>4 DEF StateType, RunsAlone, LiveOthers
<1>5. RunsLive'
  <2> SUFFICES ASSUME NEW d \in CPU, run'[d] # None PROVE status'[run'[d]] \in {"RUNNING", "DYING"}
    BY DEF RunsLive
  <2>1. CASE d = c BY <2>1, <1>1, <1>3
  <2>2. CASE d # c BY <2>2, <1>1, <1>3, <1>4 DEF LiveOthers
  <2> QED BY <2>1, <2>2
<1>6. RunsAlone'
  BY <1>0, <1>3, <1>4 DEF RunsAlone
<1>7. \A e \in Env : /\ status'[e] = "FREE" <=> st[e] = "FREE"
                     /\ st[e] = "NOT_RUNNABLE" => status'[e] = "NOT_RUNNABLE"
  BY <1>1
<1> QED BY <1>1, <1>2, <1>3, <1>5, <1>6, <1>7 DEF Left

\* sched_yield leaves what Left says.
LEMMA YieldLeaves ==
  ASSUME IInv, NEW c \in CPU, NEW st \in [Env -> Status], LiveOthers(c, st),
         NEW cur, cur = run[c] \/ cur = None, SchedYield(c, cur, st)
  PROVE  Left(c, st)
<1> USE PmapAssumption
<1>0. StateType /\ RunsLive /\ RunsAlone BY IInvParts
<1>1. CASE \E f \in Env : st[f] = "RUNNABLE" /\ EnvRun(c, cur, f, st)
  BY <1>1, EnvRunLeaves
<1>2. CASE cur # None /\ st[cur] = "RUNNING" /\ EnvRun(c, cur, cur, st)
  <2>1. cur \in Env BY <1>0, <1>2 DEF StateType
  <2> QED BY <1>2, <2>1, EnvRunLeaves
<1>3. CASE run' = [run EXCEPT ![c] = None] /\ status' = st /\ Lcr3(c)
  <2>1. run'[c] = None /\ \A d \in CPU \ {c} : run'[d] = run[d]
    BY <1>0, <1>3 DEF StateType
  <2>2. run' \in [CPU -> Env \cup {None}] /\ tlb' = [tlb EXCEPT ![c] = {}]
        /\ tlb' \in [CPU -> SUBSET Cached]
    BY <1>0, <1>3 DEF StateType, Lcr3
  <2>3. RunsLive' BY <1>3, <2>1 DEF RunsLive, LiveOthers
  <2>4. RunsAlone' BY <1>0, <2>1 DEF RunsAlone
  <2> QED BY <1>3, <2>1, <2>2, <2>3, <2>4 DEF Left
<1> QED BY <1>1, <1>2, <1>3 DEF SchedYield

\* The end of trap() leaves what Left says.
LEMMA ReturnLeaves ==
  ASSUME IInv, NEW c \in CPU, run[c] # None, NEW st \in [Env -> Status], LiveOthers(c, st),
         Return(c, st)
  PROVE  Left(c, st)
<1>1. run[c] \in Env BY IInvParts DEF StateType
<1>2. CASE st[run[c]] = "RUNNING" /\ EnvRun(c, run[c], run[c], st)
  BY <1>1, <1>2, EnvRunLeaves
<1>3. CASE SchedYield(c, run[c], st)
  BY <1>3, YieldLeaves
<1> QED BY <1>2, <1>3 DEF Return

\* A trap keeps the invariant if what it asks for does.
LEMMA TrapKeeps ==
  ASSUME IInv, NEW c \in CPU, NEW st \in [Env -> Status], Left(c, st),
         Sound(mem', None, 0), \A e \in Env : mem'.pd[e] = None <=> st[e] = "FREE",
         parent' \in [Env -> Env \cup {None}], recv' \in [Env -> VA \cup {NoPage, None}],
         \A e \in Env : recv'[e] # None => st[e] = "NOT_RUNNABLE"
  PROVE  IInv'
<1>1. StateType' BY DEF Left, StateType
<1>2. SpaceIffEnv' BY DEF Left, SpaceIffEnv
<1>3. RecvBlocked' BY DEF Left, RecvBlocked
<1>4. Sound(mem, None, 0)' BY DEF Sound, Accounted, Tree, Count, NMapped, NTable, NDirectory,
   Mapped, AsTable, AsDirectory
<1> QED BY <1>1, <1>2, <1>3, <1>4 DEF IInv, Left

-----------------------------------------------------------------------------
(* What the calls do to the memory.                                        *)

\* A call that leaves the memory alone edits nothing.
LEMMA NoEdit ==
  ASSUME IInv, mem' = mem, NEW e
  PROVE  Edits(e) /\ mem'.pd = mem.pd
BY IInvParts DEF Edits, NoNewWriter, Writable

\* page_insert of a page p in the caller's hands, into what page_alloc may have
\* left.
LEMMA InsertEdits ==
  ASSUME IInv, NEW m, NEW p \in Page, Sound(m, p, 0), m.pd = mem.pd, m.pte = mem.pte,
         NEW e \in Env, status[e] # "FREE", NEW v \in VA, CanWalk(m, e, v),
         NEW perm \in SUBSET {"U", "W"}, mem' = PageInsert(m, e, p, v, perm),
         \/ NMapped(mem, p) = 0
         \/ "W" \in perm => \E f \in Env, w \in VA : Writable(f, w) /\ mem.pte[f][w].page = p
  PROVE  Edits(e) /\ mem'.pd = mem.pd
<1>0. mem \in Memory /\ SpaceIffEnv BY IInvParts
<1>1. m.pd[e] # None BY <1>0 DEF SpaceIffEnv
<1> DEFINE x == [page |-> p, perm |-> perm]
<1>2. Sound(mem', None, 0) /\ Within(m, mem', e) /\ mem'.pte = [m.pte EXCEPT ![e][v] = x]
  BY <1>1, PageInsertSound
<1>3. mem'.pte = [mem.pte EXCEPT ![e][v] = x]
  BY <1>2, Zenon
<1>x. x.page = p /\ x.perm = perm OBVIOUS
<1> HIDE DEF x
<1>4. \A f \in Env, w \in VA : mem'.pte[f][w] = IF f = e /\ w = v THEN x ELSE mem.pte[f][w]
  BY <1>0, <1>3 DEF Memory
<1>5. NMapped(mem, p) = 0 => \A f \in Env, w \in VA : ~Refs(mem.pte[f][w], p)
  <2> SUFFICES ASSUME NMapped(mem, p) = 0, NEW f \in Env, NEW w \in VA, Refs(mem.pte[f][w], p)
               PROVE  FALSE
    OBVIOUS
  <2>1. Mapped(mem, p) \in SUBSET (Env \X VA) BY DEF Mapped
  <2>2. Mapped(mem, p) = {} BY <2>1, FiniteDomains, FS_Subset, FS_EmptySet DEF NMapped
  <2>3. <<f, w>> \in Mapped(mem, p) BY DEF Mapped, Refs
  <2> QED BY <2>2, <2>3
<1>6. NoNewWriter
  <2> SUFFICES ASSUME NEW f \in Env, NEW w \in VA, Writable(f, w)'
               PROVE  \/ \A g \in Env, u \in VA : ~Refs(mem.pte[g][u], mem'.pte[f][w].page)
                      \/ \E g \in Env, u \in VA : Writable(g, u)
                           /\ mem.pte[g][u].page = mem'.pte[f][w].page
    BY DEF NoNewWriter
  <2>1. CASE f = e /\ w = v
    <3>1. mem'.pte[f][w] = x BY <2>1, <1>4
    <3> QED BY <3>1, <1>x, <1>5 DEF Writable
  <2>2. CASE ~(f = e /\ w = v)
    <3>1. mem'.pte[f][w] = mem.pte[f][w] BY <2>2, <1>4
    <3> QED BY <3>1 DEF Writable
  <2> QED BY <2>1, <2>2
<1>7. \A f \in Env : f # e => mem'.pte[f] = mem.pte[f]
  BY <1>2 DEF Within
<1>8. mem'.pd = mem.pd BY <1>2 DEF Within
<1> QED BY <1>2, <1>6, <1>7, <1>8 DEF Edits

\* An operation that only takes mappings away, of e.
LEMMA ShrinkEdits ==
  ASSUME IInv, NEW e \in Env, Sound(mem', None, 0),
         \A f \in Env, v \in VA :
           mem'.pte[f][v] = mem.pte[f][v] \/ (f = e /\ mem'.pte[f][v] = None)
  PROVE  Edits(e)
<1>0. mem \in Memory /\ mem' \in Memory BY IInvParts DEF Sound
<1>1. NoNewWriter BY DEF NoNewWriter, Writable
<1>2. \A f \in Env : f # e => mem'.pte[f] = mem.pte[f]
  <2> SUFFICES ASSUME NEW f \in Env, f # e PROVE mem'.pte[f] = mem.pte[f]
    OBVIOUS
  <2>1. mem.pte[f] \in [VA -> Mapping \cup {None}] /\ mem'.pte[f] \in [VA -> Mapping \cup {None}]
    BY <1>0 DEF Memory
  <2>2. \A v \in VA : mem'.pte[f][v] = mem.pte[f][v] OBVIOUS
  <2> QED BY <2>1, <2>2
<1> QED BY <1>1, <1>2 DEF Edits

\* env_free edits the address space of e, and takes its page directory.
LEMMA FreeEdits ==
  ASSUME IInv, NEW e \in Env, status[e] # "FREE", mem' = FreeSpace(mem, e)
  PROVE  Edits(e) /\ mem'.pd[e] = None /\ \A f \in Env : f # e => mem'.pd[f] = mem.pd[f]
<1>1. Sound(mem, None, 0) /\ mem.pd[e] # None BY IInvParts DEF SpaceIffEnv
<1>2. /\ Sound(mem', None, 0) /\ mem'.pd[e] = None
      /\ \A f \in Env : f # e => mem'.pd[f] = mem.pd[f]
      /\ \A f \in Env, v \in VA :
           mem'.pte[f][v] = mem.pte[f][v] \/ (f = e /\ mem'.pte[f][v] = None)
  BY <1>1, FreeSpaceSound
<1>3. Edits(e) BY <1>2, ShrinkEdits
<1> QED BY <1>2, <1>3

-----------------------------------------------------------------------------
(* Every trap keeps the invariant, the TLBs of the other CPUs if programs  *)
(* are careful, and makes no page writable.                                *)

\* What is proved of every trap.
Good(c) == IInv' /\ (Careful => Kept(c)) /\ NoNewWriter

\* A call that edits e, itself or, if careful, a child that cannot run.
LEMMA EditGood ==
  ASSUME IInv, NEW c \in CPU, Calling(c), NEW e \in Env, Edits(e), IInv', Left(c, status),
         Careful => e = run[c] \/ status[e] = "NOT_RUNNABLE"
  PROVE  Good(c)
<1>1. ASSUME Careful, NEW d \in CPU \ {c}, run[d] # None PROVE run[d] \in Env /\ run[d] # e
  BY <1>1, IInvParts DEF StateType, RunsLive, RunsAlone
<1>2. Careful => Kept(c)
  BY <1>1 DEF Kept, Left, Edits
<1> QED BY <1>2 DEF Good, Edits

\* The statuses a trap finds let the other CPUs go on.
LEMMA StatusLive == ASSUME IInv, NEW c PROVE LiveOthers(c, status) /\ status \in [Env -> Status]
BY IInvParts DEF LiveOthers, RunsLive, StateType

\* A call that returns with the statuses it found.
LEMMA PlainGood ==
  ASSUME IInv, NEW c \in CPU, Calling(c), Return(c, status), UNCHANGED <<parent, recv>>,
         NEW e \in Env, Edits(e), mem'.pd = mem.pd,
         Careful => e = run[c] \/ status[e] = "NOT_RUNNABLE"
  PROVE  Good(c)
<1>1. Left(c, status)
  BY StatusLive, ReturnLeaves DEF Calling
<1>2. IInv'
  BY <1>1, StatusLive, IInvParts, TrapKeeps DEF StateType, SpaceIffEnv, RecvBlocked, Edits
<1> QED BY <1>1, <1>2, EditGood

\* sys_page_alloc, whose page goes back when there is no room for a page table.
LEMMA SysPageAllocGood ==
  ASSUME IInv, NEW c \in CPU, NEW e \in Env, NEW v \in VA, NEW perm \in Perms,
         SysPageAlloc(c, e, v, perm)
  PROVE  Good(c)
<1> DEFINE p == Head(mem.free)
           m == Popped(mem)
<1>1. /\ Calling(c) /\ Permitted(c, e) /\ Return(c, status) /\ UNCHANGED <<parent, recv>>
      /\ mem' = CASE mem.free = <<>> -> mem
                  [] mem.free # <<>> /\ ~CanWalk(m, e, v) -> Pushed(m, p)
                  [] OTHER -> PageInsert(m, e, p, v, perm)
  BY DEF SysPageAlloc
<1>2. Edits(e) /\ mem'.pd = mem.pd
  <2>1. CASE mem.free = <<>>
    BY <1>1, <2>1, NoEdit
  <2>2. CASE mem.free # <<>> /\ ~CanWalk(m, e, v)
    <3>1. Pushed(m, p) = mem BY <2>2, IInvParts, HoldPopped
    <3>2. mem' = mem BY <1>1, <2>2, <3>1
    <3> QED BY <3>2, NoEdit
  <2>3. CASE mem.free # <<>> /\ CanWalk(m, e, v)
    <3>1. mem' = PageInsert(m, e, p, v, perm) BY <1>1, <2>3
    <3>2. p \in Page /\ NMapped(mem, p) = 0 /\ Sound(m, p, 0) /\ m.pd = mem.pd /\ m.pte = mem.pte
      BY <2>3, IInvParts, HoldPopped
    <3>3. status[e] # "FREE" /\ perm \in SUBSET {"U", "W"}
      BY <1>1, PmapAssumption DEF Permitted
    <3> HIDE DEF m, p
    <3> QED BY <2>3, <3>1, <3>2, <3>3, InsertEdits
  <2> QED BY <2>1, <2>2, <2>3
<1> QED BY <1>1, <1>2, PlainGood DEF Permitted

\* sys_page_map, whose page is already mapped by the source.
LEMMA SysPageMapGood ==
  ASSUME IInv, NEW c \in CPU, NEW s \in Env, NEW d \in Env, NEW sv \in VA, NEW dv \in VA,
         NEW perm \in Perms, SysPageMap(c, s, sv, d, dv, perm)
  PROVE  Good(c)
<1>1. /\ Calling(c) /\ Permitted(c, d) /\ Return(c, status) /\ UNCHANGED <<parent, recv>>
      /\ mem' = IF MayShare(s, sv, perm) /\ CanWalk(mem, d, dv)
                THEN PageInsert(mem, d, mem.pte[s][sv].page, dv, perm) ELSE mem
  BY DEF SysPageMap
<1>2. Edits(d) /\ mem'.pd = mem.pd
  <2>1. CASE ~(MayShare(s, sv, perm) /\ CanWalk(mem, d, dv))
    BY <1>1, <2>1, NoEdit
  <2>2. CASE MayShare(s, sv, perm) /\ CanWalk(mem, d, dv)
    <3> DEFINE p == mem.pte[s][sv].page
    <3>1. mem' = PageInsert(mem, d, p, dv, perm) BY <1>1, <2>2
    <3>2. p \in Page /\ Sound(mem, p, 0)
      BY <2>2, IInvParts, HoldMapped DEF MayShare
    <3>3. status[d] # "FREE" /\ perm \in SUBSET {"U", "W"}
      BY <1>1, PmapAssumption DEF Permitted
    <3>4. "W" \in perm => Writable(s, sv) /\ mem.pte[s][sv].page = p
      BY <2>2 DEF MayShare, Writable
    <3> HIDE DEF p
    <3> QED BY <2>2, <3>1, <3>2, <3>3, <3>4, InsertEdits
  <2> QED BY <2>1, <2>2
<1> QED BY <1>1, <1>2, PlainGood DEF Permitted

\* sys_page_unmap, which need not find anything to remove.
LEMMA SysPageUnmapGood ==
  ASSUME IInv, NEW c \in CPU, NEW e \in Env, NEW v \in VA, SysPageUnmap(c, e, v)
  PROVE  Good(c)
<1>1. /\ Calling(c) /\ Permitted(c, e) /\ Return(c, status) /\ UNCHANGED <<parent, recv>>
      /\ mem' = PageRemove(mem, e, v)
  BY DEF SysPageUnmap
<1>2. Sound(mem, None, 1)
  BY IInvParts, PmapAssumption DEF Sound, Accounted
<1>3. Sound(mem', None, 1) /\ Within(mem, mem', e) /\ mem'.pte = [mem.pte EXCEPT ![e][v] = None]
  BY <1>1, <1>2, PageRemoveSound
<1>4. Sound(mem', None, 0)
  BY <1>3, PmapAssumption DEF Sound, Accounted
<1>5. \A f \in Env, w \in VA :
        mem'.pte[f][w] = mem.pte[f][w] \/ (f = e /\ mem'.pte[f][w] = None)
  BY <1>3, IInvParts DEF Memory
<1>6. Edits(e) /\ mem'.pd = mem.pd
  BY <1>3, <1>4, <1>5, ShrinkEdits DEF Within
<1> QED BY <1>1, <1>6, PlainGood DEF Permitted

\* sys_ipc_recv.
LEMMA SysIpcRecvGood ==
  ASSUME IInv, NEW c \in CPU, NEW dstva \in VA \cup {NoPage}, SysIpcRecv(c, dstva)
  PROVE  Good(c)
<1> DEFINE e == run[c]
           st == [status EXCEPT ![e] = "NOT_RUNNABLE"]
<1>1. /\ Calling(c) /\ recv' = [recv EXCEPT ![e] = dstva]
      /\ SchedYield(c, run[c], st) /\ mem' = mem /\ parent' = parent
  BY DEF SysIpcRecv
<1>2. StateType /\ RunsLive /\ RunsAlone /\ SpaceIffEnv /\ RecvBlocked /\ e \in Env /\ e # None
  BY <1>1, IInvParts DEF StateType, Calling
<1>3. st \in [Env -> Status] /\ \A f \in Env : st[f] = IF f = e THEN "NOT_RUNNABLE" ELSE status[f]
  BY <1>2 DEF StateType, Status
<1> HIDE DEF st
<1>4. LiveOthers(c, st)
  BY <1>2, <1>3 DEF LiveOthers, RunsLive, RunsAlone, StateType
<1>5. Left(c, st)
  BY <1>1, <1>3, <1>4, YieldLeaves
<1>6. status[e] # "FREE"
  BY <1>2 DEF RunsLive
<1>7. IInv'
  <2>1. recv' \in [Env -> VA \cup {NoPage, None}]
    BY <1>1, <1>2 DEF StateType
  <2>2. \A f \in Env : recv'[f] # None => st[f] = "NOT_RUNNABLE"
    BY <1>1, <1>2, <1>3 DEF StateType, RecvBlocked
  <2>3. \A f \in Env : mem'.pd[f] = None <=> st[f] = "FREE"
    BY <1>1, <1>2, <1>3, <1>6 DEF SpaceIffEnv
  <2>4. Sound(mem', None, 0) /\ parent' \in [Env -> Env \cup {None}]
    BY <1>1, <1>2, IInvParts DEF StateType
  <2> QED BY <1>3, <1>5, <2>1, <2>2, <2>3, <2>4, TrapKeeps
<1>8. Kept(c)
  BY <1>1, <1>5 DEF Kept, Left
<1>9. NoNewWriter
  BY <1>1, NoEdit DEF Edits
<1> QED BY <1>7, <1>8, <1>9 DEF Good

\* A trap that leaves the memory alone.
LEMMA QuietGood ==
  ASSUME IInv, NEW c \in CPU, NEW st \in [Env -> Status], Left(c, st), mem' = mem,
         \A e \in Env : st[e] = "FREE" <=> status[e] = "FREE",
         parent' \in [Env -> Env \cup {None}], recv' \in [Env -> VA \cup {NoPage, None}],
         \A e \in Env : recv'[e] # None => st[e] = "NOT_RUNNABLE"
  PROVE  Good(c)
<1>1. IInv'
  <2>1. Sound(mem', None, 0) /\ \A e \in Env : mem'.pd[e] = None <=> st[e] = "FREE"
    BY IInvParts DEF SpaceIffEnv
  <2> QED BY <2>1, TrapKeeps
<1>2. Kept(c) BY DEF Kept, Left
<1>3. NoNewWriter BY NoEdit DEF Edits
<1> QED BY <1>1, <1>2, <1>3 DEF Good

\* The timer interrupt.
LEMMA TimerGood == ASSUME IInv, NEW c \in CPU, Timer(c) PROVE Good(c)
<1>1. SchedYield(c, run[c], status) /\ UNCHANGED <<mem, parent, recv>>
  BY DEF Timer
<1>2. Left(c, status) BY <1>1, StatusLive, YieldLeaves
<1> QED BY <1>1, <1>2, StatusLive, IInvParts, QuietGood DEF StateType, RecvBlocked

\* sys_env_set_status.
LEMMA SysEnvSetStatusGood ==
  ASSUME IInv, NEW c \in CPU, NEW e \in Env, SysEnvSetStatus(c, e)
  PROVE  Good(c)
<1> DEFINE st == [status EXCEPT ![e] = "RUNNABLE"]
<1>1. /\ Calling(c) /\ status[e] = "NOT_RUNNABLE" /\ recv[e] = None
      /\ Return(c, st) /\ UNCHANGED <<mem, parent, recv>>
  BY DEF SysEnvSetStatus
<1>2. StateType /\ RunsLive /\ RecvBlocked BY IInvParts
<1>3. st \in [Env -> Status] /\ \A f \in Env : st[f] = IF f = e THEN "RUNNABLE" ELSE status[f]
  BY <1>2 DEF StateType, Status
<1> HIDE DEF st
<1>4. LiveOthers(c, st) BY <1>1, <1>2, <1>3 DEF LiveOthers, RunsLive, StateType
<1>5. Left(c, st) BY <1>1, <1>3, <1>4, ReturnLeaves DEF Calling
<1>6. \A f \in Env : st[f] = "FREE" <=> status[f] = "FREE" BY <1>1, <1>3
<1>7. \A f \in Env : recv'[f] # None => st[f] = "NOT_RUNNABLE"
  BY <1>1, <1>2, <1>3 DEF RecvBlocked
<1>8. parent' \in [Env -> Env \cup {None}] /\ recv' \in [Env -> VA \cup {NoPage, None}]
  BY <1>1, <1>2 DEF StateType
<1> QED BY <1>1, <1>3, <1>5, <1>6, <1>7, <1>8, QuietGood

\* sys_ipc_try_send, which maps the page of the sender into the receiver.
LEMMA SysIpcTrySendGood ==
  ASSUME IInv, NEW c \in CPU, NEW e \in Env, NEW srcva \in VA \cup {NoPage}, NEW perm \in Perms,
         SysIpcTrySend(c, e, srcva, perm)
  PROVE  Good(c)
<1> DEFINE page == srcva # NoPage /\ recv[e] # NoPage
           ok == /\ srcva # NoPage => MayShare(run[c], srcva, perm)
                 /\ page => CanWalk(mem, e, recv[e])
           st == IF ok THEN [status EXCEPT ![e] = "RUNNABLE"] ELSE status
<1>1. /\ Calling(c) /\ status[e] # "FREE" /\ recv[e] # None
      /\ mem' = IF ok /\ page THEN PageInsert(mem, e, mem.pte[run[c]][srcva].page, recv[e], perm)
                ELSE mem
      /\ recv' = IF ok THEN [recv EXCEPT ![e] = None] ELSE recv
      /\ Return(c, st) /\ parent' = parent
  BY DEF SysIpcTrySend
<1>2. /\ StateType /\ RunsLive /\ RecvBlocked /\ SpaceIffEnv /\ run[c] \in Env
      /\ status[e] = "NOT_RUNNABLE" /\ recv[e] \in VA \cup {NoPage}
  BY <1>1, IInvParts DEF StateType, Calling, RecvBlocked
<1>3. /\ st \in [Env -> Status]
      /\ \A f \in Env : st[f] = IF f = e /\ ok THEN "RUNNABLE" ELSE status[f]
  BY <1>2 DEF StateType, Status
<1>6. Edits(e) /\ mem'.pd = mem.pd
  <2>1. CASE ~(ok /\ page)
    <3>1. mem' = mem BY <1>1, <2>1
    <3> QED BY <3>1, NoEdit
  <2>2. CASE ok /\ page
    <3> DEFINE p == mem.pte[run[c]][srcva].page
    <3>1. mem' = PageInsert(mem, e, p, recv[e], perm) BY <1>1, <2>2
    <3>2. /\ srcva \in VA /\ recv[e] \in VA /\ MayShare(run[c], srcva, perm)
          /\ CanWalk(mem, e, recv[e])
      BY <1>2, <2>2
    <3>3. p \in Page /\ Sound(mem, p, 0)
      BY <1>2, <3>2, IInvParts, HoldMapped DEF MayShare
    <3>4. perm \in SUBSET {"U", "W"} BY PmapAssumption
    <3>5. "W" \in perm => Writable(run[c], srcva) /\ mem.pte[run[c]][srcva].page = p
      BY <3>2 DEF MayShare, Writable
    <3> HIDE DEF p, st
    <3> QED BY <1>1, <1>2, <3>1, <3>2, <3>3, <3>4, <3>5, InsertEdits
  <2> QED BY <2>1, <2>2
<1> HIDE DEF st
<1>4. LiveOthers(c, st) BY <1>1, <1>2, <1>3 DEF LiveOthers, RunsLive, StateType
<1>5. Left(c, st) BY <1>1, <1>3, <1>4, ReturnLeaves DEF Calling
<1>7. IInv'
  <2>1. recv' \in [Env -> VA \cup {NoPage, None}] BY <1>1, <1>2 DEF StateType
  <2>2. \A f \in Env : recv'[f] # None => st[f] = "NOT_RUNNABLE"
    <3>1. CASE ok BY <3>1, <1>1, <1>2, <1>3 DEF StateType, RecvBlocked
    <3>2. CASE ~ok BY <3>2, <1>1, <1>2, <1>3 DEF StateType, RecvBlocked
    <3> QED BY <3>1, <3>2
  <2>3. \A f \in Env : mem'.pd[f] = None <=> st[f] = "FREE"
    BY <1>2, <1>3, <1>6 DEF SpaceIffEnv
  <2>4. Sound(mem', None, 0) /\ parent' \in [Env -> Env \cup {None}]
    BY <1>1, <1>2, <1>6 DEF StateType, Edits
  <2> QED BY <1>3, <1>5, <2>1, <2>2, <2>3, <2>4, TrapKeeps
<1>8. Kept(c)
  <2>1. ASSUME NEW d \in CPU \ {c}, run[d] # None PROVE run[d] \in Env /\ run[d] # e
    BY <2>1, <1>2 DEF StateType, RunsLive
  <2> QED BY <2>1, <1>5, <1>6 DEF Kept, Left, Edits
<1> QED BY <1>6, <1>7, <1>8 DEF Good, Edits

\* sys_exofork.
LEMMA SysExoforkGood == ASSUME IInv, NEW c \in CPU, SysExofork(c) PROVE Good(c)
<1>0. StateType /\ RunsLive /\ RecvBlocked /\ SpaceIffEnv BY IInvParts
<1>1. CASE Calling(c) /\ Return(c, status) /\ UNCHANGED <<mem, parent, recv>>
  <2>1. Left(c, status) BY <1>1, StatusLive, ReturnLeaves DEF Calling
  <2> QED BY <1>0, <1>1, <2>1, StatusLive, QuietGood DEF StateType, RecvBlocked
<1>2. ASSUME Calling(c), mem.free # <<>>, NEW e \in Env, status[e] = "FREE",
             mem' = NewSpace(mem, e), parent' = [parent EXCEPT ![e] = run[c]],
             recv' = [recv EXCEPT ![e] = None],
             Return(c, [status EXCEPT ![e] = "NOT_RUNNABLE"])
      PROVE  Good(c)
  <2> DEFINE st == [status EXCEPT ![e] = "NOT_RUNNABLE"]
  <2>1. /\ st \in [Env -> Status]
        /\ \A f \in Env : st[f] = IF f = e THEN "NOT_RUNNABLE" ELSE status[f]
    BY <1>0 DEF StateType, Status
  <2>2. Return(c, st) BY <1>2
  <2> HIDE DEF st
  <2>3. LiveOthers(c, st) BY <1>0, <1>2, <2>1 DEF LiveOthers, RunsLive, StateType
  <2>4. Left(c, st) BY <1>2, <2>1, <2>2, <2>3, ReturnLeaves DEF Calling
  <2>5. mem.pd[e] = None BY <1>0, <1>2 DEF SpaceIffEnv
  <2>6. /\ Sound(mem', None, 0) /\ mem'.pte = mem.pte /\ mem'.pd[e] # None
        /\ \A f \in Env : f # e => mem'.pd[f] = mem.pd[f]
    BY <1>2, <2>5, IInvParts, NewSpaceSound
  <2>7. IInv'
    <3>1. /\ recv' \in [Env -> VA \cup {NoPage, None}] /\ parent' \in [Env -> Env \cup {None}]
      BY <1>0, <1>2 DEF StateType, Calling
    <3>2. \A f \in Env : recv'[f] # None => st[f] = "NOT_RUNNABLE"
      BY <1>0, <1>2, <2>1 DEF StateType, RecvBlocked
    <3>3. \A f \in Env : mem'.pd[f] = None <=> st[f] = "FREE"
      BY <1>0, <2>1, <2>6 DEF SpaceIffEnv
    <3> QED BY <2>1, <2>4, <2>6, <3>1, <3>2, <3>3, TrapKeeps
  <2>8. Kept(c) BY <2>4, <2>6 DEF Kept, Left
  <2>9. NoNewWriter BY <2>6 DEF NoNewWriter, Writable
  <2> QED BY <2>7, <2>8, <2>9 DEF Good
<1> QED BY <1>1, <1>2 DEF SysExofork

\* env_free of an environment no other CPU runs.
LEMMA EnvFreeGood ==
  ASSUME IInv, NEW c \in CPU, NEW e \in Env, status[e] # "FREE", EnvFree(e),
         \A d \in CPU \ {c} : run[d] # e, Left(c, [status EXCEPT ![e] = "FREE"])
  PROVE  Good(c)
<1> DEFINE st == [status EXCEPT ![e] = "FREE"]
<1>0. StateType /\ RecvBlocked /\ SpaceIffEnv BY IInvParts
<1>1. /\ mem' = FreeSpace(mem, e) /\ recv' = [recv EXCEPT ![e] = None]
      /\ parent' = [f \in Env |-> IF parent[f] = e THEN None ELSE parent[f]]
  BY DEF EnvFree
<1>2. /\ st \in [Env -> Status]
      /\ \A f \in Env : st[f] = IF f = e THEN "FREE" ELSE status[f]
  BY <1>0 DEF StateType, Status
<1>3. Left(c, st) OBVIOUS
<1> HIDE DEF st
<1>4. Edits(e) /\ mem'.pd[e] = None /\ \A f \in Env : f # e => mem'.pd[f] = mem.pd[f]
  BY <1>1, FreeEdits
<1>5. IInv'
  <2>1. /\ recv' \in [Env -> VA \cup {NoPage, None}] /\ parent' \in [Env -> Env \cup {None}]
    BY <1>0, <1>1 DEF StateType
  <2>2. \A f \in Env : recv'[f] # None => st[f] = "NOT_RUNNABLE"
    BY <1>0, <1>1, <1>2 DEF StateType, RecvBlocked
  <2>3. \A f \in Env : mem'.pd[f] = None <=> st[f] = "FREE"
    BY <1>0, <1>2, <1>4 DEF SpaceIffEnv
  <2> QED BY <1>2, <1>3, <1>4, <2>1, <2>2, <2>3, TrapKeeps DEF Edits
<1>6. Kept(c)
  BY <1>0, <1>3, <1>4 DEF StateType, Kept, Left, Edits
<1> QED BY <1>4, <1>5, <1>6 DEF Good, Edits

\* The statuses env_free asks for.
LEMMA FreedLive ==
  ASSUME IInv, NEW c \in CPU, NEW e \in Env, \A d \in CPU \ {c} : run[d] # e
  PROVE  LiveOthers(c, [status EXCEPT ![e] = "FREE"])
         /\ [status EXCEPT ![e] = "FREE"] \in [Env -> Status]
<1> DEFINE st == [status EXCEPT ![e] = "FREE"]
<1>0. StateType /\ RunsLive BY IInvParts
<1>1. /\ st \in [Env -> Status]
      /\ \A f \in Env : st[f] = IF f = e THEN "FREE" ELSE status[f]
  BY <1>0 DEF StateType, Status
<1> HIDE DEF st
<1>2. LiveOthers(c, st) BY <1>0, <1>1 DEF LiveOthers, RunsLive, StateType
<1> QED BY <1>1, <1>2 DEF st

\* The trap in which a zombie is freed.
LEMMA ReapZombieGood == ASSUME IInv, NEW c \in CPU, ReapZombie(c) PROVE Good(c)
<1>1. /\ run[c] # None /\ status[run[c]] = "DYING" /\ EnvFree(run[c])
      /\ SchedYield(c, None, [status EXCEPT ![run[c]] = "FREE"])
  BY DEF ReapZombie
<1>2. run[c] \in Env /\ \A d \in CPU \ {c} : run[d] # run[c]
  BY <1>1, IInvParts DEF StateType, RunsAlone
<1>3. Left(c, [status EXCEPT ![run[c]] = "FREE"])
  BY <1>1, <1>2, FreedLive, YieldLeaves
<1> QED BY <1>1, <1>2, <1>3, EnvFreeGood

\* sys_env_destroy: of the caller, of a running child, of another child.
LEMMA SysEnvDestroyGood ==
  ASSUME IInv, NEW c \in CPU, NEW e \in Env, SysEnvDestroy(c, e)
  PROVE  Good(c)
<1>0. /\ Calling(c) /\ status[e] \notin {"FREE", "DYING"} /\ run[c] # None /\ run[c] \in Env
      /\ StateType /\ RunsLive /\ RunsAlone /\ RecvBlocked
  BY IInvParts DEF SysEnvDestroy, Calling, StateType
<1>1. CASE e = run[c] /\ EnvFree(e) /\ SchedYield(c, None, [status EXCEPT ![e] = "FREE"])
  <2>1. \A d \in CPU \ {c} : run[d] # e BY <1>0, <1>1 DEF RunsAlone
  <2>2. Left(c, [status EXCEPT ![e] = "FREE"]) BY <1>1, <2>1, FreedLive, YieldLeaves
  <2> QED BY <1>0, <1>1, <2>1, <2>2, EnvFreeGood
<1>2. CASE /\ status[e] = "RUNNING" /\ Return(c, [status EXCEPT ![e] = "DYING"])
           /\ UNCHANGED <<mem, parent, recv>>
  <2> DEFINE st == [status EXCEPT ![e] = "DYING"]
  <2>1. /\ st \in [Env -> Status]
        /\ \A f \in Env : st[f] = IF f = e THEN "DYING" ELSE status[f]
    BY <1>0 DEF StateType, Status
  <2>2. Return(c, st) BY <1>2
  <2> HIDE DEF st
  <2>3. LiveOthers(c, st) BY <1>0, <2>1 DEF LiveOthers, RunsLive, StateType
  <2>4. Left(c, st) BY <1>0, <2>1, <2>2, <2>3, ReturnLeaves
  <2>5. \A f \in Env : st[f] = "FREE" <=> status[f] = "FREE" BY <1>0, <2>1
  <2>6. \A f \in Env : recv'[f] # None => st[f] = "NOT_RUNNABLE"
    BY <1>0, <1>2, <2>1 DEF RecvBlocked
  <2>7. parent' \in [Env -> Env \cup {None}] /\ recv' \in [Env -> VA \cup {NoPage, None}]
    BY <1>0, <1>2 DEF StateType
  <2> QED BY <1>2, <2>1, <2>4, <2>5, <2>6, <2>7, QuietGood
<1>3. CASE /\ e # run[c] /\ status[e] # "RUNNING" /\ EnvFree(e)
           /\ Return(c, [status EXCEPT ![e] = "FREE"])
  <2>1. \A d \in CPU \ {c} : run[d] # e
    BY <1>0, <1>3, PmapAssumption DEF RunsLive
  <2>2. Left(c, [status EXCEPT ![e] = "FREE"]) BY <1>0, <1>3, <2>1, FreedLive, ReturnLeaves
  <2> QED BY <1>0, <1>3, <2>1, <2>2, EnvFreeGood
<1> QED
  <2>1. \/ e = run[c] /\ EnvFree(e) /\ SchedYield(c, None, [status EXCEPT ![e] = "FREE"])
        \/ /\ status[e] = "RUNNING" /\ Return(c, [status EXCEPT ![e] = "DYING"])
           /\ UNCHANGED <<mem, parent, recv>>
        \/ /\ e # run[c] /\ status[e] # "RUNNING" /\ EnvFree(e)
           /\ Return(c, [status EXCEPT ![e] = "FREE"])
    <3>1. CASE e = run[c] BY <3>1 DEF SysEnvDestroy
    <3>2. CASE e # run[c] /\ status[e] = "RUNNING" BY <3>2 DEF SysEnvDestroy
    <3>3. CASE e # run[c] /\ status[e] # "RUNNING" BY <3>3 DEF SysEnvDestroy
    <3> QED BY <3>1, <3>2, <3>3
  <2> QED BY <2>1, <1>1, <1>2, <1>3

-----------------------------------------------------------------------------
(* The initial state.                                                      *)

\* page_init lists every page once.
LEMMA ListOfPages ==
  LET s == SetToSeq(Page)
  IN  /\ s \in Seq(Page) /\ Len(s) = Cardinality(Page) /\ Injective(s)
      /\ \A p \in Page : InList(s, p)
<1> DEFINE n == Cardinality(Page)
           s == SetToSeq(Page)
<1>1. n \in Nat /\ ExistsBijection(1..n, Page) BY PmapAssumption, FS_CardinalityType
<1> HIDE DEF n
<1>2. \E f \in [1..n -> Page] : IsInjective(f)
  <2>1. PICK f : f \in Bijection(1..n, Page) BY <1>1 DEF ExistsBijection
  <2> QED BY <2>1 DEF Bijection, Injection, IsInjective
<1>3. s \in [1..n -> Page] /\ IsInjective(s)
  BY <1>2, Zenon DEF SetToSeq, n
<1> HIDE DEF s
<1>4. s \in Injection(1..n, Page)
  BY <1>3 DEF Injection
<1>5. s \in Surjection(1..n, Page)
  <2>1. IsFiniteSet(Page) /\ Cardinality(1..n) = n
    <3>1. 1 \in Int /\ n \in Int /\ (1 > n => n = 0) BY <1>1
    <3>2. Cardinality(1..n) = IF 1 > n THEN 0 ELSE n-1+1 BY <3>1, FS_Interval, Zenon
    <3> QED BY <3>1, <3>2, <1>1, PmapAssumption
  <2> QED BY <2>1, <1>4, FS_Injection DEF n
<1>6. \A p \in Page : \E i \in 1..n : s[i] = p
  BY <1>5 DEF Surjection
<1>7. s \in Seq(Page) /\ Len(s) = n
  BY <1>1, <1>3, SeqDef, LenProperties
<1> QED BY <1>3, <1>6, <1>7 DEF Injective, InList, IsInjective, s, n

\* The memory before i386_init creates an environment.
Boot == [ref |-> [p \in Page |-> 0], free |-> SetToSeq(Page),
         pd |-> [e \in Env |-> None],
         pt |-> [e \in Env |-> [i \in PDE |-> None]],
         pte |-> [e \in Env |-> [v \in VA |-> None]]]

\* The memory page_init leaves is in order.
LEMMA BootSound ==
  /\ Sound(Boot, None, 0) /\ Len(Boot.free) >= 3
  /\ \A e \in Env : Boot.pd[e] = None
<1> USE PmapAssumption
<1> DEFINE s == SetToSeq(Page)
<1>0. s \in Seq(Page) /\ Len(s) >= 3 /\ Injective(s) /\ \A p \in Page : InList(s, p)
  BY ListOfPages
<1>1. /\ Boot.free = s /\ Boot.ref = [p \in Page |-> 0] /\ Boot.pd = [e \in Env |-> None]
      /\ Boot.pt = [e \in Env |-> [i \in PDE |-> None]]
      /\ Boot.pte = [e \in Env |-> [v \in VA |-> None]]
  BY DEF Boot
<1>2. Boot \in Memory
  <2>1. /\ [p \in Page |-> 0] \in [Page -> Nat] /\ [e \in Env |-> None] \in [Env -> Page \cup {None}]
        /\ [e \in Env |-> [i \in PDE |-> None]] \in [Env -> [PDE -> Page \cup {None}]]
        /\ [e \in Env |-> [v \in VA |-> None]] \in [Env -> [VA -> Mapping \cup {None}]]
    OBVIOUS
  <2> QED BY <1>0, <2>1 DEF Boot, Memory
<1>3. ASSUME NEW p \in Page
      PROVE  NMapped(Boot, p) = 0 /\ NTable(Boot, p) = 0 /\ NDirectory(Boot, p) = 0
  <2>1. Mapped(Boot, p) = {} BY <1>1 DEF Mapped
  <2>2. AsTable(Boot, p) = {} BY <1>1 DEF AsTable
  <2>3. AsDirectory(Boot, p) = {} BY <1>1 DEF AsDirectory
  <2> QED BY <2>1, <2>2, <2>3, FS_EmptySet DEF NMapped, NTable, NDirectory
<1>4. Accounted(Boot, None, 0)
  <2>1. \A p \in Page : Count(Boot, p) = 0 BY <1>3 DEF Count
  <2> HIDE DEF s
  <2> QED BY <1>0, <1>1, <1>3, <2>1 DEF Accounted
<1>5. Tree(Boot)
  BY <1>1, PdxInPde DEF Tree
<1> QED BY <1>0, <1>1, <1>2, <1>4, <1>5 DEF Sound

\* Everything a CPU, an environment or the memory starts with.
LEMMA InitIInv == Init => IInv
<1> SUFFICES ASSUME Init PROVE IInv
  OBVIOUS
<1> DEFINE pgdir == NewSpace(Boot, First)
           h == Head(pgdir.free)
           q == Popped(pgdir)
           w == {"U", "W"}
<1>1. /\ mem = PageInsert(q, First, h, 1, w)
      /\ status = [e \in Env |-> IF e = First THEN "RUNNABLE" ELSE "FREE"]
      /\ parent = [e \in Env |-> None]
      /\ recv = [e \in Env |-> None]
      /\ run = [c \in CPU |-> None]
      /\ tlb = [c \in CPU |-> {}]
  BY DEF Init, Boot
<1>2. First \in Env /\ 1 \in VA BY PmapAssumption DEF VA
<1>3. /\ Sound(pgdir, None, 0) /\ pgdir.free = Tail(Boot.free)
      /\ pgdir.pd[First] # None /\ \A e \in Env : e # First => pgdir.pd[e] = None
  <2>1. Boot.free # <<>> BY BootSound
  <2> QED BY <1>2, <2>1, BootSound, NewSpaceSound
<1>4. pgdir.free \in Seq(Page) /\ Len(pgdir.free) >= 2
  <2>1. Boot.free \in Seq(Page) /\ Boot.free # <<>> /\ Len(Boot.free) >= 3
    BY BootSound DEF Sound, Memory
  <2> QED BY <1>3, <2>1, HeadTailProperties
<1> HIDE DEF pgdir
<1>5. /\ h \in Page /\ Sound(q, h, 0) /\ q.pd = pgdir.pd /\ q.free # <<>>
  <2>1. pgdir.free # <<>> BY <1>4
  <2>2. h \in Page /\ Sound(q, h, 0) /\ q.pd = pgdir.pd
    BY <1>3, <2>1, HoldPopped
  <2>3. q.free = Tail(pgdir.free)
    <3>1. pgdir \in Memory BY <1>3 DEF Sound
    <3> QED BY <3>1 DEF Popped, Memory
  <2>4. Len(Tail(pgdir.free)) = Len(pgdir.free) - 1 /\ Len(pgdir.free) \in Nat
    BY <1>4, <2>1, HeadTailProperties
  <2>5. Len(q.free) >= 1 BY <1>4, <2>3, <2>4
  <2>6. q.free # <<>>
    <3>1. Len(<<>>) = 0 OBVIOUS
    <3> QED BY <2>5, <3>1
  <2> QED BY <2>2, <2>6
<1> HIDE DEF h, q, w
<1>6. CanWalk(q, First, 1) BY <1>5 DEF CanWalk
<1>7. w \in SUBSET {"U", "W"} BY DEF w
<1>8. Sound(mem, None, 0) /\ mem.pd = pgdir.pd
  <2>1. q.pd[First] # None /\ h \in Page /\ Sound(q, h, 0) BY <1>3, <1>5
  <2>2. mem = PageInsert(q, First, h, 1, w) BY <1>1
  <2> DEFINE n == PageInsert(q, First, h, 1, w)
  <2>3. Sound(n, None, 0) /\ Within(q, n, First)
    BY <1>2, <1>6, <1>7, <2>1, PageInsertSound
  <2> QED BY <1>5, <2>2, <2>3 DEF Within
<1>9. StateType BY <1>1, <1>2 DEF StateType, Status, VA
<1>10. SpaceIffEnv BY <1>1, <1>2, <1>3, <1>8 DEF SpaceIffEnv
<1>11. RunsLive /\ RunsAlone /\ RecvBlocked BY <1>1 DEF RunsLive, RunsAlone, RecvBlocked
<1> QED BY <1>8, <1>9, <1>10, <1>11 DEF IInv

-----------------------------------------------------------------------------
(* The step of the MMU, and the whole next-state relation.                 *)

\* A TLB fill changes nothing the kernel keeps.
LEMMA TouchKeeps ==
  ASSUME IInv, NEW c \in CPU, NEW v \in VA, Touch(c, v)
  PROVE  IInv' /\ NoNewWriter
<1> DEFINE t == [va |-> v, page |-> mem.pte[run[c]][v].page, perm |-> mem.pte[run[c]][v].perm]
<1>1. /\ run[c] # None /\ mem.pte[run[c]][v] # None
      /\ tlb' = [tlb EXCEPT ![c] = tlb[c] \cup {t}]
      /\ mem' = mem /\ status' = status /\ parent' = parent /\ recv' = recv /\ run' = run
  BY DEF Touch
<1>2. StateType /\ run[c] \in Env /\ mem \in Memory
  BY <1>1, IInvParts DEF StateType
<1>3. t \in Cached
  <2>1. mem.pte[run[c]][v] \in Mapping BY <1>1, <1>2 DEF Memory
  <2> QED BY <2>1 DEF Mapping, Cached
<1> HIDE DEF t
<1>4. StateType' BY <1>1, <1>2, <1>3 DEF StateType
<1>5. Sound(mem, None, 0)' BY <1>1, IInvParts DEF Sound, Accounted, Tree, Count, NMapped, NTable,
   NDirectory, Mapped, AsTable, AsDirectory
<1>6. SpaceIffEnv' /\ RunsLive' /\ RunsAlone' /\ RecvBlocked'
  BY <1>1, IInvParts DEF SpaceIffEnv, RunsLive, RunsAlone, RecvBlocked
<1> QED BY <1>1, <1>4, <1>5, <1>6, NoEdit DEF IInv, Edits

\* A step of the kernel on one CPU, or of its MMU.
LEMMA StepGood ==
  ASSUME IInv, Next
  PROVE  \E c \in CPU : Good(c) \/ (IInv' /\ NoNewWriter /\ \E v \in VA : Touch(c, v))
<1> SUFFICES ASSUME NEW c \in CPU,
       \/ \E e \in Env, v \in VA, perm \in Perms : SysPageAlloc(c, e, v, perm)
       \/ \E s, d \in Env, sv, dv \in VA, perm \in Perms : SysPageMap(c, s, sv, d, dv, perm)
       \/ \E e \in Env, v \in VA : SysPageUnmap(c, e, v)
       \/ \E dstva \in VA \cup {NoPage} : SysIpcRecv(c, dstva)
       \/ \E e \in Env, srcva \in VA \cup {NoPage}, perm \in Perms :
            SysIpcTrySend(c, e, srcva, perm)
       \/ SysExofork(c)
       \/ \E e \in Env : SysEnvSetStatus(c, e) \/ SysEnvDestroy(c, e)
       \/ ReapZombie(c)
       \/ Timer(c)
       \/ \E v \in VA : Touch(c, v)
     PROVE  Good(c) \/ (IInv' /\ NoNewWriter /\ \E v \in VA : Touch(c, v))
  BY Zenon DEF Next
<1>1. CASE \E e \in Env, v \in VA, perm \in Perms : SysPageAlloc(c, e, v, perm)
  BY <1>1, SysPageAllocGood
<1>2. CASE \E s, d \in Env, sv, dv \in VA, perm \in Perms : SysPageMap(c, s, sv, d, dv, perm)
  BY <1>2, SysPageMapGood
<1>3. CASE \E e \in Env, v \in VA : SysPageUnmap(c, e, v)
  BY <1>3, SysPageUnmapGood
<1>4. CASE \E dstva \in VA \cup {NoPage} : SysIpcRecv(c, dstva)
  BY <1>4, SysIpcRecvGood
<1>5. CASE \E e \in Env, srcva \in VA \cup {NoPage}, perm \in Perms :
             SysIpcTrySend(c, e, srcva, perm)
  BY <1>5, SysIpcTrySendGood
<1>6. CASE SysExofork(c) BY <1>6, SysExoforkGood
<1>7. CASE \E e \in Env : SysEnvSetStatus(c, e) \/ SysEnvDestroy(c, e)
  BY <1>7, SysEnvSetStatusGood, SysEnvDestroyGood
<1>8. CASE ReapZombie(c) BY <1>8, ReapZombieGood
<1>9. CASE Timer(c) BY <1>9, TimerGood
<1>10. CASE \E v \in VA : Touch(c, v) BY <1>10, TouchKeeps
<1> QED BY <1>1, <1>2, <1>3, <1>4, <1>5, <1>6, <1>7, <1>8, <1>9, <1>10

\* The invariant is inductive.
LEMMA NextIInv == IInv /\ [Next]_vars => IInv'
<1> SUFFICES ASSUME IInv, [Next]_vars PROVE IInv'
  OBVIOUS
<1>1. CASE Next BY <1>1, StepGood DEF Good
<1>2. CASE UNCHANGED vars
  <2>1. mem' = mem /\ status' = status /\ parent' = parent /\ recv' = recv /\ run' = run
        /\ tlb' = tlb
    BY <1>2 DEF vars
  <2>2. Sound(mem, None, 0)' BY <2>1, IInvParts DEF Sound, Accounted, Tree, Count, NMapped, NTable,
    NDirectory, Mapped, AsTable, AsDirectory
  <2> QED BY <2>1, <2>2, IInvParts DEF IInv, StateType, SpaceIffEnv, RunsLive, RunsAlone, RecvBlocked
<1> QED BY <1>1, <1>2

-----------------------------------------------------------------------------
(* The theorems.                                                           *)

\* The inductive invariant holds in every reachable state.
THEOREM Invariant == Spec => []IInv
BY InitIInv, NextIInv, PTL DEF Spec

\* Every variable keeps its type: page tables hold pages, CPUs run
\* environments, TLBs cache translations (kern/pmap.c, kern/env.c).
THEOREM TypeCorrect == Spec => []TypeOK
<1>1. IInv => TypeOK BY DEF IInv, Sound, StateType, TypeOK
<1> QED BY <1>1, Invariant, PTL

\* pp_ref is exact over every call and every error path, whatever the size of
\* the machine (page_insert, page_remove, env_free).
THEOREM RefExactHolds == Spec => []RefExact
<1>1. IInv => RefExact
  <2> SUFFICES ASSUME IInv, NEW p \in Page
               PROVE  mem.ref[p] = Cardinality(Mappers(p)) + Cardinality(Tables(p))
                                     + Cardinality(Directories(p))
    BY DEF RefExact
  <2>1. mem.ref[p] = Count(mem, p) + 0 /\ Count(mem, p) \in Nat
    BY IInvParts, CountType, PmapAssumption DEF Sound, Accounted, Count
  <2>2. Count(mem, p) = Cardinality(Mappers(p)) + Cardinality(Tables(p))
                          + Cardinality(Directories(p))
    BY DEF Count, NMapped, NTable, NDirectory, Mapped, AsTable, AsDirectory,
       Mappers, Tables, Directories
  <2> QED BY <2>1, <2>2
<1> QED BY <1>1, Invariant, PTL

\* No page is lost, none is free while in use, none is freed twice (page_alloc,
\* page_free, page_decref).
THEOREM FreeListExactHolds == Spec => []FreeListExact
<1>1. IInv => FreeListExact
  <2> SUFFICES ASSUME IInv PROVE FreeListExact
    OBVIOUS
  <2>1. /\ \A p \in Page : InList(mem.free, p) <=> mem.ref[p] = 0 /\ p # None
        /\ Injective(mem.free)
    BY IInvParts DEF Sound, Accounted
  <2>2. DOMAIN mem.free = 1..Len(mem.free)
    BY IInvParts DEF Memory
  <2> QED BY <2>1, <2>2, PmapAssumption DEF FreeListExact, InList, Injective
<1> QED BY <1>1, Invariant, PTL

\* A page table or page directory belongs to one place of one environment, and
\* no program has it mapped (pgdir_walk, env_setup_vm).
THEOREM TablesPrivateHolds == Spec => []TablesPrivate
<1>1. IInv => TablesPrivate
  <2> SUFFICES ASSUME IInv, NEW p \in Page, Tables(p) \cup Directories(p) # {}
               PROVE  Mappers(p) = {}
                      /\ Cardinality(Tables(p)) + Cardinality(Directories(p)) = 1
    BY DEF TablesPrivate
  <2>1. /\ NMapped(mem, p) = Cardinality(Mappers(p)) /\ NTable(mem, p) = Cardinality(Tables(p))
        /\ NDirectory(mem, p) = Cardinality(Directories(p))
    BY DEF NMapped, NTable, NDirectory, Mapped, AsTable, AsDirectory, Mappers, Tables, Directories
  <2>2. IsFiniteSet(Mappers(p)) /\ IsFiniteSet(Tables(p)) /\ IsFiniteSet(Directories(p))
    <3>1. /\ Mappers(p) \in SUBSET (Env \X VA) /\ Tables(p) \in SUBSET (Env \X PDE)
          /\ Directories(p) \in SUBSET Env
      BY DEF Mappers, Tables, Directories
    <3> QED BY <3>1, FiniteDomains, FS_Subset
  <2>3. NMapped(mem, p) \in Nat /\ NTable(mem, p) \in Nat /\ NDirectory(mem, p) \in Nat
    BY CountType
  <2>4. NTable(mem, p) # 0 \/ NDirectory(mem, p) # 0
    BY <2>1, <2>2, FS_EmptySet
  <2>5. NMapped(mem, p) + NTable(mem, p) + NDirectory(mem, p) = 1
    BY <2>3, <2>4, IInvParts DEF Sound, Accounted, Count
  <2>6. NMapped(mem, p) = 0 /\ NTable(mem, p) + NDirectory(mem, p) = 1
    BY <2>3, <2>4, <2>5
  <2> QED BY <2>1, <2>2, <2>6, FS_EmptySet
<1> QED BY <1>1, Invariant, PTL

\* An environment has an address space exactly while it exists, and no part of
\* one outlives it (env_alloc, env_free).
THEOREM SpaceTreeHolds == Spec => []SpaceTree
<1>1. IInv => SpaceTree
  BY IInvParts DEF SpaceTree, SpaceIffEnv, Sound, Tree
<1> QED BY <1>1, Invariant, PTL

\* While programs edit only address spaces that cannot be executing, no CPU
\* uses a stale translation (tlb_invalidate, lcr3 in env_run).
THEOREM TlbFreshHolds == ASSUME Careful PROVE Spec => []TlbFresh
<1>1. Init => TlbFresh
  BY DEF Init, TlbFresh
<1>2. IInv /\ TlbFresh /\ [Next]_vars => TlbFresh'
  <2> SUFFICES ASSUME IInv, TlbFresh, [Next]_vars PROVE TlbFresh'
    OBVIOUS
  <2>1. ASSUME NEW c \in CPU, Kept(c) PROVE TlbFresh'
    <3> SUFFICES ASSUME NEW d \in CPU, NEW t \in tlb'[d]
                 PROVE  /\ run'[d] # None
                        /\ mem'.pte[run'[d]][t.va] = [page |-> t.page, perm |-> t.perm]
      BY DEF TlbFresh
    <3>1. d # c /\ tlb'[d] = tlb[d] BY <2>1, IInvParts DEF Kept, StateType
    <3> QED BY <3>1, <2>1 DEF Kept, TlbFresh
  <2>2. ASSUME NEW c \in CPU, NEW v \in VA, Touch(c, v) PROVE TlbFresh'
    <3> DEFINE x == [va |-> v, page |-> mem.pte[run[c]][v].page, perm |-> mem.pte[run[c]][v].perm]
    <3>1. /\ run[c] # None /\ mem.pte[run[c]][v] # None /\ mem' = mem /\ run' = run
          /\ tlb' = [tlb EXCEPT ![c] = tlb[c] \cup {x}]
      BY <2>2 DEF Touch
    <3>2. mem.pte[run[c]][v] \in Mapping
      BY <3>1, IInvParts DEF StateType, Memory
    <3>3. mem.pte[run[c]][x.va] = [page |-> x.page, perm |-> x.perm]
      BY <3>2 DEF Mapping
    <3> HIDE DEF x
    <3> SUFFICES ASSUME NEW d \in CPU, NEW t \in tlb'[d]
                 PROVE  /\ run'[d] # None
                        /\ mem'.pte[run'[d]][t.va] = [page |-> t.page, perm |-> t.perm]
      BY DEF TlbFresh
    <3>4. t \in tlb[d] \/ (d = c /\ t = x) BY <3>1, IInvParts DEF StateType
    <3> QED BY <3>1, <3>3, <3>4 DEF TlbFresh
  <2>3. CASE UNCHANGED vars BY <2>3 DEF vars, TlbFresh
  <2> QED BY <2>1, <2>2, <2>3, StepGood DEF Good
<1> QED BY <1>1, <1>2, Invariant, PTL DEF Spec

\* A page mapped only for reading stays so: no chain of sys_page_map,
\* sys_page_alloc and IPC makes it writable (kern/syscall.c:271, 371).
THEOREM ReadOnlyStaysHolds == Spec => ReadOnlyStays
<1> DEFINE A == \A p \in Page : Mappers(p) # {} /\ WritableAt(p) = {} => WritableAt(p)' = {}
<1>1. IInv /\ [Next]_vars => A
  <2> SUFFICES ASSUME IInv, [Next]_vars, NEW p \in Page, Mappers(p) # {}, WritableAt(p) = {}
               PROVE  WritableAt(p)' = {}
    OBVIOUS
  <2>1. CASE Next
    <3>1. NoNewWriter BY <2>1, StepGood DEF Good
    <3> SUFFICES ASSUME NEW x \in WritableAt(p)' PROVE FALSE
      OBVIOUS
    <3>2. PICK e \in Env, v \in VA : /\ mem'.pte[e][v] # None /\ mem'.pte[e][v].page = p
                                     /\ "W" \in mem'.pte[e][v].perm
      BY DEF WritableAt, Mappers
    <3>3. Writable(e, v)' BY <3>2 DEF Writable
    <3>4. CASE \A f \in Env, w \in VA : ~Refs(mem.pte[f][w], p)
      BY <3>4 DEF Mappers, Refs
    <3>5. ASSUME NEW f \in Env, NEW w \in VA, Writable(f, w), mem.pte[f][w].page = p PROVE FALSE
      <4>1. <<f, w>> \in WritableAt(p) BY <3>5 DEF WritableAt, Mappers, Writable
      <4> QED BY <4>1
    <3> QED BY <3>1, <3>2, <3>3, <3>4, <3>5 DEF NoNewWriter
  <2>2. CASE UNCHANGED vars BY <2>2 DEF vars, WritableAt, Mappers
  <2> QED BY <2>1, <2>2
<1> QED BY <1>1, Invariant, PTL DEF Spec, ReadOnlyStays
=============================================================================
