---------------------------- MODULE FileSysProofs --------------------------
(***************************************************************************)
(* The file system, for every disk and every set of files.                 *)
(*                                                                         *)
(* Good(own, s) says of the state s of an operation that its types are     *)
(* right and, if own, that every used block has one owner.  Safe(own, s)   *)
(* adds, if no file is cut in its indirect block, that the disk is behind  *)
(* the cache and that its blocks have one owner after every single write.  *)
(* Each function of fs.c takes a safe state to a safe one.  With own =     *)
(* FALSE that is the part of the invariant that crashes cannot break.      *)
(***************************************************************************)
EXTENDS FileSys, FiniteSetTheorems, SequenceTheorems, WellFoundedInduction, TLAPS

-----------------------------------------------------------------------------
(* Numbers and loops.                                                      *)

\* Every non-empty set of natural numbers has a least element.
LEMMA LeastNat ==
  ASSUME NEW T, T \subseteq Nat, T # {}
  PROVE  \E x \in T : \A y \in T : x <= y
<1> DEFINE I == {0..x : x \in T}
<1>1. I \subseteq FiniteSubsetsOf(Nat) /\ I # {}
  <2>1. ASSUME NEW x \in T PROVE 0..x \in FiniteSubsetsOf(Nat)
    <3>1. 0 \in Int /\ x \in Int OBVIOUS
    <3>2. IsFiniteSet(0..x) BY <3>1, FS_Interval, Zenon
    <3>3. 0..x \subseteq Nat BY <3>1
    <3> QED BY <3>2, <3>3 DEF FiniteSubsetsOf
  <2> QED BY <2>1
<1>2. \E i \in I : \A j \in I : <<j, i>> \notin StrictSubsetOrdering(Nat)
  BY <1>1, FS_StrictSubsetOrderingWellFounded, WFMin, Zenon
<1>3. ASSUME NEW x \in T, \A j \in I : <<j, 0..x>> \notin StrictSubsetOrdering(Nat)
      PROVE  \A y \in T : x <= y
  <2>1. ASSUME NEW y \in T, y < x PROVE FALSE
    <3>1. <<0..y, 0..x>> \in StrictSubsetOrdering(Nat)
      <4>1. x \in 0..x /\ x \notin 0..y /\ 0..y \subseteq 0..x /\ 0..x \subseteq Nat BY <2>1
      <4> QED BY <4>1 DEF StrictSubsetOrdering
    <3> QED BY <3>1, <1>3
  <2> QED BY <2>1
<1> QED BY <1>2, <1>3

\* Induction from 0 to n, for a set instead of a predicate.
LEMMA Induct ==
  ASSUME NEW T, NEW n \in Nat, 0 \in T, \A i \in 0..n-1 : i \in T => i + 1 \in T
  PROVE  \A i \in 0..n : i \in T
<1> SUFFICES ASSUME {i \in 0..n : i \notin T} # {} PROVE FALSE
  OBVIOUS
<1>1. PICK x \in {i \in 0..n : i \notin T} : \A y \in {i \in 0..n : i \notin T} : x <= y
  <2>1. {i \in 0..n : i \notin T} \subseteq Nat OBVIOUS
  <2> QED BY <2>1, LeastNat, Zenon
<1>2. x # 0 /\ x - 1 \in 0..n-1 BY <1>1
<1>3. x - 1 \in T BY <1>1, <1>2
<1> QED BY <1>1, <1>2, <1>3

\* g[i] is what the first i steps of a loop, F[1] to F[i], make of a.
Unrolls(g, N, a, F) == g[0] = a /\ \A i \in 1..N : g[i] = F[i][g[i-1]]

\* A loop of N steps has a sequence of intermediate states.
LEMMA Recursion ==
  ASSUME NEW S, NEW N \in Nat, NEW a \in S, NEW F \in [1..N -> [S -> S]]
  PROVE  \E g \in [0..N -> S] : Unrolls(g, N, a, F)
<1> DEFINE Chain(g, k) == g[0] = a /\ \A i \in 1..k : g[i] = F[i][g[i-1]]
           T == {k \in 0..N : \E g \in [0..k -> S] : Chain(g, k)}
<1>1. 0 \in T
  <2>1. [i \in 0..0 |-> a] \in [0..0 -> S] /\ Chain([i \in 0..0 |-> a], 0)
    OBVIOUS
  <2>2. \E g \in [0..0 -> S] : Chain(g, 0)
    <3> HIDE DEF Chain
    <3> QED BY <2>1
  <2> QED BY <2>2
<1>2. ASSUME NEW k \in 0..N-1, k \in T PROVE k + 1 \in T
  <2>1. PICK g \in [0..k -> S] : Chain(g, k)
    BY <1>2
  <2>2. k + 1 \in 1..N /\ k \in 0..k /\ g[k] \in S /\ F[k+1][g[k]] \in S
    BY <2>1
  <2> DEFINE h == [i \in 0..k+1 |-> IF i = k + 1 THEN F[k+1][g[k]] ELSE g[i]]
  <2>3. h \in [0..k+1 -> S]
    BY <2>2
  <2>4. ASSUME NEW i \in 1..k+1 PROVE h[i] = F[i][h[i-1]]
    <3>1. CASE i = k + 1
      <4>1. h[i] = F[k+1][g[k]] /\ h[i-1] = g[k]
        BY <3>1, <2>2
      <4> QED BY <3>1, <4>1
    <3>2. CASE i # k + 1
      <4>1. i \in 1..k /\ h[i] = g[i] /\ h[i-1] = g[i-1]
        BY <3>2
      <4> QED BY <4>1, <2>1
    <3> QED BY <3>1, <3>2
  <2>5. h[0] = a
    BY <2>1
  <2> HIDE DEF h
  <2> QED BY <2>2, <2>3, <2>4, <2>5
<1>3. \A k \in 0..N : k \in T
  <2> HIDE DEF T
  <2> QED BY <1>1, <1>2, Induct
<1> QED BY <1>3 DEF Unrolls

-----------------------------------------------------------------------------
(* What the state of an operation is made of.                              *)

Block == 0..NBLOCKS-1

\* x can be the content of block b: the bitmap has usable blocks only, and the
\* root directory consists of whole blocks.
Fits(b, x) == IF b = Bitmap THEN x \in SUBSET Usable
              ELSE x \in Content /\ (b = Super => x.file[1].size % BLKSIZE = 0)
Value == (SUBSET Usable) \cup Content
Image == {m \in [Block -> Value] : \A b \in Block : Fits(b, m[b])}
Writes == {w \in (1..NBLOCKS-1) \X (Value) : Fits(w[1], w[2])}
Err == {"ok", "inval", "no_disk", "found", "not_found"}

\* Where a struct File can be, right or wrong.
Plain == Block \ {Super, Bitmap}
Loc == {Root} \cup (Plain \X (1..BLKFILES))
State == [mem : Image, img : Image, out : Seq(Writes), err : Err, at : Loc]

\* The numbers of the disk and of the file system.
LEMMA Numbers ==
  /\ BLKSIZE \in Nat /\ BLKSIZE >= 1 /\ BLKFILES \in Nat /\ BLKFILES >= 1
  /\ NDIRECT \in Nat /\ NDIRECT >= 1 /\ NINDIRECT \in Nat /\ NINDIRECT >= 1
  /\ NBLOCKS \in Nat /\ NBLOCKS >= 3 /\ MaxBlocks \in Nat
  /\ 0 \in Block /\ Super \in Block /\ Bitmap \in Block /\ Super # Bitmap
  /\ 0 \in Plain /\ Usable \subseteq Plain /\ Plain \subseteq Block
  /\ Block \subseteq Nat /\ Usable \subseteq 1..NBLOCKS-1 /\ 0 \notin Usable
  /\ Bitmap \in 1..NBLOCKS-1 /\ Super \in 1..NBLOCKS-1 /\ Bitmap \notin Plain
  /\ Super \notin Plain /\ Usable \subseteq Nat
  /\ Pointer \subseteq Plain
BY FileSysAssumption DEF Super, Bitmap, Usable, Block, Plain, MaxBlocks, Pointer, NullPtr

\* A zeroed block can be the content of any ordinary block.
LEMMA ZeroFits == ZeroBlock \in Content /\ BlankFile \in File /\ \A b \in Plain : Fits(b, ZeroBlock)
<1>1. BlankFile \in File
  BY DEF BlankFile, File, Pointer
<1>2. ZeroBlock \in Content
  BY <1>1 DEF ZeroBlock, Content, Pointer
<1> QED BY <1>1, <1>2 DEF Fits, Plain

\* Every block of an image but the bitmap is of one form.
LEMMA Typed ==
  ASSUME NEW m \in Image
  PROVE  /\ \A b \in Block : m[b] \in Value /\ Fits(b, m[b])
         /\ m[Bitmap] \in SUBSET Usable
         /\ \A b \in Plain : m[b] \in Content
         /\ m[Super] \in Content
         /\ \A b \in Plain, i \in 0..NINDIRECT-1 : m[b].ptr[i] \in Pointer
         /\ \A l \in Loc : /\ FileAt(m, l) \in File /\ l[1] \in Block /\ l[1] # Bitmap
                           /\ l[2] \in 1..BLKFILES /\ m[l[1]] \in Content
         /\ FileAt(m, Root).size % BLKSIZE = 0
<1>1. \A b \in Block : m[b] \in Value /\ Fits(b, m[b])
  BY DEF Image
<1>2. m[Bitmap] \in SUBSET Usable
  BY <1>1, Numbers DEF Fits
<1>3. (\A b \in Plain : m[b] \in Content) /\ m[Super] \in Content
  BY <1>1, Numbers DEF Fits
<1>4. \A b \in Plain, i \in 0..NINDIRECT-1 : m[b].ptr[i] \in Pointer
  BY <1>3 DEF Content
<1>5. ASSUME NEW l \in Loc
      PROVE  /\ FileAt(m, l) \in File /\ l[1] \in Block /\ l[1] # Bitmap
             /\ l[2] \in 1..BLKFILES /\ m[l[1]] \in Content
  <2>1. l[1] \in Block /\ l[1] # Bitmap /\ l[2] \in 1..BLKFILES /\ m[l[1]] \in Content
    <3>1. CASE l = Root
      BY <3>1, <1>3, Numbers DEF Root
    <3>2. CASE l \in Plain \X (1..BLKFILES)
      BY <3>2, <1>3, Numbers
    <3> QED BY <3>1, <3>2 DEF Loc
  <2>2. m[l[1]].file \in [1..BLKFILES -> File]
    BY <2>1 DEF Content
  <2> QED BY <2>1, <2>2 DEF FileAt
<1>6. FileAt(m, Root).size % BLKSIZE = 0
  BY <1>1, Numbers DEF Fits, FileAt, Root
<1> QED BY <1>1, <1>2, <1>3, <1>4, <1>5, <1>6

\* The fields of the state of an operation.
LEMMA Fields ==
  ASSUME NEW s \in State
  PROVE  /\ s.mem \in Image /\ s.img \in Image /\ s.out \in Seq(Writes)
         /\ s.err \in Err /\ s.at \in Loc
BY DEF State

\* The disk has been written no further.
SameDisk(s, t) == t.img = s.img /\ t.out = s.out

\* Putting a block into the cache.
Put(s, b, x) == [s EXCEPT !.mem[b] = x]
\* Putting a value that fits into the cache changes nothing else.
LEMMA PutSound ==
  ASSUME NEW s \in State, NEW b \in Block, NEW x, Fits(b, x)
  PROVE  /\ Put(s, b, x) \in State /\ Put(s, b, x).mem = [s.mem EXCEPT ![b] = x]
         /\ Put(s, b, x).err = s.err /\ Put(s, b, x).at = s.at
         /\ SameDisk(s, Put(s, b, x))
<1>1. [s.mem EXCEPT ![b] = x] \in Image
  <2> DEFINE n == [s.mem EXCEPT ![b] = x]
  <2>1. s.mem \in [Block -> Value] /\ \A c \in Block : Fits(c, s.mem[c])
    BY DEF State, Image
  <2>2. x \in Value BY DEF Fits, Value
  <2>3. n \in [Block -> Value] BY <2>1, <2>2
  <2>4. \A c \in Block : n[c] = IF c = b THEN x ELSE s.mem[c] BY <2>1
  <2>5. \A c \in Block : Fits(c, n[c]) BY <2>1, <2>4
  <2> HIDE DEF n
  <2>6. n \in Image BY <2>3, <2>5 DEF Image
  <2> QED BY <2>6 DEF n
<1>2. Put(s, b, x) = [s EXCEPT !.mem = [s.mem EXCEPT ![b] = x]]
  BY DEF Put
<1> QED BY <1>1, <1>2, Fields DEF State, SameDisk

\* An error changes only the error.
LEMMA FailSound ==
  ASSUME NEW s \in State, NEW e \in Err
  PROVE  /\ Fail(s, e) \in State /\ Fail(s, e).mem = s.mem /\ Fail(s, e).err = e
         /\ Fail(s, e).at = s.at /\ SameDisk(s, Fail(s, e))
BY DEF Fail, State, SameDisk

\* flush_block leaves the cache alone.
LEMMA FlushSound ==
  ASSUME NEW s \in State, NEW b \in 1..NBLOCKS-1
  PROVE  /\ FlushBlock(s, b) \in State /\ FlushBlock(s, b).mem = s.mem
         /\ FlushBlock(s, b).err = s.err /\ FlushBlock(s, b).at = s.at
         /\ FlushBlock(s, b).img = [s.img EXCEPT ![b] = s.mem[b]]
         /\ \/ FlushBlock(s, b) = s
            \/ FlushBlock(s, b).out = Append(s.out, <<b, s.mem[b]>>)
<1>1. CASE s.mem[b] = s.img[b]
  <2>1. FlushBlock(s, b) = s BY <1>1 DEF FlushBlock
  <2>2. s.img \in [Block -> Value] BY DEF State, Image
  <2>3. s.img = [s.img EXCEPT ![b] = s.mem[b]] BY <1>1, <2>2
  <2> QED BY <2>1, <2>3
<1>2. CASE s.mem[b] # s.img[b]
  <2>0. b \in Block /\ Fits(b, s.mem[b]) /\ s.mem[b] \in Value
    BY Fields, Typed, Numbers DEF Block
  <2>1. [s.img EXCEPT ![b] = s.mem[b]] \in Image
    <3> DEFINE x == s.mem[b]
               n == [s.img EXCEPT ![b] = x]
    <3>1. s.img \in [Block -> Value] /\ \A c \in Block : Fits(c, s.img[c])
      BY DEF State, Image
    <3> HIDE DEF x
    <3>2. n \in [Block -> Value] BY <3>1, <2>0 DEF x
    <3>3. \A c \in Block : Fits(c, n[c]) BY <3>1, <2>0 DEF x
    <3> HIDE DEF n
    <3>4. n \in Image BY <3>2, <3>3 DEF Image
    <3> QED BY <3>4 DEF n, x
  <2>2. <<b, s.mem[b]>> \in Writes
    BY <2>0 DEF Writes
  <2>3. Append(s.out, <<b, s.mem[b]>>) \in Seq(Writes)
    BY <2>2, Fields
  <2>4. FlushBlock(s, b) = [s EXCEPT !.img = [s.img EXCEPT ![b] = s.mem[b]],
                                     !.out = Append(s.out, <<b, s.mem[b]>>)]
    BY <1>2 DEF FlushBlock
  <2> QED BY <2>1, <2>3, <2>4, Fields DEF State
<1> QED BY <1>1, <1>2

\* The first free block is free.
LEMMA NextFreeSound ==
  ASSUME NEW s \in State, Free(s) # {}
  PROVE  NextFree(s) \in Usable /\ NextFree(s) \in s.mem[Bitmap]
<1>1. Free(s) \subseteq Nat BY Numbers DEF Free
<1>2. \E b \in Free(s) : \A c \in Free(s) : b <= c BY <1>1, LeastNat, Zenon
<1>3. NextFree(s) \in Free(s) BY <1>2 DEF NextFree
<1> QED BY <1>3 DEF Free

\* Marking a block used, with the write of the bitmap.
LEMMA AllocSound ==
  ASSUME NEW s \in State, Free(s) # {}
  PROVE  /\ AllocBlock(s) \in State /\ AllocBlock(s).err = s.err /\ AllocBlock(s).at = s.at
         /\ AllocBlock(s).mem = [s.mem EXCEPT ![Bitmap] = @ \ {NextFree(s)}]
         /\ AllocBlock(s).img = [s.img EXCEPT ![Bitmap] = s.mem[Bitmap] \ {NextFree(s)}]
         /\ \/ AllocBlock(s).img = s.img /\ AllocBlock(s).out = s.out
            \/ AllocBlock(s).out = Append(s.out, <<Bitmap, s.mem[Bitmap] \ {NextFree(s)}>>)
<1> DEFINE t == Put(s, Bitmap, s.mem[Bitmap] \ {NextFree(s)})
<1>1. Fits(Bitmap, s.mem[Bitmap] \ {NextFree(s)})
  BY Fields, Typed DEF Fits
<1>2. t \in State /\ t.err = s.err /\ t.at = s.at /\ SameDisk(s, t)
      /\ t.mem = [s.mem EXCEPT ![Bitmap] = s.mem[Bitmap] \ {NextFree(s)}]
  <2>1. Bitmap \in Block BY Numbers
  <2> QED BY <1>1, <2>1, PutSound
<1>3. AllocBlock(s) = FlushBlock(t, Bitmap)
  BY DEF AllocBlock, Put
<1>4. t.mem[Bitmap] = s.mem[Bitmap] \ {NextFree(s)}
  <2>1. s.mem \in [Block -> Value] BY DEF State, Image
  <2> HIDE DEF t
  <2> QED BY <1>2, <2>1, Numbers
<1> HIDE DEF t
<1>5. /\ FlushBlock(t, Bitmap) \in State /\ FlushBlock(t, Bitmap).mem = t.mem
      /\ FlushBlock(t, Bitmap).err = t.err /\ FlushBlock(t, Bitmap).at = t.at
      /\ FlushBlock(t, Bitmap).img = [t.img EXCEPT ![Bitmap] = t.mem[Bitmap]]
      /\ \/ FlushBlock(t, Bitmap) = t
         \/ FlushBlock(t, Bitmap).out = Append(t.out, <<Bitmap, t.mem[Bitmap]>>)
  BY <1>2, FlushSound, Numbers
<1> QED BY <1>2, <1>3, <1>4, <1>5 DEF SameDisk

\* Marking a block free keeps the types.
LEMMA FreeSound ==
  ASSUME NEW s \in State, NEW b \in Usable
  PROVE  /\ FreeBlock(s, b) \in State /\ FreeBlock(s, b).err = s.err /\ FreeBlock(s, b).at = s.at
         /\ SameDisk(s, FreeBlock(s, b))
         /\ FreeBlock(s, b).mem = [s.mem EXCEPT ![Bitmap] = @ \cup {b}]
<1> DEFINE t == Put(s, Bitmap, s.mem[Bitmap] \cup {b})
<1>1. Fits(Bitmap, s.mem[Bitmap] \cup {b})
  BY Fields, Typed DEF Fits
<1>2. t \in State /\ t.err = s.err /\ t.at = s.at /\ SameDisk(s, t)
      /\ t.mem = [s.mem EXCEPT ![Bitmap] = s.mem[Bitmap] \cup {b}]
  <2>1. Bitmap \in Block BY Numbers
  <2> QED BY <1>1, <2>1, PutSound
<1>3. FreeBlock(s, b) = t
  BY DEF FreeBlock, Put
<1> QED BY <1>2, <1>3

\* A struct File is changed, and the other files of its block are not.
LEMMA PutFileSound ==
  ASSUME NEW s \in State, NEW l \in Loc, NEW f \in File, l = Root => f.size % BLKSIZE = 0
  PROVE  LET t == PutFile(s, l, f)
         IN  /\ t \in State /\ t.err = s.err /\ t.at = s.at /\ SameDisk(s, t)
             /\ \A b \in Block : b # l[1] => t.mem[b] = s.mem[b]
             /\ t.mem[Bitmap] = s.mem[Bitmap]
             /\ \A b \in Block : b # Bitmap => t.mem[b].ptr = s.mem[b].ptr /\ t.mem[b].byte = s.mem[b].byte
             /\ \A k \in Loc : FileAt(t.mem, k) = IF k = l THEN f ELSE FileAt(s.mem, k)
<1> DEFINE c == s.mem[l[1]]
           x == [c EXCEPT !.file[l[2]] = f]
           t == Put(s, l[1], x)
<1>1. /\ l[1] \in Block /\ l[1] # Bitmap /\ l[2] \in 1..BLKFILES /\ c \in Content
      /\ Fits(l[1], c)
  BY Fields, Typed
<1>2. /\ x \in Content /\ x.ptr = c.ptr /\ x.byte = c.byte
      /\ \A j \in 1..BLKFILES : x.file[j] = IF j = l[2] THEN f ELSE c.file[j]
  <2> HIDE DEF c
  <2>1. x = [c EXCEPT !.file = [c.file EXCEPT ![l[2]] = f]] OBVIOUS
  <2>2. c.file \in [1..BLKFILES -> File] BY <1>1 DEF Content
  <2>3. [c.file EXCEPT ![l[2]] = f] \in [1..BLKFILES -> File] BY <1>1, <2>2
  <2>4. x \in Content BY <2>1, <2>3, <1>1 DEF Content
  <2>5. x.ptr = c.ptr /\ x.byte = c.byte /\ x.file = [c.file EXCEPT ![l[2]] = f] BY <2>1, <1>1 DEF Content
  <2> HIDE DEF x
  <2> QED BY <2>2, <2>4, <2>5, <1>1
<1> HIDE DEF x, c
<1>3. Fits(l[1], x)
  <2>1. CASE l[1] = Super
    <3>1. l \in {Root} BY <2>1, Numbers DEF Loc
    <3>2. l = Root /\ l[2] = 1 BY <3>1 DEF Root
    <3>3. x.file[1] = f BY <3>2, <1>1, <1>2
    <3> QED BY <1>1, <1>2, <3>2, <3>3 DEF Fits
  <2> QED BY <2>1, <1>1, <1>2 DEF Fits
<1>4. t \in State /\ t.err = s.err /\ t.at = s.at /\ SameDisk(s, t) /\ t.mem = [s.mem EXCEPT ![l[1]] = x]
  BY <1>1, <1>3, PutSound
<1>5. PutFile(s, l, f) = t
  BY DEF PutFile, Put, x, c
<1> HIDE DEF t
<1>6. \A b \in Block : t.mem[b] = IF b = l[1] THEN x ELSE s.mem[b]
  <2>1. s.mem \in [Block -> Value] BY DEF State, Image
  <2> QED BY <1>4, <2>1
<1>7. ASSUME NEW k \in Loc PROVE FileAt(t.mem, k) = IF k = l THEN f ELSE FileAt(s.mem, k)
  <2>1. k[1] \in Block /\ k[2] \in 1..BLKFILES BY Fields, Typed
  <2>2. k = l <=> k[1] = l[1] /\ k[2] = l[2]
    BY DEF Loc, Root
  <2> QED BY <2>1, <2>2, <1>2, <1>6 DEF FileAt, c
<1>8. \A b \in Block : b # Bitmap => t.mem[b].ptr = s.mem[b].ptr /\ t.mem[b].byte = s.mem[b].byte
  BY <1>6, <1>2 DEF c
<1>9. t.mem[Bitmap] = s.mem[Bitmap]
  BY <1>6, <1>1, Numbers
<1> QED BY <1>4, <1>5, <1>6, <1>7, <1>8, <1>9

-----------------------------------------------------------------------------
(* Block pointers.                                                         *)

\* The block pointers of a struct File by number: those of its blocks, then
\* the one to its indirect block.
Ref(m, l, i) == IF i = MaxBlocks THEN FileAt(m, l).ind
                ELSE IF HasSlot(m, l, i) THEN Slot(m, l, i) ELSE NullPtr

\* The struct Files in use or blank: the root and the entries of its blocks.
Locs(m) == {Root} \cup
  (({Ref(m, Root, i) : i \in 0..MaxBlocks-1} \ {NullPtr}) \X (1..BLKFILES))

\* What Ref is, pointer by pointer.
LEMMA RefParts ==
  ASSUME NEW m \in Image, NEW l \in Loc
  PROVE  /\ FileAt(m, l).ind \in Pointer
         /\ Ref(m, l, MaxBlocks) = FileAt(m, l).ind
         /\ \A i \in 0..NDIRECT-1 : /\ i \in 0..MaxBlocks-1
                                    /\ Ref(m, l, i) = FileAt(m, l).direct[i]
                                    /\ FileAt(m, l).direct[i] \in Pointer
         /\ \A i \in NDIRECT..MaxBlocks-1 :
              /\ i - NDIRECT \in 0..NINDIRECT-1 /\ i \in 0..MaxBlocks-1
              /\ Ref(m, l, i) = IF FileAt(m, l).ind = NullPtr THEN NullPtr
                                ELSE m[FileAt(m, l).ind].ptr[i - NDIRECT]
         /\ \A i \in 0..MaxBlocks : Ref(m, l, i) \in Pointer
         /\ \A i \in 0..MaxBlocks : \/ i \in 0..NDIRECT-1
                                    \/ i \in NDIRECT..MaxBlocks-1
                                    \/ i = MaxBlocks
<1> DEFINE f == FileAt(m, l)
<1>1. f \in File
  BY Typed
<1> HIDE DEF f
<1>2. f.ind \in Pointer /\ \A i \in 0..NDIRECT-1 : f.direct[i] \in Pointer
  BY <1>1 DEF File
<1>3. f.ind \in Plain /\ \A i \in 0..NINDIRECT-1 : m[f.ind].ptr[i] \in Pointer
  BY <1>2, Typed, Numbers
<1>4. Ref(m, l, MaxBlocks) = f.ind
  BY DEF Ref, f
<1>5. \A i \in 0..NDIRECT-1 : i \in 0..MaxBlocks-1 /\ Ref(m, l, i) = f.direct[i]
  BY Numbers DEF Ref, HasSlot, Slot, f, MaxBlocks
<1>6. ASSUME NEW i \in NDIRECT..MaxBlocks-1
      PROVE  /\ i - NDIRECT \in 0..NINDIRECT-1 /\ i \in 0..MaxBlocks-1
             /\ Ref(m, l, i) = IF f.ind = NullPtr THEN NullPtr ELSE m[f.ind].ptr[i - NDIRECT]
  BY Numbers DEF Ref, HasSlot, Slot, f, MaxBlocks
<1>7. \A i \in 0..MaxBlocks : \/ i \in 0..NDIRECT-1 \/ i \in NDIRECT..MaxBlocks-1 \/ i = MaxBlocks
  BY Numbers DEF MaxBlocks
<1>8. NullPtr \in Pointer BY DEF Pointer
<1>9. \A i \in 0..MaxBlocks : Ref(m, l, i) \in Pointer
  BY <1>2, <1>3, <1>4, <1>5, <1>6, <1>7, <1>8
<1> QED BY <1>2, <1>4, <1>5, <1>6, <1>7, <1>9 DEF f

\* Where a struct File in use can be.
LEMMA LocsParts ==
  ASSUME NEW m \in Image
  PROVE  /\ Locs(m) \subseteq Loc /\ Root \in Locs(m) /\ Root \in Loc
         /\ \A i \in 0..MaxBlocks-1, j \in 1..BLKFILES :
              Ref(m, Root, i) # NullPtr => <<Ref(m, Root, i), j>> \in Locs(m)
         /\ \A l \in Locs(m) : l # Root =>
              /\ l[1] \in Usable /\ l[2] \in 1..BLKFILES /\ l = <<l[1], l[2]>>
              /\ \E i \in 0..MaxBlocks-1 : Ref(m, Root, i) = l[1]
<1>1. Root \in Loc BY DEF Loc
<1>2. \A i \in 0..MaxBlocks-1 : Ref(m, Root, i) \in Pointer
  BY <1>1, RefParts, Numbers
<1>3. Pointer \ {NullPtr} \subseteq Usable BY DEF Pointer
<1>4. ASSUME NEW l \in Locs(m), l # Root
      PROVE  /\ l[1] \in Usable /\ l[2] \in 1..BLKFILES /\ l = <<l[1], l[2]>> /\ l \in Loc
             /\ \E i \in 0..MaxBlocks-1 : Ref(m, Root, i) = l[1]
  <2>1. l \in ({Ref(m, Root, i) : i \in 0..MaxBlocks-1} \ {NullPtr}) \X (1..BLKFILES)
    BY <1>4 DEF Locs
  <2>2. l[1] \in {Ref(m, Root, i) : i \in 0..MaxBlocks-1} \ {NullPtr} /\ l[2] \in 1..BLKFILES
        /\ l = <<l[1], l[2]>>
    BY <2>1
  <2>3. l[1] \in Usable BY <2>2, <1>2, <1>3
  <2>4. l \in Loc BY <2>2, <2>3, Numbers DEF Loc
  <2> QED BY <2>2, <2>3, <2>4
<1>5. ASSUME NEW i \in 0..MaxBlocks-1, NEW j \in 1..BLKFILES, Ref(m, Root, i) # NullPtr
      PROVE  <<Ref(m, Root, i), j>> \in Locs(m)
  BY <1>5 DEF Locs
<1>6. Root \in Locs(m) BY DEF Locs
<1>7. Locs(m) \subseteq Loc BY <1>1, <1>4
<1> QED BY <1>1, <1>4, <1>5, <1>6, <1>7

\* The blocks of m and who has them.
Apart(m) == \A l, k \in Locs(m), i, j \in 0..MaxBlocks :
  Ref(m, l, i) # NullPtr /\ Ref(m, l, i) = Ref(m, k, j) => l = k /\ i = j
NotFree(m) == \A l \in Locs(m), i \in 0..MaxBlocks : Ref(m, l, i) \notin m[Bitmap]
AllFound(m) == \A b \in Usable :
  b \in m[Bitmap] \/ \E l \in Locs(m), i \in 0..MaxBlocks : Ref(m, l, i) = b
WithinSize(m) == \A l \in Locs(m), i \in 0..MaxBlocks-1 :
  Ref(m, l, i) # NullPtr => i < Blocks(FileAt(m, l).size)
BlankOwnsNothing(m) == \A l \in Locs(m) : l # Root /\ FileAt(m, l).name = NoName =>
  \A i \in 0..MaxBlocks : Ref(m, l, i) = NullPtr
Sound(m) == Apart(m) /\ NotFree(m) /\ WithinSize(m) /\ BlankOwnsNothing(m)
Owned(m) == Sound(m) /\ (crashes = 0 => AllFound(m))

\* The files of m are in n too, under the same name.
KeepsNames(m, n) == \A l \in Locs(m) : l \in Locs(n) /\ FileAt(n, l).name = FileAt(m, l).name
KeepsSizes(m, n) == \A l \in Locs(m) : FileAt(n, l).size = FileAt(m, l).size
Keeps(m, n) == KeepsNames(m, n) /\ KeepsSizes(m, n)

\* Keeping names and sizes composes over the steps of an operation.
LEMMA KeepsTransitive ==
  ASSUME NEW m, NEW n, NEW o
  PROVE  /\ Keeps(m, m)
         /\ KeepsNames(m, n) /\ KeepsNames(n, o) => KeepsNames(m, o)
         /\ Keeps(m, n) /\ Keeps(n, o) => Keeps(m, o)
BY DEF Keeps, KeepsNames, KeepsSizes

\* Equal pointers in the files of m and in its directory make equal files.
LEMMA SameLocs ==
  ASSUME NEW m \in Image, NEW n \in Image,
         \A i \in 0..MaxBlocks-1 : Ref(n, Root, i) = Ref(m, Root, i)
  PROVE  Locs(n) = Locs(m)
<1>1. {Ref(n, Root, i) : i \in 0..MaxBlocks-1} = {Ref(m, Root, i) : i \in 0..MaxBlocks-1}
  OBVIOUS
<1> QED BY <1>1 DEF Locs

\* A change of names, sizes and bytes alone.
LEMMA SameOwned ==
  ASSUME NEW m \in Image, NEW n \in Image, Owned(m), n[Bitmap] = m[Bitmap],
         \A l \in Locs(m), i \in 0..MaxBlocks : Ref(n, l, i) = Ref(m, l, i),
         \A l \in Locs(m) : FileAt(n, l).name = NoName => FileAt(m, l).name = NoName,
         \A l \in Locs(m), i \in 0..MaxBlocks-1 : 
           i < Blocks(FileAt(m, l).size) /\ Ref(m, l, i) # NullPtr => i < Blocks(FileAt(n, l).size)
  PROVE  Owned(n) /\ Locs(n) = Locs(m)
<1>0. 0..MaxBlocks-1 \subseteq 0..MaxBlocks BY Numbers
<1>1. Locs(n) = Locs(m)
  BY <1>0, SameLocs, LocsParts
<1>2. Apart(n) BY <1>1 DEF Owned, Sound, Apart
<1>3. NotFree(n) BY <1>1 DEF Owned, Sound, NotFree
<1>4. crashes = 0 => AllFound(n) BY <1>1 DEF Owned, Sound, AllFound
<1>5. WithinSize(n) BY <1>0, <1>1 DEF Owned, Sound, WithinSize
<1>6. BlankOwnsNothing(n) BY <1>1 DEF Owned, Sound, BlankOwnsNothing
<1> QED BY <1>1, <1>2, <1>3, <1>4, <1>5, <1>6 DEF Owned, Sound

\* A blank file has no blocks.
LEMMA BlankRefs ==
  ASSUME NEW m \in Image, NEW l \in Loc, FileAt(m, l) = BlankFile
  PROVE  \A i \in 0..MaxBlocks : Ref(m, l, i) = NullPtr
<1>1. BlankFile.ind = NullPtr /\ \A i \in 0..NDIRECT-1 : BlankFile.direct[i] = NullPtr
  BY DEF BlankFile
<1> QED BY <1>1, RefParts

\* A free block is made the i0-th of a file.
LEMMA TakeOwned ==
  ASSUME NEW m \in Image, NEW n \in Image, Owned(m),
         NEW l0 \in Locs(m), NEW i0 \in 0..MaxBlocks, NEW b \in Usable, b \in m[Bitmap],
         Ref(m, l0, i0) = NullPtr, l0 = Root \/ FileAt(m, l0).name # NoName,
         i0 < MaxBlocks => i0 < Blocks(FileAt(m, l0).size),
         n[Bitmap] = m[Bitmap] \ {b},
         \A l \in Locs(m), i \in 0..MaxBlocks :
           Ref(n, l, i) = IF l = l0 /\ i = i0 THEN b ELSE Ref(m, l, i),
         \A j \in 1..BLKFILES : FileAt(n, <<b, j>>) = BlankFile,
         \A l \in Locs(m) : FileAt(n, l).name = FileAt(m, l).name /\ FileAt(n, l).size = FileAt(m, l).size
  PROVE  /\ Owned(n) /\ Keeps(m, n)
         /\ \A l \in Locs(n) : l \in Locs(m) \/ (l[1] = b /\ FileAt(n, l) = BlankFile)
<1>0. /\ 0..MaxBlocks-1 \subseteq 0..MaxBlocks /\ b # NullPtr
      /\ \A i \in 0..MaxBlocks : i # MaxBlocks => i \in 0..MaxBlocks-1 /\ i < MaxBlocks
      /\ \A i \in 0..MaxBlocks-1 : i < MaxBlocks
  BY Numbers DEF NullPtr
<1>1. ASSUME NEW l \in Locs(m), NEW i \in 0..MaxBlocks, Ref(m, l, i) = b PROVE FALSE
  BY <1>1 DEF Owned, Sound, NotFree
<1>2. ASSUME NEW l \in Locs(m) PROVE l \in Locs(n)
  <2>1. CASE l = Root BY <2>1, LocsParts
  <2>2. CASE l # Root
    <3>1. PICK i \in 0..MaxBlocks-1 : Ref(m, Root, i) = l[1] BY <2>2, LocsParts
    <3>2. l[1] \in Usable /\ l[2] \in 1..BLKFILES /\ l = <<l[1], l[2]>> BY <2>2, LocsParts
    <3>3. Ref(m, Root, i) # NullPtr BY <3>1, <3>2, Numbers DEF NullPtr
    <3>4. Ref(n, Root, i) = l[1] BY <1>0, <3>1, <3>3, LocsParts
    <3> QED BY <3>2, <3>3, <3>4, <3>1, LocsParts
  <2> QED BY <2>1, <2>2
<1>3. ASSUME NEW l \in Locs(n), l \notin Locs(m)
      PROVE  /\ l[1] = b /\ FileAt(n, l) = BlankFile
             /\ \A i \in 0..MaxBlocks : Ref(n, l, i) = NullPtr
  <2>1. l # Root /\ l \in Loc BY <1>3, LocsParts
  <2>2. PICK i \in 0..MaxBlocks-1 : Ref(n, Root, i) = l[1] BY <2>1, LocsParts
  <2>3. l[1] \in Usable /\ l[2] \in 1..BLKFILES /\ l = <<l[1], l[2]>> BY <2>1, LocsParts
  <2>4. l[1] = b
    <3>1. ASSUME l[1] # b PROVE FALSE
      <4>1. Ref(m, Root, i) = l[1] BY <3>1, <2>2, <1>0, LocsParts
      <4>2. l[1] # NullPtr BY <2>3, Numbers DEF NullPtr
      <4> QED BY <4>1, <4>2, <2>3, <1>3, LocsParts
    <3> QED BY <3>1
  <2>5. FileAt(n, l) = BlankFile BY <2>3, <2>4
  <2> QED BY <2>1, <2>4, <2>5, BlankRefs
<1>4. Apart(n)
  <2> SUFFICES ASSUME NEW l \in Locs(n), NEW k \in Locs(n), NEW i \in 0..MaxBlocks, NEW j \in 0..MaxBlocks,
                      Ref(n, l, i) # NullPtr, Ref(n, l, i) = Ref(n, k, j)
               PROVE  l = k /\ i = j
    BY DEF Apart
  <2>1. l \in Locs(m) /\ k \in Locs(m) BY <1>3
  <2>2. CASE l = l0 /\ i = i0
    <3>1. Ref(n, k, j) = b BY <2>1, <2>2
    <3> QED BY <3>1, <2>1, <2>2, <1>1
  <2>3. CASE k = l0 /\ j = i0
    <3>1. Ref(n, l, i) = b BY <2>1, <2>3
    <3> QED BY <3>1, <2>1, <2>3, <1>1
  <2>4. CASE ~(l = l0 /\ i = i0) /\ ~(k = l0 /\ j = i0)
    <3>1. Ref(m, l, i) # NullPtr /\ Ref(m, l, i) = Ref(m, k, j) BY <2>1, <2>4
    <3> QED BY <3>1, <2>1 DEF Owned, Sound, Apart
  <2> QED BY <2>2, <2>3, <2>4
<1>5. NotFree(n)
  <2> SUFFICES ASSUME NEW l \in Locs(n), NEW i \in 0..MaxBlocks
               PROVE  Ref(n, l, i) \notin n[Bitmap]
    BY DEF NotFree
  <2>1. NullPtr \notin n[Bitmap] BY Typed, Numbers DEF NullPtr
  <2>2. CASE l \notin Locs(m) BY <2>1, <2>2, <1>3
  <2>3. CASE l \in Locs(m) BY <2>3 DEF Owned, Sound, NotFree
  <2> QED BY <2>2, <2>3
<1>6. crashes = 0 => AllFound(n)
  <2> SUFFICES ASSUME crashes = 0, NEW c \in Usable, c \notin n[Bitmap]
               PROVE  \E l \in Locs(n), i \in 0..MaxBlocks : Ref(n, l, i) = c
    BY DEF AllFound
  <2>1. CASE c = b
    <3>1. l0 \in Locs(n) /\ Ref(n, l0, i0) = c BY <2>1, <1>2
    <3> QED BY <3>1
  <2>2. CASE c # b
    <3>1. PICK l \in Locs(m), i \in 0..MaxBlocks : Ref(m, l, i) = c
      BY <2>2 DEF Owned, Sound, AllFound
    <3>2. c # NullPtr BY Numbers DEF NullPtr
    <3>3. l \in Locs(n) /\ Ref(n, l, i) = c BY <3>1, <3>2, <1>2
    <3> QED BY <3>3
  <2> QED BY <2>1, <2>2
<1>7. WithinSize(n)
  <2> SUFFICES ASSUME NEW l \in Locs(n), NEW i \in 0..MaxBlocks-1, Ref(n, l, i) # NullPtr
               PROVE  i < Blocks(FileAt(n, l).size)
    BY DEF WithinSize
  <2>1. l \in Locs(m) BY <1>0, <1>3
  <2>2. CASE l = l0 /\ i = i0 BY <2>1, <2>2, <1>0
  <2>3. CASE ~(l = l0 /\ i = i0)
    <3>1. Ref(m, l, i) # NullPtr BY <2>1, <2>3, <1>0
    <3> QED BY <3>1, <2>1 DEF Owned, Sound, WithinSize
  <2> QED BY <2>2, <2>3
<1>8. BlankOwnsNothing(n)
  <2> SUFFICES ASSUME NEW l \in Locs(n), l # Root, FileAt(n, l).name = NoName,
                      NEW i \in 0..MaxBlocks
               PROVE  Ref(n, l, i) = NullPtr
    BY DEF BlankOwnsNothing
  <2>1. CASE l \notin Locs(m) BY <2>1, <1>3
  <2>2. CASE l \in Locs(m) BY <2>2 DEF Owned, Sound, BlankOwnsNothing
  <2> QED BY <2>1, <2>2
<1>9. Keeps(m, n)
  BY <1>2 DEF Keeps, KeepsNames, KeepsSizes
<1>10. \A l \in Locs(n) : l \in Locs(m) \/ (l[1] = b /\ FileAt(n, l) = BlankFile)
  BY <1>3
<1> QED BY <1>4, <1>5, <1>6, <1>7, <1>8, <1>9, <1>10 DEF Owned, Sound

\* A file that is not the directory gives back its i0-th block.
LEMMA DropOwned ==
  ASSUME NEW m \in Image, NEW n \in Image, Owned(m),
         NEW l0 \in Locs(m), l0 # Root, NEW i0 \in 0..MaxBlocks, NEW b,
         b = Ref(m, l0, i0), b # NullPtr, n[Bitmap] = m[Bitmap] \cup {b},
         \A l \in Locs(m), i \in 0..MaxBlocks :
           Ref(n, l, i) = IF l = l0 /\ i = i0 THEN NullPtr ELSE Ref(m, l, i),
         \A l \in Locs(m) : FileAt(n, l).name = FileAt(m, l).name /\ FileAt(n, l).size = FileAt(m, l).size
  PROVE  Owned(n) /\ Keeps(m, n) /\ Locs(n) = Locs(m)
<1>0. 0..MaxBlocks-1 \subseteq 0..MaxBlocks BY Numbers
<1>1. Locs(n) = Locs(m)
  BY <1>0, SameLocs, LocsParts
<1>2. Apart(n) BY <1>1 DEF Owned, Sound, Apart
<1>3. NotFree(n)
  <2> SUFFICES ASSUME NEW l \in Locs(n), NEW i \in 0..MaxBlocks
               PROVE  Ref(n, l, i) \notin n[Bitmap]
    BY DEF NotFree
  <2>1. NullPtr \notin n[Bitmap] BY Typed, Numbers DEF NullPtr
  <2>2. CASE l = l0 /\ i = i0 BY <2>1, <2>2, <1>1
  <2>3. CASE ~(l = l0 /\ i = i0)
    <3>1. Ref(n, l, i) = Ref(m, l, i) BY <2>3, <1>1
    <3>2. Ref(m, l, i) # b BY <2>3, <1>1 DEF Owned, Sound, Apart
    <3>3. Ref(m, l, i) \notin m[Bitmap] BY <1>1 DEF Owned, Sound, NotFree
    <3> QED BY <3>1, <3>2, <3>3
  <2> QED BY <2>2, <2>3
<1>4. crashes = 0 => AllFound(n)
  <2> SUFFICES ASSUME crashes = 0, NEW c \in Usable, c \notin n[Bitmap]
               PROVE  \E l \in Locs(n), i \in 0..MaxBlocks : Ref(n, l, i) = c
    BY DEF AllFound
  <2>1. PICK l \in Locs(m), i \in 0..MaxBlocks : Ref(m, l, i) = c
    BY DEF Owned, Sound, AllFound
  <2>2. ~(l = l0 /\ i = i0) BY <2>1
  <2> QED BY <2>1, <2>2, <1>1
<1>5. WithinSize(n) BY <1>0, <1>1 DEF Owned, Sound, WithinSize
<1>6. BlankOwnsNothing(n) BY <1>1 DEF Owned, Sound, BlankOwnsNothing
<1>7. Keeps(m, n) BY <1>1 DEF Keeps, KeepsNames, KeepsSizes
<1> QED BY <1>1, <1>2, <1>3, <1>4, <1>5, <1>6, <1>7 DEF Owned, Sound

-----------------------------------------------------------------------------
(* Assignments to a pointer, and a new block.                              *)

\* What m and n have in common when only pointers differ: the bitmap, the
\* names and the sizes.
SameFace(m, n) ==
  \A l \in Loc : FileAt(n, l).name = FileAt(m, l).name /\ FileAt(n, l).size = FileAt(m, l).size

\* The file l0 of m gets the pointer p, number i0, and so n comes about.
Assigned(m, n, l0, i0, p) ==
  /\ n[Bitmap] = m[Bitmap]
  /\ SameFace(m, n)
  /\ \A k \in Loc : FileAt(n, k).ind = IF k = l0 /\ i0 = MaxBlocks THEN p ELSE FileAt(m, k).ind
  /\ \A k \in Loc, i \in 0..NDIRECT-1 : 
       FileAt(n, k).direct[i] = IF k = l0 /\ i0 = i THEN p ELSE FileAt(m, k).direct[i]
  /\ \A c \in Plain, i \in NDIRECT..MaxBlocks-1 :
       n[c].ptr[i - NDIRECT] = IF c = FileAt(m, l0).ind /\ i0 = i THEN p ELSE m[c].ptr[i - NDIRECT]

\* Setting the pointer to the indirect block assigns that pointer.
LEMMA SetIndirectSound ==
  ASSUME NEW s \in State, NEW l \in Loc, NEW b \in Pointer
  PROVE  LET t == SetIndirect(s, l, b)
         IN  /\ t \in State /\ t.err = s.err /\ t.at = s.at /\ SameDisk(s, t)
             /\ Assigned(s.mem, t.mem, l, MaxBlocks, b)
<1> DEFINE e == FileAt(s.mem, l)
           f == [e EXCEPT !.ind = b]
           t == PutFile(s, l, f)
<1>1. e \in File /\ (l = Root => e.size % BLKSIZE = 0)
  BY Fields, Typed
<1>2. f \in File /\ f.name = e.name /\ f.size = e.size /\ f.direct = e.direct /\ f.ind = b
  <2> HIDE DEF e
  <2> QED BY <1>1 DEF File
<1> HIDE DEF f
<1>3. /\ t \in State /\ t.err = s.err /\ t.at = s.at /\ SameDisk(s, t)
      /\ t.mem[Bitmap] = s.mem[Bitmap]
      /\ \A c \in Block : c # Bitmap => t.mem[c].ptr = s.mem[c].ptr
      /\ \A k \in Loc : FileAt(t.mem, k) = IF k = l THEN f ELSE FileAt(s.mem, k)
  BY <1>1, <1>2, PutFileSound
<1>4. SetIndirect(s, l, b) = t BY DEF SetIndirect, f
<1> HIDE DEF t
<1>5. Assigned(s.mem, t.mem, l, MaxBlocks, b)
  <2>1. \A i \in 0..MaxBlocks-1 : i # MaxBlocks
    BY Numbers
  <2>2. (\A i \in 0..NDIRECT-1 : i # MaxBlocks) /\ (\A i \in NDIRECT..MaxBlocks-1 : i # MaxBlocks)
    BY Numbers DEF MaxBlocks
  <2>3. \A c \in Plain : c \in Block /\ c # Bitmap BY Numbers
  <2> QED BY <1>2, <1>3, <2>2, <2>3 DEF Assigned, SameFace
<1> QED BY <1>3, <1>4, <1>5

\* An assignment to the pointer file_block_walk finds.
LEMMA SetSlotSound ==
  ASSUME NEW s \in State, NEW l \in Loc, NEW i0 \in 0..MaxBlocks-1, NEW b \in Pointer
  PROVE  LET t == SetSlot(s, l, i0, b)
         IN  /\ t \in State /\ t.err = s.err /\ t.at = s.at /\ SameDisk(s, t)
             /\ Assigned(s.mem, t.mem, l, i0, b)
<1>0. i0 # MaxBlocks /\ i0 \in Nat BY Numbers
<1>1. CASE i0 < NDIRECT
  <2> DEFINE e == FileAt(s.mem, l)
             f == [e EXCEPT !.direct[i0] = b]
             t == PutFile(s, l, f)
  <2>0. i0 \in 0..NDIRECT-1 /\ \A i \in NDIRECT..MaxBlocks-1 : i # i0 BY <1>1, <1>0, Numbers
  <2>1. e \in File /\ (l = Root => e.size % BLKSIZE = 0)
    BY Fields, Typed
  <2>2. /\ f \in File /\ f.name = e.name /\ f.size = e.size /\ f.ind = e.ind
        /\ \A i \in 0..NDIRECT-1 : f.direct[i] = IF i = i0 THEN b ELSE e.direct[i]
    <3> HIDE DEF e
    <3>1. f = [e EXCEPT !.direct = [e.direct EXCEPT ![i0] = b]] OBVIOUS
    <3>2. e.direct \in [0..NDIRECT-1 -> Pointer] BY <2>1 DEF File
    <3>3. [e.direct EXCEPT ![i0] = b] \in [0..NDIRECT-1 -> Pointer] BY <3>2
    <3> QED BY <3>1, <3>2, <3>3, <2>1 DEF File
  <2> HIDE DEF f
  <2>3. /\ t \in State /\ t.err = s.err /\ t.at = s.at /\ SameDisk(s, t)
        /\ t.mem[Bitmap] = s.mem[Bitmap]
        /\ \A c \in Block : c # Bitmap => t.mem[c].ptr = s.mem[c].ptr
        /\ \A k \in Loc : FileAt(t.mem, k) = IF k = l THEN f ELSE FileAt(s.mem, k)
    BY <2>1, <2>2, PutFileSound
  <2>4. SetSlot(s, l, i0, b) = t BY <1>1 DEF SetSlot, f
  <2> HIDE DEF t
  <2>5. Assigned(s.mem, t.mem, l, i0, b)
    <3>1. \A c \in Plain : c \in Block /\ c # Bitmap BY Numbers
    <3> QED BY <1>0, <2>0, <2>2, <2>3, <3>1 DEF Assigned, SameFace
  <2> QED BY <2>3, <2>4, <2>5
<1>2. CASE ~(i0 < NDIRECT)
  <2> DEFINE d == FileAt(s.mem, l).ind
             c == s.mem[d]
             x == [c EXCEPT !.ptr[i0 - NDIRECT] = b]
             t == Put(s, d, x)
  <2>0. /\ i0 - NDIRECT \in 0..NINDIRECT-1 /\ \A i \in 0..NDIRECT-1 : i # i0
        /\ \A i \in NDIRECT..MaxBlocks-1 : /\ i - NDIRECT \in 0..NINDIRECT-1
                                           /\ i - NDIRECT = i0 - NDIRECT <=> i = i0
    BY <1>2, <1>0, Numbers DEF MaxBlocks
  <2>1. d \in Plain BY RefParts, Numbers, Fields
  <2>2. c \in Content BY <2>1, Typed, Fields
  <2>3. /\ x \in Content /\ x.file = c.file
        /\ \A j \in 0..NINDIRECT-1 : x.ptr[j] = IF j = i0 - NDIRECT THEN b ELSE c.ptr[j]
    <3> HIDE DEF c
    <3>1. x = [c EXCEPT !.ptr = [c.ptr EXCEPT ![i0 - NDIRECT] = b]] OBVIOUS
    <3>2. c.ptr \in [0..NINDIRECT-1 -> Pointer] BY <2>2 DEF Content
    <3>3. [c.ptr EXCEPT ![i0 - NDIRECT] = b] \in [0..NINDIRECT-1 -> Pointer] BY <3>2
    <3> QED BY <3>1, <3>2, <3>3, <2>0, <2>2 DEF Content
  <2>4. d \in Block /\ d # Bitmap /\ d # Super BY <2>1, Numbers
  <2>5. SetSlot(s, l, i0, b) = t BY <1>2 DEF SetSlot, Put
  <2> HIDE DEF x
  <2>6. Fits(d, x) BY <2>3, <2>4 DEF Fits
  <2>7. t \in State /\ t.mem = [s.mem EXCEPT ![d] = x] /\ t.err = s.err /\ t.at = s.at
        /\ SameDisk(s, t)
    BY <2>4, <2>6, PutSound
  <2> HIDE DEF t
  <2>8. \A a \in Block : t.mem[a] = IF a = d THEN x ELSE s.mem[a]
    <3>1. s.mem \in [Block -> Value] BY DEF State, Image
    <3> QED BY <2>7, <3>1
  <2>9. \A k \in Loc : FileAt(t.mem, k) = FileAt(s.mem, k)
    <3> TAKE k \in Loc
    <3>1. k[1] \in Block BY Fields, Typed
    <3> QED BY <3>1, <2>8, <2>3 DEF FileAt
  <2>10. t.mem[Bitmap] = s.mem[Bitmap] BY <2>8, <2>4, Numbers
  <2>11. \A a \in Plain, i \in NDIRECT..MaxBlocks-1 :
       t.mem[a].ptr[i - NDIRECT] = IF a = d /\ i0 = i THEN b ELSE s.mem[a].ptr[i - NDIRECT]
    <3> TAKE a \in Plain, i \in NDIRECT..MaxBlocks-1
    <3>1. a \in Block BY Numbers
    <3>2. t.mem[a] = IF a = d THEN x ELSE s.mem[a] BY <2>8, <3>1
    <3> QED BY <3>2, <2>0, <2>3
  <2>12. Assigned(s.mem, t.mem, l, i0, b)
    <3> HIDE DEF d
    <3> QED BY <1>0, <2>0, <2>9, <2>10, <2>11 DEF Assigned, SameFace, d
  <2> QED BY <2>5, <2>7, <2>12
<1> QED BY <1>1, <1>2

\* The block b of m is zeroed, and so n comes about.
Zeroed(m, n, b) ==
  /\ n[Bitmap] = m[Bitmap]
  /\ \A k \in Loc : FileAt(n, k) = IF k[1] = b THEN BlankFile ELSE FileAt(m, k)
  /\ \A j \in 1..BLKFILES : FileAt(n, <<b, j>>) = BlankFile
  /\ \A i \in 0..NINDIRECT-1 : n[b].ptr[i] = NullPtr
  /\ \A c \in Plain : c # b => n[c].ptr = m[c].ptr

\* Clearing a block changes that block only.
LEMMA ClearSound ==
  ASSUME NEW s \in State, NEW b \in Usable
  PROVE  LET t == Clear(s, b)
         IN  t \in State /\ t.err = s.err /\ t.at = s.at /\ Zeroed(s.mem, t.mem, b)
<1> DEFINE p == Put(s, b, ZeroBlock)
           t == FlushBlock(p, b)
<1>0. b \in Block /\ b # Bitmap /\ b \in Plain /\ b \in 1..NBLOCKS-1 BY Numbers
<1>1. p \in State /\ p.mem = [s.mem EXCEPT ![b] = ZeroBlock] /\ p.err = s.err /\ p.at = s.at
  BY <1>0, ZeroFits, PutSound
<1>2. Clear(s, b) = t BY DEF Clear, Put
<1> HIDE DEF p
<1>3. t \in State /\ t.mem = p.mem /\ t.err = p.err /\ t.at = p.at
  BY <1>0, <1>1, FlushSound
<1> HIDE DEF t
<1>4. \A a \in Block : t.mem[a] = IF a = b THEN ZeroBlock ELSE s.mem[a]
  <2>1. s.mem \in [Block -> Value] BY DEF State, Image
  <2> QED BY <1>1, <1>3, <2>1
<1>5. /\ \A j \in 1..BLKFILES : ZeroBlock.file[j] = BlankFile
      /\ \A i \in 0..NINDIRECT-1 : ZeroBlock.ptr[i] = NullPtr
  BY DEF ZeroBlock
<1>6. ASSUME NEW k \in Loc PROVE FileAt(t.mem, k) = IF k[1] = b THEN BlankFile ELSE FileAt(s.mem, k)
  <2>1. k[1] \in Block /\ k[2] \in 1..BLKFILES BY Fields, Typed
  <2> QED BY <2>1, <1>4, <1>5 DEF FileAt
<1>7. \A j \in 1..BLKFILES : FileAt(t.mem, <<b, j>>) = BlankFile
  BY <1>0, <1>4, <1>5 DEF FileAt
<1>8. \A i \in 0..NINDIRECT-1 : t.mem[b].ptr[i] = NullPtr
  BY <1>0, <1>4, <1>5
<1>9. \A c \in Plain : c # b => t.mem[c].ptr = s.mem[c].ptr
  BY <1>4, Numbers
<1>10. t.mem[Bitmap] = s.mem[Bitmap]
  BY <1>0, <1>4, Numbers
<1>11. Zeroed(s.mem, t.mem, b)
  BY <1>6, <1>7, <1>8, <1>9, <1>10 DEF Zeroed
<1> QED BY <1>1, <1>2, <1>3, <1>11

\* Blocks change in the bitmap only.
MarkedOnly(m, n) == \A c \in Block : c # Bitmap => n[c] = m[c]

\* A change of the bitmap alone changes no file.
LEMMA MarkedSame ==
  ASSUME NEW m \in Image, NEW n \in Image, MarkedOnly(m, n)
  PROVE  /\ \A l \in Loc : FileAt(n, l) = FileAt(m, l)
         /\ \A c \in Plain : n[c] = m[c]
         /\ \A l \in Loc, i \in 0..MaxBlocks : Ref(n, l, i) = Ref(m, l, i)
         /\ Locs(n) = Locs(m)
<1>1. \A l \in Loc : FileAt(n, l) = FileAt(m, l)
  BY Typed DEF FileAt, MarkedOnly
<1>2. \A c \in Plain : n[c] = m[c]
  BY Numbers DEF MarkedOnly
<1>3. ASSUME NEW l \in Loc, NEW i \in 0..MaxBlocks PROVE Ref(n, l, i) = Ref(m, l, i)
  <2>1. FileAt(m, l).ind \in Plain BY RefParts, Numbers
  <2>2. n[FileAt(n, l).ind] = m[FileAt(m, l).ind] BY <1>1, <1>2, <2>1
  <2> QED BY <1>1, <2>2 DEF Ref, HasSlot, Slot
<1>4. Locs(n) = Locs(m)
  <2>1. 0..MaxBlocks-1 \subseteq 0..MaxBlocks BY Numbers
  <2> QED BY <2>1, <1>3, SameLocs, LocsParts
<1> QED BY <1>1, <1>2, <1>3, <1>4

\* Nobody else's pointers change with an assignment, because no two files of m
\* share their indirect block.
LEMMA AssignedRefs ==
  ASSUME NEW m \in Image, NEW n \in Image, Apart(m),
         NEW l0 \in Locs(m), NEW i0 \in 0..MaxBlocks-1, NEW p \in Pointer,
         i0 \in NDIRECT..MaxBlocks-1 => FileAt(m, l0).ind # NullPtr,
         Assigned(m, n, l0, i0, p)
  PROVE  \A l \in Locs(m), i \in 0..MaxBlocks :
           Ref(n, l, i) = IF l = l0 /\ i = i0 THEN p ELSE Ref(m, l, i)
<1> SUFFICES ASSUME NEW l \in Locs(m), NEW i \in 0..MaxBlocks
             PROVE  Ref(n, l, i) = IF l = l0 /\ i = i0 THEN p ELSE Ref(m, l, i)
  OBVIOUS
<1>0. l \in Loc /\ l0 \in Loc /\ MaxBlocks \in 0..MaxBlocks /\ i0 # MaxBlocks
  BY LocsParts, Numbers
<1>1. FileAt(n, l).ind = FileAt(m, l).ind
  BY <1>0 DEF Assigned
<1>2. CASE i = MaxBlocks
  BY <1>0, <1>1, <1>2, RefParts
<1>3. CASE i \in 0..NDIRECT-1
  <2>1. Ref(n, l, i) = FileAt(n, l).direct[i] /\ Ref(m, l, i) = FileAt(m, l).direct[i]
    BY <1>0, <1>3, RefParts
  <2> QED BY <2>1, <1>0, <1>3 DEF Assigned
<1>4. CASE i \in NDIRECT..MaxBlocks-1
  <2> DEFINE d == FileAt(m, l).ind
  <2>1. d \in Plain BY <1>0, RefParts, Numbers
  <2>2. /\ Ref(n, l, i) = IF d = NullPtr THEN NullPtr ELSE n[d].ptr[i - NDIRECT]
        /\ Ref(m, l, i) = IF d = NullPtr THEN NullPtr ELSE m[d].ptr[i - NDIRECT]
    BY <1>0, <1>1, <1>4, RefParts
  <2>3. n[d].ptr[i - NDIRECT] = IF d = FileAt(m, l0).ind /\ i0 = i THEN p ELSE m[d].ptr[i - NDIRECT]
    BY <2>1, <1>4 DEF Assigned
  <2>4. d # NullPtr => (d = FileAt(m, l0).ind <=> l = l0)
    <3>1. Ref(m, l, MaxBlocks) = d /\ Ref(m, l0, MaxBlocks) = FileAt(m, l0).ind
      BY <1>0, RefParts
    <3> QED BY <3>1, <1>0 DEF Apart
  <2> QED BY <2>2, <2>3, <2>4, <1>4
<1> QED BY <1>0, <1>2, <1>3, <1>4, RefParts

\* AllocBlock marks a free block, the pointer is assigned, and the block is
\* zeroed: the file has a new block.
LEMMA NewBlockOwned ==
  ASSUME NEW m \in Image, NEW m1 \in Image, NEW m2 \in Image, NEW n \in Image, Owned(m),
         NEW l0 \in Locs(m), NEW i0 \in 0..MaxBlocks, NEW b \in Usable, b \in m[Bitmap],
         Ref(m, l0, i0) = NullPtr, l0 = Root \/ FileAt(m, l0).name # NoName,
         i0 < MaxBlocks => i0 < Blocks(FileAt(m, l0).size),
         i0 \in NDIRECT..MaxBlocks-1 => FileAt(m, l0).ind # NullPtr,
         MarkedOnly(m, m1), m1[Bitmap] = m[Bitmap] \ {b},
         Assigned(m1, m2, l0, i0, b), Zeroed(m2, n, b)
  PROVE  /\ Owned(n) /\ Keeps(m, n)
         /\ \A k \in Locs(m), i \in 0..MaxBlocks :
              Ref(n, k, i) = IF k = l0 /\ i = i0 THEN b ELSE Ref(m, k, i)
         /\ \A k \in Locs(m) : k[1] # b /\ FileAt(m, k).ind # b
         /\ \A k \in Locs(n) : k \in Locs(m) \/ (k[1] = b /\ FileAt(n, k) = BlankFile)
<1>1. /\ \A l \in Loc : FileAt(m1, l) = FileAt(m, l)
      /\ \A c \in Plain : m1[c] = m[c]
      /\ \A l \in Loc, i \in 0..MaxBlocks : Ref(m1, l, i) = Ref(m, l, i)
      /\ Locs(m1) = Locs(m)
  BY MarkedSame
<1>2. Apart(m1)
  BY <1>1, LocsParts DEF Owned, Sound, Apart
<1>3. b \in Pointer /\ b # NullPtr /\ 0..MaxBlocks-1 \subseteq 0..MaxBlocks /\ MaxBlocks \in 0..MaxBlocks
      /\ \A i \in 0..MaxBlocks : i = MaxBlocks \/ i \in 0..MaxBlocks-1
  BY Numbers DEF Pointer, NullPtr
<1>4. ASSUME NEW k \in Locs(m)
      PROVE  k \in Loc /\ k[1] # b /\ FileAt(m, k).ind # b /\ FileAt(m, k).ind \in Plain
  <2>1. k \in Loc BY LocsParts
  <2>2. FileAt(m, k).ind # b
    <3>1. Ref(m, k, MaxBlocks) # b BY <1>3 DEF Owned, Sound, NotFree
    <3> QED BY <2>1, <3>1, RefParts
  <2>3. k[1] # b
    <3>1. CASE k = Root BY <3>1, Numbers DEF Root
    <3>2. CASE k # Root
      <4>1. PICK i \in 0..MaxBlocks-1 : Ref(m, Root, i) = k[1] BY <3>2, LocsParts
      <4>2. Ref(m, Root, i) \notin m[Bitmap] BY <1>3, LocsParts DEF Owned, Sound, NotFree
      <4> QED BY <4>1, <4>2
    <3> QED BY <3>1, <3>2
  <2> QED BY <2>1, <2>2, <2>3, RefParts, Numbers
<1>5. ASSUME NEW k \in Locs(m), NEW i \in 0..MaxBlocks
      PROVE  Ref(n, k, i) = IF k = l0 /\ i = i0 THEN b ELSE Ref(m, k, i)
  <2>0. k \in Loc /\ k[1] # b /\ FileAt(n, k) = FileAt(m2, k) /\ l0 \in Loc
    BY <1>4 DEF Zeroed
  <2>1. CASE i0 # MaxBlocks
    <3>0. i0 \in 0..MaxBlocks-1 BY <1>3, <2>1
    <3>1. Ref(m2, k, i) = IF k = l0 /\ i = i0 THEN b ELSE Ref(m, k, i)
      <4>1. i0 \in NDIRECT..MaxBlocks-1 => FileAt(m1, l0).ind # NullPtr BY <1>1, <2>0
      <4>2. l0 \in Locs(m1) /\ k \in Locs(m1) BY <1>1
      <4>3. Ref(m2, k, i) = IF k = l0 /\ i = i0 THEN b ELSE Ref(m1, k, i)
        BY <1>2, <1>3, <3>0, <4>1, <4>2, AssignedRefs
      <4> QED BY <4>3, <1>1, <2>0
    <3>2. FileAt(m2, k).ind = FileAt(m, k).ind
      BY <2>1, <2>0, <1>1 DEF Assigned
    <3>3. n[FileAt(m, k).ind].ptr = m2[FileAt(m, k).ind].ptr
      BY <1>4 DEF Zeroed
    <3>4. Ref(n, k, i) = Ref(m2, k, i)
      BY <2>0, <3>2, <3>3 DEF Ref, HasSlot, Slot
    <3> QED BY <3>1, <3>4
  <2>2. CASE i0 = MaxBlocks
    <3>1. FileAt(n, k).ind = IF k = l0 THEN b ELSE FileAt(m, k).ind
      BY <2>2, <2>0, <1>1 DEF Assigned
    <3>2. CASE i = MaxBlocks
      BY <2>0, <2>2, <3>1, <3>2, RefParts
    <3>3. CASE i \in 0..NDIRECT-1
      <4>1. i # i0 BY <2>2, <3>3, Numbers DEF MaxBlocks
      <4>2. FileAt(n, k).direct[i] = FileAt(m, k).direct[i]
        BY <4>1, <2>0, <3>3, <1>1 DEF Assigned
      <4> QED BY <2>0, <3>3, <4>1, <4>2, RefParts
    <3>4. CASE i \in NDIRECT..MaxBlocks-1
      <4>1. i # i0 BY <2>2, <3>4, Numbers DEF MaxBlocks
      <4>2. i - NDIRECT \in 0..NINDIRECT-1 BY <3>4, <2>0, RefParts
      <4>3. CASE k = l0
        <5>1. FileAt(m, k).ind = NullPtr BY <4>3, <2>0, <2>2, RefParts
        <5>2. Ref(m, k, i) = NullPtr BY <5>1, <2>0, <3>4, RefParts
        <5>3. Ref(n, k, i) = n[b].ptr[i - NDIRECT] BY <4>3, <3>1, <3>4, <2>0, <1>3, RefParts
        <5>4. n[b].ptr[i - NDIRECT] = NullPtr BY <4>2 DEF Zeroed
        <5> QED BY <5>2, <5>3, <5>4, <4>1
      <4>4. CASE k # l0
        <5> DEFINE d == FileAt(m, k).ind
        <5>1. d \in Plain /\ d # b BY <1>4
        <5>2. n[d].ptr = m2[d].ptr BY <5>1 DEF Zeroed
        <5>3. m2[d].ptr[i - NDIRECT] = m1[d].ptr[i - NDIRECT] BY <5>1, <3>4, <4>1 DEF Assigned
        <5>4. m1[d] = m[d] BY <5>1, <1>1
        <5>5. FileAt(n, k).ind = d BY <3>1, <4>4
        <5> HIDE DEF d
        <5>6. Ref(n, k, i) = IF d = NullPtr THEN NullPtr ELSE n[d].ptr[i - NDIRECT]
          BY <5>5, <2>0, <3>4, RefParts
        <5>7. Ref(m, k, i) = IF d = NullPtr THEN NullPtr ELSE m[d].ptr[i - NDIRECT]
          BY <2>0, <3>4, RefParts DEF d
        <5> QED BY <4>4, <5>2, <5>3, <5>4, <5>6, <5>7
      <4> QED BY <4>3, <4>4
    <3> QED BY <2>0, <3>2, <3>3, <3>4, RefParts
  <2> QED BY <2>1, <2>2
<1>6. \A l \in Locs(m) : FileAt(n, l).name = FileAt(m, l).name /\ FileAt(n, l).size = FileAt(m, l).size
  BY <1>1, <1>4 DEF Zeroed, Assigned, SameFace
<1>7. n[Bitmap] = m[Bitmap] \ {b} /\ \A j \in 1..BLKFILES : FileAt(n, <<b, j>>) = BlankFile
  BY DEF Zeroed, Assigned
<1>8. /\ Owned(n) /\ Keeps(m, n)
      /\ \A k \in Locs(n) : k \in Locs(m) \/ (k[1] = b /\ FileAt(n, k) = BlankFile)
  BY <1>5, <1>6, <1>7, TakeOwned
<1> QED BY <1>4, <1>5, <1>8

-----------------------------------------------------------------------------
(* The disk behind the cache.                                              *)

\* What image g has in the place where m has pointer i of file l.
RefIn(g, m, l, i) ==
  IF i = MaxBlocks THEN FileAt(g, l).ind
  ELSE IF i < NDIRECT THEN FileAt(g, l).direct[i]
  ELSE IF FileAt(m, l).ind = NullPtr THEN NullPtr
  ELSE g[FileAt(m, l).ind].ptr[i - NDIRECT]

\* A struct File without a pointer.
Bare(g, l) == FileAt(g, l).ind = NullPtr /\ \A i \in 0..NDIRECT-1 : FileAt(g, l).direct[i] = NullPtr

\* The directory has no block beyond its size.
RootWithin(g) == \A i \in 0..MaxBlocks-1 :
  Ref(g, Root, i) # NullPtr => i < Blocks(FileAt(g, Root).size)

\* The image g may be on the disk when m is in the cache: where m has a pointer,
\* g has the same one or none yet, and g has no block free that m uses.  The
\* size of a file is the same, because file_set_size writes it at once.
Behind(m, g) ==
  /\ g[Bitmap] \subseteq m[Bitmap]
  /\ \A l \in Locs(m), i \in 0..MaxBlocks : RefIn(g, m, l, i) \in {NullPtr, Ref(m, l, i)}
  /\ \A l \in Locs(m) : l # Root =>
       /\ FileAt(g, l).size = FileAt(m, l).size
       /\ FileAt(g, l).name \in {NoName, FileAt(m, l).name}
       /\ FileAt(g, l).name = NoName => Bare(g, l)
  /\ RootWithin(g)

\* The images a crash may leave.
Sounds == {g \in Image : Sound(g)}

\* The writes out lead from one image to the other, by way of sound ones only.
Leads(from, out, img) == \E g \in [0..Len(out) -> Sounds] :
  /\ g[0] = from /\ g[Len(out)] = img
  /\ \A i \in 1..Len(out) : g[i] = [g[i-1] EXCEPT ![out[i][1]] = out[i][2]]

\* RefIn pointer by pointer.
LEMMA RefInParts ==
  ASSUME NEW m \in Image, NEW g \in Image, NEW l \in Loc
  PROVE  /\ RefIn(g, m, l, MaxBlocks) = FileAt(g, l).ind
         /\ \A i \in 0..NDIRECT-1 : RefIn(g, m, l, i) = FileAt(g, l).direct[i]
         /\ \A i \in NDIRECT..MaxBlocks-1 : RefIn(g, m, l, i) =
              IF FileAt(m, l).ind = NullPtr THEN NullPtr ELSE g[FileAt(m, l).ind].ptr[i - NDIRECT]
<1>1. \A i \in 0..NDIRECT-1 : i # MaxBlocks /\ i < NDIRECT BY Numbers DEF MaxBlocks
<1>2. \A i \in NDIRECT..MaxBlocks-1 : i # MaxBlocks /\ ~(i < NDIRECT) BY Numbers DEF MaxBlocks
<1> QED BY <1>1, <1>2 DEF RefIn

\* A struct File has a pointer of another image, or none, where its pointer to
\* the indirect block is the other's or none.
LEMMA RefInRef ==
  ASSUME NEW m \in Image, NEW g \in Image, NEW l \in Loc,
         FileAt(g, l).ind \in {NullPtr, FileAt(m, l).ind}
  PROVE  \A i \in 0..MaxBlocks : Ref(g, l, i) \in {NullPtr, RefIn(g, m, l, i)}
<1> SUFFICES ASSUME NEW i \in 0..MaxBlocks PROVE Ref(g, l, i) \in {NullPtr, RefIn(g, m, l, i)}
  OBVIOUS
<1>1. CASE i = MaxBlocks BY <1>1, RefParts, RefInParts
<1>2. CASE i \in 0..NDIRECT-1 BY <1>2, RefParts, RefInParts
<1>3. CASE i \in NDIRECT..MaxBlocks-1
  <2>1. Ref(g, l, i) = IF FileAt(g, l).ind = NullPtr THEN NullPtr ELSE g[FileAt(g, l).ind].ptr[i - NDIRECT]
    BY <1>3, RefParts
  <2>2. RefIn(g, m, l, i) = IF FileAt(m, l).ind = NullPtr THEN NullPtr ELSE g[FileAt(m, l).ind].ptr[i - NDIRECT]
    BY <1>3, RefInParts
  <2> QED BY <2>1, <2>2
<1> QED BY <1>1, <1>2, <1>3, RefParts

\* In its own image, RefIn is Ref.
LEMMA RefInSelf ==
  ASSUME NEW m \in Image, NEW l \in Loc
  PROVE  \A i \in 0..MaxBlocks : RefIn(m, m, l, i) = Ref(m, l, i)
<1> SUFFICES ASSUME NEW i \in 0..MaxBlocks PROVE RefIn(m, m, l, i) = Ref(m, l, i)
  OBVIOUS
<1>1. CASE i = MaxBlocks BY <1>1, RefParts, RefInParts
<1>2. CASE i \in 0..NDIRECT-1 BY <1>2, RefParts, RefInParts
<1>3. CASE i \in NDIRECT..MaxBlocks-1 BY <1>3, RefParts, RefInParts
<1> QED BY <1>1, <1>2, <1>3, RefParts

\* A struct File without a pointer owns nothing.
LEMMA BareRefs ==
  ASSUME NEW m \in Image, NEW l \in Loc
  PROVE  Bare(m, l) <=> \A i \in 0..MaxBlocks : Ref(m, l, i) = NullPtr
<1>1. Bare(m, l) => \A i \in 0..MaxBlocks : Ref(m, l, i) = NullPtr
  BY RefParts DEF Bare
<1>2. ASSUME \A i \in 0..MaxBlocks : Ref(m, l, i) = NullPtr PROVE Bare(m, l)
  <2>1. MaxBlocks \in 0..MaxBlocks /\ \A i \in 0..NDIRECT-1 : i \in 0..MaxBlocks
    BY Numbers DEF MaxBlocks
  <2> QED BY <2>1, <1>2, RefParts DEF Bare
<1> QED BY <1>1, <1>2

\* An image behind a sound one is sound.
LEMMA BehindSound ==
  ASSUME NEW m \in Image, NEW g \in Image, Sound(m), Behind(m, g)
  PROVE  /\ Sound(g) /\ Locs(g) \subseteq Locs(m)
         /\ \A l \in Locs(m), i \in 0..MaxBlocks : Ref(g, l, i) \in {NullPtr, Ref(m, l, i)}
<1>0. /\ Locs(m) \subseteq Loc /\ Root \in Locs(m) /\ MaxBlocks \in 0..MaxBlocks
      /\ \A i \in 0..MaxBlocks-1 : i \in 0..MaxBlocks
  BY LocsParts, Numbers
<1>1. ASSUME NEW l \in Locs(m), NEW i \in 0..MaxBlocks PROVE Ref(g, l, i) \in {NullPtr, Ref(m, l, i)}
  <2>1. RefIn(g, m, l, MaxBlocks) \in {NullPtr, Ref(m, l, MaxBlocks)} BY <1>0 DEF Behind
  <2>2. FileAt(g, l).ind \in {NullPtr, FileAt(m, l).ind} BY <2>1, <1>0, RefParts, RefInParts
  <2>3. Ref(g, l, i) \in {NullPtr, RefIn(g, m, l, i)} BY <2>2, <1>0, RefInRef
  <2> QED BY <2>3 DEF Behind
<1>2. ASSUME NEW l \in Locs(g) PROVE l \in Locs(m)
  <2>1. CASE l # Root
    <3>1. /\ l[1] \in Usable /\ l[2] \in 1..BLKFILES /\ l = <<l[1], l[2]>>
          /\ \E i \in 0..MaxBlocks-1 : Ref(g, Root, i) = l[1]
      BY <2>1, LocsParts
    <3>2. l[1] # NullPtr BY <3>1, Numbers DEF NullPtr
    <3>3. \E i \in 0..MaxBlocks-1 : Ref(m, Root, i) = l[1] BY <1>0, <1>1, <3>1, <3>2
    <3> QED BY <3>1, <3>2, <3>3, LocsParts
  <2> QED BY <2>1, <1>0
<1>3. Apart(g)
  <2> SUFFICES ASSUME NEW l \in Locs(g), NEW k \in Locs(g), NEW i \in 0..MaxBlocks, NEW j \in 0..MaxBlocks,
                      Ref(g, l, i) # NullPtr, Ref(g, l, i) = Ref(g, k, j)
               PROVE  l = k /\ i = j
    BY DEF Apart
  <2>1. l \in Locs(m) /\ k \in Locs(m) BY <1>2
  <2>2. Ref(m, l, i) # NullPtr /\ Ref(m, l, i) = Ref(m, k, j) BY <1>1, <2>1
  <2> QED BY <2>1, <2>2 DEF Sound, Apart
<1>4. NotFree(g)
  <2> SUFFICES ASSUME NEW l \in Locs(g), NEW i \in 0..MaxBlocks PROVE Ref(g, l, i) \notin g[Bitmap]
    BY DEF NotFree
  <2>1. NullPtr \notin g[Bitmap] BY Typed, Numbers DEF NullPtr
  <2>2. Ref(m, l, i) \notin g[Bitmap] BY <1>2 DEF Sound, NotFree, Behind
  <2> QED BY <1>1, <1>2, <2>1, <2>2
<1>5. WithinSize(g)
  <2> SUFFICES ASSUME NEW l \in Locs(g), NEW i \in 0..MaxBlocks-1, Ref(g, l, i) # NullPtr
               PROVE  i < Blocks(FileAt(g, l).size)
    BY DEF WithinSize
  <2>1. CASE l = Root BY <2>1 DEF Behind, RootWithin
  <2>2. CASE l # Root
    <3>1. Ref(m, l, i) # NullPtr BY <1>0, <1>1, <1>2
    <3>2. i < Blocks(FileAt(m, l).size) BY <3>1, <1>2 DEF Sound, WithinSize
    <3> QED BY <3>2, <1>2, <2>2 DEF Behind
  <2> QED BY <2>1, <2>2
<1>6. BlankOwnsNothing(g)
  <2> SUFFICES ASSUME NEW l \in Locs(g), l # Root, FileAt(g, l).name = NoName
               PROVE  \A i \in 0..MaxBlocks : Ref(g, l, i) = NullPtr
    BY DEF BlankOwnsNothing
  <2>1. Bare(g, l) /\ l \in Loc BY <1>0, <1>2 DEF Behind
  <2> QED BY <2>1, BareRefs
<1> QED BY <1>1, <1>2, <1>3, <1>4, <1>5, <1>6 DEF Sound

\* An image is behind itself.
LEMMA BehindSelf ==
  ASSUME NEW m \in Image, Sound(m)
  PROVE  Behind(m, m)
<1>1. Locs(m) \subseteq Loc /\ Root \in Locs(m) BY LocsParts
<1>2. \A l \in Locs(m), i \in 0..MaxBlocks : RefIn(m, m, l, i) = Ref(m, l, i) BY <1>1, RefInSelf
<1>3. \A l \in Locs(m) : l # Root /\ FileAt(m, l).name = NoName => Bare(m, l)
  BY <1>1, BareRefs DEF Sound, BlankOwnsNothing
<1>4. RootWithin(m) BY <1>1 DEF RootWithin, Sound, WithinSize
<1> QED BY <1>2, <1>3, <1>4 DEF Behind

\* The places of g stay where the pointers to the indirect blocks do.
LEMMA SameRefIn ==
  ASSUME NEW m \in Image, NEW n \in Image, NEW g \in Image, NEW h \in Image, NEW l \in Loc,
         FileAt(n, l).ind = FileAt(m, l).ind,
         FileAt(h, l).ind = FileAt(g, l).ind,
         \A i \in 0..NDIRECT-1 : FileAt(h, l).direct[i] = FileAt(g, l).direct[i],
         FileAt(m, l).ind # NullPtr => h[FileAt(m, l).ind].ptr = g[FileAt(m, l).ind].ptr
  PROVE  \A i \in 0..MaxBlocks : RefIn(h, n, l, i) = RefIn(g, m, l, i)
<1> SUFFICES ASSUME NEW i \in 0..MaxBlocks PROVE RefIn(h, n, l, i) = RefIn(g, m, l, i)
  OBVIOUS
<1>1. CASE i = MaxBlocks BY <1>1, RefInParts
<1>2. CASE i \in 0..NDIRECT-1 BY <1>2, RefInParts
<1>3. CASE i \in NDIRECT..MaxBlocks-1 BY <1>3, RefInParts
<1> QED BY <1>1, <1>2, <1>3, RefParts

\* The pointers of a struct File stay where its indirect block does.
LEMMA SameRef ==
  ASSUME NEW g \in Image, NEW h \in Image, NEW l \in Loc,
         FileAt(h, l) = FileAt(g, l),
         FileAt(g, l).ind # NullPtr => h[FileAt(g, l).ind].ptr = g[FileAt(g, l).ind].ptr
  PROVE  \A i \in 0..MaxBlocks : Ref(h, l, i) = Ref(g, l, i)
<1> SUFFICES ASSUME NEW i \in 0..MaxBlocks PROVE Ref(h, l, i) = Ref(g, l, i)
  OBVIOUS
<1>1. CASE i = MaxBlocks BY <1>1, RefParts
<1>2. CASE i \in 0..NDIRECT-1 BY <1>2, RefParts
<1>3. CASE i \in NDIRECT..MaxBlocks-1 BY <1>3, RefParts
<1> QED BY <1>1, <1>2, <1>3, RefParts

\* The disk stays behind when only bytes, the size of the directory or the name
\* of a struct File that had none change.
LEMMA SameBehind ==
  ASSUME NEW m \in Image, NEW n \in Image, NEW g \in Image, Behind(m, g),
         n[Bitmap] = m[Bitmap], Locs(n) = Locs(m),
         \A l \in Locs(m), i \in 0..MaxBlocks : Ref(n, l, i) = Ref(m, l, i),
         \A l \in Locs(m) : l # Root =>
           FileAt(n, l).size = FileAt(m, l).size /\ FileAt(m, l).name \in {NoName, FileAt(n, l).name}
  PROVE  Behind(n, g)
<1>0. Locs(m) \subseteq Loc /\ MaxBlocks \in 0..MaxBlocks BY LocsParts, Numbers
<1>1. ASSUME NEW l \in Locs(m), NEW i \in 0..MaxBlocks PROVE RefIn(g, n, l, i) \in {NullPtr, Ref(n, l, i)}
  <2>1. FileAt(n, l).ind = FileAt(m, l).ind
    <3>1. Ref(n, l, MaxBlocks) = Ref(m, l, MaxBlocks) BY <1>0
    <3> QED BY <3>1, <1>0, RefParts
  <2>2. RefIn(g, n, l, i) = RefIn(g, m, l, i) BY <2>1, <1>0, SameRefIn
  <2> QED BY <2>2 DEF Behind
<1>2. \A l \in Locs(m) : l # Root =>
        /\ FileAt(g, l).size = FileAt(n, l).size
        /\ FileAt(g, l).name \in {NoName, FileAt(n, l).name}
        /\ FileAt(g, l).name = NoName => Bare(g, l)
  BY DEF Behind
<1> QED BY <1>1, <1>2 DEF Behind

\* h is g after the write of x to block b.
Written(g, h, b, x) == \A c \in Block : h[c] = IF c = b THEN x ELSE g[c]

\* The place where a struct File is, in an image one block of which is new.
LEMMA OneBlock ==
  ASSUME NEW g \in Image, NEW h \in Image, NEW m \in Image, NEW b \in Block, Written(g, h, b, m[b])
  PROVE  /\ \A c \in Block : h[c] = IF c = b THEN m[b] ELSE g[c]
         /\ \A l \in Loc : FileAt(h, l) = IF l[1] = b THEN FileAt(m, l) ELSE FileAt(g, l)
<1>1. \A c \in Block : h[c] = IF c = b THEN m[b] ELSE g[c]
  BY DEF Written
<1>2. \A l \in Loc : l[1] \in Block BY Typed
<1> QED BY <1>1, <1>2 DEF FileAt

\* flush_block keeps the disk behind the cache, if it does not write the indirect
\* block of the directory before the directory.
LEMMA FlushBehind ==
  ASSUME NEW m \in Image, NEW g \in Image, NEW h \in Image, Sound(m), Behind(m, g),
         NEW b \in 1..NBLOCKS-1, Written(g, h, b, m[b]),
         b = FileAt(m, Root).ind => g[Super] = m[Super]
  PROVE  Behind(m, h)
<1>0. /\ Locs(m) \subseteq Loc /\ Root \in Locs(m) /\ Root \in Loc /\ MaxBlocks \in 0..MaxBlocks
      /\ \A i \in 0..MaxBlocks-1 : i \in 0..MaxBlocks
      /\ b \in Block /\ Root[1] = Super /\ Super \in Block /\ Bitmap \in Block
  BY LocsParts, Numbers DEF Root, Block
<1>1. /\ \A c \in Block : h[c] = IF c = b THEN m[b] ELSE g[c]
      /\ \A l \in Loc : FileAt(h, l) = IF l[1] = b THEN FileAt(m, l) ELSE FileAt(g, l)
  BY <1>0, OneBlock
<1>2. h[Bitmap] \subseteq m[Bitmap] BY <1>0, <1>1 DEF Behind
<1>3. ASSUME NEW l \in Locs(m), NEW i \in 0..MaxBlocks PROVE RefIn(h, m, l, i) \in {NullPtr, Ref(m, l, i)}
  <2>0. l \in Loc BY <1>0
  <2>1. RefIn(g, m, l, i) \in {NullPtr, Ref(m, l, i)} BY DEF Behind
  <2>2. CASE i = MaxBlocks
    BY <2>0, <2>1, <2>2, <1>1, RefInParts, RefParts
  <2>3. CASE i \in 0..NDIRECT-1
    BY <2>0, <2>1, <2>3, <1>1, RefInParts, RefParts
  <2>4. CASE i \in NDIRECT..MaxBlocks-1
    <3> DEFINE d == FileAt(m, l).ind
    <3>1. d \in Block BY <2>0, RefParts, Numbers
    <3>2. RefIn(h, m, l, i) = IF d = NullPtr THEN NullPtr ELSE h[d].ptr[i - NDIRECT]
      BY <2>0, <2>4, RefInParts
    <3>3. RefIn(g, m, l, i) = IF d = NullPtr THEN NullPtr ELSE g[d].ptr[i - NDIRECT]
      BY <2>0, <2>4, RefInParts
    <3>4. Ref(m, l, i) = IF d = NullPtr THEN NullPtr ELSE m[d].ptr[i - NDIRECT]
      BY <2>0, <2>4, RefParts
    <3>5. h[d] = m[d] \/ h[d] = g[d] BY <3>1, <1>1
    <3> HIDE DEF d
    <3> QED BY <2>1, <3>2, <3>3, <3>4, <3>5
  <2> QED BY <2>0, <2>2, <2>3, <2>4, RefParts
<1>4. ASSUME NEW l \in Locs(m), l # Root
      PROVE  /\ FileAt(h, l).size = FileAt(m, l).size
             /\ FileAt(h, l).name \in {NoName, FileAt(m, l).name}
             /\ FileAt(h, l).name = NoName => Bare(h, l)
  <2>1. CASE l[1] = b
    <3>1. FileAt(h, l) = FileAt(m, l) BY <2>1, <1>0, <1>1
    <3>2. FileAt(m, l).name = NoName => Bare(m, l)
      BY <1>0, <1>4, BareRefs DEF Sound, BlankOwnsNothing
    <3> QED BY <3>1, <3>2 DEF Bare
  <2>2. CASE l[1] # b
    <3>1. FileAt(h, l) = FileAt(g, l) BY <2>2, <1>0, <1>1
    <3> QED BY <3>1, <1>4 DEF Bare, Behind
  <2> QED BY <2>1, <2>2
<1>5. RootWithin(h)
  <2>1. ASSUME FileAt(h, Root) = FileAt(m, Root) PROVE RootWithin(h)
    <3> SUFFICES ASSUME NEW i \in 0..MaxBlocks-1, Ref(h, Root, i) # NullPtr
                 PROVE  i < Blocks(FileAt(m, Root).size)
      BY <2>1 DEF RootWithin
    <3>1. Ref(h, Root, i) \in {NullPtr, RefIn(h, m, Root, i)} BY <2>1, <1>0, RefInRef
    <3>2. Ref(m, Root, i) # NullPtr BY <3>1, <1>0, <1>3
    <3> QED BY <3>2, <1>0 DEF Sound, WithinSize
  <2>2. CASE b = Super BY <2>1, <2>2, <1>0, <1>1
  <2>3. CASE b # Super /\ b = FileAt(m, Root).ind
    <3>1. FileAt(h, Root) = FileAt(g, Root) BY <2>3, <1>0, <1>1
    <3>2. FileAt(g, Root) = FileAt(m, Root) BY <2>3, <1>0 DEF FileAt
    <3> QED BY <2>1, <3>1, <3>2
  <2>4. CASE b # Super /\ b # FileAt(m, Root).ind
    <3>1. FileAt(h, Root) = FileAt(g, Root) BY <2>4, <1>0, <1>1
    <3>2. FileAt(g, Root).ind \in {NullPtr, FileAt(m, Root).ind}
      <4>1. RefIn(g, m, Root, MaxBlocks) \in {NullPtr, Ref(m, Root, MaxBlocks)} BY <1>0 DEF Behind
      <4> QED BY <4>1, <1>0, RefInParts, RefParts
    <3>3. FileAt(g, Root).ind # NullPtr => h[FileAt(g, Root).ind] = g[FileAt(g, Root).ind]
      <4>1. FileAt(g, Root).ind \in Block BY <1>0, RefParts, Numbers
      <4> QED BY <4>1, <3>2, <2>4, <1>1
    <3>4. \A i \in 0..MaxBlocks : Ref(h, Root, i) = Ref(g, Root, i)
      BY <3>1, <3>3, <1>0, SameRef
    <3> QED BY <3>1, <3>4, <1>0 DEF Behind, RootWithin
  <2> QED BY <2>2, <2>3, <2>4
<1> QED BY <1>2, <1>3, <1>4, <1>5 DEF Behind

\* alloc_block: a block is marked used in the cache, then on the disk.
LEMMA MarkedBehind ==
  ASSUME NEW m \in Image, NEW n \in Image, NEW g \in Image, NEW h \in Image, Sound(m), Behind(m, g),
         MarkedOnly(m, n), n[Bitmap] \subseteq m[Bitmap], Written(g, h, Bitmap, n[Bitmap])
  PROVE  Sound(n) /\ Behind(n, h) /\ Sound(h)
<1>0. /\ Locs(m) \subseteq Loc /\ Root \in Locs(m) /\ Root \in Loc
      /\ \A i \in 0..MaxBlocks-1 : i \in 0..MaxBlocks
  BY LocsParts, Numbers
<1>1. /\ \A l \in Loc : FileAt(n, l) = FileAt(m, l)
      /\ \A l \in Loc, i \in 0..MaxBlocks : Ref(n, l, i) = Ref(m, l, i)
      /\ Locs(n) = Locs(m)
  BY MarkedSame
<1>2. MarkedOnly(g, h) /\ h[Bitmap] = n[Bitmap]
  BY Numbers DEF Written, MarkedOnly
<1>3. /\ \A l \in Loc : FileAt(h, l) = FileAt(g, l)
      /\ \A c \in Plain : h[c] = g[c]
      /\ \A l \in Loc, i \in 0..MaxBlocks : Ref(h, l, i) = Ref(g, l, i)
  BY <1>2, MarkedSame
<1>4. Sound(n)
  <2>1. Apart(n) BY <1>0, <1>1 DEF Sound, Apart
  <2>2. NotFree(n) BY <1>0, <1>1 DEF Sound, NotFree
  <2>3. WithinSize(n) BY <1>0, <1>1 DEF Sound, WithinSize
  <2>4. BlankOwnsNothing(n) BY <1>0, <1>1 DEF Sound, BlankOwnsNothing
  <2> QED BY <2>1, <2>2, <2>3, <2>4 DEF Sound
<1>5. Behind(n, h)
  <2>1. ASSUME NEW l \in Locs(n), NEW i \in 0..MaxBlocks PROVE RefIn(h, n, l, i) \in {NullPtr, Ref(n, l, i)}
    <3>0. l \in Loc /\ l \in Locs(m) BY <1>0, <1>1
    <3>1. FileAt(m, l).ind \in Plain BY <3>0, RefParts, Numbers
    <3>2. RefIn(h, n, l, i) = RefIn(g, m, l, i)
      <4>1. h[FileAt(m, l).ind].ptr = g[FileAt(m, l).ind].ptr BY <3>1, <1>3
      <4>2. FileAt(n, l).ind = FileAt(m, l).ind /\ FileAt(h, l) = FileAt(g, l) BY <3>0, <1>1, <1>3
      <4> QED BY <3>0, <4>1, <4>2, SameRefIn
    <3> QED BY <3>0, <3>2, <1>1 DEF Behind
  <2>2. ASSUME NEW l \in Locs(n), l # Root
        PROVE  /\ FileAt(h, l).size = FileAt(n, l).size
               /\ FileAt(h, l).name \in {NoName, FileAt(n, l).name}
               /\ FileAt(h, l).name = NoName => Bare(h, l)
    <3>1. l \in Loc /\ l \in Locs(m) BY <1>0, <1>1
    <3>2. FileAt(n, l) = FileAt(m, l) /\ FileAt(h, l) = FileAt(g, l) BY <3>1, <1>1, <1>3
    <3> QED BY <3>1, <3>2, <2>2 DEF Behind, Bare
  <2>3. RootWithin(h) BY <1>0, <1>3 DEF Behind, RootWithin
  <2> QED BY <1>2, <2>1, <2>2, <2>3 DEF Behind
<1> QED BY <1>4, <1>5, BehindSound

\* A new block: once the bitmap is written, the pointer is assigned and the block
\* is zeroed, in the cache and on the disk.  The disk is sound at every moment.
LEMMA NewBlockBehind ==
  ASSUME NEW m \in Image, NEW m1 \in Image, NEW m2 \in Image, NEW n \in Image, Owned(m),
         NEW g \in Image, NEW g1 \in Image, NEW h \in Image, Behind(m, g),
         NEW l0 \in Locs(m), NEW i0 \in 0..MaxBlocks, NEW b \in Usable, b \in m[Bitmap],
         Ref(m, l0, i0) = NullPtr, l0 = Root \/ FileAt(m, l0).name # NoName,
         i0 < MaxBlocks => i0 < Blocks(FileAt(m, l0).size),
         i0 \in NDIRECT..MaxBlocks-1 => FileAt(m, l0).ind # NullPtr,
         MarkedOnly(m, m1), m1[Bitmap] = m[Bitmap] \ {b},
         Assigned(m1, m2, l0, i0, b), Zeroed(m2, n, b),
         Written(g, g1, Bitmap, m1[Bitmap]), Written(g1, h, b, n[b])
  PROVE  Sound(g1) /\ Sound(h) /\ Behind(n, h)
<1>0. /\ Locs(m) \subseteq Loc /\ Root \in Locs(m) /\ Root \in Loc /\ MaxBlocks \in 0..MaxBlocks
      /\ \A i \in 0..MaxBlocks-1 : i \in 0..MaxBlocks
      /\ b \in Block /\ b \in Plain /\ b # Bitmap /\ Bitmap \in Block /\ b # NullPtr
      /\ Sound(m)
  BY LocsParts, Numbers DEF NullPtr, Owned
<1>1. /\ Owned(n) /\ Keeps(m, n)
      /\ \A k \in Locs(m), i \in 0..MaxBlocks :
           Ref(n, k, i) = IF k = l0 /\ i = i0 THEN b ELSE Ref(m, k, i)
      /\ \A k \in Locs(m) : k[1] # b /\ FileAt(m, k).ind # b
      /\ \A k \in Locs(n) : k \in Locs(m) \/ (k[1] = b /\ FileAt(n, k) = BlankFile)
  BY NewBlockOwned
<1>2. Sound(g1)
  <2>1. m1[Bitmap] \subseteq m[Bitmap] OBVIOUS
  <2> QED BY <2>1, <1>0, MarkedBehind
<1>3. \A c \in Block : h[c] = IF c = b THEN n[b] ELSE IF c = Bitmap THEN m1[Bitmap] ELSE g[c]
  BY DEF Written
<1>4. ASSUME NEW l \in Loc PROVE FileAt(h, l) = IF l[1] = b THEN FileAt(n, l) ELSE FileAt(g, l)
  <2>1. l[1] \in Block /\ l[1] # Bitmap BY Typed
  <2> QED BY <2>1, <1>3 DEF FileAt
<1>5. h[Bitmap] \subseteq n[Bitmap]
  BY <1>0, <1>3 DEF Zeroed, Assigned
<1>6. ASSUME NEW l \in Locs(m)
      PROVE  /\ l \in Loc /\ FileAt(h, l) = FileAt(g, l)
             /\ FileAt(n, l).name = FileAt(m, l).name /\ FileAt(n, l).size = FileAt(m, l).size
             /\ FileAt(m, l).ind \in Plain /\ h[FileAt(m, l).ind] = g[FileAt(m, l).ind]
  <2>1. l \in Loc /\ FileAt(m, l).ind \in Plain BY <1>0, RefParts, Numbers
  <2>2. FileAt(m, l).ind \in Block /\ FileAt(m, l).ind # Bitmap /\ FileAt(m, l).ind # b
    BY <2>1, <1>1, Numbers
  <2> QED BY <2>1, <2>2, <1>1, <1>3, <1>4 DEF Keeps, KeepsNames, KeepsSizes
<1>7. ASSUME NEW l \in Locs(m), NEW i \in 0..MaxBlocks
      PROVE  RefIn(h, n, l, i) \in {NullPtr, Ref(n, l, i)}
  <2>0. /\ RefIn(g, m, l, i) \in {NullPtr, Ref(m, l, i)}
        /\ Ref(n, l, i) = IF l = l0 /\ i = i0 THEN b ELSE Ref(m, l, i)
    BY <1>1 DEF Behind
  <2>1. RefIn(g, m, l, i) \in {NullPtr, Ref(n, l, i)} BY <2>0
  <2>2. CASE FileAt(n, l).ind = FileAt(m, l).ind
    <3>1. /\ FileAt(h, l).ind = FileAt(g, l).ind
          /\ \A j \in 0..NDIRECT-1 : FileAt(h, l).direct[j] = FileAt(g, l).direct[j]
          /\ h[FileAt(m, l).ind].ptr = g[FileAt(m, l).ind].ptr
      BY <1>6
    <3>2. l \in Loc BY <1>6
    <3>3. RefIn(h, n, l, i) = RefIn(g, m, l, i) BY <2>2, <3>1, <3>2, SameRefIn
    <3> QED BY <2>1, <3>3
  <2>3. CASE FileAt(n, l).ind # FileAt(m, l).ind
    <3>1. l = l0 /\ i0 = MaxBlocks /\ FileAt(n, l).ind = b
      <4>1. Ref(n, l, MaxBlocks) # Ref(m, l, MaxBlocks) BY <2>3, <1>6, RefParts
      <4>2. l = l0 /\ i0 = MaxBlocks BY <4>1, <1>0, <1>1
      <4>3. Ref(n, l, MaxBlocks) = b BY <4>2, <1>0, <1>1
      <4> QED BY <4>2, <4>3, <1>6, RefParts
    <3>2. CASE i \in NDIRECT..MaxBlocks-1
      <4>1. RefIn(h, n, l, i) = h[b].ptr[i - NDIRECT]
        BY <3>1, <3>2, <1>0, <1>6, RefInParts
      <4>2. i - NDIRECT \in 0..NINDIRECT-1 BY <3>2, <1>6, RefParts
      <4>3. h[b].ptr[i - NDIRECT] = NullPtr BY <4>2, <1>0, <1>3 DEF Zeroed
      <4> QED BY <4>1, <4>3
    <3>3. CASE i = MaxBlocks \/ i \in 0..NDIRECT-1
      <4>1. RefIn(h, n, l, i) = RefIn(g, m, l, i) BY <3>3, <1>6, RefInParts
      <4> QED BY <4>1, <2>1
    <3> QED BY <3>2, <3>3, <1>6, RefParts
  <2> QED BY <2>2, <2>3
<1>8. ASSUME NEW l \in Locs(m), l # Root
      PROVE  /\ FileAt(h, l).size = FileAt(n, l).size
             /\ FileAt(h, l).name \in {NoName, FileAt(n, l).name}
             /\ FileAt(h, l).name = NoName => Bare(h, l)
  BY <1>6, <1>8 DEF Behind, Bare
<1>9. ASSUME NEW l \in Locs(n), l \notin Locs(m)
      PROVE  /\ l # Root /\ FileAt(h, l) = BlankFile /\ FileAt(n, l) = BlankFile /\ Bare(h, l)
             /\ \A i \in 0..MaxBlocks : RefIn(h, n, l, i) = NullPtr
  <2>1. l \in Loc /\ l # Root /\ l[1] = b /\ FileAt(n, l) = BlankFile BY <1>0, <1>1, <1>9, LocsParts
  <2>2. FileAt(h, l) = BlankFile BY <2>1, <1>4
  <2>3. BlankFile.ind = NullPtr /\ \A i \in 0..NDIRECT-1 : BlankFile.direct[i] = NullPtr
    BY DEF BlankFile
  <2>4. \A i \in 0..MaxBlocks : RefIn(h, n, l, i) = NullPtr
    BY <2>1, <2>2, <2>3, RefParts, RefInParts
  <2> QED BY <2>1, <2>2, <2>3, <2>4 DEF Bare
<1>10. RootWithin(h)
  <2>1. FileAt(h, Root) = FileAt(g, Root) BY <1>0, <1>6
  <2>2. FileAt(g, Root).ind \in {NullPtr, FileAt(m, Root).ind}
    <3>1. RefIn(g, m, Root, MaxBlocks) \in {NullPtr, Ref(m, Root, MaxBlocks)} BY <1>0 DEF Behind
    <3> QED BY <3>1, <1>0, RefInParts, RefParts
  <2>3. FileAt(g, Root).ind # NullPtr => h[FileAt(g, Root).ind].ptr = g[FileAt(g, Root).ind].ptr
    BY <2>2, <1>0, <1>6
  <2>4. \A i \in 0..MaxBlocks : Ref(h, Root, i) = Ref(g, Root, i)
    BY <2>1, <2>3, <1>0, SameRef
  <2> QED BY <2>1, <2>4, <1>0 DEF Behind, RootWithin
<1>11. Behind(n, h)
  <2>1. \A l \in Locs(n), i \in 0..MaxBlocks : RefIn(h, n, l, i) \in {NullPtr, Ref(n, l, i)}
    BY <1>7, <1>9
  <2>2. \A l \in Locs(n) : l # Root =>
          /\ FileAt(h, l).size = FileAt(n, l).size
          /\ FileAt(h, l).name \in {NoName, FileAt(n, l).name}
          /\ FileAt(h, l).name = NoName => Bare(h, l)
    BY <1>8, <1>9
  <2> QED BY <2>1, <2>2, <1>5, <1>10 DEF Behind
<1>12. Sound(n) BY <1>1 DEF Owned
<1> QED BY <1>2, <1>11, <1>12, BehindSound

\* file_set_size: blocks of file l0 are given back in the cache, all those of its
\* indirect block or none; then its struct File is written.
LEMMA CutBehind ==
  ASSUME NEW m \in Image, NEW n \in Image, NEW g \in Image, NEW h \in Image,
         Sound(m), Sound(n), Behind(m, g), NEW l0 \in Locs(m), l0 # Root,
         Locs(n) = Locs(m), m[Bitmap] \subseteq n[Bitmap],
         \A k \in Locs(m), j \in 0..MaxBlocks : k # l0 => Ref(n, k, j) = Ref(m, k, j),
         FileAt(n, l0).ind \in {NullPtr, FileAt(m, l0).ind},
         FileAt(n, l0).ind # NullPtr =>
           \A j \in NDIRECT..MaxBlocks-1 : Ref(n, l0, j) = Ref(m, l0, j),
         \A k \in Locs(m) : FileAt(n, k).name = FileAt(m, k).name,
         \A k \in Locs(m) : k # l0 => FileAt(n, k).size = FileAt(m, k).size,
         Written(g, h, l0[1], n[l0[1]])
  PROVE  Behind(n, h)
<1> DEFINE b == l0[1]
<1>0. /\ Locs(m) \subseteq Loc /\ Root \in Locs(m) /\ Root \in Loc /\ MaxBlocks \in 0..MaxBlocks
      /\ \A i \in 0..MaxBlocks-1 : i \in 0..MaxBlocks /\ i # MaxBlocks
      /\ b \in Usable /\ b \in Block /\ b # Bitmap /\ b # NullPtr /\ Bitmap \in Block /\ b # Super
      /\ Root[1] = Super
  BY LocsParts, Numbers DEF NullPtr, Root
<1> HIDE DEF b
<1>1. /\ \A c \in Block : h[c] = IF c = b THEN n[b] ELSE g[c]
      /\ \A l \in Loc : FileAt(h, l) = IF l[1] = b THEN FileAt(n, l) ELSE FileAt(g, l)
  BY <1>0, OneBlock DEF b
<1>2. ASSUME NEW l \in Locs(m) PROVE l \in Loc /\ FileAt(m, l).ind \in Block /\ FileAt(m, l).ind # b
  <2>1. l \in Loc /\ FileAt(m, l).ind \in Block BY <1>0, RefParts, Numbers
  <2>2. PICK i \in 0..MaxBlocks-1 : Ref(m, Root, i) = b BY LocsParts DEF b
  <2>3. Ref(m, l, MaxBlocks) # b BY <2>2, <1>0 DEF Sound, Apart
  <2> QED BY <2>1, <2>3, RefParts
<1>3. h[Bitmap] \subseteq n[Bitmap] BY <1>0, <1>1 DEF Behind
<1>4. ASSUME NEW l \in Locs(m), NEW i \in 0..MaxBlocks PROVE RefIn(h, n, l, i) \in {NullPtr, Ref(n, l, i)}
  <2>0. l \in Loc /\ l \in Locs(n) /\ RefIn(g, m, l, i) \in {NullPtr, Ref(m, l, i)}
    BY <1>0 DEF Behind
  <2>1. CASE i \in NDIRECT..MaxBlocks-1
    <3> DEFINE d == FileAt(n, l).ind
    <3>1. RefIn(h, n, l, i) = IF d = NullPtr THEN NullPtr ELSE h[d].ptr[i - NDIRECT]
      BY <2>0, <2>1, RefInParts
    <3>2. CASE d = NullPtr BY <3>1, <3>2
    <3>3. CASE d # NullPtr
      <4>1. d = FileAt(m, l).ind
        <5>1. l # l0 => Ref(n, l, MaxBlocks) = Ref(m, l, MaxBlocks) BY <1>0
        <5> QED BY <5>1, <3>3, <2>0, RefParts
      <4>2. Ref(n, l, i) = Ref(m, l, i) BY <2>1, <3>3
      <4>3. h[d] = g[d] BY <4>1, <1>1, <1>2
      <4>4. RefIn(g, m, l, i) = g[d].ptr[i - NDIRECT]
        BY <4>1, <3>3, <2>0, <2>1, RefInParts
      <4> HIDE DEF d
      <4> QED BY <3>1, <3>3, <4>2, <4>3, <4>4, <2>0
    <3> QED BY <3>2, <3>3
  <2>2. CASE i = MaxBlocks \/ i \in 0..NDIRECT-1
    <3>1. CASE l[1] = b
      <4>1. FileAt(h, l) = FileAt(n, l) BY <3>1, <2>0, <1>1
      <4> QED BY <4>1, <2>0, <2>2, RefParts, RefInParts
    <3>2. CASE l[1] # b
      <4>1. FileAt(h, l) = FileAt(g, l) /\ l # l0 BY <3>2, <2>0, <1>1 DEF b
      <4>2. RefIn(h, n, l, i) = RefIn(g, m, l, i) BY <4>1, <2>0, <2>2, RefInParts
      <4> QED BY <4>1, <4>2, <2>0
    <3> QED BY <3>1, <3>2
  <2> QED BY <2>0, <2>1, <2>2, RefParts
<1>5. ASSUME NEW l \in Locs(m), l # Root
      PROVE  /\ FileAt(h, l).size = FileAt(n, l).size
             /\ FileAt(h, l).name \in {NoName, FileAt(n, l).name}
             /\ FileAt(h, l).name = NoName => Bare(h, l)
  <2>1. CASE l[1] = b
    <3>1. FileAt(h, l) = FileAt(n, l) BY <2>1, <1>2, <1>1
    <3>2. FileAt(n, l).name = NoName => Bare(n, l)
      BY <1>2, <1>5, BareRefs DEF Sound, BlankOwnsNothing
    <3> QED BY <3>1, <3>2 DEF Bare
  <2>2. CASE l[1] # b
    <3>1. FileAt(h, l) = FileAt(g, l) /\ l # l0 BY <2>2, <1>1, <1>2 DEF b
    <3> QED BY <3>1, <1>5 DEF Behind, Bare
  <2> QED BY <2>1, <2>2
<1>6. RootWithin(h)
  <2>1. FileAt(h, Root) = FileAt(g, Root) BY <1>0, <1>1
  <2>2. FileAt(g, Root).ind \in {NullPtr, FileAt(m, Root).ind}
    <3>1. RefIn(g, m, Root, MaxBlocks) \in {NullPtr, Ref(m, Root, MaxBlocks)} BY <1>0 DEF Behind
    <3> QED BY <3>1, <1>0, RefInParts, RefParts
  <2>3. FileAt(g, Root).ind # NullPtr => h[FileAt(g, Root).ind] = g[FileAt(g, Root).ind]
    BY <2>2, <1>0, <1>1, <1>2
  <2>4. \A i \in 0..MaxBlocks : Ref(h, Root, i) = Ref(g, Root, i)
    BY <2>1, <2>3, <1>0, SameRef
  <2> QED BY <2>1, <2>4, <1>0 DEF Behind, RootWithin
<1> QED BY <1>3, <1>4, <1>5, <1>6 DEF Behind

\* One more write leads one image further.
LEMMA LeadsOn ==
  ASSUME NEW from, NEW out \in Seq(Writes), NEW img \in Image, Leads(from, out, img),
         NEW h \in Image, Sound(h), NEW w \in Writes, h = [img EXCEPT ![w[1]] = w[2]]
  PROVE  Leads(from, Append(out, w), h)
<1> DEFINE n == Len(out)
           o == Append(out, w)
<1>0. n \in Nat /\ Len(o) = n + 1 /\ o[n+1] = w /\ \A i \in 1..n : o[i] = out[i]
  OBVIOUS
<1>1. PICK g \in [0..n -> Sounds] :
        /\ g[0] = from /\ g[n] = img
        /\ \A i \in 1..n : g[i] = [g[i-1] EXCEPT ![out[i][1]] = out[i][2]]
  BY DEF Leads
<1>2. h \in Sounds BY DEF Sounds
<1> HIDE DEF n, o
<1> DEFINE f == [i \in 0..n+1 |-> IF i = n + 1 THEN h ELSE g[i]]
<1>3. f \in [0..n+1 -> Sounds] BY <1>0, <1>2
<1>4. f[0] = from /\ f[n+1] = h BY <1>0, <1>1
<1>5. ASSUME NEW i \in 1..n+1 PROVE f[i] = [f[i-1] EXCEPT ![o[i][1]] = o[i][2]]
  <2>1. CASE i = n + 1
    <3>1. f[i] = h /\ f[i-1] = img /\ o[i] = w BY <2>1, <1>0, <1>1
    <3> QED BY <3>1
  <2>2. CASE i # n + 1
    <3>1. i \in 1..n /\ i - 1 \in 0..n /\ i \in 0..n BY <2>2, <1>0
    <3>2. f[i] = g[i] /\ f[i-1] = g[i-1] /\ o[i] = out[i] BY <3>1, <1>0
    <3> QED BY <3>1, <3>2, <1>1
  <2> QED BY <2>1, <2>2
<1> HIDE DEF f
<1>6. f \in [0..Len(o) -> Sounds] /\ f[0] = from /\ f[Len(o)] = h
      /\ \A i \in 1..Len(o) : f[i] = [f[i-1] EXCEPT ![o[i][1]] = o[i][2]]
  BY <1>0, <1>3, <1>4, <1>5
<1> QED BY <1>6 DEF Leads, o

\* flush_block leads to the image it leaves, if that one is sound.
LEMMA FlushLeads ==
  ASSUME NEW s \in State, NEW b \in 1..NBLOCKS-1, NEW from, Leads(from, s.out, s.img),
         Sound(FlushBlock(s, b).img)
  PROVE  Leads(from, FlushBlock(s, b).out, FlushBlock(s, b).img)
<1> DEFINE t == FlushBlock(s, b)
<1>1. /\ t \in State /\ t.img = [s.img EXCEPT ![b] = s.mem[b]]
      /\ t = s \/ t.out = Append(s.out, <<b, s.mem[b]>>)
  BY FlushSound
<1> SUFFICES Leads(from, t.out, t.img)
  OBVIOUS
<1>2. CASE t = s BY <1>2
<1>3. CASE t.out = Append(s.out, <<b, s.mem[b]>>)
  <2>1. <<b, s.mem[b]>> \in Writes
    <3>1. b \in Block BY DEF Block
    <3> QED BY <3>1, Fields, Typed DEF Writes
  <2> DEFINE w == <<b, s.mem[b]>>
  <2>2. t.img = [s.img EXCEPT ![w[1]] = w[2]] /\ w \in Writes BY <1>1, <2>1
  <2>3. t.img \in Image /\ Sound(t.img) /\ s.out \in Seq(Writes) /\ s.img \in Image BY <1>1, Fields
  <2> HIDE DEF t, w
  <2>4. Leads(from, Append(s.out, w), t.img) BY <2>2, <2>3, LeadsOn
  <2> QED BY <2>4, <1>3 DEF w
<1> QED BY <1>1, <1>2, <1>3

-----------------------------------------------------------------------------
(* The steps a new block takes, on the state of an operation.              *)

\* If own is true the blocks of the cache have their owners.
Good(own, s) == s \in State /\ (own => Owned(s.mem))

\* What the writes of the operation lead to is behind the cache.
Follows(s) == Behind(s.mem, s.img) /\ Leads(disk, s.out, s.img)
Safe(own, s) == Good(own, s) /\ (own /\ WholeCuts => Follows(s))

\* The writes t has made since s lead to its disk, if that is sound.
LeadsTo(s, t) == Leads(disk, s.out, s.img) /\ Sound(t.img) => Leads(disk, t.out, t.img)

\* A file that may get blocks: it is in the directory.
Used(m, l) == l \in Locs(m) /\ (l = Root \/ FileAt(m, l).name # NoName)

\* A file in use stays in use when names are kept.
LEMMA UsedKept ==
  ASSUME NEW m, NEW n, KeepsNames(m, n), NEW l, Used(m, l)
  PROVE  Used(n, l)
BY DEF KeepsNames, Used

\* alloc_block takes the lowest free block and changes only the bitmap.
LEMMA MarkSound ==
  ASSUME NEW s \in State, Free(s) # {}
  PROVE  LET b == NextFree(s)
             t == AllocBlock(s)
         IN  /\ b \in Usable /\ b \in s.mem[Bitmap]
             /\ t \in State /\ t.err = s.err /\ t.at = s.at
             /\ MarkedOnly(s.mem, t.mem) /\ t.mem[Bitmap] = s.mem[Bitmap] \ {b}
<1>1. s.mem \in [Block -> Value] BY DEF State, Image
<1>2. AllocBlock(s).mem = [s.mem EXCEPT ![Bitmap] = s.mem[Bitmap] \ {NextFree(s)}]
  BY AllocSound
<1> QED BY <1>1, <1>2, AllocSound, NextFreeSound, Numbers DEF MarkedOnly

\* flush_block writes one block.
LEMMA FlushDisk ==
  ASSUME NEW s \in State, NEW b \in 1..NBLOCKS-1
  PROVE  /\ Written(s.img, FlushBlock(s, b).img, b, s.mem[b])
         /\ LeadsTo(s, FlushBlock(s, b))
<1>1. s.img \in [Block -> Value] /\ b \in Block BY DEF State, Image, Block
<1>2. FlushBlock(s, b).img = [s.img EXCEPT ![b] = s.mem[b]] BY FlushSound
<1>3. LeadsTo(s, FlushBlock(s, b)) BY FlushLeads DEF LeadsTo
<1> QED BY <1>1, <1>2, <1>3 DEF Written

\* alloc_block writes the bitmap.
LEMMA MarkDisk ==
  ASSUME NEW s \in State, Free(s) # {}
  PROVE  LET t == AllocBlock(s)
         IN  Written(s.img, t.img, Bitmap, t.mem[Bitmap]) /\ LeadsTo(s, t)
<1> DEFINE x == s.mem[Bitmap] \ {NextFree(s)}
           p == Put(s, Bitmap, x)
           t == FlushBlock(p, Bitmap)
<1>1. Fits(Bitmap, x) /\ Bitmap \in Block /\ Bitmap \in 1..NBLOCKS-1
  BY Fields, Typed, Numbers DEF Fits
<1>2. AllocBlock(s) = t BY DEF AllocBlock, Put
<1> HIDE DEF x
<1>3. p \in State /\ SameDisk(s, p) BY <1>1, PutSound
<1> HIDE DEF p
<1>4. t \in State /\ t.mem = p.mem BY <1>1, <1>3, FlushSound
<1>5. Written(p.img, t.img, Bitmap, p.mem[Bitmap]) /\ LeadsTo(p, t) BY <1>1, <1>3, FlushDisk
<1> HIDE DEF t
<1> QED BY <1>2, <1>3, <1>4, <1>5 DEF SameDisk, LeadsTo

\* And a block is cleared on the disk.
LEMMA ClearDisk ==
  ASSUME NEW s \in State, NEW b \in Usable
  PROVE  LET t == Clear(s, b)
         IN  Written(s.img, t.img, b, t.mem[b]) /\ LeadsTo(s, t)
<1> DEFINE p == Put(s, b, ZeroBlock)
           t == FlushBlock(p, b)
<1>1. Fits(b, ZeroBlock) /\ b \in Block /\ b \in 1..NBLOCKS-1
  BY ZeroFits, Numbers
<1>2. Clear(s, b) = t BY DEF Clear, Put
<1>3. p \in State /\ SameDisk(s, p) BY <1>1, PutSound
<1> HIDE DEF p
<1>4. t \in State /\ t.mem = p.mem BY <1>1, <1>3, FlushSound
<1>5. Written(p.img, t.img, b, p.mem[b]) /\ LeadsTo(p, t) BY <1>1, <1>3, FlushDisk
<1> HIDE DEF t
<1> QED BY <1>2, <1>3, <1>4, <1>5 DEF SameDisk, LeadsTo

\* A block of w is marked and made the i-th of file l, which had none, and so u
\* comes about.
Takes(w, u, l, i) ==
  /\ Free(w) # {} /\ u \in State /\ Used(w.mem, l)
  /\ i \in 0..MaxBlocks /\ Ref(w.mem, l, i) = NullPtr
  /\ i < MaxBlocks => i < Blocks(FileAt(w.mem, l).size)
  /\ i \in NDIRECT..MaxBlocks-1 => FileAt(w.mem, l).ind # NullPtr
  /\ Assigned(AllocBlock(w).mem, u.mem, l, i, NextFree(w)) /\ SameDisk(AllocBlock(w), u)

\* The pointers of n are those of m, except pointer i of file l, which is p.
Repointed(m, n, l, i, p) == \A k \in Locs(m), j \in 0..MaxBlocks :
  Ref(n, k, j) = IF k = l /\ j = i THEN p ELSE Ref(m, k, j)

\* Then it is cleared.
LEMMA NewBlockSound ==
  ASSUME NEW w, Safe(TRUE, w), NEW u, NEW l, NEW i, Takes(w, u, l, i)
  PROVE  LET b == NextFree(w)
             t == Clear(u, b)
         IN  /\ Safe(TRUE, t) /\ Keeps(w.mem, t.mem)
             /\ Repointed(w.mem, t.mem, l, i, b)
             /\ \A j \in 1..BLKFILES : FileAt(t.mem, <<b, j>>) = BlankFile
<1> DEFINE b == NextFree(w)
           a == AllocBlock(w)
           t == Clear(u, b)
<1> HIDE DEF a, b, t
<1>0. /\ w \in State /\ w.mem \in Image /\ w.img \in Image /\ Owned(w.mem)
      /\ l \in Locs(w.mem) /\ (l = Root \/ FileAt(w.mem, l).name # NoName)
      /\ WholeCuts => Follows(w)
      /\ Free(w) # {} /\ u \in State /\ i \in 0..MaxBlocks /\ Ref(w.mem, l, i) = NullPtr
      /\ i < MaxBlocks => i < Blocks(FileAt(w.mem, l).size)
      /\ i \in NDIRECT..MaxBlocks-1 => FileAt(w.mem, l).ind # NullPtr
      /\ Assigned(a.mem, u.mem, l, i, b) /\ SameDisk(a, u)
  <2>1. w \in State /\ Owned(w.mem) /\ (WholeCuts => Follows(w)) BY DEF Safe, Good
  <2>2. w.mem \in Image /\ w.img \in Image BY <2>1, Fields
  <2>3. Assigned(a.mem, u.mem, l, i, b) /\ SameDisk(a, u) BY DEF Takes, a, b
  <2>4. l \in Locs(w.mem) /\ (l = Root \/ FileAt(w.mem, l).name # NoName) BY DEF Used, Takes
  <2>5. /\ Free(w) # {} /\ u \in State /\ i \in 0..MaxBlocks /\ Ref(w.mem, l, i) = NullPtr
        /\ i < MaxBlocks => i < Blocks(FileAt(w.mem, l).size)
        /\ i \in NDIRECT..MaxBlocks-1 => FileAt(w.mem, l).ind # NullPtr
    BY Zenon DEF Takes
  <2> QED BY <2>1, <2>2, <2>3, <2>4, <2>5, Zenon
<1>1. /\ b \in Usable /\ b \in w.mem[Bitmap]
      /\ a \in State /\ MarkedOnly(w.mem, a.mem) /\ a.mem[Bitmap] = w.mem[Bitmap] \ {b}
  BY <1>0, MarkSound DEF a, b
<1>2. Written(w.img, a.img, Bitmap, a.mem[Bitmap]) /\ LeadsTo(w, a) BY <1>0, MarkDisk DEF a
<1>3. t \in State /\ Zeroed(u.mem, t.mem, b) BY <1>0, <1>1, ClearSound DEF t
<1>4. Written(u.img, t.img, b, t.mem[b]) /\ LeadsTo(u, t) BY <1>0, <1>1, ClearDisk DEF t
<1>5. /\ a.mem \in Image /\ u.mem \in Image /\ t.mem \in Image
      /\ a.img \in Image /\ t.img \in Image
      /\ Assigned(a.mem, u.mem, l, i, b) /\ a.img = u.img /\ a.out = u.out
  BY <1>0, <1>1, <1>3, Fields DEF SameDisk
<1>6. /\ Owned(t.mem) /\ Keeps(w.mem, t.mem)
      /\ Repointed(w.mem, t.mem, l, i, b)
  <2>1. /\ Owned(t.mem) /\ Keeps(w.mem, t.mem)
        /\ \A k \in Locs(w.mem), j \in 0..MaxBlocks :
             Ref(t.mem, k, j) = IF k = l /\ j = i THEN b ELSE Ref(w.mem, k, j)
    <3> DEFINE m == w.mem
               m1 == a.mem
               m2 == u.mem
               n == t.mem
    <3>1. /\ m \in Image /\ m1 \in Image /\ m2 \in Image /\ n \in Image /\ Owned(m)
          /\ l \in Locs(m) /\ i \in 0..MaxBlocks /\ b \in Usable /\ b \in m[Bitmap]
          /\ Ref(m, l, i) = NullPtr /\ (l = Root \/ FileAt(m, l).name # NoName)
          /\ i < MaxBlocks => i < Blocks(FileAt(m, l).size)
          /\ i \in NDIRECT..MaxBlocks-1 => FileAt(m, l).ind # NullPtr
          /\ MarkedOnly(m, m1) /\ m1[Bitmap] = m[Bitmap] \ {b}
          /\ Assigned(m1, m2, l, i, b) /\ Zeroed(m2, n, b)
      BY <1>0, <1>1, <1>3, <1>5, Zenon
    <3> HIDE DEF m, m1, m2, n
    <3>2. /\ Owned(n) /\ Keeps(m, n)
          /\ \A k \in Locs(m), j \in 0..MaxBlocks :
               Ref(n, k, j) = IF k = l /\ j = i THEN b ELSE Ref(m, k, j)
      BY <3>1, NewBlockOwned
    <3> QED BY <3>2 DEF m, n
  <2> QED BY <2>1 DEF Repointed
<1>7. ASSUME WholeCuts PROVE Follows(t)
  <2>1. Behind(w.mem, w.img) /\ Leads(disk, w.out, w.img) BY <1>0, <1>7 DEF Follows
  <2>2. Sound(a.img) /\ Sound(t.img) /\ Behind(t.mem, t.img)
    BY <1>0, <1>1, <1>2, <1>3, <1>4, <1>5, <2>1, NewBlockBehind
  <2>3. Leads(disk, a.out, a.img) BY <1>2, <2>1, <2>2 DEF LeadsTo
  <2>4. Leads(disk, t.out, t.img) BY <1>4, <1>5, <2>2, <2>3 DEF LeadsTo
  <2> QED BY <2>2, <2>4 DEF Follows
<1> QED BY <1>3, <1>6, <1>7 DEF Safe, Good, Zeroed, t, b

\* file_block_walk keeps every block with its owner, a new indirect block too;
\* unless it fails, the pointer it was asked for exists.
LEMMA WalkSound ==
  ASSUME NEW own \in BOOLEAN, NEW s, Safe(own, s), s.err = "ok",
         NEW l \in Loc, NEW i \in Nat, own => Used(s.mem, l)
  PROVE  LET t == FileBlockWalk(s, l, i)
         IN  /\ Safe(own, t) /\ t.at = s.at /\ (t.err = "ok" => i < MaxBlocks)
             /\ t.err \in {"ok", "inval", "no_disk"}
             /\ own => /\ Keeps(s.mem, t.mem) /\ (t.err = "ok" => HasSlot(t.mem, l, i))
                       /\ \A j \in 0..MaxBlocks-1 : Ref(t.mem, l, j) = Ref(s.mem, l, j)
<1>0. s \in State /\ (own => Owned(s.mem)) /\ (own /\ WholeCuts => Follows(s)) BY DEF Safe, Good
<1>1. CASE i >= NDIRECT + NINDIRECT
  <2>1. FileBlockWalk(s, l, i) = Fail(s, "inval") BY <1>1 DEF FileBlockWalk
  <2>2. "inval" \in Err BY DEF Err
  <2>3. Fail(s, "inval") \in State /\ Fail(s, "inval").mem = s.mem
        /\ Fail(s, "inval").err = "inval" /\ Fail(s, "inval").at = s.at
        /\ SameDisk(s, Fail(s, "inval"))
    BY <1>0, <2>2, FailSound
  <2> QED BY <1>0, <2>1, <2>3, KeepsTransitive DEF Safe, Good, Follows, SameDisk
<1>2. CASE i < NDIRECT + NINDIRECT /\ HasSlot(s.mem, l, i)
  <2>1. FileBlockWalk(s, l, i) = s /\ i < MaxBlocks BY <1>2, Numbers DEF FileBlockWalk, MaxBlocks
  <2> QED BY <1>0, <1>2, <2>1, KeepsTransitive DEF Safe, Good
<1>3. CASE i < NDIRECT + NINDIRECT /\ ~HasSlot(s.mem, l, i) /\ Free(s) = {}
  <2>1. FileBlockWalk(s, l, i) = Fail(s, "no_disk") BY <1>3, Numbers DEF FileBlockWalk
  <2>2. "no_disk" \in Err BY DEF Err
  <2>3. Fail(s, "no_disk") \in State /\ Fail(s, "no_disk").mem = s.mem
        /\ Fail(s, "no_disk").err = "no_disk" /\ Fail(s, "no_disk").at = s.at
        /\ SameDisk(s, Fail(s, "no_disk"))
    BY <1>0, <2>2, FailSound
  <2> QED BY <1>0, <2>1, <2>3, KeepsTransitive DEF Safe, Good, Follows, SameDisk
<1>4. CASE i < NDIRECT + NINDIRECT /\ ~HasSlot(s.mem, l, i) /\ Free(s) # {}
  <2> DEFINE b == NextFree(s)
             a == AllocBlock(s)
             u == SetIndirect(a, l, b)
             t == Clear(u, b)
  <2>0. /\ FileBlockWalk(s, l, i) = t /\ FileAt(s.mem, l).ind = NullPtr
        /\ i < MaxBlocks /\ i >= NDIRECT
    BY <1>4, Numbers DEF FileBlockWalk, HasSlot, MaxBlocks
  <2>1. /\ b \in Usable /\ b \in s.mem[Bitmap]
        /\ a \in State /\ a.err = s.err /\ a.at = s.at
        /\ MarkedOnly(s.mem, a.mem) /\ a.mem[Bitmap] = s.mem[Bitmap] \ {b}
    BY <1>0, <1>4, MarkSound
  <2> HIDE DEF b, a
  <2>2. u \in State /\ u.err = a.err /\ u.at = a.at /\ SameDisk(a, u) /\ Assigned(a.mem, u.mem, l, MaxBlocks, b)
    <3>1. b \in Pointer BY <2>1 DEF Pointer
    <3> QED BY <2>1, <3>1, SetIndirectSound
  <2> HIDE DEF u
  <2>3. t \in State /\ t.err = u.err /\ t.at = u.at /\ Zeroed(u.mem, t.mem, b)
    BY <2>1, <2>2, ClearSound
  <2> HIDE DEF t
  <2>4. ASSUME own
        PROVE  /\ Safe(own, t) /\ Keeps(s.mem, t.mem) /\ HasSlot(t.mem, l, i)
               /\ \A j \in 0..MaxBlocks-1 : Ref(t.mem, l, j) = Ref(s.mem, l, j)
    <3>1. Used(s.mem, l) /\ l \in Locs(s.mem)
      BY <2>4 DEF Used
    <3>2. /\ MaxBlocks \in 0..MaxBlocks /\ ~(MaxBlocks < MaxBlocks)
          /\ MaxBlocks \notin NDIRECT..MaxBlocks-1
          /\ \A j \in 0..MaxBlocks-1 : j \in 0..MaxBlocks /\ j # MaxBlocks
      BY Numbers
    <3>3. Ref(s.mem, l, MaxBlocks) = NullPtr BY <2>0, <1>0, Fields, RefParts
    <3>4. /\ Safe(own, t) /\ Keeps(s.mem, t.mem)
          /\ Repointed(s.mem, t.mem, l, MaxBlocks, b)
      <4>1. Assigned(AllocBlock(s).mem, u.mem, l, MaxBlocks, NextFree(s)) /\ SameDisk(AllocBlock(s), u)
        BY <2>2 DEF a, b
      <4>2. t = Clear(u, NextFree(s)) /\ b = NextFree(s) BY DEF t, b
      <4>3. Takes(s, u, l, MaxBlocks) BY <3>1, <3>2, <3>3, <1>4, <2>2, <4>1 DEF Takes
      <4>4. Safe(TRUE, s) BY <2>4 DEF Safe, Good
      <4>5. Safe(TRUE, t) BY <4>2, <4>3, <4>4, NewBlockSound
      <4>6. Safe(own, t) BY <4>5 DEF Safe, Good
      <4>7. Keeps(s.mem, t.mem) BY <4>2, <4>3, <4>4, NewBlockSound
      <4>8. Repointed(s.mem, t.mem, l, MaxBlocks, b) BY <4>2, <4>3, <4>4, NewBlockSound
      <4> QED BY <4>6, <4>7, <4>8
    <3>5. Ref(t.mem, l, MaxBlocks) = b BY <3>1, <3>2, <3>4 DEF Repointed
    <3>6. FileAt(t.mem, l).ind = b BY <3>5, <2>3, Fields, RefParts
    <3>7. FileAt(t.mem, l).ind # NullPtr BY <3>6, <2>1, Numbers DEF NullPtr
    <3>8. \A j \in 0..MaxBlocks-1 : Ref(t.mem, l, j) = Ref(s.mem, l, j)
      BY <3>1, <3>2, <3>4 DEF Repointed
    <3> QED BY <3>4, <3>7, <3>8, <2>0 DEF HasSlot, MaxBlocks
  <2>5. Safe(own, t) BY <2>3, <2>4 DEF Safe, Good
  <2> QED BY <2>0, <2>1, <2>2, <2>3, <2>4, <2>5
<1> QED BY <1>1, <1>2, <1>3, <1>4, Numbers

\* A block of blank struct Files.
BlankBlock(m, b) == \A j \in 1..BLKFILES : FileAt(m, <<b, j>>) = BlankFile

\* file_get_block fails, or there is a block at i then.
LEMMA GetBlockSound ==
  ASSUME NEW own \in BOOLEAN, NEW s, Safe(own, s), s.err = "ok",
         NEW l \in Loc, NEW i \in Nat,
         own => Used(s.mem, l) /\ i < Blocks(FileAt(s.mem, l).size)
  PROVE  LET t == FileGetBlock(s, l, i)
         IN  /\ Safe(own, t) /\ t.at = s.at /\ t.err \in {"ok", "inval", "no_disk"}
             /\ t.err = "ok" => i \in 0..MaxBlocks-1 /\ Slot(t.mem, l, i) \in Pointer
             /\ own => Keeps(s.mem, t.mem)
             /\ own /\ t.err = "ok" =>
                  /\ Ref(t.mem, l, i) # NullPtr /\ Slot(t.mem, l, i) = Ref(t.mem, l, i)
                  /\ Ref(s.mem, l, i) = NullPtr => BlankBlock(t.mem, Slot(t.mem, l, i))
<1> DEFINE w == FileBlockWalk(s, l, i)
           t == FileGetBlock(s, l, i)
<1>1. /\ Safe(own, w) /\ w.at = s.at /\ (w.err = "ok" => i < MaxBlocks)
      /\ w.err \in {"ok", "inval", "no_disk"}
      /\ own => /\ Keeps(s.mem, w.mem) /\ (w.err = "ok" => HasSlot(w.mem, l, i))
                /\ \A j \in 0..MaxBlocks-1 : Ref(w.mem, l, j) = Ref(s.mem, l, j)
  BY WalkSound
<1>2. t = IF w.err # "ok" \/ Slot(w.mem, l, i) # NullPtr THEN w
          ELSE IF Free(w) = {} THEN Fail(w, "no_disk")
          ELSE Clear(SetSlot(AllocBlock(w), l, i, NextFree(w)), NextFree(w))
  BY DEF FileGetBlock
<1> SUFFICES /\ Safe(own, t) /\ t.at = s.at /\ t.err \in {"ok", "inval", "no_disk"}
             /\ t.err = "ok" => i \in 0..MaxBlocks-1 /\ Slot(t.mem, l, i) \in Pointer
             /\ own => Keeps(s.mem, t.mem)
             /\ own /\ t.err = "ok" =>
                  /\ Ref(t.mem, l, i) # NullPtr /\ Slot(t.mem, l, i) = Ref(t.mem, l, i)
                  /\ Ref(s.mem, l, i) = NullPtr => BlankBlock(t.mem, Slot(t.mem, l, i))
  OBVIOUS
<1> HIDE DEF w, t
<1>3. /\ w \in State /\ (own => Owned(w.mem)) /\ w.mem \in Image
      /\ own /\ WholeCuts => Follows(w)
  BY <1>1, Fields DEF Safe, Good
<1>4. w.err = "ok" => i \in 0..MaxBlocks-1 /\ i # MaxBlocks BY <1>1, Numbers
<1>5. \A m \in Image : i \in 0..MaxBlocks-1 => Slot(m, l, i) \in Pointer
  <2> SUFFICES ASSUME NEW m \in Image, i \in 0..MaxBlocks-1 PROVE Slot(m, l, i) \in Pointer
    OBVIOUS
  <2>1. CASE i < NDIRECT
    <3>1. i \in 0..NDIRECT-1 BY <2>1, Numbers
    <3> QED BY <2>1, <3>1, RefParts DEF Slot
  <2>2. CASE ~(i < NDIRECT)
    <3>1. i - NDIRECT \in 0..NINDIRECT-1 BY <2>2, Numbers DEF MaxBlocks
    <3>2. FileAt(m, l).ind \in Plain BY RefParts, Numbers
    <3> QED BY <2>2, <3>1, <3>2, Typed DEF Slot
  <2> QED BY <2>1, <2>2
<1>6. \A m : i # MaxBlocks /\ HasSlot(m, l, i) => Ref(m, l, i) = Slot(m, l, i)
  BY DEF Ref
<1>7. CASE w.err # "ok"
  BY <1>1, <1>2, <1>7
<1>8. CASE w.err = "ok" /\ Slot(w.mem, l, i) # NullPtr
  <2>1. t = w /\ i \in 0..MaxBlocks-1 /\ i # MaxBlocks BY <1>2, <1>4, <1>8
  <2>2. own => Ref(w.mem, l, i) = Slot(w.mem, l, i) BY <1>1, <1>6, <1>8, <2>1
  <2>3. own => Ref(s.mem, l, i) # NullPtr BY <1>1, <1>8, <2>1, <2>2
  <2> QED BY <1>1, <1>3, <1>5, <1>8, <2>1, <2>2, <2>3
<1>9. CASE w.err = "ok" /\ Slot(w.mem, l, i) = NullPtr /\ Free(w) = {}
  <2>1. t = Fail(w, "no_disk") BY <1>2, <1>9
  <2>2. "no_disk" \in Err BY DEF Err
  <2>3. t \in State /\ t.mem = w.mem /\ t.err = "no_disk" /\ t.at = w.at /\ SameDisk(w, t)
    BY <1>3, <2>1, <2>2, FailSound
  <2> QED BY <1>1, <1>3, <2>3 DEF Safe, Good, Follows, SameDisk
<1>10. CASE w.err = "ok" /\ Slot(w.mem, l, i) = NullPtr /\ Free(w) # {}
  <2> DEFINE b == NextFree(w)
             a == AllocBlock(w)
             u == SetSlot(a, l, i, b)
  <2>0. t = Clear(u, b) /\ i \in 0..MaxBlocks-1 /\ i # MaxBlocks
    BY <1>2, <1>4, <1>10
  <2>1. /\ b \in Usable /\ b \in w.mem[Bitmap]
        /\ a \in State /\ a.err = w.err /\ a.at = w.at
        /\ MarkedOnly(w.mem, a.mem) /\ a.mem[Bitmap] = w.mem[Bitmap] \ {b}
    BY <1>3, <1>10, MarkSound
  <2> HIDE DEF b, a
  <2>2. u \in State /\ u.err = a.err /\ u.at = a.at /\ SameDisk(a, u) /\ Assigned(a.mem, u.mem, l, i, b)
    <3>1. b \in Pointer BY <2>1 DEF Pointer
    <3> QED BY <2>0, <2>1, <3>1, SetSlotSound
  <2> HIDE DEF u
  <2>3. t \in State /\ t.err = u.err /\ t.at = u.at /\ Zeroed(u.mem, t.mem, b)
    BY <2>0, <2>1, <2>2, ClearSound
  <2>4. s.mem \in Image /\ t.mem \in Image BY <2>3, Fields DEF Safe, Good
  <2>5. ASSUME own
        PROVE  /\ Safe(own, t) /\ Keeps(s.mem, t.mem)
               /\ Ref(t.mem, l, i) # NullPtr /\ Slot(t.mem, l, i) = Ref(t.mem, l, i)
               /\ BlankBlock(t.mem, Slot(t.mem, l, i))
    <3>1. Used(w.mem, l) /\ l \in Locs(w.mem) /\ i < Blocks(FileAt(w.mem, l).size)
      <4>1. Keeps(s.mem, w.mem) /\ Used(s.mem, l) /\ l \in Locs(s.mem) BY <2>5, <1>1 DEF Used
      <4>2. Used(w.mem, l) BY <4>1, UsedKept DEF Keeps
      <4>3. FileAt(w.mem, l).size = FileAt(s.mem, l).size BY <4>1 DEF Keeps, KeepsSizes
      <4> QED BY <4>2, <4>3, <2>5 DEF Used
    <3>2. i \in 0..MaxBlocks BY <2>0, Numbers
    <3>3. HasSlot(w.mem, l, i) BY <2>5, <1>1, <1>10
    <3>4. Ref(w.mem, l, i) = NullPtr BY <3>3, <2>0, <1>6, <1>10
    <3>5. i \in NDIRECT..MaxBlocks-1 => FileAt(w.mem, l).ind # NullPtr
      BY <3>3, Numbers DEF HasSlot
    <3>6. /\ Safe(TRUE, t) /\ Keeps(w.mem, t.mem) /\ Repointed(w.mem, t.mem, l, i, b)
          /\ \A j \in 1..BLKFILES : FileAt(t.mem, <<b, j>>) = BlankFile
      <4>1. Assigned(AllocBlock(w).mem, u.mem, l, i, NextFree(w)) /\ SameDisk(AllocBlock(w), u)
        BY <2>2 DEF a, b
      <4>2. t = Clear(u, NextFree(w)) /\ b = NextFree(w) BY <2>0 DEF b
      <4>3. Takes(w, u, l, i) BY <3>1, <3>2, <3>4, <3>5, <1>10, <2>2, <4>1 DEF Takes
      <4>4. Safe(TRUE, w) BY <2>5, <1>1 DEF Safe, Good
      <4>5. Safe(TRUE, t) BY <4>2, <4>3, <4>4, NewBlockSound
      <4>6. Keeps(w.mem, t.mem) BY <4>2, <4>3, <4>4, NewBlockSound
      <4>7. Repointed(w.mem, t.mem, l, i, b) BY <4>2, <4>3, <4>4, NewBlockSound
      <4>8. \A j \in 1..BLKFILES : FileAt(t.mem, <<b, j>>) = BlankFile BY <4>2, <4>3, <4>4, NewBlockSound
      <4> QED BY <4>5, <4>6, <4>7, <4>8
    <3>7. Ref(t.mem, l, i) = b /\ b # NullPtr
      BY <3>1, <3>2, <3>6, <2>1, Numbers DEF NullPtr, Repointed
    <3>8. HasSlot(t.mem, l, i) BY <3>7, <2>0 DEF Ref
    <3>9. Slot(t.mem, l, i) = b BY <3>7, <3>8, <2>0, <1>6
    <3>10. Safe(own, t) BY <3>6 DEF Safe, Good
    <3>11. Keeps(s.mem, t.mem) BY <3>6, <1>1, <2>5, KeepsTransitive
    <3> QED BY <3>6, <3>7, <3>9, <3>10, <3>11 DEF BlankBlock
  <2>6. Slot(t.mem, l, i) \in Pointer BY <2>0, <2>4, <1>5
  <2>7. Safe(own, t) BY <2>3, <2>5 DEF Safe, Good
  <2> QED BY <1>1, <1>10, <2>0, <2>1, <2>2, <2>3, <2>5, <2>6, <2>7
<1> QED BY <1>7, <1>8, <1>9, <1>10

-----------------------------------------------------------------------------
(* Giving blocks back.                                                     *)

\* file_free_block takes block i from the file.
LEMMA FreeBlockSound ==
  ASSUME NEW own \in BOOLEAN, NEW s, Good(own, s),
         NEW l \in Loc, NEW i \in Nat, own => l \in Locs(s.mem) /\ l # Root
  PROVE  LET t == FileFreeBlock(s, l, i)
         IN  /\ Good(own, t) /\ t.err = s.err /\ t.at = s.at /\ SameDisk(s, t)
             /\ s.mem[Bitmap] \subseteq t.mem[Bitmap]
             /\ own => /\ Keeps(s.mem, t.mem) /\ Locs(t.mem) = Locs(s.mem)
                       /\ \A k \in Locs(s.mem), j \in 0..MaxBlocks :
                            Ref(t.mem, k, j) = IF k = l /\ j = i /\ j < MaxBlocks
                                               THEN NullPtr ELSE Ref(s.mem, k, j)
<1>0. s \in State /\ (own => Owned(s.mem)) /\ s.mem \in Image BY Fields DEF Good
<1>1. CASE ~(HasSlot(s.mem, l, i) /\ Slot(s.mem, l, i) # NullPtr)
  <2>1. FileFreeBlock(s, l, i) = s BY <1>1 DEF FileFreeBlock
  <2>2. i < MaxBlocks => Ref(s.mem, l, i) = NullPtr
    BY <1>1, Numbers DEF Ref
  <2> QED BY <1>0, <2>1, <2>2, KeepsTransitive DEF Good, SameDisk
<1>2. CASE HasSlot(s.mem, l, i) /\ Slot(s.mem, l, i) # NullPtr
  <2> DEFINE b == Slot(s.mem, l, i)
             a == FreeBlock(s, b)
             t == SetSlot(a, l, i, NullPtr)
  <2>0. /\ FileFreeBlock(s, l, i) = t /\ i \in 0..MaxBlocks-1 /\ i \in 0..MaxBlocks
        /\ i # MaxBlocks /\ i < MaxBlocks
    BY <1>2, Numbers DEF FileFreeBlock, HasSlot, MaxBlocks
  <2>1. b = Ref(s.mem, l, i) BY <1>2, <2>0 DEF Ref
  <2>2. b \in Usable
    <3>1. b \in Pointer BY <2>0, <2>1, <1>0, RefParts
    <3> QED BY <3>1, <1>2 DEF Pointer
  <2> HIDE DEF b
  <2>3. a \in State /\ a.err = s.err /\ a.at = s.at /\ SameDisk(s, a)
        /\ MarkedOnly(s.mem, a.mem) /\ a.mem[Bitmap] = s.mem[Bitmap] \cup {b}
    <3>1. s.mem \in [Block -> Value] BY <1>0 DEF State, Image
    <3>2. a.mem = [s.mem EXCEPT ![Bitmap] = s.mem[Bitmap] \cup {b}]
      BY <1>0, <2>2, FreeSound
    <3> QED BY <3>1, <3>2, <1>0, <2>2, FreeSound, Numbers DEF MarkedOnly
  <2> HIDE DEF a
  <2>4. t \in State /\ t.err = a.err /\ t.at = a.at /\ SameDisk(a, t) /\ Assigned(a.mem, t.mem, l, i, NullPtr)
    <3>1. NullPtr \in Pointer BY DEF Pointer
    <3> QED BY <3>1, <2>0, <2>3, SetSlotSound
  <2> HIDE DEF t
  <2>5. a.mem \in Image /\ t.mem \in Image BY <2>3, <2>4, Fields
  <2>6. ASSUME own
        PROVE  /\ Owned(t.mem) /\ Keeps(s.mem, t.mem) /\ Locs(t.mem) = Locs(s.mem)
               /\ \A k \in Locs(s.mem), j \in 0..MaxBlocks :
                     Ref(t.mem, k, j) = IF k = l /\ j = i THEN NullPtr ELSE Ref(s.mem, k, j)
    <3>1. /\ \A k \in Loc : FileAt(a.mem, k) = FileAt(s.mem, k)
          /\ \A k \in Loc, j \in 0..MaxBlocks : Ref(a.mem, k, j) = Ref(s.mem, k, j)
          /\ Locs(a.mem) = Locs(s.mem)
      BY <1>0, <2>3, <2>5, MarkedSame
    <3>2. Apart(a.mem) BY <3>1, <1>0, <2>6, LocsParts DEF Owned, Sound, Apart
    <3>3. i \in NDIRECT..MaxBlocks-1 => FileAt(a.mem, l).ind # NullPtr
      BY <3>1, <1>2, Numbers DEF HasSlot
    <3>4. NullPtr \in Pointer BY DEF Pointer
    <3>5. \A k \in Locs(a.mem), j \in 0..MaxBlocks :
            Ref(t.mem, k, j) = IF k = l /\ j = i THEN NullPtr ELSE Ref(a.mem, k, j)
      BY <3>1, <3>2, <3>3, <3>4, <2>0, <2>4, <2>5, <2>6, AssignedRefs
    <3>6. \A k \in Locs(s.mem), j \in 0..MaxBlocks :
            Ref(t.mem, k, j) = IF k = l /\ j = i THEN NullPtr ELSE Ref(s.mem, k, j)
      BY <3>1, <3>5, <1>0, LocsParts
    <3>7. \A k \in Locs(s.mem) : /\ FileAt(t.mem, k).name = FileAt(s.mem, k).name
                                 /\ FileAt(t.mem, k).size = FileAt(s.mem, k).size
      BY <3>1, <2>4, <1>0, LocsParts DEF Assigned, SameFace
    <3>8. t.mem[Bitmap] = s.mem[Bitmap] \cup {b} BY <2>3, <2>4 DEF Assigned
    <3>9. Owned(s.mem) /\ l \in Locs(s.mem) /\ l # Root /\ b # NullPtr
      BY <1>0, <1>2, <2>6 DEF b
    <3> QED BY <3>6, <3>7, <3>8, <3>9, <1>0, <2>0, <2>1, <2>5, DropOwned
  <2>7. SameDisk(s, t) BY <2>3, <2>4 DEF SameDisk
  <2>8. s.mem[Bitmap] \subseteq t.mem[Bitmap] BY <2>3, <2>4 DEF Assigned
  <2> QED BY <2>0, <2>3, <2>4, <2>6, <2>7, <2>8 DEF Good
<1> QED BY <1>1, <1>2

\* n has the pointers of m, but those of file l to its blocks from a to b.
Freed(m, n, l, a, b) == \A k \in Locs(m), j \in 0..MaxBlocks :
  Ref(n, k, j) = IF k = l /\ j \in a..b /\ j < MaxBlocks THEN NullPtr ELSE Ref(m, k, j)

\* The loop of file_truncate_blocks over the blocks from a to b.
FreeBlocks(s, l, a, b) == Loop(LAMBDA u, i : FileFreeBlock(u, l, i), s, a, b)

\* It gives back these blocks and no other.
LEMMA FreeBlocksSound ==
  ASSUME NEW own \in BOOLEAN, NEW s, Good(own, s), s.err = "ok",
         NEW l \in Loc, NEW a \in Nat, NEW b \in Int, own => l \in Locs(s.mem) /\ l # Root
  PROVE  LET t == FreeBlocks(s, l, a, b)
         IN  /\ Good(own, t) /\ t.err = "ok" /\ t.at = s.at /\ SameDisk(s, t)
             /\ s.mem[Bitmap] \subseteq t.mem[Bitmap]
             /\ own => /\ Keeps(s.mem, t.mem) /\ Locs(t.mem) = Locs(s.mem)
                       /\ Freed(s.mem, t.mem, l, a, b)
<1> DEFINE r == FreeBlocks(s, l, a, b)
<1> SUFFICES /\ Good(own, r) /\ r.err = "ok" /\ r.at = s.at /\ SameDisk(s, r)
             /\ s.mem[Bitmap] \subseteq r.mem[Bitmap]
             /\ own => /\ Keeps(s.mem, r.mem) /\ Locs(r.mem) = Locs(s.mem)
                       /\ Freed(s.mem, r.mem, l, a, b)
  OBVIOUS
<1> HIDE DEF r
<1>1. CASE a > b
  <2>1. r = s
    BY <1>1 DEF Loop, FreeBlocks, r
  <2>2. \A j : j \notin a..b BY <1>1
  <2>3. Freed(s.mem, s.mem, l, a, b) BY <2>2 DEF Freed
  <2> QED BY <2>1, <2>3, KeepsTransitive DEF SameDisk
<1>2. CASE a <= b
  <2> DEFINE N == b - a + 1
             Step(u, k) == IF u.err = "ok" THEN FileFreeBlock(u, l, a + k - 1) ELSE u
             S == {u \in State : /\ Good(own, u) /\ (own => Locs(u.mem) = Locs(s.mem))
                                  /\ SameDisk(s, u) /\ s.mem[Bitmap] \subseteq u.mem[Bitmap]}
             F == [k \in 1..N |-> [u \in S |-> Step(u, k)]]
             Rec(t) == t = [k \in 0..N |-> IF k = 0 THEN s
                              ELSE IF t[k-1].err = "ok" THEN FileFreeBlock(t[k-1], l, a + k - 1) ELSE t[k-1]]
             t == CHOOSE t : Rec(t)
  <2>0. N \in Nat /\ s \in S BY <1>2 DEF Good, SameDisk
  <2>1. ASSUME NEW u \in S, NEW k \in 1..N
        PROVE  /\ Step(u, k) \in S
               /\ u.err = "ok" =>
                    /\ Step(u, k).err = "ok" /\ Step(u, k).at = u.at
                    /\ own => /\ Keeps(u.mem, Step(u, k).mem)
                              /\ Freed(u.mem, Step(u, k).mem, l, a + k - 1, a + k - 1)
    <3>0. a + k - 1 \in Nat BY <2>0
    <3>1. CASE u.err = "ok"
      <4>0. (own => l \in Locs(u.mem) /\ l # Root) /\ Good(own, u) OBVIOUS
      <4> DEFINE v == FileFreeBlock(u, l, a + k - 1)
      <4>1. /\ Good(own, v) /\ v.err = u.err /\ v.at = u.at /\ SameDisk(u, v)
            /\ u.mem[Bitmap] \subseteq v.mem[Bitmap]
            /\ own => /\ Keeps(u.mem, v.mem) /\ Locs(v.mem) = Locs(u.mem)
                      /\ \A c \in Locs(u.mem), j \in 0..MaxBlocks :
                           Ref(v.mem, c, j) = IF c = l /\ j = a + k - 1 /\ j < MaxBlocks
                                              THEN NullPtr ELSE Ref(u.mem, c, j)
        BY <4>0, <3>0, FreeBlockSound
      <4>2. \A j \in 0..MaxBlocks : j \in a+k-1..a+k-1 <=> j = a + k - 1 BY <3>0, Numbers
      <4>3. Step(u, k) = v BY <3>1
      <4> HIDE DEF v, Step
      <4>4. v \in S BY <4>1 DEF Good, SameDisk
      <4>5. own => Freed(u.mem, v.mem, l, a + k - 1, a + k - 1) BY <4>1, <4>2 DEF Freed
      <4> QED BY <4>1, <4>3, <4>4, <4>5, <3>1
    <3>2. CASE u.err # "ok" BY <3>2
    <3> QED BY <3>1, <3>2
  <2> HIDE DEF Step
  <2>2. F \in [1..N -> [S -> S]] BY <2>1
  <2>3. PICK g \in [0..N -> S] : g[0] = s /\ \A k \in 1..N : g[k] = F[k][g[k-1]]
    <3>1. \E g \in [0..N -> S] : Unrolls(g, N, s, F)
      <4> HIDE DEF F, S, N
      <4> QED BY <2>0, <2>2, Recursion, Zenon
    <3> QED BY <3>1 DEF Unrolls
  <2>4. Rec(g)
    <3>1. \A k \in 0..N : k # 0 => k \in 1..N /\ k - 1 \in 0..N BY <2>0
    <3>2. \A k \in 0..N : g[k] = IF k = 0 THEN s ELSE Step(g[k-1], k)
      BY <2>3, <3>1
    <3>3. g = [k \in 0..N |-> IF k = 0 THEN s ELSE Step(g[k-1], k)] BY <3>2
    <3> HIDE DEF N
    <3> QED BY <3>3 DEF Step
  <2>5. Rec(t)
    <3> HIDE DEF Rec
    <3> QED BY <2>4
  <2>6. r = t[N]
    BY <1>2 DEF Loop, FreeBlocks, r
  <2> HIDE DEF t
  <2>7. t[0] = s /\ \A k \in 1..N : t[k] = Step(t[k-1], k)
    <3>1. \A k \in 0..N : t[k] = IF k = 0 THEN s
                              ELSE IF t[k-1].err = "ok" THEN FileFreeBlock(t[k-1], l, a + k - 1) ELSE t[k-1]
      BY <2>5
    <3>2. 0 \in 0..N /\ \A k \in 1..N : k \in 0..N /\ k # 0 BY <2>0
    <3> QED BY <3>1, <3>2 DEF Step
  <2> HIDE DEF F, Rec, N
  <2> DEFINE P(k) == /\ t[k] \in S /\ t[k].err = "ok" /\ t[k].at = s.at
                     /\ own => Keeps(s.mem, t[k].mem) /\ Freed(s.mem, t[k].mem, l, a, a+k-1)
             T == {k \in 0..N : P(k)}
  <2>8. 0 \in T
    <3>1. \A j : j \notin a..a+0-1 OBVIOUS
    <3> QED BY <3>1, <2>0, <2>7, KeepsTransitive DEF Freed
  <2>9. ASSUME NEW k \in 0..N-1, k \in T PROVE k + 1 \in T
    <3>1. k + 1 \in 1..N /\ k + 1 \in 0..N /\ (k + 1) - 1 = k BY <2>0
    <3>2. P(k) BY <2>9
    <3> DEFINE v == t[k+1]
    <3>3. v = Step(t[k], k + 1) BY <2>7, <3>1
    <3> HIDE DEF v
    <3>4. /\ v \in S /\ v.err = "ok" /\ v.at = t[k].at
          /\ own => /\ Keeps(t[k].mem, v.mem)
                    /\ Freed(t[k].mem, v.mem, l, a + (k + 1) - 1, a + (k + 1) - 1)
      BY <2>1, <3>1, <3>2, <3>3
    <3>5. \A j \in 0..MaxBlocks :
            j \in a..a+(k+1)-1 <=> j \in a..a+k-1 \/ j \in a+(k+1)-1..a+(k+1)-1
      BY Numbers
    <3>6. own => Freed(s.mem, v.mem, l, a, a+(k+1)-1)
      <4> SUFFICES ASSUME own PROVE Freed(s.mem, v.mem, l, a, a+(k+1)-1)
        OBVIOUS
      <4>1. Locs(t[k].mem) = Locs(s.mem) BY <3>2
      <4> QED BY <3>2, <3>4, <3>5, <4>1 DEF Freed
    <3> HIDE DEF S
    <3>7. P(k+1) BY <3>2, <3>4, <3>6, KeepsTransitive DEF v
    <3> QED BY <3>1, <3>7
  <2>10. P(N)
    <3> HIDE DEF P
    <3>1. \A k \in 0..N : k \in T
      <4> HIDE DEF T
      <4> QED BY <2>0, <2>8, <2>9, Induct
    <3> QED BY <3>1, <2>0
  <2>11. a + N - 1 = b BY DEF N
  <2>12. /\ t[N] \in S /\ t[N].err = "ok" /\ t[N].at = s.at
         /\ own => Keeps(s.mem, t[N].mem) /\ Freed(s.mem, t[N].mem, l, a, b)
    BY <2>10, <2>11
  <2> HIDE DEF P
  <2> QED BY <2>6, <2>12
<1>3. a > b \/ a <= b OBVIOUS
<1> QED BY <1>1, <1>2, <1>3, Zenon

\* Numbers of blocks.
LEMMA Division ==
  ASSUME NEW p \in Nat
  PROVE  /\ p \div BLKSIZE \in Nat
         /\ (p \div BLKSIZE) * BLKSIZE <= p
         /\ p < (p \div BLKSIZE + 1) * BLKSIZE
BY FileSysAssumption

\* A file of n bytes has as many blocks as it needs and no more.
LEMMA BlocksSound ==
  ASSUME NEW n \in Nat
  PROVE  /\ Blocks(n) \in Nat
         /\ Blocks(n) * BLKSIZE >= n
         /\ Blocks(n) * BLKSIZE < n + BLKSIZE
<1>1. n + BLKSIZE - 1 \in Nat BY Numbers
<1> DEFINE q == (n + BLKSIZE - 1) \div BLKSIZE
<1>2. q \in Nat /\ q * BLKSIZE <= n + BLKSIZE - 1 /\ n + BLKSIZE - 1 < (q + 1) * BLKSIZE
  BY <1>1, Division
<1> HIDE DEF q
<1>3. (q + 1) * BLKSIZE = q * BLKSIZE + BLKSIZE BY <1>2, Numbers
<1>4. Blocks(n) = q BY DEF Blocks, q
<1> QED BY <1>2, <1>3, <1>4, Numbers

\* A product of natural numbers grows with its first factor.
LEMMA Products ==
  ASSUME NEW x \in Nat, NEW y \in Nat, x * BLKSIZE < y * BLKSIZE
  PROVE  x < y
<1> SUFFICES ASSUME y <= x PROVE FALSE OBVIOUS
<1>1. y * BLKSIZE <= x * BLKSIZE BY Numbers
<1>2. x * BLKSIZE \in Nat /\ y * BLKSIZE \in Nat BY Numbers
<1> QED BY <1>1, <1>2

\* A larger file has as many blocks or more, every byte is in one of them, and
\* BLKSIZE more bytes make one block more.
LEMMA BlocksOrder ==
  ASSUME NEW n \in Nat
  PROVE  /\ \A k \in Nat : n <= k => Blocks(n) <= Blocks(k)
         /\ \A p \in Nat : p < n => p \div BLKSIZE < Blocks(n)
         /\ Blocks(n) < Blocks(n + BLKSIZE)
<1>1. ASSUME NEW k \in Nat, n <= k PROVE Blocks(n) <= Blocks(k)
  <2>1. Blocks(n) * BLKSIZE < n + BLKSIZE /\ Blocks(k) * BLKSIZE >= k
        /\ Blocks(n) \in Nat /\ Blocks(k) \in Nat
    BY BlocksSound
  <2>2. (Blocks(k) + 1) * BLKSIZE = Blocks(k) * BLKSIZE + BLKSIZE BY <2>1, Numbers
  <2>3. Blocks(n) * BLKSIZE < (Blocks(k) + 1) * BLKSIZE
    <3>1. Blocks(n) * BLKSIZE \in Nat /\ Blocks(k) * BLKSIZE \in Nat BY <2>1, Numbers
    <3> QED BY <2>1, <2>2, <3>1, <1>1, Numbers
  <2>4. Blocks(n) < Blocks(k) + 1 BY <2>1, <2>3, Products
  <2> QED BY <2>1, <2>4
<1>2. ASSUME NEW p \in Nat, p < n PROVE p \div BLKSIZE < Blocks(n)
  <2> DEFINE q == p \div BLKSIZE
  <2>1. q \in Nat /\ q * BLKSIZE <= p BY Division
  <2>2. Blocks(n) \in Nat /\ Blocks(n) * BLKSIZE >= n BY BlocksSound
  <2> HIDE DEF q
  <2>3. q * BLKSIZE < Blocks(n) * BLKSIZE
    <3>1. q * BLKSIZE \in Nat /\ Blocks(n) * BLKSIZE \in Nat BY <2>1, <2>2, Numbers
    <3> QED BY <2>1, <2>2, <3>1, <1>2
  <2>4. q < Blocks(n) BY <2>1, <2>2, <2>3, Products
  <2> QED BY <2>4 DEF q
<1>3. Blocks(n) < Blocks(n + BLKSIZE)
  <2>0. n + BLKSIZE \in Nat BY Numbers
  <2>1. Blocks(n) * BLKSIZE < n + BLKSIZE /\ Blocks(n) \in Nat BY BlocksSound
  <2>2. Blocks(n + BLKSIZE) * BLKSIZE >= n + BLKSIZE /\ Blocks(n + BLKSIZE) \in Nat
    BY <2>0, BlocksSound
  <2>3. Blocks(n) * BLKSIZE < Blocks(n + BLKSIZE) * BLKSIZE
    <3>1. Blocks(n) * BLKSIZE \in Nat /\ Blocks(n + BLKSIZE) * BLKSIZE \in Nat BY <2>1, <2>2, Numbers
    <3> QED BY <2>1, <2>2, <3>1, <2>0
  <2> QED BY <2>1, <2>2, <2>3, Products
<1> QED BY <1>1, <1>2, <1>3

\* n has the pointers of m, but file l has lost some from block c on: those of its
\* indirect block with it, if that is beyond c.
CutAt(m, n, l, c) ==
  /\ \A k \in Locs(m), j \in 0..MaxBlocks : k # l => Ref(n, k, j) = Ref(m, k, j)
  /\ Ref(n, l, MaxBlocks) \in {NullPtr, Ref(m, l, MaxBlocks)}
  /\ c <= NDIRECT => Ref(n, l, MaxBlocks) = NullPtr
  /\ c >= MaxBlocks => \A j \in 0..MaxBlocks : Ref(n, l, j) = Ref(m, l, j)

\* file_truncate_blocks leaves no block beyond the new size.
LEMMA TruncateSound ==
  ASSUME NEW own \in BOOLEAN, NEW s, Good(own, s), s.err = "ok",
         NEW l \in Loc, NEW n \in Nat, own => l \in Locs(s.mem) /\ l # Root
  PROVE  LET t == FileTruncateBlocks(s, l, n)
         IN  /\ Good(own, t) /\ t.err = "ok" /\ t.at = s.at /\ SameDisk(s, t)
             /\ s.mem[Bitmap] \subseteq t.mem[Bitmap]
             /\ own => CutAt(s.mem, t.mem, l, Blocks(n))
             /\ own => /\ Keeps(s.mem, t.mem) /\ Locs(t.mem) = Locs(s.mem)
                       /\ \A j \in 0..MaxBlocks-1 : Ref(t.mem, l, j) # NullPtr => j < Blocks(n)
<1> DEFINE u == FreeBlocks(s, l, Blocks(n), Blocks(FileAt(s.mem, l).size) - 1)
           d == FileAt(u.mem, l).ind
           t == FileTruncateBlocks(s, l, n)
<1>0. s \in State /\ s.mem \in Image /\ FileAt(s.mem, l).size \in Nat /\ Blocks(n) \in Nat
      /\ Blocks(FileAt(s.mem, l).size) \in Nat
  <2>1. s \in State /\ s.mem \in Image BY Fields DEF Good
  <2>2. FileAt(s.mem, l).size \in Nat BY <2>1, Typed DEF File
  <2> QED BY <2>1, <2>2, BlocksSound
<1>1. /\ Good(own, u) /\ u.err = "ok" /\ u.at = s.at /\ SameDisk(s, u)
      /\ s.mem[Bitmap] \subseteq u.mem[Bitmap]
      /\ own => /\ Keeps(s.mem, u.mem) /\ Locs(u.mem) = Locs(s.mem)
                /\ Freed(s.mem, u.mem, l, Blocks(n), Blocks(FileAt(s.mem, l).size) - 1)
  <2>1. Blocks(FileAt(s.mem, l).size) - 1 \in Int BY <1>0
  <2> QED BY <1>0, <2>1, FreeBlocksSound
<1>2. t = IF Blocks(n) <= NDIRECT /\ d # NullPtr
          THEN SetIndirect(FreeBlock(u, d), l, NullPtr) ELSE u
  BY DEF FileTruncateBlocks, FreeBlocks
<1> SUFFICES /\ Good(own, t) /\ t.err = "ok" /\ t.at = s.at /\ SameDisk(s, t)
             /\ s.mem[Bitmap] \subseteq t.mem[Bitmap]
             /\ own => CutAt(s.mem, t.mem, l, Blocks(n))
             /\ own => /\ Keeps(s.mem, t.mem) /\ Locs(t.mem) = Locs(s.mem)
                       /\ \A j \in 0..MaxBlocks-1 : Ref(t.mem, l, j) # NullPtr => j < Blocks(n)
  OBVIOUS
<1> HIDE DEF u, t
<1>3. ASSUME own, NEW j \in 0..MaxBlocks-1, Ref(u.mem, l, j) # NullPtr PROVE j < Blocks(n)
  <2>0. j \in 0..MaxBlocks /\ j < MaxBlocks /\ l \in Locs(s.mem) BY <1>3, Numbers
  <2>1. Ref(s.mem, l, j) # NullPtr BY <1>1, <1>3, <2>0 DEF Freed
  <2>2. Owned(s.mem) /\ l \in Locs(s.mem) BY <1>3 DEF Good
  <2>3. j < Blocks(FileAt(s.mem, l).size) BY <2>1, <2>2 DEF Owned, Sound, WithinSize
  <2>4. j \notin Blocks(n)..Blocks(FileAt(s.mem, l).size) - 1 BY <1>1, <1>3, <2>0 DEF Freed
  <2> QED BY <2>3, <2>4, <1>0, Numbers
<1>6. ASSUME own
      PROVE  /\ \A k \in Locs(s.mem), j \in 0..MaxBlocks : k # l => Ref(u.mem, k, j) = Ref(s.mem, k, j)
             /\ Ref(u.mem, l, MaxBlocks) = Ref(s.mem, l, MaxBlocks)
             /\ Blocks(n) >= MaxBlocks => \A j \in 0..MaxBlocks : Ref(u.mem, l, j) = Ref(s.mem, l, j)
  <2>1. MaxBlocks \in 0..MaxBlocks /\ ~(MaxBlocks < MaxBlocks) /\ l \in Locs(s.mem) BY <1>6, Numbers
  <2>2. Blocks(n) >= MaxBlocks => \A j \in 0..MaxBlocks :
          ~(j \in Blocks(n)..Blocks(FileAt(s.mem, l).size) - 1 /\ j < MaxBlocks)
    BY <1>0, Numbers
  <2> QED BY <2>1, <2>2, <1>1, <1>6 DEF Freed
<1>4. CASE ~(Blocks(n) <= NDIRECT /\ d # NullPtr)
  <2>1. t = u BY <1>2, <1>4
  <2>2. own => CutAt(s.mem, u.mem, l, Blocks(n))
    <3>1. Blocks(n) <= NDIRECT => Ref(u.mem, l, MaxBlocks) = NullPtr
      BY <1>1, <1>4, Fields, RefParts DEF Good
    <3> QED BY <3>1, <1>6 DEF CutAt
  <2> QED BY <1>1, <1>3, <2>1, <2>2
<1>5. CASE Blocks(n) <= NDIRECT /\ d # NullPtr
  <2> DEFINE a == FreeBlock(u, d)
  <2>0. u \in State /\ u.mem \in Image BY <1>1, Fields DEF Good
  <2>1. d \in Usable
    <3>1. d \in Pointer BY <2>0, RefParts
    <3> QED BY <3>1, <1>5 DEF Pointer
  <2>2. t = SetIndirect(a, l, NullPtr) BY <1>2, <1>5
  <2> HIDE DEF d
  <2>3. a \in State /\ a.err = u.err /\ a.at = u.at /\ SameDisk(u, a)
        /\ MarkedOnly(u.mem, a.mem) /\ a.mem[Bitmap] = u.mem[Bitmap] \cup {d}
    <3>1. u.mem \in [Block -> Value] BY <2>0 DEF State, Image
    <3>2. a.mem = [u.mem EXCEPT ![Bitmap] = u.mem[Bitmap] \cup {d}]
      BY <2>0, <2>1, FreeSound
    <3> QED BY <3>1, <3>2, <2>0, <2>1, FreeSound, Numbers DEF MarkedOnly
  <2> HIDE DEF a
  <2>4. t \in State /\ t.err = a.err /\ t.at = a.at /\ SameDisk(a, t) /\ Assigned(a.mem, t.mem, l, MaxBlocks, NullPtr)
    <3>1. NullPtr \in Pointer BY DEF Pointer
    <3> QED BY <3>1, <2>2, <2>3, SetIndirectSound
  <2>5. a.mem \in Image /\ t.mem \in Image BY <2>3, <2>4, Fields
  <2>6. ASSUME own
        PROVE  /\ Owned(t.mem) /\ Keeps(u.mem, t.mem) /\ Locs(t.mem) = Locs(u.mem)
               /\ \A k \in Locs(u.mem), j \in 0..MaxBlocks :
                     Ref(t.mem, k, j) = IF k = l /\ j = MaxBlocks THEN NullPtr ELSE Ref(u.mem, k, j)
    <3>0. /\ Owned(u.mem) /\ l \in Locs(u.mem) /\ l # Root /\ MaxBlocks \in 0..MaxBlocks
          /\ d = Ref(u.mem, l, MaxBlocks) /\ d # NullPtr
      BY <2>6, <1>1, <1>5, <2>0, RefParts, Numbers DEF Good, d
    <3>1. /\ \A k \in Loc : FileAt(a.mem, k) = FileAt(u.mem, k)
          /\ \A c \in Plain : a.mem[c] = u.mem[c]
      BY <2>0, <2>3, <2>5, MarkedSame
    <3>2. ASSUME NEW k \in Locs(u.mem), NEW j \in 0..MaxBlocks
          PROVE  Ref(t.mem, k, j) = IF k = l /\ j = MaxBlocks THEN NullPtr ELSE Ref(u.mem, k, j)
      <4>0. k \in Loc BY <2>0, LocsParts
      <4>1. FileAt(t.mem, k).ind = IF k = l THEN NullPtr ELSE FileAt(u.mem, k).ind
        BY <4>0, <3>1, <2>4 DEF Assigned
      <4>2. CASE j = MaxBlocks
        BY <4>0, <4>1, <4>2, <2>0, <2>5, RefParts
      <4>3. CASE j \in 0..NDIRECT-1
        <5>1. j # MaxBlocks BY <4>3, Numbers DEF MaxBlocks
        <5>2. FileAt(t.mem, k).direct[j] = FileAt(u.mem, k).direct[j]
          BY <5>1, <4>0, <4>3, <3>1, <2>4 DEF Assigned
        <5> QED BY <5>1, <5>2, <4>0, <4>3, <2>0, <2>5, RefParts
      <4>4. CASE j \in NDIRECT..MaxBlocks-1
        <5>1. j # MaxBlocks /\ j \in 0..MaxBlocks-1 /\ ~(j < Blocks(n)) BY <4>4, <1>0, <1>5, Numbers DEF MaxBlocks
        <5>2. CASE k = l
          <6>1. Ref(u.mem, l, j) = NullPtr BY <5>1, <1>3, <2>6
          <6>2. Ref(t.mem, k, j) = NullPtr BY <5>2, <4>0, <4>1, <4>4, <2>5, RefParts
          <6> QED BY <5>1, <5>2, <6>1, <6>2
        <5>3. CASE k # l
          <6> DEFINE e == FileAt(u.mem, k).ind
          <6>1. e \in Plain BY <4>0, <2>0, RefParts, Numbers
          <6>2. t.mem[e].ptr[j - NDIRECT] = u.mem[e].ptr[j - NDIRECT]
            BY <6>1, <3>1, <5>1, <4>4, <2>4 DEF Assigned
          <6>3. FileAt(t.mem, k).ind = e BY <4>1, <5>3
          <6>4. Ref(u.mem, k, j) = IF e = NullPtr THEN NullPtr ELSE u.mem[e].ptr[j - NDIRECT]
            BY <4>0, <4>4, <2>0, RefParts
          <6> HIDE DEF e
          <6>5. Ref(t.mem, k, j) = IF e = NullPtr THEN NullPtr ELSE t.mem[e].ptr[j - NDIRECT]
            BY <6>3, <4>0, <4>4, <2>5, RefParts
          <6> QED BY <6>2, <6>4, <6>5, <5>3
        <5> QED BY <5>2, <5>3
      <4> QED BY <4>0, <4>2, <4>3, <4>4, <2>0, RefParts
    <3>3. \A k \in Locs(u.mem) : /\ FileAt(t.mem, k).name = FileAt(u.mem, k).name
                                 /\ FileAt(t.mem, k).size = FileAt(u.mem, k).size
      BY <3>1, <2>0, <2>4, LocsParts DEF Assigned, SameFace
    <3>4. t.mem[Bitmap] = u.mem[Bitmap] \cup {d} BY <2>3, <2>4 DEF Assigned
    <3> QED BY <3>0, <3>2, <3>3, <3>4, <2>0, <2>5, DropOwned
  <2>7. ASSUME own, NEW j \in 0..MaxBlocks-1, Ref(t.mem, l, j) # NullPtr PROVE j < Blocks(n)
    <3>1. j \in 0..MaxBlocks /\ j # MaxBlocks BY Numbers
    <3>2. Ref(u.mem, l, j) # NullPtr BY <3>1, <2>6, <2>7, <1>1
    <3> QED BY <3>2, <1>3, <2>7
  <2>8. SameDisk(s, t) BY <1>1, <2>3, <2>4 DEF SameDisk
  <2>9. s.mem[Bitmap] \subseteq t.mem[Bitmap] BY <1>1, <2>3, <2>4 DEF Assigned
  <2>10. own => CutAt(s.mem, t.mem, l, Blocks(n))
    <3> SUFFICES ASSUME own PROVE CutAt(s.mem, t.mem, l, Blocks(n))
      OBVIOUS
    <3>1. ~(Blocks(n) >= MaxBlocks) /\ MaxBlocks \in 0..MaxBlocks BY <1>0, <1>5, Numbers DEF MaxBlocks
    <3>2. Ref(t.mem, l, MaxBlocks) = NullPtr BY <3>1, <1>1, <2>6
    <3>3. \A k \in Locs(s.mem), j \in 0..MaxBlocks : k # l => Ref(t.mem, k, j) = Ref(s.mem, k, j)
      BY <1>1, <1>6, <2>6
    <3> QED BY <3>1, <3>2, <3>3 DEF CutAt
  <2>11. own => Keeps(s.mem, t.mem) /\ Locs(t.mem) = Locs(s.mem) BY <1>1, <2>6, KeepsTransitive
  <2>12. Good(own, t) BY <2>4, <2>6 DEF Good
  <2> QED BY <1>1, <2>3, <2>4, <2>7, <2>8, <2>9, <2>10, <2>11, <2>12
<1> QED BY <1>4, <1>5

\* What an assignment to the size or the name of a file leaves alone.
LEMMA FaceSound ==
  ASSUME NEW s \in State, NEW l \in Loc, NEW f \in File, l = Root => f.size % BLKSIZE = 0,
         f.direct = FileAt(s.mem, l).direct, f.ind = FileAt(s.mem, l).ind
  PROVE  LET t == PutFile(s, l, f)
         IN  /\ t \in State /\ t.err = s.err /\ t.at = s.at /\ SameDisk(s, t)
             /\ t.mem[Bitmap] = s.mem[Bitmap] /\ Locs(t.mem) = Locs(s.mem)
             /\ \A k \in Loc : FileAt(t.mem, k) = IF k = l THEN f ELSE FileAt(s.mem, k)
             /\ \A k \in Loc, j \in 0..MaxBlocks : Ref(t.mem, k, j) = Ref(s.mem, k, j)
<1> DEFINE t == PutFile(s, l, f)
<1>1. /\ t \in State /\ t.err = s.err /\ t.at = s.at /\ SameDisk(s, t)
      /\ t.mem[Bitmap] = s.mem[Bitmap]
      /\ \A c \in Block : c # Bitmap => t.mem[c].ptr = s.mem[c].ptr
      /\ \A k \in Loc : FileAt(t.mem, k) = IF k = l THEN f ELSE FileAt(s.mem, k)
  BY PutFileSound
<1> HIDE DEF t
<1>2. s.mem \in Image /\ t.mem \in Image BY <1>1, Fields
<1>3. ASSUME NEW k \in Loc, NEW j \in 0..MaxBlocks PROVE Ref(t.mem, k, j) = Ref(s.mem, k, j)
  <2>1. FileAt(t.mem, k).ind = FileAt(s.mem, k).ind /\ FileAt(t.mem, k).direct = FileAt(s.mem, k).direct
    BY <1>1
  <2>2. FileAt(s.mem, k).ind \in Block /\ FileAt(s.mem, k).ind # Bitmap
    BY <1>2, RefParts, Numbers
  <2>3. t.mem[FileAt(s.mem, k).ind].ptr = s.mem[FileAt(s.mem, k).ind].ptr
    BY <1>1, <2>2
  <2> QED BY <2>1, <2>3 DEF Ref, HasSlot, Slot
<1>4. Locs(t.mem) = Locs(s.mem)
  <2>1. 0..MaxBlocks-1 \subseteq 0..MaxBlocks BY Numbers
  <2> QED BY <2>1, <1>2, <1>3, SameLocs, LocsParts
<1> QED BY <1>1, <1>3, <1>4 DEF t

\* The size grows, or the blocks beyond the new one are gone.
LEMMA SizeSound ==
  ASSUME NEW own \in BOOLEAN, NEW s, Good(own, s), NEW l \in Loc, NEW n \in Nat,
         l = Root => n % BLKSIZE = 0,
         own => l \in Locs(s.mem) /\ \A j \in 0..MaxBlocks-1 : Ref(s.mem, l, j) # NullPtr => j < Blocks(n)
  PROVE  LET t == SetSize(s, l, n)
         IN  /\ Good(own, t) /\ t.err = s.err /\ t.at = s.at
             /\ SameDisk(s, t) /\ t.mem[Bitmap] = s.mem[Bitmap]
             /\ \A k \in Loc : k # l => FileAt(t.mem, k) = FileAt(s.mem, k)
             /\ \A k \in Loc, j \in 0..MaxBlocks : Ref(t.mem, k, j) = Ref(s.mem, k, j)
             /\ own => /\ KeepsNames(s.mem, t.mem) /\ Locs(t.mem) = Locs(s.mem)
                       /\ FileAt(t.mem, l).size = n
<1> DEFINE e == FileAt(s.mem, l)
           f == [e EXCEPT !.size = n]
           t == PutFile(s, l, f)
<1>0. s \in State /\ s.mem \in Image /\ e \in File BY Fields, Typed DEF Good
<1>1. f \in File /\ f.name = e.name /\ f.size = n /\ f.direct = e.direct /\ f.ind = e.ind
  <2> HIDE DEF e
  <2> QED BY <1>0 DEF File
<1>2. SetSize(s, l, n) = t BY DEF SetSize
<1> HIDE DEF f
<1>3. /\ t \in State /\ t.err = s.err /\ t.at = s.at /\ SameDisk(s, t)
      /\ t.mem[Bitmap] = s.mem[Bitmap] /\ Locs(t.mem) = Locs(s.mem)
      /\ \A k \in Loc : FileAt(t.mem, k) = IF k = l THEN f ELSE FileAt(s.mem, k)
      /\ \A k \in Loc, j \in 0..MaxBlocks : Ref(t.mem, k, j) = Ref(s.mem, k, j)
  BY <1>0, <1>1, FaceSound
<1> HIDE DEF t
<1>4. ASSUME own PROVE Owned(t.mem) /\ KeepsNames(s.mem, t.mem) /\ FileAt(t.mem, l).size = n
  <2>1. t.mem \in Image /\ Owned(s.mem) /\ Locs(s.mem) \subseteq Loc
    BY <1>0, <1>3, <1>4, Fields, LocsParts DEF Good
  <2>2. \A k \in Locs(s.mem) : FileAt(t.mem, k).name = FileAt(s.mem, k).name
    BY <2>1, <1>1, <1>3
  <2>3. \A k \in Locs(s.mem), i \in 0..MaxBlocks-1 : 
           i < Blocks(FileAt(s.mem, k).size) /\ Ref(s.mem, k, i) # NullPtr => i < Blocks(FileAt(t.mem, k).size)
    BY <2>1, <1>1, <1>3, <1>4
  <2>4. \A k \in Locs(s.mem), i \in 0..MaxBlocks : Ref(t.mem, k, i) = Ref(s.mem, k, i)
    BY <2>1, <1>3
  <2>5. Owned(t.mem) BY <2>1, <2>2, <2>3, <2>4, <1>0, <1>3, SameOwned
  <2> QED BY <2>2, <2>5, <1>1, <1>3 DEF KeepsNames
<1> QED BY <1>2, <1>3, <1>4 DEF Good

\* Only bytes, the size of the directory and the name of a struct File that had
\* none are new in n.
Alike(m, n) ==
  /\ n[Bitmap] = m[Bitmap] /\ Locs(n) = Locs(m)
  /\ \A l \in Locs(m), i \in 0..MaxBlocks : Ref(n, l, i) = Ref(m, l, i)
  /\ \A l \in Locs(m) : l # Root =>
       FileAt(n, l).size = FileAt(m, l).size /\ FileAt(m, l).name \in {NoName, FileAt(n, l).name}

\* Such a change of the cache leaves the disk behind it.
LEMMA SameSafe ==
  ASSUME NEW own \in BOOLEAN, NEW s, Safe(own, s), NEW t, Good(own, t), SameDisk(s, t),
         own => Alike(s.mem, t.mem)
  PROVE  Safe(own, t)
<1> SUFFICES ASSUME own, WholeCuts PROVE Follows(t)
  BY DEF Safe
<1>1. /\ s.mem \in Image /\ t.mem \in Image /\ s.img \in Image
      /\ Behind(s.mem, s.img) /\ Leads(disk, s.out, s.img)
      /\ t.img = s.img /\ t.out = s.out /\ Alike(s.mem, t.mem)
  BY Fields DEF Safe, Good, Follows, SameDisk
<1>2. Behind(t.mem, s.img) BY <1>1, SameBehind DEF Alike
<1> QED BY <1>1, <1>2 DEF Follows

\* n has the pointers of m, but file l has lost some, and those of its indirect
\* block only with it.
CutWhole(m, n, l) ==
  /\ \A k \in Locs(m), j \in 0..MaxBlocks : k # l => Ref(n, k, j) = Ref(m, k, j)
  /\ Ref(n, l, MaxBlocks) \in {NullPtr, Ref(m, l, MaxBlocks)}
  /\ Ref(n, l, MaxBlocks) # NullPtr =>
       \A j \in NDIRECT..MaxBlocks-1 : Ref(n, l, j) = Ref(m, l, j)

\* file_set_size: the struct File is written once the blocks are given back in the
\* cache, and before the bitmap is.
LEMMA SetSizeSound ==
  ASSUME NEW own \in BOOLEAN, NEW s, Safe(own, s), s.err = "ok",
         NEW l \in Loc, l # Root, l[1] # 0, NEW n \in Nat, own => l \in Locs(s.mem),
         WholeCuts => n >= FileAt(s.mem, l).size \/ Blocks(n) <= NDIRECT \/ Blocks(n) >= MaxBlocks
  PROVE  LET t == FileSetSize(s, l, n)
         IN  /\ Safe(own, t) /\ t.err = "ok" /\ t.at = s.at
             /\ own => /\ KeepsNames(s.mem, t.mem) /\ Locs(t.mem) = Locs(s.mem)
                       /\ FileAt(t.mem, l).size = n
<1> DEFINE u == IF FileAt(s.mem, l).size > n THEN FileTruncateBlocks(s, l, n) ELSE s
           v == SetSize(u, l, n)
           t == FlushBlock(v, l[1])
<1>0. /\ Good(own, s) /\ s \in State /\ s.mem \in Image /\ FileAt(s.mem, l).size \in Nat
      /\ l[1] \in 1..NBLOCKS-1 /\ Blocks(n) \in Nat
  <2>1. s \in State /\ s.mem \in Image BY Fields DEF Safe, Good
  <2>2. FileAt(s.mem, l).size \in Nat /\ l[1] \in Block BY <2>1, Typed DEF File
  <2>3. l[1] \in 1..NBLOCKS-1 BY <2>2 DEF Block
  <2> QED BY <2>1, <2>2, <2>3, BlocksSound DEF Safe
<1>1. /\ Good(own, u) /\ u.err = "ok" /\ u.at = s.at /\ SameDisk(s, u)
      /\ s.mem[Bitmap] \subseteq u.mem[Bitmap]
      /\ own => /\ Keeps(s.mem, u.mem) /\ Locs(u.mem) = Locs(s.mem)
                /\ \A j \in 0..MaxBlocks-1 : Ref(u.mem, l, j) # NullPtr => j < Blocks(n)
                /\ WholeCuts => CutWhole(s.mem, u.mem, l)
  <2>1. CASE FileAt(s.mem, l).size > n
    <3> DEFINE w == FileTruncateBlocks(s, l, n)
    <3>1. /\ Good(own, w) /\ w.err = "ok" /\ w.at = s.at /\ SameDisk(s, w)
          /\ s.mem[Bitmap] \subseteq w.mem[Bitmap]
          /\ own => CutAt(s.mem, w.mem, l, Blocks(n))
          /\ own => /\ Keeps(s.mem, w.mem) /\ Locs(w.mem) = Locs(s.mem)
                    /\ \A j \in 0..MaxBlocks-1 : Ref(w.mem, l, j) # NullPtr => j < Blocks(n)
      BY <1>0, TruncateSound
    <3>2. u = w BY <2>1
    <3> HIDE DEF u, w
    <3>3. ASSUME own, WholeCuts PROVE CutWhole(s.mem, w.mem, l)
      <4>1. Blocks(n) <= NDIRECT \/ Blocks(n) >= MaxBlocks BY <1>0, <2>1, <3>3
      <4>2. CutAt(s.mem, w.mem, l, Blocks(n)) BY <3>1, <3>3
      <4>3. MaxBlocks \in 0..MaxBlocks /\ \A j \in NDIRECT..MaxBlocks-1 : j \in 0..MaxBlocks
        BY Numbers DEF MaxBlocks
      <4> QED BY <4>1, <4>2, <4>3 DEF CutAt, CutWhole
    <3> QED BY <3>1, <3>2, <3>3
  <2>2. CASE ~(FileAt(s.mem, l).size > n)
    <3>1. u = s BY <2>2
    <3> HIDE DEF u
    <3>2. Blocks(FileAt(s.mem, l).size) <= Blocks(n) /\ Blocks(n) \in Nat
          /\ Blocks(FileAt(s.mem, l).size) \in Nat
      BY <1>0, <2>2, BlocksOrder, BlocksSound
    <3>3. ASSUME own, NEW j \in 0..MaxBlocks-1, Ref(s.mem, l, j) # NullPtr PROVE j < Blocks(n)
      <4>1. j < Blocks(FileAt(s.mem, l).size) BY <1>0, <3>3 DEF Good, Owned, Sound, WithinSize
      <4> QED BY <4>1, <3>2, Numbers
    <3>4. SameDisk(s, s) /\ CutWhole(s.mem, s.mem, l) BY DEF SameDisk, CutWhole
    <3> QED BY <1>0, <3>1, <3>3, <3>4, KeepsTransitive
  <2> QED BY <2>1, <2>2
<1>2. FileSetSize(s, l, n) = t BY DEF FileSetSize
<1> HIDE DEF u
<1>3. /\ Good(own, v) /\ v.err = u.err /\ v.at = u.at /\ SameDisk(u, v)
      /\ v.mem[Bitmap] = u.mem[Bitmap]
      /\ \A k \in Loc : k # l => FileAt(v.mem, k) = FileAt(u.mem, k)
      /\ \A k \in Loc, j \in 0..MaxBlocks : Ref(v.mem, k, j) = Ref(u.mem, k, j)
      /\ own => /\ KeepsNames(u.mem, v.mem) /\ Locs(v.mem) = Locs(u.mem) /\ FileAt(v.mem, l).size = n
  BY <1>1, SizeSound
<1> HIDE DEF v
<1>4. /\ t \in State /\ t.mem = v.mem /\ t.err = v.err /\ t.at = v.at
      /\ Written(v.img, t.img, l[1], v.mem[l[1]]) /\ LeadsTo(v, t)
  BY <1>0, <1>3, FlushSound, FlushDisk DEF Good
<1> HIDE DEF t
<1>5. Good(own, t) BY <1>3, <1>4 DEF Good
<1>6. ASSUME own, WholeCuts PROVE Follows(t)
  <2>1. /\ s.mem \in Image /\ s.img \in Image /\ v.mem \in Image /\ t.img \in Image
        /\ Sound(s.mem) /\ Sound(v.mem) /\ Behind(s.mem, s.img) /\ Leads(disk, s.out, s.img)
        /\ v.img = s.img /\ v.out = s.out
    BY <1>0, <1>1, <1>3, <1>4, <1>6, Fields DEF Safe, Good, Owned, Follows, SameDisk
  <2>2. /\ Locs(s.mem) \subseteq Loc /\ l \in Locs(s.mem) /\ Locs(v.mem) = Locs(s.mem)
        /\ s.mem[Bitmap] \subseteq v.mem[Bitmap]
        /\ MaxBlocks \in 0..MaxBlocks /\ \A j \in NDIRECT..MaxBlocks-1 : j \in 0..MaxBlocks
    BY <1>0, <1>1, <1>3, <1>6, LocsParts, Numbers DEF MaxBlocks
  <2>3. CutWhole(s.mem, u.mem, l) BY <1>1, <1>6
  <2>4. \A k \in Locs(s.mem), j \in 0..MaxBlocks : k # l => Ref(v.mem, k, j) = Ref(s.mem, k, j)
    BY <1>3, <2>2, <2>3 DEF CutWhole
  <2>5. FileAt(v.mem, l).ind \in {NullPtr, FileAt(s.mem, l).ind}
    <3>1. Ref(v.mem, l, MaxBlocks) = Ref(u.mem, l, MaxBlocks) BY <1>3, <2>2
    <3>2. Ref(v.mem, l, MaxBlocks) \in {NullPtr, Ref(s.mem, l, MaxBlocks)}
      BY <3>1, <2>3 DEF CutWhole
    <3> QED BY <3>2, <2>1, RefParts
  <2>6. ASSUME FileAt(v.mem, l).ind # NullPtr, NEW j \in NDIRECT..MaxBlocks-1
        PROVE  Ref(v.mem, l, j) = Ref(s.mem, l, j)
    <3>1. Ref(v.mem, l, MaxBlocks) # NullPtr BY <2>1, <2>6, RefParts
    <3>2. Ref(u.mem, l, MaxBlocks) # NullPtr BY <3>1, <1>3, <2>2
    <3>3. Ref(u.mem, l, j) = Ref(s.mem, l, j) BY <3>2, <2>3 DEF CutWhole
    <3> QED BY <3>3, <1>3, <2>2
  <2>7. \A k \in Locs(s.mem) : FileAt(v.mem, k).name = FileAt(s.mem, k).name
    BY <1>1, <1>3, <1>6 DEF Keeps, KeepsNames
  <2>8. \A k \in Locs(s.mem) : k # l => FileAt(v.mem, k).size = FileAt(s.mem, k).size
    BY <1>1, <1>3, <1>6, <2>2 DEF Keeps, KeepsSizes
  <2>9. Written(s.img, t.img, l[1], v.mem[l[1]]) BY <1>4, <2>1
  <2>10. Behind(v.mem, t.img)
    BY <2>1, <2>2, <2>4, <2>5, <2>6, <2>7, <2>8, <2>9, CutBehind
  <2>11. Sound(t.img) BY <2>1, <2>10, BehindSound
  <2>12. Leads(disk, t.out, t.img) BY <1>4, <2>1, <2>11 DEF LeadsTo
  <2> QED BY <1>4, <2>10, <2>12 DEF Follows
<1>7. own => /\ KeepsNames(s.mem, t.mem) /\ Locs(t.mem) = Locs(s.mem) /\ FileAt(t.mem, l).size = n
  BY <1>1, <1>3, <1>4, KeepsTransitive DEF Keeps
<1>8. Safe(own, t) BY <1>5, <1>6 DEF Safe
<1> QED BY <1>1, <1>2, <1>3, <1>4, <1>7, <1>8

-----------------------------------------------------------------------------
(* Flushing, reading and writing.                                          *)

\* The cache is as it was, and so are the error and the entry.
SameCache(s, t) == t.mem = s.mem /\ t.err = s.err /\ t.at = s.at

\* flush_block leaves the cache alone and the disk behind it.
LEMMA FlushSafe ==
  ASSUME NEW own \in BOOLEAN, NEW s, Safe(own, s), NEW b \in 1..NBLOCKS-1,
         own /\ WholeCuts /\ b = FileAt(s.mem, Root).ind => s.img[Super] = s.mem[Super]
  PROVE  LET t == FlushBlock(s, b)
         IN  /\ Safe(own, t) /\ SameCache(s, t)
             /\ \A c \in Block : c = b \/ s.img[c] = s.mem[c] => t.img[c] = t.mem[c]
<1> DEFINE t == FlushBlock(s, b)
<1>1. s \in State /\ (own => Owned(s.mem)) BY DEF Safe, Good
<1>2. /\ t \in State /\ SameCache(s, t) /\ Written(s.img, t.img, b, s.mem[b]) /\ LeadsTo(s, t)
  BY <1>1, FlushSound, FlushDisk DEF SameCache
<1> SUFFICES /\ Safe(own, t) /\ SameCache(s, t)
             /\ \A c \in Block : c = b \/ s.img[c] = s.mem[c] => t.img[c] = t.mem[c]
  OBVIOUS
<1> HIDE DEF t
<1>3. ASSUME own, WholeCuts PROVE Follows(t)
  <2>1. /\ s.mem \in Image /\ s.img \in Image /\ t.img \in Image /\ Sound(s.mem)
        /\ Behind(s.mem, s.img) /\ Leads(disk, s.out, s.img)
    BY <1>1, <1>2, <1>3, Fields DEF Safe, Owned, Follows
  <2>2. Behind(s.mem, t.img) BY <2>1, <1>2, <1>3, FlushBehind
  <2>3. Sound(t.img) BY <2>1, <2>2, BehindSound
  <2> QED BY <2>1, <2>2, <2>3, <1>2 DEF Follows, LeadsTo, SameCache
<1>4. \A c \in Block : c = b \/ s.img[c] = s.mem[c] => t.img[c] = t.mem[c]
  BY <1>2 DEF Written, SameCache
<1>5. Safe(own, t) BY <1>1, <1>2, <1>3 DEF Safe, Good, SameCache
<1> QED BY <1>2, <1>4, <1>5

\* What file_flush does with block i of a file.
FlushOne(v, l, i) == IF HasSlot(v.mem, l, i) /\ Slot(v.mem, l, i) # NullPtr
                     THEN FlushBlock(v, Slot(v.mem, l, i)) ELSE v

\* A block of a file is not the indirect block of the directory.
LEMMA FlushOneSound ==
  ASSUME NEW own \in BOOLEAN, NEW s, Safe(own, s), NEW l \in Loc, NEW i \in Nat,
         own => l \in Locs(s.mem)
  PROVE  Safe(own, FlushOne(s, l, i)) /\ SameCache(s, FlushOne(s, l, i))
<1> DEFINE b == Slot(s.mem, l, i)
<1>0. s \in State /\ s.mem \in Image /\ (own => Owned(s.mem)) BY Fields DEF Safe, Good
<1>1. CASE HasSlot(s.mem, l, i) /\ b # NullPtr
  <2>1. i \in 0..MaxBlocks-1 /\ i \in 0..MaxBlocks /\ i # MaxBlocks
    BY <1>1, Numbers DEF HasSlot, MaxBlocks
  <2>2. b = Ref(s.mem, l, i) /\ b \in Pointer BY <1>0, <1>1, <2>1, RefParts DEF Ref
  <2>3. b \in 1..NBLOCKS-1 BY <1>1, <2>2, Numbers DEF Pointer
  <2>4. ASSUME own PROVE b # FileAt(s.mem, Root).ind
    <3>1. Root \in Locs(s.mem) /\ Root \in Loc /\ MaxBlocks \in 0..MaxBlocks BY <1>0, LocsParts, Numbers
    <3>2. Ref(s.mem, Root, MaxBlocks) # b
      BY <3>1, <2>1, <2>2, <2>4, <1>0, <1>1 DEF Owned, Sound, Apart
    <3> QED BY <3>1, <3>2, <1>0, RefParts
  <2>5. FlushOne(s, l, i) = FlushBlock(s, b) BY <1>1 DEF FlushOne
  <2> HIDE DEF b
  <2> QED BY <2>3, <2>4, <2>5, FlushSafe
<1>2. CASE ~(HasSlot(s.mem, l, i) /\ b # NullPtr)
  <2>1. FlushOne(s, l, i) = s BY <1>2 DEF FlushOne
  <2> QED BY <2>1 DEF SameCache
<1> QED BY <1>1, <1>2

\* The loop of file_flush over the blocks from a to b.
FlushBlocks(s, l, a, b) == Loop(LAMBDA v, i : FlushOne(v, l, i), s, a, b)

\* It leaves the cache alone.
LEMMA FlushBlocksSound ==
  ASSUME NEW own \in BOOLEAN, NEW s, Safe(own, s), NEW l \in Loc, NEW a \in Nat, NEW b \in Int,
         own => l \in Locs(s.mem)
  PROVE  Safe(own, FlushBlocks(s, l, a, b)) /\ SameCache(s, FlushBlocks(s, l, a, b))
<1> DEFINE S == {u \in State : Safe(own, u) /\ SameCache(s, u)}
           r == FlushBlocks(s, l, a, b)
<1>0. s \in S BY DEF Safe, Good, SameCache
<1>2. ASSUME a <= b PROVE r \in S
  <2> DEFINE N == b - a + 1
             Step(u, k) == IF u.err = "ok" THEN FlushOne(u, l, a + k - 1) ELSE u
             F == [k \in 1..N |-> [u \in S |-> Step(u, k)]]
             Rec(t) == t = [k \in 0..N |-> IF k = 0 THEN s
                              ELSE IF t[k-1].err = "ok" THEN FlushOne(t[k-1], l, a + k - 1) ELSE t[k-1]]
             t == CHOOSE t : Rec(t)
  <2>0. N \in Nat /\ s \in S /\ \A k \in 1..N : a + k - 1 \in a..b BY <1>2, <1>0
  <2>1. ASSUME NEW u \in S, NEW k \in 1..N PROVE Step(u, k) \in S
    <3> DEFINE v == FlushOne(u, l, a + k - 1)
    <3>0. a + k - 1 \in Nat /\ Safe(own, u) /\ (own => l \in Locs(u.mem)) BY <2>0 DEF SameCache
    <3>1. Safe(own, v) /\ SameCache(u, v) BY <3>0, FlushOneSound
    <3> HIDE DEF v
    <3>2. v \in S BY <3>1 DEF Safe, Good, SameCache
    <3>3. Step(u, k) = v \/ Step(u, k) = u BY DEF v
    <3> HIDE DEF Step
    <3> QED BY <3>2, <3>3
  <2> HIDE DEF Step
  <2>2. F \in [1..N -> [S -> S]] BY <2>1
  <2>3. PICK g \in [0..N -> S] : g[0] = s /\ \A k \in 1..N : g[k] = F[k][g[k-1]]
    <3>1. \E g \in [0..N -> S] : Unrolls(g, N, s, F)
      <4> HIDE DEF F, S, N
      <4> QED BY <2>0, <2>2, Recursion, Zenon
    <3> QED BY <3>1 DEF Unrolls
  <2>4. Rec(g)
    <3>1. \A k \in 0..N : k # 0 => k \in 1..N /\ k - 1 \in 0..N BY <2>0
    <3>2. \A k \in 0..N : g[k] = IF k = 0 THEN s ELSE Step(g[k-1], k)
      BY <2>3, <3>1
    <3>3. g = [k \in 0..N |-> IF k = 0 THEN s ELSE Step(g[k-1], k)] BY <3>2
    <3> HIDE DEF N
    <3> QED BY <3>3 DEF Step
  <2>5. Rec(t)
    <3> HIDE DEF Rec
    <3> QED BY <2>4
  <2>6. r = t[N]
    BY <1>2 DEF Loop, FlushBlocks
  <2> HIDE DEF t
  <2>7. t[0] = s /\ \A k \in 1..N : t[k] = Step(t[k-1], k)
    <3>1. \A k \in 0..N : t[k] = IF k = 0 THEN s
                              ELSE IF t[k-1].err = "ok" THEN FlushOne(t[k-1], l, a + k - 1) ELSE t[k-1]
      BY <2>5
    <3>2. 0 \in 0..N /\ \A k \in 1..N : k \in 0..N /\ k # 0 BY <2>0
    <3> QED BY <3>1, <3>2 DEF Step
  <2> HIDE DEF F, Rec, N, S
  <2> DEFINE T == {k \in 0..N : t[k] \in S}
  <2>8. 0 \in T BY <2>0, <2>7
  <2>9. ASSUME NEW k \in 0..N-1, k \in T PROVE k + 1 \in T
    <3>1. k + 1 \in 1..N /\ k + 1 \in 0..N /\ (k + 1) - 1 = k BY <2>0
    <3> QED BY <3>1, <2>1, <2>7, <2>9
  <2>10. t[N] \in S
    <3>1. \A k \in 0..N : k \in T
      <4> HIDE DEF T
      <4> QED BY <2>0, <2>8, <2>9, Induct
    <3> QED BY <3>1, <2>0
  <2> QED BY <2>6, <2>10
<1>3. r \in S
  <2>1. a > b \/ a <= b OBVIOUS
  <2>2. a > b => r = s BY DEF Loop, FlushBlocks
  <2> HIDE DEF r
  <2> QED BY <2>1, <2>2, <1>0, <1>2
<1> HIDE DEF r
<1>4. Safe(own, r) /\ SameCache(s, r) BY <1>3
<1> QED BY <1>4 DEF r

\* file_flush leaves the cache alone, and the disk behind it: it writes the struct
\* File before the indirect block, also that of the directory.
LEMMA FileFlushSound ==
  ASSUME NEW own \in BOOLEAN, NEW s, Safe(own, s), NEW l \in Loc, l[1] # 0, own => l \in Locs(s.mem)
  PROVE  Safe(own, FileFlush(s, l)) /\ SameCache(s, FileFlush(s, l))
<1> DEFINE f == FileAt(s.mem, l)
           u == FlushBlocks(s, l, 0, Blocks(f.size) - 1)
           v == FlushBlock(u, l[1])
           t == IF f.ind # NullPtr THEN FlushBlock(v, f.ind) ELSE v
<1>0. s \in State /\ s.mem \in Image /\ (own => Owned(s.mem)) /\ l[1] \in 1..NBLOCKS-1
      /\ Blocks(f.size) - 1 \in Int /\ 0 \in Nat /\ f.ind \in Pointer
      /\ (f.ind # NullPtr => f.ind \in 1..NBLOCKS-1)
      /\ Root \in Locs(s.mem) /\ Root \in Loc /\ MaxBlocks \in 0..MaxBlocks /\ Super \in Block
  <2>1. s \in State /\ s.mem \in Image BY Fields DEF Safe, Good
  <2>2. f.size \in Nat /\ l[1] \in Block /\ f.ind \in Pointer BY <2>1, Typed DEF File
  <2>3. l[1] \in 1..NBLOCKS-1 BY <2>2 DEF Block
  <2>4. f.ind # NullPtr => f.ind \in 1..NBLOCKS-1 BY <2>2, Numbers DEF Pointer
  <2>5. Root \in Locs(s.mem) /\ Root \in Loc /\ MaxBlocks \in 0..MaxBlocks BY <2>1, LocsParts, Numbers
  <2> HIDE DEF f
  <2> QED BY <2>1, <2>2, <2>3, <2>4, <2>5, BlocksSound, Numbers DEF Safe, Good
<1>1. Safe(own, u) /\ SameCache(s, u)
  <2> HIDE DEF f
  <2> QED BY <1>0, FlushBlocksSound
<1>2. FileFlush(s, l) = t BY DEF FileFlush, FlushBlocks, FlushOne
<1> HIDE DEF u
<1>3. own => l[1] # FileAt(s.mem, Root).ind
  <2> SUFFICES ASSUME own PROVE l[1] # FileAt(s.mem, Root).ind
    OBVIOUS
  <2>1. CASE l = Root
    <3>1. FileAt(s.mem, Root).ind \in Pointer /\ l[1] = Super BY <2>1, <1>0 DEF Root
    <3> QED BY <3>1, <1>0, Numbers
  <2>2. CASE l # Root
    <3>1. PICK i \in 0..MaxBlocks-1 : Ref(s.mem, Root, i) = l[1] BY <2>2, <1>0, LocsParts
    <3>2. i \in 0..MaxBlocks /\ i # MaxBlocks BY Numbers
    <3>3. Ref(s.mem, Root, MaxBlocks) # l[1]
      BY <3>1, <3>2, <1>0 DEF Owned, Sound, Apart, NullPtr
    <3> QED BY <3>3, <1>0, RefParts
  <2> QED BY <2>1, <2>2
<1>4. /\ Safe(own, v) /\ SameCache(u, v)
      /\ \A c \in Block : c = l[1] => v.img[c] = v.mem[c]
  <2>1. own => l[1] # FileAt(u.mem, Root).ind BY <1>1, <1>3 DEF SameCache
  <2> QED BY <1>0, <1>1, <2>1, FlushSafe
<1> HIDE DEF v
<1>5. v.mem = s.mem BY <1>1, <1>4 DEF SameCache
<1>6. ASSUME own, f.ind = FileAt(v.mem, Root).ind, f.ind # NullPtr PROVE v.img[Super] = v.mem[Super]
  <2>1. f.ind = Ref(s.mem, l, MaxBlocks) /\ FileAt(v.mem, Root).ind = Ref(s.mem, Root, MaxBlocks)
    BY <1>0, <1>5, RefParts
  <2>2. l = Root BY <1>0, <1>6, <2>1 DEF Owned, Sound, Apart
  <2> QED BY <2>2, <1>0, <1>4 DEF Root
<1> HIDE DEF f
<1>7. CASE f.ind # NullPtr
  <2> DEFINE w == FlushBlock(v, f.ind)
  <2>1. Safe(own, w) /\ SameCache(v, w) BY <1>0, <1>4, <1>6, <1>7, FlushSafe
  <2>2. t = w BY <1>7
  <2> HIDE DEF t, w
  <2> QED BY <1>1, <1>2, <1>4, <2>1, <2>2 DEF SameCache
<1>8. CASE f.ind = NullPtr
  <2>1. t = v BY <1>8
  <2> HIDE DEF t
  <2> QED BY <1>1, <1>2, <1>4, <2>1 DEF SameCache
<1> QED BY <1>7, <1>8

\* And so does fs_sync: the superblock, with the directory's struct File, is first.
LEMMA SyncSound ==
  ASSUME NEW own \in BOOLEAN, NEW s, Safe(own, s), s.err = "ok"
  PROVE  Safe(own, FsSync(s)) /\ FsSync(s).mem = s.mem
<1> DEFINE S == {u \in State : Safe(own, u) /\ SameCache(s, u)}
           r == FsSync(s)
           a == 1
           b == NBLOCKS - 1
<1>0. s \in S /\ a \in Int /\ b \in Int /\ a <= b BY Numbers DEF Safe, Good, SameCache
<1>5. /\ s.mem \in Image /\ FileAt(s.mem, Root).ind \in Pointer /\ Super \in Block
  <2>1. s.mem \in Image /\ Root \in Loc BY Fields DEF Safe, Good, Loc
  <2> QED BY <2>1, RefParts, Numbers
<1>2. ASSUME a <= b PROVE r \in S
  <2> DEFINE N == b - a + 1
             Step(u, k) == IF u.err = "ok" THEN FlushBlock(u, (a + k - 1)) ELSE u
             F == [k \in 1..N |-> [u \in State |-> Step(u, k)]]
             Rec(t) == t = [k \in 0..N |-> IF k = 0 THEN s
                              ELSE IF t[k-1].err = "ok" THEN FlushBlock(t[k-1], (a + k - 1)) ELSE t[k-1]]
             t == CHOOSE t : Rec(t)
  <2>0. N \in Nat /\ s \in S /\ \A k \in 1..N : a + k - 1 \in a..b BY <1>2, <1>0
  <2> DEFINE Early(u, k) == k > 1 => u.img[Super] = u.mem[Super]
  <2>1. ASSUME NEW u \in S, NEW k \in 1..N, Early(u, k)
        PROVE  Step(u, k) \in S /\ Early(Step(u, k), k + 1)
    <3> DEFINE v == FlushBlock(u, a + k - 1)
    <3>1. a + k - 1 \in 1..NBLOCKS-1 /\ a + k - 1 = k /\ k \in Nat BY <2>0
    <3>2. Safe(own, u) /\ SameCache(s, u) /\ u.err = "ok" BY DEF SameCache
    <3>3. a + k - 1 = FileAt(u.mem, Root).ind => k > 1
      BY <3>1, <3>2, <1>5, Numbers DEF SameCache, Pointer, NullPtr, Usable
    <3>4. /\ Safe(own, v) /\ SameCache(u, v)
          /\ \A c \in Block : c = a + k - 1 \/ u.img[c] = u.mem[c] => v.img[c] = v.mem[c]
      BY <2>1, <3>1, <3>2, <3>3, FlushSafe
    <3>5. Step(u, k) = v BY <3>2
    <3> HIDE DEF v, Step
    <3>6. v \in S BY <3>2, <3>4 DEF Safe, Good, SameCache
    <3>7. v.img[Super] = v.mem[Super] BY <2>1, <3>1, <3>4, <1>5 DEF Super
    <3> QED BY <3>5, <3>6, <3>7
  <2>2. ASSUME NEW u \in State, NEW k \in 1..N PROVE Step(u, k) \in State
    <3>1. a + k - 1 \in 1..NBLOCKS-1 BY <2>0
    <3> QED BY <3>1, FlushSound
  <2> HIDE DEF Step
  <2>3. PICK g \in [0..N -> State] : g[0] = s /\ \A k \in 1..N : g[k] = F[k][g[k-1]]
    <3>1. F \in [1..N -> [State -> State]] /\ s \in State BY <2>2, <2>0
    <3>2. \E g \in [0..N -> State] : Unrolls(g, N, s, F)
      <4> HIDE DEF F, S, N
      <4> QED BY <2>0, <3>1, Recursion, Zenon
    <3> QED BY <3>2 DEF Unrolls
  <2>4. Rec(g)
    <3>1. \A k \in 0..N : k # 0 => k \in 1..N /\ k - 1 \in 0..N BY <2>0
    <3>2. \A k \in 0..N : g[k] = IF k = 0 THEN s ELSE Step(g[k-1], k)
      BY <2>3, <3>1
    <3>3. g = [k \in 0..N |-> IF k = 0 THEN s ELSE Step(g[k-1], k)] BY <3>2
    <3> HIDE DEF N
    <3> QED BY <3>3 DEF Step
  <2>5. Rec(t)
    <3> HIDE DEF Rec
    <3> QED BY <2>4
  <2>6. r = t[N]
    BY <1>2 DEF Loop, FsSync
  <2> HIDE DEF t
  <2>7. t[0] = s /\ \A k \in 1..N : t[k] = Step(t[k-1], k)
    <3>1. \A k \in 0..N : t[k] = IF k = 0 THEN s
                              ELSE IF t[k-1].err = "ok" THEN FlushBlock(t[k-1], (a + k - 1)) ELSE t[k-1]
      BY <2>5
    <3>2. 0 \in 0..N /\ \A k \in 1..N : k \in 0..N /\ k # 0 BY <2>0
    <3> QED BY <3>1, <3>2 DEF Step
  <2> HIDE DEF F, Rec, N, S
  <2> DEFINE T == {k \in 0..N : t[k] \in S /\ Early(t[k], k + 1)}
  <2>8. 0 \in T BY <2>0, <2>7
  <2>9. ASSUME NEW k \in 0..N-1, k \in T PROVE k + 1 \in T
    <3>1. k + 1 \in 1..N /\ k + 1 \in 0..N /\ (k + 1) - 1 = k BY <2>0
    <3> QED BY <3>1, <2>1, <2>7, <2>9
  <2>10. t[N] \in S
    <3>1. \A k \in 0..N : k \in T
      <4> HIDE DEF T
      <4> QED BY <2>0, <2>8, <2>9, Induct
    <3> QED BY <3>1, <2>0
  <2> QED BY <2>6, <2>10
<1>3. r \in S BY <1>0, <1>2
<1> HIDE DEF r
<1>4. Safe(own, r) /\ r.mem = s.mem BY <1>3 DEF SameCache
<1> QED BY <1>4 DEF r

\* The loop of file_read over the blocks from a to b.
GetBlocks(s, l, a, b) == Loop(LAMBDA v, i : FileGetBlock(v, l, i), s, a, b)

\* The blocks of a file from a to b are got, within its size.
LEMMA GetBlocksSound ==
  ASSUME NEW own \in BOOLEAN, NEW s, Safe(own, s), s.err = "ok", NEW l \in Loc,
         NEW a \in Nat, NEW b \in Nat, a <= b,
         own => Used(s.mem, l) /\ b < Blocks(FileAt(s.mem, l).size)
  PROVE  Safe(own, GetBlocks(s, l, a, b))
<1> DEFINE S == {u \in State : Safe(own, u) /\ (own => Keeps(s.mem, u.mem))}
           r == GetBlocks(s, l, a, b)
<1>0. s \in S BY KeepsTransitive DEF Safe, Good
<1>2. r \in S
  <2> DEFINE N == b - a + 1
             Step(u, k) == IF u.err = "ok" THEN FileGetBlock(u, l, (a + k - 1)) ELSE u
             F == [k \in 1..N |-> [u \in S |-> Step(u, k)]]
             Rec(t) == t = [k \in 0..N |-> IF k = 0 THEN s
                              ELSE IF t[k-1].err = "ok" THEN FileGetBlock(t[k-1], l, (a + k - 1)) ELSE t[k-1]]
             t == CHOOSE t : Rec(t)
  <2>0. N \in Nat /\ s \in S /\ \A k \in 1..N : a + k - 1 \in a..b BY <1>0
  <2>1. ASSUME NEW u \in S, NEW k \in 1..N PROVE Step(u, k) \in S
    <3> DEFINE i == a + k - 1
    <3>0. i \in Nat /\ i <= b BY <2>0
    <3>1. CASE u.err = "ok"
      <4>1. own => Used(u.mem, l) /\ i < Blocks(FileAt(u.mem, l).size)
        <5> SUFFICES ASSUME own PROVE Used(u.mem, l) /\ i < Blocks(FileAt(u.mem, l).size)
          OBVIOUS
        <5>1. Keeps(s.mem, u.mem) /\ l \in Locs(s.mem) BY DEF Used
        <5>2. FileAt(u.mem, l).size = FileAt(s.mem, l).size BY <5>1 DEF Keeps, KeepsSizes
        <5>3. FileAt(s.mem, l).size \in Nat BY Fields, Typed DEF Safe, Good, File
        <5>4. Blocks(FileAt(s.mem, l).size) \in Nat BY <5>3, BlocksSound
        <5> QED BY <3>0, <5>1, <5>2, <5>4, UsedKept DEF Keeps
      <4> DEFINE v == FileGetBlock(u, l, i)
      <4>2. Safe(own, v) /\ (own => Keeps(u.mem, v.mem))
        <5> HIDE DEF i
        <5> QED BY <3>0, <3>1, <4>1, GetBlockSound
      <4>3. Step(u, k) = v BY <3>1
      <4> HIDE DEF v, Step
      <4> QED BY <4>2, <4>3, KeepsTransitive DEF Safe, Good
    <3>2. CASE u.err # "ok" BY <3>2
    <3> QED BY <3>1, <3>2
  <2> HIDE DEF Step
  <2>2. F \in [1..N -> [S -> S]] BY <2>1
  <2>3. PICK g \in [0..N -> S] : g[0] = s /\ \A k \in 1..N : g[k] = F[k][g[k-1]]
    <3>1. \E g \in [0..N -> S] : Unrolls(g, N, s, F)
      <4> HIDE DEF F, S, N
      <4> QED BY <2>0, <2>2, Recursion, Zenon
    <3> QED BY <3>1 DEF Unrolls
  <2>4. Rec(g)
    <3>1. \A k \in 0..N : k # 0 => k \in 1..N /\ k - 1 \in 0..N BY <2>0
    <3>2. \A k \in 0..N : g[k] = IF k = 0 THEN s ELSE Step(g[k-1], k)
      BY <2>3, <3>1
    <3>3. g = [k \in 0..N |-> IF k = 0 THEN s ELSE Step(g[k-1], k)] BY <3>2
    <3> HIDE DEF N
    <3> QED BY <3>3 DEF Step
  <2>5. Rec(t)
    <3> HIDE DEF Rec
    <3> QED BY <2>4
  <2>6. r = t[N]
    BY DEF Loop, GetBlocks
  <2> HIDE DEF t
  <2>7. t[0] = s /\ \A k \in 1..N : t[k] = Step(t[k-1], k)
    <3>1. \A k \in 0..N : t[k] = IF k = 0 THEN s
                              ELSE IF t[k-1].err = "ok" THEN FileGetBlock(t[k-1], l, (a + k - 1)) ELSE t[k-1]
      BY <2>5
    <3>2. 0 \in 0..N /\ \A k \in 1..N : k \in 0..N /\ k # 0 BY <2>0
    <3> QED BY <3>1, <3>2 DEF Step
  <2> HIDE DEF F, Rec, N, S
  <2> DEFINE T == {k \in 0..N : t[k] \in S}
  <2>8. 0 \in T BY <2>0, <2>7
  <2>9. ASSUME NEW k \in 0..N-1, k \in T PROVE k + 1 \in T
    <3>1. k + 1 \in 1..N /\ k + 1 \in 0..N /\ (k + 1) - 1 = k BY <2>0
    <3> QED BY <3>1, <2>1, <2>7, <2>9
  <2>10. t[N] \in S
    <3>1. \A k \in 0..N : k \in T
      <4> HIDE DEF T
      <4> QED BY <2>0, <2>8, <2>9, Induct
    <3> QED BY <3>1, <2>0
  <2> QED BY <2>6, <2>10
<1> HIDE DEF r
<1>3. Safe(own, r) BY <1>2
<1> QED BY <1>3 DEF r

\* file_read allocates blocks for holes and keeps every block with its owner.
LEMMA ReadSound ==
  ASSUME NEW own \in BOOLEAN, NEW s, Safe(own, s), s.err = "ok", NEW l \in Loc,
         NEW count \in Nat \ {0}, NEW off \in Nat, own => Used(s.mem, l)
  PROVE  Safe(own, FileRead(s, l, count, off))
<1> DEFINE size == FileAt(s.mem, l).size
           n == IF count < size - off THEN count ELSE size - off
           a == off \div BLKSIZE
           b == (off + n - 1) \div BLKSIZE
<1>0. size \in Nat BY Fields, Typed DEF Safe, Good, File
<1>3. FileRead(s, l, count, off) = IF off >= size THEN s ELSE GetBlocks(s, l, a, b)
  BY DEF FileRead, GetBlocks
<1>1. CASE off >= size
  BY <1>1, <1>3
<1>2. CASE ~(off >= size)
  <2>1. n \in Nat /\ n >= 1 /\ off + n <= size BY <1>0, <1>2
  <2>2. FileRead(s, l, count, off) = GetBlocks(s, l, a, b)
    BY <1>2, <1>3
  <2> HIDE DEF n, size
  <2>3. off + n - 1 \in Nat /\ off + n - 1 < size /\ off <= off + n - 1 BY <2>1, <1>0
  <2>4. a \in Nat /\ b \in Nat /\ b < Blocks(size)
    BY <1>0, <2>3, Division, BlocksOrder
  <2>5. a <= b
    <3>1. a * BLKSIZE <= off /\ off + n - 1 < (b + 1) * BLKSIZE BY <2>3, Division
    <3> HIDE DEF a, b
    <3>2. a * BLKSIZE < (b + 1) * BLKSIZE
      <4>1. a * BLKSIZE \in Nat /\ (b + 1) * BLKSIZE \in Nat BY <2>4, Numbers
      <4> QED BY <4>1, <3>1, <2>3
    <3>3. b + 1 \in Nat /\ a < b + 1 BY <2>4, <3>2, Products
    <3> QED BY <3>3, <2>4
  <2>6. own => Used(s.mem, l) /\ b < Blocks(FileAt(s.mem, l).size) BY <2>4 DEF size
  <2> HIDE DEF a, b
  <2>7. Safe(own, GetBlocks(s, l, a, b))
    BY <2>4, <2>5, <2>6, GetBlocksSound
  <2> QED BY <2>2, <2>7
<1> QED BY <1>0, <1>1, <1>2

\* What file_write does with block i of the file once file_get_block gave g.
CopyBytes(g, l, i, name, off, count) ==
  IF g.err # "ok" THEN g
  ELSE [g EXCEPT !.mem[Slot(g.mem, l, i)].byte = [p \in 0..BLKSIZE-1 |->
          IF i * BLKSIZE + p \in off..off+count-1 THEN name ELSE @[p]]]

\* No pointer, name or size is among the bytes of a file.
LEMMA CopySound ==
  ASSUME NEW own \in BOOLEAN, NEW g, Safe(own, g), NEW l \in Loc, NEW i, NEW name \in Name,
         NEW off, NEW count, g.err = "ok" => Slot(g.mem, l, i) \in Pointer
  PROVE  LET t == CopyBytes(g, l, i, name, off, count)
         IN  /\ Safe(own, t) /\ t.err = g.err /\ t.at = g.at
             /\ own => Keeps(g.mem, t.mem)
<1>0. g \in State /\ g.mem \in Image BY Fields DEF Safe, Good
<1>1. CASE g.err # "ok"
  BY <1>1, KeepsTransitive DEF CopyBytes
<1>2. CASE g.err = "ok"
  <2> DEFINE b == Slot(g.mem, l, i)
             c == g.mem[b]
             y == [p \in 0..BLKSIZE-1 |-> IF i * BLKSIZE + p \in off..off+count-1 THEN name ELSE c.byte[p]]
             x == [c EXCEPT !.byte = y]
             t == Put(g, b, x)
  <2>1. b \in Plain BY <1>2, Numbers
  <2>2. b \in Block /\ b # Bitmap /\ b # Super BY <2>1, Numbers
  <2>3. c \in Content BY <1>0, <2>1, Typed
  <2>4. CopyBytes(g, l, i, name, off, count) = t BY <1>2 DEF CopyBytes, Put
  <2> HIDE DEF b, c
  <2>5. y \in [0..BLKSIZE-1 -> Name \cup {Zero}]
    <3>1. c.byte \in [0..BLKSIZE-1 -> Name \cup {Zero}] BY <2>3 DEF Content
    <3>2. \A p \in 0..BLKSIZE-1 : c.byte[p] \in Name \cup {Zero} BY <3>1
    <3> QED BY <3>2
  <2> HIDE DEF y
  <2>6. x \in Content /\ x.file = c.file /\ x.ptr = c.ptr BY <2>3, <2>5 DEF Content
  <2> HIDE DEF x
  <2>7. Fits(b, x) BY <2>2, <2>6 DEF Fits
  <2>8. t \in State /\ t.mem = [g.mem EXCEPT ![b] = x] /\ t.err = g.err /\ t.at = g.at
        /\ SameDisk(g, t)
    BY <1>0, <2>2, <2>7, PutSound
  <2> HIDE DEF t
  <2>9. \A a \in Block : t.mem[a] = IF a = b THEN x ELSE g.mem[a]
    <3>1. g.mem \in [Block -> Value] BY <1>0 DEF State, Image
    <3> QED BY <2>8, <3>1
  <2>10. \A a \in Block : a # Bitmap => t.mem[a].file = g.mem[a].file /\ t.mem[a].ptr = g.mem[a].ptr
    BY <2>6, <2>9 DEF c
  <2>11. t.mem \in Image /\ t.mem[Bitmap] = g.mem[Bitmap] BY <2>2, <2>8, <2>9, Fields, Numbers
  <2>12. \A k \in Loc : FileAt(t.mem, k) = FileAt(g.mem, k)
    <3> TAKE k \in Loc
    <3>1. k[1] \in Block /\ k[1] # Bitmap BY <1>0, Typed
    <3> QED BY <3>1, <2>10 DEF FileAt
  <2>13. ASSUME NEW k \in Loc, NEW j \in 0..MaxBlocks PROVE Ref(t.mem, k, j) = Ref(g.mem, k, j)
    <3>1. FileAt(g.mem, k).ind \in Block /\ FileAt(g.mem, k).ind # Bitmap
      BY <1>0, RefParts, Numbers
    <3>2. t.mem[FileAt(g.mem, k).ind].ptr = g.mem[FileAt(g.mem, k).ind].ptr BY <3>1, <2>10
    <3> QED BY <3>2, <2>12 DEF Ref, HasSlot, Slot
  <2>14. ASSUME own PROVE Owned(t.mem) /\ Keeps(g.mem, t.mem) /\ Alike(g.mem, t.mem)
    <3>1. Owned(g.mem) /\ Locs(g.mem) \subseteq Loc BY <1>0, <2>14, LocsParts DEF Safe, Good
    <3>2. Owned(t.mem) /\ Locs(t.mem) = Locs(g.mem)
      BY <3>1, <1>0, <2>11, <2>12, <2>13, SameOwned
    <3>3. Alike(g.mem, t.mem) BY <3>1, <3>2, <2>11, <2>12, <2>13 DEF Alike
    <3> QED BY <3>1, <3>2, <3>3, <2>12 DEF Keeps, KeepsNames, KeepsSizes
  <2>15. Good(own, t) BY <2>8, <2>14 DEF Good
  <2>16. Safe(own, t) BY <2>8, <2>14, <2>15, SameSafe
  <2> QED BY <2>4, <2>8, <2>14, <2>16
<1> QED BY <1>1, <1>2

\* The loop of file_write.
WriteBlocks(s, l, a, b, name, off, count) ==
  Loop(LAMBDA v, i : CopyBytes(FileGetBlock(v, l, i), l, i, name, off, count), s, a, b)

\* The loop of file_write.
LEMMA WriteBlocksSound ==
  ASSUME NEW own \in BOOLEAN, NEW s, Safe(own, s), s.err = "ok", NEW l \in Loc,
         NEW a \in Nat, NEW b \in Nat, a <= b, NEW name \in Name, NEW off, NEW count,
         own => Used(s.mem, l) /\ b < Blocks(FileAt(s.mem, l).size)
  PROVE  Safe(own, WriteBlocks(s, l, a, b, name, off, count))
<1> DEFINE S == {u \in State : Safe(own, u) /\ (own => Keeps(s.mem, u.mem))}
           r == WriteBlocks(s, l, a, b, name, off, count)
<1>0. s \in S BY KeepsTransitive DEF Safe, Good
<1>2. r \in S
  <2> DEFINE N == b - a + 1
             Step(u, k) == IF u.err = "ok" THEN CopyBytes(FileGetBlock(u, l, (a + k - 1)), l, (a + k - 1), name, off, count) ELSE u
             F == [k \in 1..N |-> [u \in S |-> Step(u, k)]]
             Rec(t) == t = [k \in 0..N |-> IF k = 0 THEN s
                              ELSE IF t[k-1].err = "ok" THEN CopyBytes(FileGetBlock(t[k-1], l, (a + k - 1)), l, (a + k - 1), name, off, count) ELSE t[k-1]]
             t == CHOOSE t : Rec(t)
  <2>0. N \in Nat /\ s \in S /\ \A k \in 1..N : a + k - 1 \in a..b BY <1>0
  <2>1. ASSUME NEW u \in S, NEW k \in 1..N PROVE Step(u, k) \in S
    <3> DEFINE i == a + k - 1
    <3>0. i \in Nat /\ i <= b BY <2>0
    <3>1. CASE u.err = "ok"
      <4>1. own => Used(u.mem, l) /\ i < Blocks(FileAt(u.mem, l).size)
        <5> SUFFICES ASSUME own PROVE Used(u.mem, l) /\ i < Blocks(FileAt(u.mem, l).size)
          OBVIOUS
        <5>1. Keeps(s.mem, u.mem) /\ l \in Locs(s.mem) BY DEF Used
        <5>2. FileAt(u.mem, l).size = FileAt(s.mem, l).size BY <5>1 DEF Keeps, KeepsSizes
        <5>3. FileAt(s.mem, l).size \in Nat BY Fields, Typed DEF Safe, Good, File
        <5>4. Blocks(FileAt(s.mem, l).size) \in Nat BY <5>3, BlocksSound
        <5> QED BY <3>0, <5>1, <5>2, <5>4, UsedKept DEF Keeps
      <4> DEFINE g == FileGetBlock(u, l, i)
                 v == CopyBytes(g, l, i, name, off, count)
      <4>2. Step(u, k) = v BY <3>1
      <4> HIDE DEF Step, i
      <4>3. /\ Safe(own, g) /\ (own => Keeps(u.mem, g.mem))
            /\ g.err = "ok" => Slot(g.mem, l, i) \in Pointer
        BY <3>0, <3>1, <4>1, GetBlockSound
      <4> HIDE DEF g
      <4>4. Safe(own, v) /\ (own => Keeps(g.mem, v.mem))
        BY <4>3, CopySound
      <4> HIDE DEF v
      <4> QED BY <4>2, <4>3, <4>4, KeepsTransitive DEF Safe, Good
    <3>2. CASE u.err # "ok" BY <3>2
    <3> QED BY <3>1, <3>2
  <2> HIDE DEF Step
  <2>2. F \in [1..N -> [S -> S]] BY <2>1
  <2>3. PICK g \in [0..N -> S] : g[0] = s /\ \A k \in 1..N : g[k] = F[k][g[k-1]]
    <3>1. \E g \in [0..N -> S] : Unrolls(g, N, s, F)
      <4> HIDE DEF F, S, N
      <4> QED BY <2>0, <2>2, Recursion, Zenon
    <3> QED BY <3>1 DEF Unrolls
  <2>4. Rec(g)
    <3>1. \A k \in 0..N : k # 0 => k \in 1..N /\ k - 1 \in 0..N BY <2>0
    <3>2. \A k \in 0..N : g[k] = IF k = 0 THEN s ELSE Step(g[k-1], k)
      BY <2>3, <3>1
    <3>3. g = [k \in 0..N |-> IF k = 0 THEN s ELSE Step(g[k-1], k)] BY <3>2
    <3> HIDE DEF N
    <3> QED BY <3>3 DEF Step
  <2>5. Rec(t)
    <3> HIDE DEF Rec
    <3> QED BY <2>4
  <2>6. r = t[N]
    BY DEF Loop, WriteBlocks
  <2> HIDE DEF t
  <2>7. t[0] = s /\ \A k \in 1..N : t[k] = Step(t[k-1], k)
    <3>1. \A k \in 0..N : t[k] = IF k = 0 THEN s
                              ELSE IF t[k-1].err = "ok" THEN CopyBytes(FileGetBlock(t[k-1], l, (a + k - 1)), l, (a + k - 1), name, off, count) ELSE t[k-1]
      BY <2>5
    <3>2. 0 \in 0..N /\ \A k \in 1..N : k \in 0..N /\ k # 0 BY <2>0
    <3> QED BY <3>1, <3>2 DEF Step
  <2> HIDE DEF F, Rec, N, S
  <2> DEFINE T == {k \in 0..N : t[k] \in S}
  <2>8. 0 \in T BY <2>0, <2>7
  <2>9. ASSUME NEW k \in 0..N-1, k \in T PROVE k + 1 \in T
    <3>1. k + 1 \in 1..N /\ k + 1 \in 0..N /\ (k + 1) - 1 = k BY <2>0
    <3> QED BY <3>1, <2>1, <2>7, <2>9
  <2>10. t[N] \in S
    <3>1. \A k \in 0..N : k \in T
      <4> HIDE DEF T
      <4> QED BY <2>0, <2>8, <2>9, Induct
    <3> QED BY <3>1, <2>0
  <2> QED BY <2>6, <2>10
<1> HIDE DEF r
<1>3. Safe(own, r) BY <1>2
<1> QED BY <1>3 DEF r

\* file_write keeps every block with its owner, also when it fails half way.
LEMMA WriteSound ==
  ASSUME NEW own \in BOOLEAN, NEW s, Safe(own, s), s.err = "ok",
         NEW l \in Loc, l # Root, l[1] # 0, FileAt(s.mem, l).name \in Name,
         NEW count \in Nat \ {0}, NEW off \in Nat, own => Used(s.mem, l)
  PROVE  Safe(own, FileWrite(s, l, count, off))
<1> DEFINE f == FileAt(s.mem, l)
           g == IF off + count > f.size THEN FileSetSize(s, l, off + count) ELSE s
           a == off \div BLKSIZE
           b == (off + count - 1) \div BLKSIZE
<1>0. f.size \in Nat /\ off + count \in Nat BY Fields, Typed DEF Safe, Good, File
<1>1. /\ Safe(own, g) /\ g.err = "ok"
      /\ own => Used(g.mem, l) /\ off + count <= FileAt(g.mem, l).size
  <2>1. CASE off + count > f.size
    <3> DEFINE w == FileSetSize(s, l, off + count)
    <3>1. (own => l \in Locs(s.mem)) /\ off + count >= f.size BY <1>0, <2>1 DEF Used
    <3>2. /\ Safe(own, w) /\ w.err = "ok"
          /\ own => /\ KeepsNames(s.mem, w.mem) /\ FileAt(w.mem, l).size = off + count
      BY <1>0, <3>1, SetSizeSound
    <3>3. g = w BY <2>1
    <3> HIDE DEF w, g
    <3> QED BY <1>0, <3>2, <3>3, UsedKept
  <2>2. CASE ~(off + count > f.size)
    BY <1>0, <2>2
  <2> QED BY <2>1, <2>2
<1>7. PICK name \in Name : name = f.name OBVIOUS
<1>2. FileWrite(s, l, count, off) =
        WriteBlocks(g, l, a, b, name, off, count)
  BY <1>7 DEF FileWrite, CopyBytes, WriteBlocks
<1> HIDE DEF g
<1>3. off + count - 1 \in Nat /\ off <= off + count - 1 OBVIOUS
<1>4. a \in Nat /\ b \in Nat BY <1>3, Division
<1>5. a <= b
  <3>1. a * BLKSIZE <= off /\ off + count - 1 < (b + 1) * BLKSIZE BY <1>3, Division
  <3> HIDE DEF a, b
  <3>2. a * BLKSIZE < (b + 1) * BLKSIZE
    <4>1. a * BLKSIZE \in Nat /\ (b + 1) * BLKSIZE \in Nat BY <1>4, Numbers
    <4> QED BY <4>1, <3>1, <1>3
  <3>3. b + 1 \in Nat /\ a < b + 1 BY <1>4, <3>2, Products
  <3> QED BY <3>3, <1>4
<1>6. own => Used(g.mem, l) /\ b < Blocks(FileAt(g.mem, l).size)
  <2> SUFFICES ASSUME own PROVE b < Blocks(FileAt(g.mem, l).size)
    BY <1>1
  <2>1. FileAt(g.mem, l).size \in Nat BY <1>1, Fields, Typed DEF Safe, Good, File
  <2>2. off + count - 1 < FileAt(g.mem, l).size BY <1>0, <1>1, <2>1
  <2> QED BY <1>3, <2>1, <2>2, BlocksOrder
<1> HIDE DEF a, b
<1> HIDE DEF f
<1>8. Safe(own, WriteBlocks(g, l, a, b, name, off, count))
  BY <1>1, <1>4, <1>5, <1>6, WriteBlocksSound
<1> QED BY <1>2, <1>8

-----------------------------------------------------------------------------
(* The root directory.                                                     *)

\* What dir_lookup does with block i of the directory, once it has it.
Look(g, i, name) ==
  LET b == Slot(g.mem, Root, i)
      match == {j \in 1..BLKFILES : g.mem[b].file[j].name = name}
  IN IF g.err # "ok" \/ match = {} THEN g
     ELSE [g EXCEPT !.err = "found", !.at = <<b, Min(match)>>]
ScanBlocks(s, name, b) == Loop(LAMBDA v, i : Look(FileGetBlock(v, Root, i), i, name), s, 0, b)

\* at is the entry that was looked for.
Found(own, s, name) ==
  own /\ s.err = "found" =>
    s.at \in Locs(s.mem) /\ s.at # Root /\ FileAt(s.mem, s.at).name = name

\* One block of the search changes nothing and finds only what has the name.
LEMMA LookSound ==
  ASSUME NEW own \in BOOLEAN, NEW g, Safe(own, g), NEW i, NEW name, g.err # "found",
         g.err = "ok" => /\ i \in 0..MaxBlocks-1 /\ Slot(g.mem, Root, i) \in Pointer
                         /\ own => /\ Ref(g.mem, Root, i) # NullPtr
                                   /\ Slot(g.mem, Root, i) = Ref(g.mem, Root, i)
  PROVE  LET t == Look(g, i, name)
         IN  Safe(own, t) /\ t.mem = g.mem /\ Found(own, t, name)
<1> DEFINE b == Slot(g.mem, Root, i)
           match == {j \in 1..BLKFILES : g.mem[b].file[j].name = name}
           t == [g EXCEPT !.err = "found", !.at = <<b, Min(match)>>]
<1>0. g \in State /\ g.mem \in Image BY Fields DEF Safe, Good
<1>1. CASE g.err # "ok" \/ match = {}
  <2>1. Look(g, i, name) = g BY <1>1 DEF Look
  <2> QED BY <2>1 DEF Found
<1>2. CASE g.err = "ok" /\ match # {}
  <2>1. Look(g, i, name) = t BY <1>2 DEF Look
  <2>2. match \subseteq 1..BLKFILES /\ match \subseteq Nat BY Numbers
  <2>3. Min(match) \in match
    <3>1. \E x \in match : \A y \in match : x <= y
      <4> HIDE DEF match
      <4> QED BY <1>2, <2>2, LeastNat, Zenon
    <3> HIDE DEF match
    <3> QED BY <3>1 DEF Min
  <2>4. <<b, Min(match)>> \in Loc
    <3>1. b \in Plain BY <1>2, Numbers
    <3>2. Min(match) \in 1..BLKFILES BY <2>2, <2>3
    <3> HIDE DEF b, match
    <3> QED BY <3>1, <3>2 DEF Loc
  <2>5. ASSUME own
        PROVE  /\ <<b, Min(match)>> \in Locs(g.mem) /\ <<b, Min(match)>> # Root
               /\ FileAt(g.mem, <<b, Min(match)>>).name = name
    <3>1. i \in 0..MaxBlocks-1 /\ Ref(g.mem, Root, i) # NullPtr /\ b = Ref(g.mem, Root, i)
      BY <1>2, <2>5
    <3>2. Min(match) \in 1..BLKFILES BY <2>2, <2>3
    <3>3. g.mem[b].file[Min(match)].name = name BY <2>3
    <3>4. b \in Plain BY <1>2, Numbers
    <3> HIDE DEF b, match
    <3>5. <<b, Min(match)>> # Root BY <3>4, Numbers DEF Root
    <3> QED BY <3>1, <3>2, <3>3, <3>5, <1>0, LocsParts DEF FileAt
  <2> HIDE DEF b, match
  <2>6. t \in State /\ t.mem = g.mem /\ t.err = "found" /\ t.at = <<b, Min(match)>>
        /\ SameDisk(g, t)
    BY <1>0, <2>4 DEF State, Err, SameDisk
  <2> HIDE DEF t
  <2> QED BY <2>1, <2>5, <2>6 DEF Safe, Good, Found, Follows, SameDisk
<1> QED BY <1>1, <1>2

\* The loop of dir_lookup.
LEMMA ScanBlocksSound ==
  ASSUME NEW own \in BOOLEAN, NEW s, Safe(own, s), s.err = "ok", NEW name, NEW b \in Int,
         own => b < Blocks(FileAt(s.mem, Root).size)
  PROVE  LET t == ScanBlocks(s, name, b)
         IN  Safe(own, t) /\ Found(own, t, name) /\ (own => Keeps(s.mem, t.mem))
<1> DEFINE S == {u \in State : Safe(own, u) /\ Found(own, u, name) /\ (own => Keeps(s.mem, u.mem))}
           r == ScanBlocks(s, name, b)
           a == 0
<1>0. s \in S BY KeepsTransitive DEF Safe, Good, Found
<1>1. Root \in Loc /\ s.mem \in Image /\ FileAt(s.mem, Root).size \in Nat
  <2>1. Root \in Loc BY DEF Loc
  <2> QED BY <2>1, Fields, Typed DEF Safe, Good, File
<1>2. ASSUME a <= b PROVE r \in S
  <2> DEFINE N == b - a + 1
             Step(u, k) == IF u.err = "ok" THEN Look(FileGetBlock(u, Root, (a + k - 1)), (a + k - 1), name) ELSE u
             F == [k \in 1..N |-> [u \in S |-> Step(u, k)]]
             Rec(t) == t = [k \in 0..N |-> IF k = 0 THEN s
                              ELSE IF t[k-1].err = "ok" THEN Look(FileGetBlock(t[k-1], Root, (a + k - 1)), (a + k - 1), name) ELSE t[k-1]]
             t == CHOOSE t : Rec(t)
  <2>0. N \in Nat /\ s \in S /\ \A k \in 1..N : a + k - 1 \in a..b BY <1>2, <1>0
  <2>1. ASSUME NEW u \in S, NEW k \in 1..N PROVE Step(u, k) \in S
    <3> DEFINE i == a + k - 1
    <3>0. i \in Nat /\ i <= b BY <2>0
    <3>1. CASE u.err = "ok"
      <4>1. own => Used(u.mem, Root) /\ i < Blocks(FileAt(u.mem, Root).size)
        <5> SUFFICES ASSUME own PROVE Used(u.mem, Root) /\ i < Blocks(FileAt(u.mem, Root).size)
          OBVIOUS
        <5>1. Keeps(s.mem, u.mem) /\ Root \in Locs(s.mem) BY <1>1, LocsParts
        <5>2. FileAt(u.mem, Root).size = FileAt(s.mem, Root).size BY <5>1 DEF Keeps, KeepsSizes
        <5>3. Blocks(FileAt(s.mem, Root).size) \in Nat BY <1>1, BlocksSound
        <5>4. Root \in Locs(u.mem) BY <5>1 DEF Keeps, KeepsNames
        <5> QED BY <3>0, <5>2, <5>3, <5>4 DEF Used
      <4> DEFINE g == FileGetBlock(u, Root, i)
                 v == Look(g, i, name)
      <4>2. Step(u, k) = v BY <3>1
      <4> HIDE DEF Step, i
      <4>3. /\ Safe(own, g) /\ (own => Keeps(u.mem, g.mem)) /\ g.err # "found"
            /\ g.err = "ok" => /\ i \in 0..MaxBlocks-1 /\ Slot(g.mem, Root, i) \in Pointer
                               /\ own => /\ Ref(g.mem, Root, i) # NullPtr
                                         /\ Slot(g.mem, Root, i) = Ref(g.mem, Root, i)
        BY <1>1, <3>0, <3>1, <4>1, GetBlockSound
      <4> HIDE DEF g
      <4>4. Safe(own, v) /\ v.mem = g.mem /\ Found(own, v, name)
        BY <4>3, LookSound
      <4> HIDE DEF v
      <4> QED BY <4>2, <4>3, <4>4, KeepsTransitive DEF Safe, Good
    <3>2. CASE u.err # "ok" BY <3>2
    <3> QED BY <3>1, <3>2
  <2> HIDE DEF Step
  <2>2. F \in [1..N -> [S -> S]] BY <2>1
  <2>3. PICK g \in [0..N -> S] : g[0] = s /\ \A k \in 1..N : g[k] = F[k][g[k-1]]
    <3>1. \E g \in [0..N -> S] : Unrolls(g, N, s, F)
      <4> HIDE DEF F, S, N
      <4> QED BY <2>0, <2>2, Recursion, Zenon
    <3> QED BY <3>1 DEF Unrolls
  <2>4. Rec(g)
    <3>1. \A k \in 0..N : k # 0 => k \in 1..N /\ k - 1 \in 0..N BY <2>0
    <3>2. \A k \in 0..N : g[k] = IF k = 0 THEN s ELSE Step(g[k-1], k)
      BY <2>3, <3>1
    <3>3. g = [k \in 0..N |-> IF k = 0 THEN s ELSE Step(g[k-1], k)] BY <3>2
    <3> HIDE DEF N
    <3> QED BY <3>3 DEF Step
  <2>5. Rec(t)
    <3> HIDE DEF Rec
    <3> QED BY <2>4
  <2>6. r = t[N]
    BY <1>2 DEF Loop, ScanBlocks
  <2> HIDE DEF t
  <2>7. t[0] = s /\ \A k \in 1..N : t[k] = Step(t[k-1], k)
    <3>1. \A k \in 0..N : t[k] = IF k = 0 THEN s
                              ELSE IF t[k-1].err = "ok" THEN Look(FileGetBlock(t[k-1], Root, (a + k - 1)), (a + k - 1), name) ELSE t[k-1]
      BY <2>5
    <3>2. 0 \in 0..N /\ \A k \in 1..N : k \in 0..N /\ k # 0 BY <2>0
    <3> QED BY <3>1, <3>2 DEF Step
  <2> HIDE DEF F, Rec, N, S
  <2> DEFINE T == {k \in 0..N : t[k] \in S}
  <2>8. 0 \in T BY <2>0, <2>7
  <2>9. ASSUME NEW k \in 0..N-1, k \in T PROVE k + 1 \in T
    <3>1. k + 1 \in 1..N /\ k + 1 \in 0..N /\ (k + 1) - 1 = k BY <2>0
    <3> QED BY <3>1, <2>1, <2>7, <2>9
  <2>10. t[N] \in S
    <3>1. \A k \in 0..N : k \in T
      <4> HIDE DEF T
      <4> QED BY <2>0, <2>8, <2>9, Induct
    <3> QED BY <3>1, <2>0
  <2> QED BY <2>6, <2>10
<1>3. CASE a > b
  <2>1. r = s BY <1>3 DEF ScanBlocks, Loop
  <2> QED BY <1>0, <2>1
<1>4. r \in S
  <2>1. a > b \/ a <= b OBVIOUS
  <2>2. a > b => r = s BY DEF ScanBlocks, Loop
  <2> HIDE DEF S, r
  <2> QED BY <2>1, <2>2, <1>0, <1>2
<1> HIDE DEF r
<1>5. Safe(own, r) /\ Found(own, r, name) /\ (own => Keeps(s.mem, r.mem)) BY <1>4
<1> QED BY <1>5 DEF r

\* dir_lookup keeps every block with its owner; what it found is an entry of the
\* directory with that name.
LEMMA ScanSound ==
  ASSUME NEW own \in BOOLEAN, NEW s, Safe(own, s), s.err = "ok", NEW name
  PROVE  LET t == Scan(s, name)
         IN  Safe(own, t) /\ Found(own, t, name) /\ t.err # "ok"
<1> DEFINE b == Blocks(FileAt(s.mem, Root).size) - 1
           u == ScanBlocks(s, name, b)
<1>1. Blocks(FileAt(s.mem, Root).size) \in Nat
  <2>1. Root \in Loc BY DEF Loc
  <2>2. FileAt(s.mem, Root).size \in Nat BY <2>1, Fields, Typed DEF Safe, Good, File
  <2> QED BY <2>2, BlocksSound
<1>2. b \in Int /\ b < Blocks(FileAt(s.mem, Root).size) BY <1>1
<1>3. Scan(s, name) = IF u.err = "ok" THEN Fail(u, "not_found") ELSE u
  BY DEF Scan, ScanBlocks, Look
<1> HIDE DEF b
<1>4. Safe(own, u) /\ Found(own, u, name) BY <1>2, ScanBlocksSound
<1> HIDE DEF u
<1>5. CASE u.err = "ok"
  <2>1. "not_found" \in Err BY DEF Err
  <2>2. Fail(u, "not_found") \in State /\ Fail(u, "not_found").mem = u.mem
        /\ Fail(u, "not_found").err = "not_found" /\ SameDisk(u, Fail(u, "not_found"))
    BY <1>4, <2>1, FailSound DEF Safe, Good
  <2> QED BY <1>3, <1>4, <1>5, <2>2 DEF Safe, Good, Found, Follows, SameDisk
<1>6. CASE u.err # "ok"
  BY <1>3, <1>4, <1>6
<1> QED BY <1>5, <1>6

\* A multiple of the block size stays one.
LEMMA WholeBlocks == \A n \in Nat : n % BLKSIZE = 0 => (n + BLKSIZE) % BLKSIZE = 0
<1> SUFFICES ASSUME NEW n \in Nat, n % BLKSIZE = 0 PROVE (n + BLKSIZE) % BLKSIZE = 0
  OBVIOUS
<1> DEFINE m == n + BLKSIZE
           q == n \div BLKSIZE
           k == m \div BLKSIZE
           r == m % BLKSIZE
           d == q + 1 - k
<1>1. q \in Nat /\ n = q * BLKSIZE BY FileSysAssumption
<1>2. m \in Nat BY Numbers
<1>3. k \in Nat /\ r \in 0..BLKSIZE-1 /\ m = k * BLKSIZE + r
  <2> HIDE DEF m
  <2> QED BY <1>2, FileSysAssumption
<1> HIDE DEF q, k, r
<1>4. q * BLKSIZE + BLKSIZE = k * BLKSIZE + r BY <1>1, <1>3
<1>5. d \in Int /\ d * BLKSIZE = q * BLKSIZE + BLKSIZE - k * BLKSIZE BY <1>1, <1>3, Numbers
<1>6. d * BLKSIZE = r
  <2>1. q * BLKSIZE \in Nat /\ k * BLKSIZE \in Nat BY <1>1, <1>3, Numbers
  <2> HIDE DEF d
  <2> QED BY <1>3, <1>4, <1>5, <2>1, Numbers
<1> HIDE DEF d
<1>7. ASSUME d >= 1 PROVE FALSE
  <2>1. d * BLKSIZE >= BLKSIZE BY <1>5, <1>7, Numbers
  <2> QED BY <2>1, <1>3, <1>6, Numbers
<1>8. ASSUME d <= -1 PROVE FALSE
  <2>1. d * BLKSIZE <= -BLKSIZE BY <1>5, <1>8, Numbers
  <2> QED BY <2>1, <1>3, <1>6, Numbers
<1>9. d = 0 BY <1>5, <1>7, <1>8
<1>10. r = 0 BY <1>6, <1>9, Numbers
<1> QED BY <1>10 DEF r

\* at is an entry of the directory that nobody uses.
Unused(own, s) ==
  own /\ s.err = "ok" =>
    s.at \in Locs(s.mem) /\ s.at # Root /\ FileAt(s.mem, s.at).name = NoName

\* dir_alloc_file adds a block to the directory.
LEMMA GrowSound ==
  ASSUME NEW own \in BOOLEAN, NEW s, Safe(own, s), s.err = "ok"
  PROVE  LET t == DirGrow(s)
         IN  Safe(own, t) /\ Unused(own, t)
<1> DEFINE n == FileAt(s.mem, Root).size
           i == Blocks(n)
           u == SetSize(s, Root, n + BLKSIZE)
           g == FileGetBlock(u, Root, i)
           b == Slot(g.mem, Root, i)
           t == IF g.err # "ok" THEN g ELSE [g EXCEPT !.at = <<b, 1>>]
<1>0. DirGrow(s) = t BY DEF DirGrow
<1>1. s.mem \in Image /\ Root \in Loc /\ Root \in Locs(s.mem) /\ n \in Nat /\ n % BLKSIZE = 0
  <2>1. s.mem \in Image /\ Root \in Loc BY Fields DEF Loc, Safe, Good
  <2> QED BY <2>1, Typed, LocsParts DEF File
<1>2. n + BLKSIZE \in Nat /\ (n + BLKSIZE) % BLKSIZE = 0 /\ i \in Nat /\ i < Blocks(n + BLKSIZE)
      /\ Blocks(n + BLKSIZE) \in Nat
  <2>1. n + BLKSIZE \in Nat BY <1>1, Numbers
  <2> QED BY <1>1, <2>1, WholeBlocks, BlocksSound, BlocksOrder
<1>3. /\ Safe(own, u) /\ u.err = "ok"
      /\ own => KeepsNames(s.mem, u.mem) /\ FileAt(u.mem, Root).size = n + BLKSIZE
      /\ own => \A j \in 0..MaxBlocks : Ref(u.mem, Root, j) = Ref(s.mem, Root, j)
  <2>1. ASSUME own, NEW j \in 0..MaxBlocks-1, Ref(s.mem, Root, j) # NullPtr PROVE j < Blocks(n + BLKSIZE)
    <3>1. j < i BY <2>1, <1>1 DEF Safe, Good, Owned, Sound, WithinSize
    <3> QED BY <3>1, <1>2, Numbers
  <2>0. Good(own, s) BY DEF Safe
  <2> HIDE DEF n
  <2>2. /\ Good(own, u) /\ u.err = s.err /\ SameDisk(s, u) /\ u.mem[Bitmap] = s.mem[Bitmap]
        /\ \A k \in Loc : k # Root => FileAt(u.mem, k) = FileAt(s.mem, k)
        /\ \A k \in Loc, j \in 0..MaxBlocks : Ref(u.mem, k, j) = Ref(s.mem, k, j)
        /\ own => /\ KeepsNames(s.mem, u.mem) /\ Locs(u.mem) = Locs(s.mem)
                  /\ FileAt(u.mem, Root).size = n + BLKSIZE
    BY <1>1, <1>2, <2>0, <2>1, SizeSound
  <2> HIDE DEF u
  <2>3. Locs(s.mem) \subseteq Loc BY <1>1, LocsParts
  <2>4. own => Alike(s.mem, u.mem) BY <2>2, <2>3 DEF Alike
  <2>5. Safe(own, u) BY <2>2, <2>4, SameSafe
  <2> QED BY <1>1, <2>2, <2>5
<1> HIDE DEF u
<1>4. own => Used(u.mem, Root) /\ i < Blocks(FileAt(u.mem, Root).size)
  BY <1>1, <1>2, <1>3 DEF Used, KeepsNames
<1>8. ASSUME own, i \in 0..MaxBlocks-1 PROVE Ref(u.mem, Root, i) = NullPtr
  <2>1. Ref(s.mem, Root, i) = NullPtr
    BY <1>1, <1>2, <1>8 DEF Safe, Good, Owned, Sound, WithinSize
  <2>2. i \in 0..MaxBlocks BY <1>8, Numbers
  <2> HIDE DEF i
  <2> QED BY <1>3, <1>8, <2>1, <2>2
<1> HIDE DEF i
<1>5. /\ Safe(own, g)
      /\ g.err = "ok" => i \in 0..MaxBlocks-1 /\ b \in Pointer
      /\ own /\ g.err = "ok" => /\ Ref(g.mem, Root, i) # NullPtr /\ b = Ref(g.mem, Root, i)
                                /\ Ref(u.mem, Root, i) = NullPtr => BlankBlock(g.mem, b)
  BY <1>1, <1>2, <1>3, <1>4, GetBlockSound
<1> HIDE DEF g, b
<1>6. CASE g.err # "ok"
  BY <1>0, <1>5, <1>6 DEF Unused
<1>7. CASE g.err = "ok"
  <2>1. 1 \in 1..BLKFILES BY Numbers
  <2>2. <<b, 1>> \in Loc /\ <<b, 1>> # Root BY <1>5, <1>7, <2>1, Numbers DEF Loc, Root
  <2>3. t \in State /\ t.mem = g.mem /\ t.at = <<b, 1>> /\ SameDisk(g, t)
    BY <1>5, <1>7, <2>2 DEF Safe, Good, State, SameDisk
  <2>4. own => <<b, 1>> \in Locs(g.mem)
    BY <1>5, <1>7, <2>1, Fields, LocsParts DEF Safe, Good
  <2>5. own => FileAt(g.mem, <<b, 1>>).name = NoName
    BY <1>5, <1>7, <1>8, <2>1 DEF BlankBlock, BlankFile
  <2> HIDE DEF t
  <2>6. Safe(own, t) BY <1>5, <2>3 DEF Safe, Good, Follows, SameDisk
  <2> QED BY <1>0, <2>2, <2>3, <2>4, <2>5, <2>6 DEF Unused
<1> QED BY <1>6, <1>7

\* dir_alloc_file: an entry of the directory, or an error.
LEMMA DirAllocSound ==
  ASSUME NEW own \in BOOLEAN, NEW s, Safe(own, s), s.err = "ok"
  PROVE  LET t == DirAllocFile(s)
         IN  Safe(own, t) /\ Unused(own, t)
<1> DEFINE u == Scan(s, NoName)
           v == Fail(u, "ok")
           w == DirGrow(v)
<1>1. Safe(own, u) /\ Found(own, u, NoName) /\ u.err # "ok" BY ScanSound
<1>2. DirAllocFile(s) = IF u.err = "found" THEN v ELSE IF u.err = "not_found" THEN w ELSE u
  BY DEF DirAllocFile
<1> HIDE DEF u
<1>3. /\ Safe(own, v) /\ v.err = "ok" /\ v.mem = u.mem /\ v.at = u.at
      /\ SameDisk(u, v)
  <2>1. "ok" \in Err BY DEF Err
  <2> QED BY <1>1, <2>1, FailSound DEF Safe, Good, Follows, SameDisk
<1> HIDE DEF v
<1>4. Safe(own, w) /\ Unused(own, w) BY <1>3, GrowSound
<1> HIDE DEF w
<1>5. CASE u.err = "found" BY <1>1, <1>2, <1>3, <1>5 DEF Found, Unused
<1>6. CASE u.err # "found" /\ u.err = "not_found" BY <1>2, <1>4, <1>6
<1>7. CASE u.err # "found" /\ u.err # "not_found" BY <1>1, <1>2, <1>7 DEF Unused
<1> QED BY <1>5, <1>6, <1>7

\* file_create: the name is given to a struct File that has no block yet.
LEMMA CreateSound ==
  ASSUME NEW own \in BOOLEAN, NEW s, Safe(own, s), s.err = "ok", NEW name \in Name
  PROVE  Safe(own, FileCreate(s, name))
<1> DEFINE u == Scan(s, name)
           v == Fail(u, "ok")
           a == DirAllocFile(v)
           e == FileAt(a.mem, a.at)
           f == [e EXCEPT !.name = name]
           p == PutFile(a, a.at, f)
           t == FileFlush(p, Root)
<1>1. FileCreate(s, name) = IF u.err # "not_found" THEN u ELSE IF a.err # "ok" THEN a ELSE t
  BY DEF FileCreate, SetName
<1>2. Safe(own, u) BY ScanSound
<1> HIDE DEF u
<1>3. Safe(own, v) /\ v.err = "ok"
  <2>1. "ok" \in Err BY DEF Err
  <2> QED BY <1>2, <2>1, FailSound DEF Safe, Good, Follows, SameDisk
<1> HIDE DEF v
<1>4. Safe(own, a) /\ Unused(own, a) BY <1>3, DirAllocSound
<1> HIDE DEF a
<1>5. CASE u.err = "not_found" /\ a.err = "ok"
  <2>1. a \in State /\ a.mem \in Image /\ a.at \in Loc /\ e \in File
        /\ (a.at = Root => e.size % BLKSIZE = 0)
    BY <1>4, Fields, Typed DEF Safe, Good
  <2>2. f \in File /\ f.name = name /\ f.size = e.size /\ f.direct = e.direct /\ f.ind = e.ind
    <3> HIDE DEF e
    <3> QED BY <2>1 DEF File
  <2> HIDE DEF f
  <2>3. /\ p \in State /\ SameDisk(a, p) /\ Locs(p.mem) = Locs(a.mem) /\ p.mem[Bitmap] = a.mem[Bitmap]
        /\ \A k \in Loc : FileAt(p.mem, k) = IF k = a.at THEN f ELSE FileAt(a.mem, k)
        /\ \A k \in Loc, j \in 0..MaxBlocks : Ref(p.mem, k, j) = Ref(a.mem, k, j)
    BY <2>1, <2>2, FaceSound
  <2> HIDE DEF p
  <2>4. ASSUME own PROVE Owned(p.mem) /\ Alike(a.mem, p.mem)
    <3>1. p.mem \in Image /\ Owned(a.mem) /\ Locs(a.mem) \subseteq Loc
      BY <2>1, <2>3, <2>4, <1>4, Fields, LocsParts DEF Safe, Good
    <3>2. \A k \in Locs(a.mem) : FileAt(p.mem, k).name = NoName => FileAt(a.mem, k).name = NoName
      BY <3>1, <2>2, <2>3, FileSysAssumption
    <3>3. \A k \in Locs(a.mem) : FileAt(p.mem, k).size = FileAt(a.mem, k).size
      BY <3>1, <2>2, <2>3
    <3>4. \A k \in Locs(a.mem), i \in 0..MaxBlocks : Ref(p.mem, k, i) = Ref(a.mem, k, i)
      BY <3>1, <2>3
    <3>5. a.at # Root /\ FileAt(a.mem, a.at).name = NoName BY <1>4, <1>5, <2>4 DEF Unused
    <3>6. Alike(a.mem, p.mem) BY <3>1, <3>3, <3>4, <3>5, <2>3 DEF Alike
    <3> QED BY <3>1, <3>2, <3>3, <3>4, <3>6, <2>1, <2>3, SameOwned
  <2>5. Root \in Loc /\ Root[1] # 0 BY DEF Loc, Root, Super
  <2>6. Good(own, p) BY <2>3, <2>4 DEF Good
  <2>7. Safe(own, p) BY <1>4, <2>3, <2>4, <2>6, SameSafe
  <2>8. own => Root \in Locs(p.mem) BY <2>3, Fields, LocsParts
  <2>9. Safe(own, t) BY <2>5, <2>7, <2>8, FileFlushSound
  <2> QED BY <1>1, <1>5, <2>9
<1>6. CASE ~(u.err = "not_found" /\ a.err = "ok")
  BY <1>1, <1>2, <1>4, <1>6
<1> QED BY <1>5, <1>6

-----------------------------------------------------------------------------
(* The invariant.                                                          *)

\* The cache and the disk consist of blocks, and the disk stays so whatever part
\* of the writes reaches it.  The blocks of the cache have their owners: until a
\* crash, and after one too if no file is cut in its indirect block.  Then the
\* writes to be made lead the disk, by way of sound images, to one that is behind
\* the cache.
IInv ==
  /\ mem \in Image /\ disk \in Image /\ todo \in Seq(Writes)
  /\ flushing \subseteq Name /\ durable \subseteq Name
  /\ crashes \in 0..MaxCrash
  /\ crashes = 0 \/ WholeCuts => Owned(mem)
  /\ WholeCuts => \E img \in Image : Leads(disk, todo, img) /\ Behind(mem, img)

\* Where no writes lead to.
LEMMA LeadsNowhere ==
  ASSUME NEW from, NEW out \in Seq(Writes), NEW img, Leads(from, out, img)
  PROVE  from \in Sounds /\ img \in Sounds /\ (out = <<>> => img = from)
<1>1. PICK g \in [0..Len(out) -> Sounds] : g[0] = from /\ g[Len(out)] = img
  BY DEF Leads
<1>2. Len(out) \in Nat /\ (out = <<>> => Len(out) = 0) OBVIOUS
<1> QED BY <1>1, <1>2

\* A sound image leads to itself.
LEMMA LeadsSelf ==
  ASSUME NEW from \in Image, Sound(from)
  PROVE  Leads(from, <<>>, from)
<1> DEFINE g == [i \in 0..0 |-> from]
<1>1. g \in [0..0 -> Sounds] /\ g[0] = from BY DEF Sounds
<1>2. Len(<<>>) = 0 /\ \A i \in 1..0 : FALSE OBVIOUS
<1> HIDE DEF g
<1> QED BY <1>1, <1>2 DEF Leads

\* When the first write is made, the others lead on from there.
LEMMA LeadsAfter ==
  ASSUME NEW from \in Image, NEW out \in Seq(Writes), out # <<>>, NEW img, Leads(from, out, img)
  PROVE  Leads([from EXCEPT ![Head(out)[1]] = Head(out)[2]], Tail(out), img)
<1> DEFINE n == Len(out)
           o == Tail(out)
           to == [from EXCEPT ![Head(out)[1]] = Head(out)[2]]
<1>0. n \in Nat /\ n >= 1 /\ Len(o) = n - 1 /\ Head(out) = out[1]
      /\ \A i \in 1..n-1 : o[i] = out[i+1]
  OBVIOUS
<1>1. PICK g \in [0..n -> Sounds] :
        /\ g[0] = from /\ g[n] = img
        /\ \A i \in 1..n : g[i] = [g[i-1] EXCEPT ![out[i][1]] = out[i][2]]
  BY DEF Leads
<1>2. g[1] = to
  <2>1. 1 \in 1..n /\ 1 - 1 = 0 BY <1>0
  <2>2. g[1] = [g[0] EXCEPT ![out[1][1]] = out[1][2]] BY <1>1, <2>1
  <2> QED BY <2>2, <1>0, <1>1
<1> HIDE DEF n, o, to
<1> DEFINE f == [i \in 0..n-1 |-> g[i+1]]
<1>3. f \in [0..n-1 -> Sounds] BY <1>0
<1>4. f[0] = to /\ f[n-1] = img BY <1>0, <1>1, <1>2
<1>5. ASSUME NEW i \in 1..n-1 PROVE f[i] = [f[i-1] EXCEPT ![o[i][1]] = o[i][2]]
  <2>1. i + 1 \in 1..n /\ (i + 1) - 1 = i /\ i \in 0..n-1 /\ i - 1 \in 0..n-1 /\ (i - 1) + 1 = i
    BY <1>0
  <2>2. f[i] = g[i+1] /\ f[i-1] = g[i] /\ o[i] = out[i+1] BY <2>1, <1>0
  <2>3. g[i+1] = [g[i] EXCEPT ![out[i+1][1]] = out[i+1][2]] BY <1>1, <2>1
  <2> HIDE DEF f
  <2> QED BY <2>2, <2>3
<1> HIDE DEF f
<1>6. f \in [0..Len(o) -> Sounds] /\ f[0] = to /\ f[Len(o)] = img
      /\ \A i \in 1..Len(o) : f[i] = [f[i-1] EXCEPT ![o[i][1]] = o[i][2]]
  BY <1>0, <1>3, <1>4, <1>5
<1>7. Leads(to, o, img) BY <1>6 DEF Leads
<1> QED BY <1>7 DEF to, o

\* An empty disk: all usable blocks are free and nothing is pointed to.
LEMMA InitIInv == Init => IInv
<1> SUFFICES ASSUME Init PROVE IInv
  OBVIOUS
<1>1. \A b \in Block : disk[b] = IF b = Bitmap THEN Usable ELSE ZeroBlock
  BY DEF Init, Block
<1>2. \A b \in Block : Fits(b, disk[b])
  <2> TAKE b \in Block
  <2>1. CASE b = Bitmap BY <2>1, <1>1 DEF Fits
  <2>2. CASE b = Super
    <3>1. ZeroBlock.file[1].size = 0 /\ 0 % BLKSIZE = 0
      <4>1. ZeroBlock.file[1].size = 0 BY Numbers DEF ZeroBlock, BlankFile
      <4>2. 0 % BLKSIZE = 0
        <5>1. (0 \div BLKSIZE) * BLKSIZE <= 0 BY Division
        <5> QED BY FileSysAssumption
      <4> QED BY <4>1, <4>2
    <3> QED BY <2>2, <3>1, <1>1, ZeroFits, Numbers DEF Fits
  <2>3. CASE b # Bitmap /\ b # Super
    <3>1. b \in Plain BY <2>3 DEF Plain
    <3> QED BY <2>3, <3>1, <1>1, ZeroFits
  <2> QED BY <2>1, <2>2, <2>3
<1>3. disk \in Image
  <2>1. \A b \in Block : disk[b] \in Value BY <1>1, ZeroFits DEF Value
  <2>2. disk \in [Block -> Value]
    <3>1. disk = [b \in Block |-> IF b = Bitmap THEN Usable ELSE ZeroBlock]
      BY DEF Init, Block
    <3> HIDE DEF Block
    <3> QED BY <3>1, <2>1
  <2> QED BY <1>2, <2>2 DEF Image
<1>4. mem = disk /\ mem \in Image /\ Root \in Loc
  BY <1>3 DEF Init, Loc
<1>5. FileAt(mem, Root) = BlankFile
  BY <1>1, <1>4, Numbers DEF FileAt, Root, ZeroBlock
<1>6. \A i \in 0..MaxBlocks : Ref(mem, Root, i) = NullPtr
  BY <1>4, <1>5, BlankRefs
<1>7. Locs(mem) = {Root}
  <2>1. \A i \in 0..MaxBlocks-1 : i \in 0..MaxBlocks BY Numbers
  <2>2. {Ref(mem, Root, i) : i \in 0..MaxBlocks-1} \ {NullPtr} = {} BY <2>1, <1>6
  <2> QED BY <2>2 DEF Locs
<1>8. mem[Bitmap] = Usable BY <1>1, <1>4, Numbers
<1>9. Owned(mem)
  <2>1. \A i \in 0..MaxBlocks-1 : i \in 0..MaxBlocks BY Numbers
  <2>2. Apart(mem) BY <1>6, <1>7 DEF Apart
  <2>3. NotFree(mem) BY <1>6, <1>7, <1>8, Numbers DEF NotFree, NullPtr
  <2>4. AllFound(mem) BY <1>8 DEF AllFound
  <2>5. WithinSize(mem) BY <1>6, <1>7, <2>1 DEF WithinSize
  <2>6. BlankOwnsNothing(mem) BY <1>7 DEF BlankOwnsNothing
  <2> QED BY <2>2, <2>3, <2>4, <2>5, <2>6 DEF Owned, Sound
<1>10. 0 \in 0..MaxCrash BY FileSysAssumption
<1>11. Leads(disk, todo, disk) /\ Behind(mem, disk)
  BY <1>3, <1>4, <1>9, LeadsSelf, BehindSelf DEF Init, Owned
<1>12. todo \in Seq(Writes) /\ flushing \subseteq Name /\ durable \subseteq Name
      /\ crashes \in 0..MaxCrash
  BY <1>10 DEF Init
<1> QED BY <1>3, <1>4, <1>9, <1>11, <1>12 DEF IInv

\* A request begins in a good state.
LEMMA BeginSound ==
  ASSUME IInv, todo = <<>>
  PROVE  Safe(crashes = 0 \/ WholeCuts, Begin) /\ Begin.err = "ok" /\ Begin.mem = mem
<1>1. Root \in Loc /\ "ok" \in Err /\ <<>> \in Seq(Writes) BY DEF Loc, Err
<1>2. Begin.mem = mem /\ Begin.img = disk /\ Begin.out = <<>> /\ Begin.err = "ok" BY DEF Begin
<1>3. Good(crashes = 0 \/ WholeCuts, Begin) BY <1>1 DEF Begin, Good, State, IInv
<1>4. ASSUME WholeCuts PROVE Follows(Begin)
  <2>1. PICK img \in Image : Leads(disk, <<>>, img) /\ Behind(mem, img) BY <1>4 DEF IInv
  <2>2. img = disk BY <2>1, <1>1, LeadsNowhere
  <2> QED BY <2>1, <2>2, <1>2 DEF Follows
<1> QED BY <1>2, <1>3, <1>4 DEF Safe

\* And leaves one.
LEMMA DoSound ==
  ASSUME IInv, NEW s, Safe(crashes = 0 \/ WholeCuts, s), NEW changed, NEW saved \in SUBSET Name,
         Do(s, changed, saved)
  PROVE  IInv'
<1>1. s.mem \in Image /\ s.img \in Image /\ s.out \in Seq(Writes) BY Fields DEF Safe, Good
<1>2. mem' = s.mem /\ todo' = s.out /\ disk' = disk /\ crashes' = crashes
  BY DEF Do
<1>3. flushing' \subseteq Name /\ durable' \subseteq Name BY DEF Do, IInv
<1>4. (crashes = 0 \/ WholeCuts => Owned(mem))' BY <1>2 DEF Safe, Good, Owned
<1>5. (WholeCuts => \E img \in Image : Leads(disk, todo, img) /\ Behind(mem, img))'
  BY <1>1, <1>2 DEF Safe, Follows
<1> QED BY <1>1, <1>2, <1>3, <1>4, <1>5 DEF IInv

\* The entries of a name are among the struct Files of the directory.
LEMMA EntriesFound ==
  ASSUME NEW m \in Image, NEW f \in Name, NEW l \in Entries(m, f)
  PROVE  l \in Locs(m) /\ l # Root /\ FileAt(m, l).name = f
<1>1. l \in DirBlocks(m) \X (1..BLKFILES) /\ FileAt(m, l).name = f BY DEF Entries
<1>2. l[1] \in DirBlocks(m) /\ l[2] \in 1..BLKFILES /\ l = <<l[1], l[2]>> BY <1>1
<1>3. PICK i \in 0..Blocks(FileAt(m, Root).size)-1 :
        HasSlot(m, Root, i) /\ l[1] = Slot(m, Root, i) /\ l[1] # NullPtr
  BY <1>2 DEF DirBlocks
<1>4. Root \in Loc /\ FileAt(m, Root).size \in Nat
  <2>1. Root \in Loc BY DEF Loc
  <2> QED BY <2>1, Typed DEF File
<1>5. i \in 0..MaxBlocks-1 /\ i # MaxBlocks /\ i \in 0..MaxBlocks
  <2>1. i \in Nat BY <1>4, BlocksSound
  <2> QED BY <2>1, <1>3, Numbers DEF HasSlot, MaxBlocks
<1>6. Ref(m, Root, i) = l[1] BY <1>3, <1>5 DEF Ref
<1>7. l \in Locs(m) BY <1>2, <1>3, <1>5, <1>6, LocsParts
<1>8. l # Root
  <2>1. l[1] \in Pointer BY <1>4, <1>5, <1>6, RefParts
  <2> QED BY <2>1, Numbers DEF Root
<1> QED BY <1>1, <1>7, <1>8

\* The file a request names.
LEMMA EntrySound ==
  ASSUME IInv, NEW f \in Name, Exists(mem, f)
  PROVE  LET l == Entry(mem, f)
         IN  /\ l \in Loc /\ l # Root /\ l[1] # 0 /\ FileAt(mem, l).name = f
             /\ Used(mem, l)
<1> DEFINE l == Entry(mem, f)
<1>0. mem \in Image BY DEF IInv
<1>1. l \in Entries(mem, f) BY DEF Exists, Entry
<1> HIDE DEF l
<1>2. l \in Locs(mem) /\ l # Root /\ FileAt(mem, l).name = f BY <1>0, <1>1, EntriesFound
<1>3. l \in Loc /\ l[1] \in Usable BY <1>0, <1>2, LocsParts
<1>4. f # NoName BY FileSysAssumption
<1>5. Used(mem, l) BY <1>2, <1>4 DEF Used
<1>6. l[1] # 0 BY <1>3, Numbers
<1> QED BY <1>2, <1>3, <1>5, <1>6 DEF l

\* A disk write leaves the cache alone.
LEMMA WriteOutKeeps ==
  ASSUME IInv, WriteOut
  PROVE  IInv'
<1> DEFINE w == Head(todo)
<1>1. w \in Writes /\ Tail(todo) \in Seq(Writes) BY DEF IInv, WriteOut
<1> HIDE DEF w
<1>2. w[1] \in Block /\ Fits(w[1], w[2]) /\ w[2] \in Value BY <1>1 DEF Writes, Block
<1>3. disk' = [disk EXCEPT ![w[1]] = w[2]] BY DEF WriteOut, w
<1>4. disk \in [Block -> Value] /\ \A b \in Block : Fits(b, disk[b]) BY DEF IInv, Image
<1>5. disk' \in [Block -> Value] BY <1>2, <1>3, <1>4
<1>6. \A b \in Block : disk'[b] = IF b = w[1] THEN w[2] ELSE disk[b] BY <1>2, <1>3, <1>4
<1>7. \A b \in Block : Fits(b, disk'[b]) BY <1>2, <1>4, <1>6
<1>8. disk' \in Image BY <1>5, <1>7 DEF Image
<1>9. flushing' \subseteq Name /\ durable' \subseteq Name BY DEF WriteOut, IInv
<1>10. mem' = mem /\ crashes' = crashes /\ todo' = Tail(todo) BY DEF WriteOut
<1>11. ASSUME WholeCuts PROVE \E img \in Image : Leads(disk', todo', img) /\ Behind(mem, img)
  <2>1. PICK img \in Image : Leads(disk, todo, img) /\ Behind(mem, img) BY <1>11 DEF IInv
  <2>2. todo \in Seq(Writes) /\ todo # <<>> /\ disk \in Image BY DEF IInv, WriteOut
  <2>3. Leads([disk EXCEPT ![Head(todo)[1]] = Head(todo)[2]], Tail(todo), img)
    BY <2>1, <2>2, LeadsAfter
  <2> QED BY <2>1, <2>3 DEF WriteOut
<1>12. (WholeCuts => \E img \in Image : Leads(disk, todo, img) /\ Behind(mem, img))'
  BY <1>10, <1>11
<1>13. (crashes = 0 \/ WholeCuts => Owned(mem))' BY <1>10 DEF IInv, Owned
<1> QED BY <1>1, <1>8, <1>9, <1>10, <1>12, <1>13 DEF IInv

\* A crash leaves what is on the disk: its blocks have their owners if the writes
\* led to it by way of sound images.
LEMMA CrashKeeps ==
  ASSUME IInv, Crash
  PROVE  IInv'
<1>1. crashes' = crashes + 1 /\ crashes < MaxCrash /\ crashes \in Nat /\ MaxCrash \in Nat
  BY FileSysAssumption DEF Crash, IInv
<1>2. crashes' \in 0..MaxCrash /\ crashes' # 0 BY <1>1
<1>3. mem' = disk /\ disk' = disk /\ todo' = <<>> /\ flushing' = {} /\ durable' = durable
  BY DEF Crash
<1>4. WholeCuts => disk \in Image /\ Sound(disk)
  BY LeadsNowhere DEF IInv, Sounds
<1>5. (crashes = 0 \/ WholeCuts => Owned(mem))' BY <1>2, <1>3, <1>4 DEF Owned
<1>6. WholeCuts => Leads(disk, <<>>, disk) /\ Behind(disk, disk)
  BY <1>4, LeadsSelf, BehindSelf
<1>7. (WholeCuts => \E img \in Image : Leads(disk, todo, img) /\ Behind(mem, img))'
  BY <1>3, <1>4, <1>6
<1> QED BY <1>2, <1>3, <1>5, <1>7 DEF IInv

\* Every request, disk write and crash keeps the invariant.
LEMMA NextIInv == IInv /\ [Next]_vars => IInv'
<1> SUFFICES ASSUME IInv, [Next]_vars PROVE IInv'
  OBVIOUS
<1> DEFINE own == crashes = 0 \/ WholeCuts
<1>0. /\ own \in BOOLEAN /\ {} \in SUBSET Name
      /\ todo = <<>> => Safe(own, Begin) /\ Begin.err = "ok" /\ Begin.mem = mem
  BY BeginSound
<1>1. ASSUME NEW f \in Name, Create(f) PROVE IInv'
  <2>a. Safe(own, Begin) /\ Begin.err = "ok" /\ Begin.mem = mem BY <1>0, <1>1 DEF Create, Do
  <2>1. Safe(own, FileCreate(Begin, f))
    <3> HIDE DEF own
    <3> QED BY <1>0, <2>a, CreateSound
  <2> QED BY <1>0, <1>1, <2>1, DoSound DEF Create
<1>2. ASSUME NEW f \in Name, Open(f) PROVE IInv'
  <2>a. Safe(own, Begin) /\ Begin.err = "ok" /\ Begin.mem = mem BY <1>0, <1>2 DEF Open, Do
  <2>1. Safe(own, Scan(Begin, f))
    <3> HIDE DEF own
    <3> QED BY <1>0, <2>a, ScanSound
  <2> QED BY <1>0, <1>2, <2>1, DoSound DEF Open
<1>3. ASSUME NEW f \in Name, Flush(f) PROVE IInv'
  <2>a. Safe(own, Begin) /\ Begin.err = "ok" /\ Begin.mem = mem BY <1>0, <1>3 DEF Flush, Do
  <2> DEFINE l == Entry(mem, f)
             t == FileFlush(Begin, l)
  <2>1. l \in Loc /\ l[1] # 0 /\ l \in Locs(mem) BY <1>3, EntrySound DEF Flush, Used
  <2>3. Safe(own, t)
    <3> HIDE DEF l, own
    <3> QED BY <1>0, <2>1, <2>a, FileFlushSound
  <2>4. Do(t, {}, {f}) /\ {f} \in SUBSET Name BY <1>3 DEF Flush
  <2> HIDE DEF t
  <2> QED BY <2>3, <2>4, DoSound
<1>4. ASSUME NEW f \in Name, NEW n \in Sizes[f], Resize(f, n) PROVE IInv'
  <2>a. Safe(own, Begin) /\ Begin.err = "ok" /\ Begin.mem = mem BY <1>0, <1>4 DEF Resize, Do
  <2> DEFINE l == Entry(mem, f)
             t == FileSetSize(Begin, l, n)
  <2>0. n \in Nat BY FileSysAssumption
  <2>1. l \in Loc /\ l # Root /\ l[1] # 0 /\ l \in Locs(mem)
    BY <1>4, EntrySound DEF Resize, Used
  <2>4. WholeCuts => Blocks(n) <= NDIRECT \/ Blocks(n) >= MaxBlocks BY DEF WholeCuts
  <2>2. Safe(own, t)
    <3> HIDE DEF l, own
    <3> QED BY <1>0, <2>0, <2>1, <2>4, <2>a, SetSizeSound
  <2>3. Do(t, {f}, {}) BY <1>4 DEF Resize
  <2> HIDE DEF t
  <2> QED BY <1>0, <2>2, <2>3, DoSound
<1>5. ASSUME NEW f \in Name, NEW n \in Counts, NEW off \in Offsets[f], Read(f, n, off) PROVE IInv'
  <2>a. Safe(own, Begin) /\ Begin.err = "ok" /\ Begin.mem = mem BY <1>0, <1>5 DEF Read, Do
  <2> DEFINE l == Entry(mem, f)
             t == FileRead(Begin, l, n, off)
  <2>0. n \in Nat \ {0} /\ off \in Nat BY FileSysAssumption
  <2>1. l \in Loc /\ Used(mem, l)
    BY <1>5, EntrySound DEF Read
  <2>2. Safe(own, t)
    <3> HIDE DEF l, own
    <3> QED BY <1>0, <2>0, <2>1, <2>a, ReadSound
  <2>3. Do(t, {}, {}) BY <1>5 DEF Read
  <2> HIDE DEF t
  <2> QED BY <1>0, <2>2, <2>3, DoSound
<1>6. ASSUME NEW f \in Name, NEW n \in Counts, NEW off \in Offsets[f], Write(f, n, off) PROVE IInv'
  <2>a. Safe(own, Begin) /\ Begin.err = "ok" /\ Begin.mem = mem BY <1>0, <1>6 DEF Write, Do
  <2> DEFINE l == Entry(mem, f)
             t == FileWrite(Begin, l, n, off)
  <2>0. n \in Nat \ {0} /\ off \in Nat BY FileSysAssumption
  <2>1. l \in Loc /\ l # Root /\ l[1] # 0 /\ Used(mem, l) /\ FileAt(mem, l).name \in Name
    BY <1>6, EntrySound DEF Write
  <2>2. Safe(own, t)
    <3> HIDE DEF l, own
    <3> QED BY <1>0, <2>0, <2>1, <2>a, WriteSound
  <2>3. Do(t, {f}, {}) BY <1>6 DEF Write
  <2> HIDE DEF t
  <2> QED BY <1>0, <2>2, <2>3, DoSound
<1>7. ASSUME Sync PROVE IInv'
  <2>a. Safe(own, Begin) /\ Begin.err = "ok" /\ Begin.mem = mem BY <1>0, <1>7 DEF Sync, Do
  <2> DEFINE t == FsSync(Begin)
             saved == {f \in Name : Exists(mem, f)}
  <2>3. Safe(own, t)
    <3> HIDE DEF own
    <3> QED BY <1>0, <2>a, SyncSound
  <2>2. Do(t, {}, saved) BY <1>7 DEF Sync
  <2> HIDE DEF t
  <2>4. saved \in SUBSET Name OBVIOUS
  <2> HIDE DEF saved
  <2> QED BY <2>2, <2>3, <2>4, DoSound
<1>8. CASE WriteOut BY <1>8, WriteOutKeeps
<1>9. CASE Crash BY <1>9, CrashKeeps
<1>10. CASE UNCHANGED vars BY <1>10 DEF vars, IInv, Owned
<1> QED BY <1>1, <1>2, <1>3, <1>4, <1>5, <1>6, <1>7, <1>8, <1>9, <1>10 DEF Next

\* The cache and the disk consist of blocks whatever part of the writes reaches
\* the disk, every block of the cache has its owner until a crash, and also later
\* if no file is cut in its indirect block; then the disk stays behind the cache.
THEOREM Invariant == Spec => []IInv
BY InitIInv, NextIInv, PTL DEF Spec

-----------------------------------------------------------------------------
(* What the invariant says.                                                *)

\* TypeOK: the root directory consists of whole blocks, the reserved blocks are
\* never free and never a file's (the assertions in fs.c), even when a crash
\* has left blocks with two owners.
THEOREM TypeCorrect == Spec => []TypeOK
<1>1. IInv => TypeOK
  <2> SUFFICES ASSUME IInv PROVE TypeOK
    OBVIOUS
  <2>1. mem \in Image /\ disk \in Image BY DEF IInv
  <2>2. ASSUME NEW m \in Image, NEW b \in Block
        PROVE  IF b = Bitmap THEN m[b] \subseteq Usable ELSE m[b] \in Content
    BY Typed DEF Fits
  <2>3. FileAt(mem, Root).size % BLKSIZE = 0 BY <2>1, Typed
  <2>4. ASSUME NEW i \in 1..Len(todo) PROVE todo[i][1] \in 1..NBLOCKS-1
    <3>1. todo[i] \in Writes BY DEF IInv
    <3> QED BY <3>1 DEF Writes
  <2> QED BY <2>1, <2>2, <2>3, <2>4 DEF TypeOK, IInv, Block
<1> QED BY <1>1, Invariant, PTL

\* The files of an image whose blocks have their owners are the struct Files of
\* the directory that have a name, and the directory.
LEMMA FilesAreUsed ==
  ASSUME NEW m \in Image, Sound(m)
  PROVE  /\ Files(m) \subseteq Locs(m) /\ Root \in Files(m)
         /\ \A l \in Locs(m) : l \notin Files(m) => \A i \in 0..MaxBlocks : Ref(m, l, i) = NullPtr
<1>1. Files(m) \subseteq Locs(m) BY EntriesFound, LocsParts DEF Files
<1>2. Root \in Files(m) BY DEF Files
<1>3. ASSUME NEW l \in Locs(m), l \notin Files(m)
      PROVE  \A i \in 0..MaxBlocks : Ref(m, l, i) = NullPtr
  <2>1. l # Root /\ l \in Loc BY <1>2, <1>3, LocsParts
  <2>2. FileAt(m, l).name \in Name \cup {NoName} BY <2>1, Typed DEF File
  <2>3. FileAt(m, l).name \notin Name
    <3> SUFFICES ASSUME FileAt(m, l).name \in Name PROVE l \in Files(m)
      BY <1>3
    <3>1. PICK i \in 0..MaxBlocks-1 : Ref(m, Root, i) = l[1] BY <2>1, LocsParts
    <3>2. l[1] \in Usable /\ l[2] \in 1..BLKFILES /\ l = <<l[1], l[2]>> BY <2>1, LocsParts
    <3>3. l[1] # NullPtr /\ Root \in Locs(m) /\ i # MaxBlocks
      BY <3>2, Numbers, LocsParts DEF NullPtr
    <3>4. i < Blocks(FileAt(m, Root).size) BY <3>1, <3>3 DEF Sound, WithinSize
    <3>5. HasSlot(m, Root, i) /\ Slot(m, Root, i) = l[1] BY <3>1, <3>3 DEF Ref
    <3>6. FileAt(m, Root).size \in Nat /\ Blocks(FileAt(m, Root).size) \in Nat
      <4>1. FileAt(m, Root).size \in Nat BY <3>3, LocsParts, Typed DEF File
      <4> QED BY <4>1, BlocksSound
    <3>7. i \in 0..Blocks(FileAt(m, Root).size)-1 BY <3>4, <3>6, Numbers
    <3>8. l[1] \in DirBlocks(m) BY <3>3, <3>5, <3>7 DEF DirBlocks
    <3>9. l \in Entries(m, FileAt(m, l).name) BY <3>2, <3>8 DEF Entries
    <3> QED BY <3>9 DEF Files
  <2> QED BY <2>1, <2>2, <2>3 DEF Sound, BlankOwnsNothing
<1> QED BY <1>1, <1>2, <1>3

\* What Pointed counts are the pointers of the files.
LEMMA PointedParts ==
  ASSUME NEW m \in Image, Sound(m)
  PROVE  /\ \A a \in DirectAt(m) : /\ a[1] \in Files(m) /\ a[2] \in 0..NDIRECT-1 /\ a = <<a[1], a[2]>>
                                   /\ FileAt(m, a[1]).direct[a[2]] = Ref(m, a[1], a[2])
                                   /\ Ref(m, a[1], a[2]) # NullPtr
         /\ \A l \in IndirectAt(m) : /\ l \in Files(m) /\ FileAt(m, l).ind = Ref(m, l, MaxBlocks)
                                     /\ Ref(m, l, MaxBlocks) # NullPtr
         /\ \A a \in EntryAt(m) : /\ a[1] \in Files(m) /\ a[2] \in 0..NINDIRECT-1 /\ a = <<a[1], a[2]>>
                                  /\ NDIRECT + a[2] \in NDIRECT..MaxBlocks-1
                                  /\ m[FileAt(m, a[1]).ind].ptr[a[2]] = Ref(m, a[1], NDIRECT + a[2])
                                  /\ Ref(m, a[1], NDIRECT + a[2]) # NullPtr
         /\ \A l \in Files(m), i \in 0..MaxBlocks : Ref(m, l, i) # NullPtr => Ref(m, l, i) \in Pointed(m)
<1>0. Files(m) \subseteq Locs(m) /\ Files(m) \subseteq Loc BY FilesAreUsed, LocsParts
<1>1. ASSUME NEW a \in DirectAt(m)
      PROVE  /\ a[1] \in Files(m) /\ a[2] \in 0..NDIRECT-1 /\ a = <<a[1], a[2]>>
             /\ FileAt(m, a[1]).direct[a[2]] = Ref(m, a[1], a[2])
             /\ Ref(m, a[1], a[2]) # NullPtr
  BY <1>0, RefParts DEF DirectAt
<1>2. ASSUME NEW l \in IndirectAt(m)
      PROVE  /\ l \in Files(m) /\ FileAt(m, l).ind = Ref(m, l, MaxBlocks)
             /\ Ref(m, l, MaxBlocks) # NullPtr
  BY <1>0, RefParts DEF IndirectAt
<1>3. ASSUME NEW a \in EntryAt(m)
      PROVE  /\ a[1] \in Files(m) /\ a[2] \in 0..NINDIRECT-1 /\ a = <<a[1], a[2]>>
             /\ NDIRECT + a[2] \in NDIRECT..MaxBlocks-1
             /\ m[FileAt(m, a[1]).ind].ptr[a[2]] = Ref(m, a[1], NDIRECT + a[2])
             /\ Ref(m, a[1], NDIRECT + a[2]) # NullPtr
  <2>1. /\ a[1] \in IndirectAt(m) /\ a[2] \in 0..NINDIRECT-1 /\ a = <<a[1], a[2]>>
        /\ m[FileAt(m, a[1]).ind].ptr[a[2]] # NullPtr
    BY DEF EntryAt
  <2>2. a[1] \in Files(m) /\ a[1] \in Loc /\ FileAt(m, a[1]).ind # NullPtr
    BY <1>0, <2>1 DEF IndirectAt
  <2>3. NDIRECT + a[2] \in NDIRECT..MaxBlocks-1 /\ (NDIRECT + a[2]) - NDIRECT = a[2]
    BY <2>1, Numbers DEF MaxBlocks
  <2> QED BY <2>1, <2>2, <2>3, RefParts
<1>4. ASSUME NEW l \in Files(m), NEW i \in 0..MaxBlocks, Ref(m, l, i) # NullPtr
      PROVE  Ref(m, l, i) \in Pointed(m)
  <2>0. l \in Loc BY <1>0
  <2>1. CASE i \in 0..NDIRECT-1
    <3>1. Ref(m, l, i) = FileAt(m, l).direct[i] BY <2>0, <2>1, RefParts
    <3>2. <<l, i>> \in DirectAt(m) BY <3>1, <2>1, <1>4 DEF DirectAt
    <3>3. FileAt(m, <<l, i>>[1]).direct[<<l, i>>[2]] \in Pointed(m) BY <3>2 DEF Pointed
    <3> QED BY <3>1, <3>3
  <2>2. CASE i \in NDIRECT..MaxBlocks-1
    <3>1. /\ i - NDIRECT \in 0..NINDIRECT-1 /\ FileAt(m, l).ind # NullPtr
          /\ Ref(m, l, i) = m[FileAt(m, l).ind].ptr[i - NDIRECT]
      BY <2>0, <2>2, <1>4, RefParts
    <3> DEFINE a == <<l, i - NDIRECT>>
    <3>2. a \in EntryAt(m) BY <3>1, <1>4 DEF EntryAt, IndirectAt
    <3>3. m[FileAt(m, a[1]).ind].ptr[a[2]] \in Pointed(m)
      <4> HIDE DEF a
      <4> QED BY <3>2 DEF Pointed
    <3> QED BY <3>1, <3>3
  <2>3. CASE i = MaxBlocks
    <3>1. Ref(m, l, i) = FileAt(m, l).ind BY <2>0, <2>3, RefParts
    <3>2. l \in IndirectAt(m) BY <3>1, <1>4 DEF IndirectAt
    <3> QED BY <3>1, <3>2 DEF Pointed
  <2> QED BY <2>0, <2>1, <2>2, <2>3, RefParts
<1> QED BY <1>1, <1>2, <1>3, <1>4

\* A set that is numbered off by another has as many elements.
LEMMA CountBy ==
  ASSUME NEW A, NEW T, IsFiniteSet(T), NEW f \in [A -> T],
         \A x, y \in A : f[x] = f[y] => x = y, \A z \in T : \E x \in A : f[x] = z
  PROVE  Cardinality(A) = Cardinality(T)
<1>1. f \in Injection(A, T) /\ f \in Surjection(A, T)
  BY DEF Injection, Surjection, IsInjective
<1> QED BY <1>1, FS_Injection

\* When every block has its owner, the pointers are as many as the blocks they
\* point to.
LEMMA OwnedOnce ==
  ASSUME NEW m \in Image, Sound(m)
  PROVE  OneOwner(m)
<1> DEFINE D == {FileAt(m, a[1]).direct[a[2]] : a \in DirectAt(m)}
           I == {FileAt(m, l).ind : l \in IndirectAt(m)}
           E == {m[FileAt(m, a[1]).ind].ptr[a[2]] : a \in EntryAt(m)}
<1>0. Pointed(m) = (D \cup I) \cup E BY DEF Pointed
<1>1. Files(m) \subseteq Locs(m) /\ Files(m) \subseteq Loc BY FilesAreUsed, LocsParts
<1>2. /\ \A i \in 0..NDIRECT-1 : i \in 0..MaxBlocks /\ i # MaxBlocks /\ i \notin NDIRECT..MaxBlocks-1
      /\ \A i \in NDIRECT..MaxBlocks-1 : i \in 0..MaxBlocks /\ i # MaxBlocks
      /\ MaxBlocks \in 0..MaxBlocks
  BY Numbers DEF MaxBlocks
<1>3. ASSUME NEW l \in Files(m), NEW k \in Files(m), NEW i \in 0..MaxBlocks, NEW j \in 0..MaxBlocks,
             Ref(m, l, i) # NullPtr, Ref(m, l, i) = Ref(m, k, j)
      PROVE  l = k /\ i = j
  BY <1>1, <1>3 DEF Sound, Apart
<1>4. \A l \in Files(m), i \in 0..MaxBlocks :
        Ref(m, l, i) # NullPtr => Ref(m, l, i) \in Usable /\ Ref(m, l, i) \notin m[Bitmap]
  <2>1. \A l \in Files(m), i \in 0..MaxBlocks : Ref(m, l, i) \in Pointer BY <1>1, RefParts
  <2> QED BY <2>1, <1>1 DEF Pointer, Sound, NotFree
<1>5. D \subseteq Usable /\ I \subseteq Usable /\ E \subseteq Usable
      /\ D \cap m[Bitmap] = {} /\ I \cap m[Bitmap] = {} /\ E \cap m[Bitmap] = {}
  <2>1. \A a \in DirectAt(m) : FileAt(m, a[1]).direct[a[2]] \in Usable \ m[Bitmap]
    BY <1>2, <1>4, PointedParts
  <2>2. \A l \in IndirectAt(m) : FileAt(m, l).ind \in Usable \ m[Bitmap]
    BY <1>2, <1>4, PointedParts
  <2>3. \A a \in EntryAt(m) : m[FileAt(m, a[1]).ind].ptr[a[2]] \in Usable \ m[Bitmap]
    BY <1>2, <1>4, PointedParts
  <2> QED BY <2>1, <2>2, <2>3
<1>6. IsFiniteSet(Usable)
  <2>1. 3 \in Int /\ NBLOCKS-1 \in Int BY Numbers
  <2> QED BY <2>1, FS_Interval DEF Usable
<1>7. IsFiniteSet(D) /\ IsFiniteSet(I) /\ IsFiniteSet(E) BY <1>5, <1>6, FS_Subset
<1>8. Cardinality(DirectAt(m)) = Cardinality(D)
  <2> DEFINE f == [a \in DirectAt(m) |-> FileAt(m, a[1]).direct[a[2]]]
  <2>1. f \in [DirectAt(m) -> D] /\ \A z \in D : \E x \in DirectAt(m) : f[x] = z OBVIOUS
  <2>2. ASSUME NEW x \in DirectAt(m), NEW y \in DirectAt(m), f[x] = f[y] PROVE x = y
    <3>1. Ref(m, x[1], x[2]) = Ref(m, y[1], y[2]) BY <2>2, PointedParts
    <3>2. x[1] = y[1] /\ x[2] = y[2] BY <3>1, <1>2, <1>3, PointedParts
    <3> QED BY <3>2, PointedParts
  <2> HIDE DEF f, D
  <2> QED BY <2>1, <2>2, <1>7, CountBy
<1>9. Cardinality(IndirectAt(m)) = Cardinality(I)
  <2> DEFINE f == [l \in IndirectAt(m) |-> FileAt(m, l).ind]
  <2>1. f \in [IndirectAt(m) -> I] /\ \A z \in I : \E x \in IndirectAt(m) : f[x] = z OBVIOUS
  <2>2. ASSUME NEW x \in IndirectAt(m), NEW y \in IndirectAt(m), f[x] = f[y] PROVE x = y
    <3>1. Ref(m, x, MaxBlocks) = Ref(m, y, MaxBlocks) BY <2>2, PointedParts
    <3> QED BY <3>1, <1>2, <1>3, PointedParts
  <2> HIDE DEF f, I
  <2> QED BY <2>1, <2>2, <1>7, CountBy
<1>10. Cardinality(EntryAt(m)) = Cardinality(E)
  <2> DEFINE f == [a \in EntryAt(m) |-> m[FileAt(m, a[1]).ind].ptr[a[2]]]
  <2>1. f \in [EntryAt(m) -> E] /\ \A z \in E : \E x \in EntryAt(m) : f[x] = z OBVIOUS
  <2>2. ASSUME NEW x \in EntryAt(m), NEW y \in EntryAt(m), f[x] = f[y] PROVE x = y
    <3>1. Ref(m, x[1], NDIRECT + x[2]) = Ref(m, y[1], NDIRECT + y[2]) BY <2>2, PointedParts
    <3>2. x[1] = y[1] /\ NDIRECT + x[2] = NDIRECT + y[2] BY <3>1, <1>2, <1>3, PointedParts
    <3>3. x[2] \in 0..NINDIRECT-1 /\ y[2] \in 0..NINDIRECT-1 BY PointedParts
    <3>4. x[2] = y[2] BY <3>2, <3>3, Numbers
    <3> QED BY <3>2, <3>4, PointedParts
  <2> HIDE DEF f, E
  <2> QED BY <2>1, <2>2, <1>7, CountBy
<1>11. D \cap I = {}
  <2> SUFFICES ASSUME NEW a \in DirectAt(m), NEW l \in IndirectAt(m),
                      FileAt(m, a[1]).direct[a[2]] = FileAt(m, l).ind
               PROVE  FALSE
    OBVIOUS
  <2>1. Ref(m, a[1], a[2]) = Ref(m, l, MaxBlocks) BY PointedParts
  <2>2. a[2] = MaxBlocks BY <2>1, <1>2, <1>3, PointedParts
  <2> QED BY <2>2, <1>2, PointedParts
<1>12. (D \cup I) \cap E = {}
  <2>1. ASSUME NEW a \in DirectAt(m), NEW c \in EntryAt(m),
               FileAt(m, a[1]).direct[a[2]] = m[FileAt(m, c[1]).ind].ptr[c[2]]
        PROVE  FALSE
    <3>1. Ref(m, a[1], a[2]) = Ref(m, c[1], NDIRECT + c[2]) BY <2>1, PointedParts
    <3>2. a[2] = NDIRECT + c[2] BY <3>1, <1>2, <1>3, PointedParts
    <3> QED BY <3>2, <1>2, PointedParts
  <2>2. ASSUME NEW l \in IndirectAt(m), NEW c \in EntryAt(m),
               FileAt(m, l).ind = m[FileAt(m, c[1]).ind].ptr[c[2]]
        PROVE  FALSE
    <3>1. Ref(m, l, MaxBlocks) = Ref(m, c[1], NDIRECT + c[2]) BY <2>2, PointedParts
    <3>2. MaxBlocks = NDIRECT + c[2] BY <3>1, <1>2, <1>3, PointedParts
    <3> QED BY <3>2, <1>2, PointedParts
  <2> QED BY <2>1, <2>2
<1>13. Cardinality(Pointed(m)) = Pointers(m)
  <2> HIDE DEF D, I, E
  <2>1. Cardinality(D) \in Nat /\ Cardinality(I) \in Nat /\ Cardinality(E) \in Nat
    BY <1>7, FS_CardinalityType
  <2>2. IsFiniteSet(D \cup I) /\ Cardinality(D \cup I) = Cardinality(D) + Cardinality(I)
    <3>1. Cardinality(D \cup I) = Cardinality(D) + Cardinality(I) - Cardinality({})
      BY <1>7, <1>11, FS_Union
    <3>2. IsFiniteSet(D \cup I) BY <1>7, FS_Union
    <3>3. Cardinality({}) = 0 BY FS_EmptySet
    <3> QED BY <3>1, <3>2, <3>3, <2>1
  <2>3. Cardinality((D \cup I) \cup E) = Cardinality(D) + Cardinality(I) + Cardinality(E)
    <3>1. Cardinality((D \cup I) \cup E) = Cardinality(D \cup I) + Cardinality(E) - Cardinality({})
      BY <1>7, <1>12, <2>2, FS_Union
    <3>2. Cardinality({}) = 0 BY FS_EmptySet
    <3> QED BY <3>1, <3>2, <2>1, <2>2
  <2> QED BY <2>3, <1>0, <1>8, <1>9, <1>10 DEF Pointers
<1>14. Pointed(m) \cap m[Bitmap] = {}
  <2> HIDE DEF D, I, E
  <2> QED BY <1>0, <1>5
<1> QED BY <1>13, <1>14 DEF OneOwner

\* The half of BlocksOwned about the block cache, for as long as there was no
\* crash: no block has two owners, and none that is pointed to is free.
CacheOwned == crashes = 0 => OneOwner(mem)
\* alloc_block never hands out a block that a file has, until a crash.
THEOREM CacheOwnedHolds == Spec => []CacheOwned
<1>1. IInv => CacheOwned
  BY OwnedOnce DEF IInv, CacheOwned, Owned
<1> QED BY <1>1, Invariant, PTL

\* BlocksOwned, for any disk and any number of crashes between any two writes,
\* as long as no request leaves a file part of its indirect block: the order in
\* which alloc_block, file_get_block and file_set_size write is enough.
THEOREM BlocksOwnedHolds == ASSUME WholeCuts PROVE Spec => []BlocksOwned
<1>1. IInv => BlocksOwned
  <2> SUFFICES ASSUME IInv PROVE BlocksOwned
    OBVIOUS
  <2>1. mem \in Image /\ Sound(mem) BY DEF IInv, Owned
  <2>2. disk \in Image /\ Sound(disk) BY LeadsNowhere DEF IInv, Sounds
  <2> QED BY <2>1, <2>2, OwnedOnce DEF BlocksOwned
<1> QED BY <1>1, Invariant, PTL

\* What NothingLost says of the cache holds when its blocks have their owners.
LEMMA OwnedLosesNothing ==
  ASSUME mem \in Image, Owned(mem)
  PROVE  NothingLost
<1>1. Sound(mem) BY DEF Owned
<1>2. Files(mem) \subseteq Locs(mem)
      /\ \A l \in Locs(mem) : l \notin Files(mem) => \A i \in 0..MaxBlocks : Ref(mem, l, i) = NullPtr
  BY <1>1, FilesAreUsed
<1>3. ASSUME crashes = 0, NEW b \in Usable PROVE b \in mem[Bitmap] \cup Pointed(mem)
  <2>1. CASE b \in mem[Bitmap] BY <2>1
  <2>2. CASE b \notin mem[Bitmap]
    <3>1. PICK l \in Locs(mem), i \in 0..MaxBlocks : Ref(mem, l, i) = b
      BY <1>3, <2>2 DEF Owned, AllFound
    <3>2. b # NullPtr BY Numbers DEF NullPtr
    <3>3. l \in Files(mem) BY <1>2, <3>1, <3>2
    <3> QED BY <1>1, <3>1, <3>2, <3>3, PointedParts
  <2> QED BY <2>1, <2>2
<1>4. ASSUME NEW l \in Files(mem), NEW i \in 0..NDIRECT+NINDIRECT-1,
             HasSlot(mem, l, i) /\ Slot(mem, l, i) # NullPtr
      PROVE  i < Blocks(FileAt(mem, l).size)
  <2>1. i \in 0..MaxBlocks-1 /\ i # MaxBlocks BY Numbers DEF MaxBlocks
  <2>2. Ref(mem, l, i) # NullPtr BY <1>4, <2>1 DEF Ref
  <2> QED BY <1>1, <1>2, <2>1, <2>2 DEF Sound, WithinSize
<1> QED BY <1>3, <1>4 DEF NothingLost

\* NothingLost until a crash, whatever failed on a full disk: every block is
\* free or pointed to, and no file keeps a block beyond its size.
THEOREM NothingLostHolds == Spec => [](crashes = 0 => NothingLost)
<1>1. IInv => (crashes = 0 => NothingLost) BY OwnedLosesNothing DEF IInv
<1> QED BY <1>1, Invariant, PTL

\* NothingLost after crashes too, if no request leaves a file part of its
\* indirect block: no file has a block beyond its size when the server starts
\* from what a crash left.
THEOREM NothingLostAlways == ASSUME WholeCuts PROVE Spec => []NothingLost
<1>1. IInv => NothingLost BY OwnedLosesNothing DEF IInv
<1> QED BY <1>1, Invariant, PTL
=============================================================================
