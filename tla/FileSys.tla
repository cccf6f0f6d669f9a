------------------------------ MODULE FileSys ------------------------------
(***************************************************************************)
(* The file system (fs/fs.c) on its block cache (fs/bc.c) and a disk that  *)
(* may lose power between any two writes.                                  *)
(*                                                                         *)
(* The file server executes one operation after the other.  Only a crash   *)
(* sees the middle of one, and only on the disk: an operation is a         *)
(* function from the cached blocks to the cached blocks it leaves and the  *)
(* disk writes it makes, in order.  A block that is not cached, or clean,  *)
(* equals its copy on the disk, so flush_block writes exactly the blocks   *)
(* that differ.                                                            *)
(*                                                                         *)
(* No operation makes a directory (file_create leaves f_type 0): every     *)
(* file is in the root directory.                                          *)
(***************************************************************************)
EXTENDS Integers, Sequences, FiniteSets, SequencesExt

CONSTANTS
  Name, NoName,   \* file names, and the name of a free directory slot
  Zero,           \* a byte that nobody wrote; the bytes of a file are its name
  Missing,        \* content of a file that does not exist
  BLKSIZE,        \* bytes per block
  BLKFILES,       \* struct File per directory block
  NDIRECT, NINDIRECT,  \* pointers in a struct File, in an indirect block
  NBLOCKS,        \* blocks of the disk
  Sizes,          \* Sizes[f]: sizes clients set f to
  Offsets,        \* Offsets[f]: offsets they read and write f at
  Counts,         \* numbers of bytes they read and write
  MaxCrash        \* number of crashes

Super == 1
Bitmap == 2
Usable == 3..NBLOCKS-1
NullPtr == 0

ASSUME FileSysAssumption ==
  /\ NoName \notin Name
  /\ BLKSIZE \in Nat \ {0} /\ BLKFILES \in Nat \ {0}
  /\ NDIRECT \in Nat \ {0} /\ NINDIRECT \in Nat \ {0}
  /\ NBLOCKS \in Nat /\ NBLOCKS > Bitmap
  /\ \A f \in Name : Sizes[f] \subseteq Nat /\ Offsets[f] \subseteq Nat
  /\ Counts \subseteq Nat \ {0} /\ MaxCrash \in Nat

VARIABLES
  mem,       \* mem[b]: block b as the block cache has it
  disk,      \* disk[b]: block b as the disk has it
  todo,      \* writes the current operation still has to make
  flushing,  \* files whose content is on the disk when todo is done
  durable,   \* files flushed since they were last changed
  crashes

vars == <<mem, disk, todo, flushing, durable, crashes>>

-----------------------------------------------------------------------------
(* Blocks.  A zeroed block reads as free directory slots, null pointers or *)
(* zero bytes.  The bitmap block is the set of free blocks.                *)

BlankFile == [name |-> NoName, size |-> 0,
              direct |-> [i \in 0..NDIRECT-1 |-> NullPtr], ind |-> NullPtr]
ZeroBlock == [file |-> [j \in 1..BLKFILES |-> BlankFile],
              ptr |-> [i \in 0..NINDIRECT-1 |-> NullPtr],
              byte |-> [i \in 0..BLKSIZE-1 |-> Zero]]

\* A struct File is known by its block and its index there.
Root == <<Super, 1>>
FileAt(m, l) == m[l[1]].file[l[2]]
Blocks(size) == (size + BLKSIZE - 1) \div BLKSIZE
MaxBlocks == NDIRECT + NINDIRECT      \* MAXFILESIZE, in blocks

\* An empty disk.  What the server does when it starts is left out: check_bc
\* overwrites the superblock, flushes it and puts it back, and fs_test takes a
\* block that it never frees and rewrites /newmotd.
Init ==
  /\ disk = [b \in 0..NBLOCKS-1 |-> IF b = Bitmap THEN Usable ELSE ZeroBlock]
  /\ mem = disk
  /\ todo = <<>> /\ flushing = {} /\ durable = {} /\ crashes = 0

\* The state of an operation: the cache, the disk once out is written, the
\* error it fails with, the struct File it found.
Begin == [mem |-> mem, img |-> disk, out |-> <<>>, err |-> "ok", at |-> Root]
Fail(s, e) == [s EXCEPT !.err = e]

\* The loops of the code: for each i from a to b, until an error.
Loop(Op(_, _), s, a, b) ==
  LET t[k \in 0..b-a+1] == IF k = 0 THEN s
                           ELSE LET u == t[k-1]
                                IN  IF u.err = "ok" THEN Op(u, a + k - 1) ELSE u
  IN  IF a <= b THEN t[b-a+1] ELSE s

FlushBlock(s, b) ==
  IF s.mem[b] = s.img[b] THEN s
  ELSE [s EXCEPT !.img[b] = s.mem[b], !.out = Append(@, <<b, s.mem[b]>>)]

-----------------------------------------------------------------------------
(* Block allocation and block pointers.                                    *)

Free(s) == s.mem[Bitmap] \cap Usable
NextFree(s) == CHOOSE b \in Free(s) : \A c \in Free(s) : b <= c
AllocBlock(s) == FlushBlock([s EXCEPT !.mem[Bitmap] = @ \ {NextFree(s)}], Bitmap)
FreeBlock(s, b) == [s EXCEPT !.mem[Bitmap] = @ \cup {b}]

\* Assignments to the fields of a struct File.
PutFile(s, l, f) == [s EXCEPT !.mem[l[1]].file[l[2]] = f]
SetIndirect(s, l, b) == PutFile(s, l, [FileAt(s.mem, l) EXCEPT !.ind = b])
SetSize(s, l, n) == PutFile(s, l, [FileAt(s.mem, l) EXCEPT !.size = n])
SetName(s, l, f) == PutFile(s, l, [FileAt(s.mem, l) EXCEPT !.name = f])

\* The pointer file_block_walk finds, and an assignment to it.
Slot(m, l, i) == IF i < NDIRECT THEN FileAt(m, l).direct[i]
                 ELSE m[FileAt(m, l).ind].ptr[i - NDIRECT]
SetSlot(s, l, i, b) ==
  IF i < NDIRECT THEN PutFile(s, l, [FileAt(s.mem, l) EXCEPT !.direct[i] = b])
  ELSE [s EXCEPT !.mem[FileAt(s.mem, l).ind].ptr[i - NDIRECT] = b]

\* A block just allocated is cleared, on the disk too.
Clear(s, b) == FlushBlock([s EXCEPT !.mem[b] = ZeroBlock], b)

HasSlot(m, l, i) ==
  i < NDIRECT \/ (i < NDIRECT + NINDIRECT /\ FileAt(m, l).ind # NullPtr)

FileBlockWalk(s, l, i) ==
  IF i >= NDIRECT + NINDIRECT THEN Fail(s, "inval")
  ELSE IF HasSlot(s.mem, l, i) THEN s
  ELSE IF Free(s) = {} THEN Fail(s, "no_disk")
  ELSE Clear(SetIndirect(AllocBlock(s), l, NextFree(s)), NextFree(s))

\* Mutant: the new block keeps what its last owner wrote.
FileGetBlock_NotCleared(s, l, i) ==
  LET Fill(w) == IF w.err # "ok" \/ Slot(w.mem, l, i) # NullPtr THEN w
                 ELSE IF Free(w) = {} THEN Fail(w, "no_disk")
                 ELSE SetSlot(AllocBlock(w), l, i, NextFree(w))
  IN Fill(FileBlockWalk(s, l, i))

FileGetBlock(s, l, i) ==
  LET Fill(w) == IF w.err # "ok" \/ Slot(w.mem, l, i) # NullPtr THEN w
                 ELSE IF Free(w) = {} THEN Fail(w, "no_disk")
                 ELSE Clear(SetSlot(AllocBlock(w), l, i, NextFree(w)), NextFree(w))
  IN Fill(FileBlockWalk(s, l, i))

FileFreeBlock(s, l, i) ==
  IF HasSlot(s.mem, l, i) /\ Slot(s.mem, l, i) # NullPtr
  THEN SetSlot(FreeBlock(s, Slot(s.mem, l, i)), l, i, NullPtr)
  ELSE s

\* Mutant: the pointer to the indirect block is cleared, its block stays used.
FileTruncateBlocks_KeepIndirect(s, l, n) ==
  LET DropIndirect(t) == IF Blocks(n) <= NDIRECT THEN SetIndirect(t, l, NullPtr) ELSE t
  IN DropIndirect(Loop(LAMBDA u, i : FileFreeBlock(u, l, i),
                       s, Blocks(n), Blocks(FileAt(s.mem, l).size) - 1))

FileTruncateBlocks(s, l, n) ==
  LET DropIndirect(t) ==
        LET ind == FileAt(t.mem, l).ind IN
        IF Blocks(n) <= NDIRECT /\ ind # NullPtr
        THEN SetIndirect(FreeBlock(t, ind), l, NullPtr) ELSE t
  IN DropIndirect(Loop(LAMBDA u, i : FileFreeBlock(u, l, i),
                       s, Blocks(n), Blocks(FileAt(s.mem, l).size) - 1))

\* Mutant: the shorter file is not written to the disk at once.
FileSetSize_Later(s, l, n) ==
  SetSize(IF FileAt(s.mem, l).size > n THEN FileTruncateBlocks(s, l, n) ELSE s, l, n)

FileSetSize(s, l, n) ==
  LET t == IF FileAt(s.mem, l).size > n THEN FileTruncateBlocks(s, l, n) ELSE s
  IN FlushBlock(SetSize(t, l, n), l[1])

\* Mutant: the last block of a file that does not fill it is not flushed.
FileFlush_RoundDown(s, l) ==
  LET One(t, i) == IF HasSlot(t.mem, l, i) /\ Slot(t.mem, l, i) # NullPtr
                   THEN FlushBlock(t, Slot(t.mem, l, i)) ELSE t
      f == FileAt(s.mem, l)
      Indirect(t) == IF f.ind # NullPtr THEN FlushBlock(t, f.ind) ELSE t
  IN Indirect(FlushBlock(Loop(One, s, 0, (f.size \div BLKSIZE) - 1), l[1]))

\* Data, then the struct File, then the indirect block.
FileFlush(s, l) ==
  LET One(t, i) == IF HasSlot(t.mem, l, i) /\ Slot(t.mem, l, i) # NullPtr
                   THEN FlushBlock(t, Slot(t.mem, l, i)) ELSE t
      f == FileAt(s.mem, l)
      Indirect(t) == IF f.ind # NullPtr THEN FlushBlock(t, f.ind) ELSE t
  IN Indirect(FlushBlock(Loop(One, s, 0, Blocks(f.size) - 1), l[1]))

FsSync(s) == Loop(FlushBlock, s, 1, NBLOCKS - 1)

-----------------------------------------------------------------------------
(* Reading and writing.                                                    *)

FileRead(s, l, count, off) ==
  LET size == FileAt(s.mem, l).size
      n == IF count < size - off THEN count ELSE size - off
  IN IF off >= size THEN s
     ELSE Loop(LAMBDA t, i : FileGetBlock(t, l, i),
               s, off \div BLKSIZE, (off + n - 1) \div BLKSIZE)

FileWrite(s, l, count, off) ==
  LET f == FileAt(s.mem, l)
      grown == IF off + count > f.size THEN FileSetSize(s, l, off + count) ELSE s
      Copy(g, i) ==
        IF g.err # "ok" THEN g
        ELSE [g EXCEPT !.mem[Slot(g.mem, l, i)].byte = [p \in 0..BLKSIZE-1 |->
                IF i * BLKSIZE + p \in off..off+count-1 THEN f.name ELSE @[p]]]
  IN Loop(LAMBDA t, i : Copy(FileGetBlock(t, l, i), i),
          grown, off \div BLKSIZE, (off + count - 1) \div BLKSIZE)

-----------------------------------------------------------------------------
(* The root directory.                                                     *)

\* dir_lookup, and dir_alloc_file with NoName: search block by block.  The
\* outcome is in err: "found", "not_found", or the error of a block.
Scan(s, name) ==
  LET Look(g, i) ==
        LET b == Slot(g.mem, Root, i)
            match == {j \in 1..BLKFILES : g.mem[b].file[j].name = name}
        IN IF g.err # "ok" \/ match = {} THEN g
           ELSE [g EXCEPT !.err = "found", !.at = <<b, Min(match)>>]
      End(t) == IF t.err = "ok" THEN Fail(t, "not_found") ELSE t
  IN End(Loop(LAMBDA t, i : Look(FileGetBlock(t, Root, i), i),
              s, 0, Blocks(FileAt(s.mem, Root).size) - 1))

\* Mutant: the directory grows by one entry, not by one block.
DirGrow_OneEntry(s) ==
  LET n == FileAt(s.mem, Root).size
      First(g) == IF g.err # "ok" THEN g
                  ELSE [g EXCEPT !.at = <<Slot(g.mem, Root, Blocks(n)), 1>>]
  IN First(FileGetBlock(SetSize(s, Root, n + 1), Root, Blocks(n)))

\* The new size first, then the block.
DirGrow(s) ==
  LET n == FileAt(s.mem, Root).size
      First(g) == IF g.err # "ok" THEN g
                  ELSE [g EXCEPT !.at = <<Slot(g.mem, Root, Blocks(n)), 1>>]
  IN First(FileGetBlock(SetSize(s, Root, n + BLKSIZE), Root, Blocks(n)))

DirAllocFile(s) ==
  LET Use(t) == IF t.err = "found" THEN Fail(t, "ok")
                ELSE IF t.err = "not_found" THEN DirGrow(Fail(t, "ok")) ELSE t
  IN Use(Scan(s, NoName))

FileCreate(s, name) ==
  LET Enter(a) == IF a.err # "ok" THEN a
        ELSE FileFlush(SetName(a, a.at, name), Root)
      Add(t) == IF t.err # "not_found" THEN t ELSE Enter(DirAllocFile(Fail(t, "ok")))
  IN Add(Scan(s, name))

-----------------------------------------------------------------------------
(* Requests, one at a time.                                                *)

\* The files of the root directory.  Blank slots are NoName's.
DirBlocks(m) == {Slot(m, Root, i) : i \in {k \in 0..Blocks(FileAt(m, Root).size)-1 :
                                        HasSlot(m, Root, k)}} \ {NullPtr}
Entries(m, name) ==
  {l \in DirBlocks(m) \X (1..BLKFILES) : FileAt(m, l).name = name}
Exists(m, name) == Entries(m, name) # {}
Entry(m, name) == CHOOSE l \in Entries(m, name) : TRUE

\* s is the state the operation ends in, changed the files it changes, saved
\* those that are on the disk when it is done.
Do(s, changed, saved) ==
  /\ todo = <<>>
  /\ mem' = s.mem
  /\ todo' = s.out
  /\ flushing' = IF s.out = <<>> THEN {} ELSE saved
  /\ durable' = (durable \ changed) \cup (IF s.out = <<>> THEN saved ELSE {})
  /\ UNCHANGED <<disk, crashes>>

Create(f) == Do(FileCreate(Begin, f), {f} \ {g \in Name : Exists(mem, g)}, {})
Open(f) == Do(Scan(Begin, f), {}, {})
\* The other requests name an open file.
Read(f, n, off) ==
  Exists(mem, f) /\ Do(FileRead(Begin, Entry(mem, f), n, off), {}, {})
Write(f, n, off) ==
  Exists(mem, f) /\ Do(FileWrite(Begin, Entry(mem, f), n, off), {f}, {})
Resize(f, n) ==
  Exists(mem, f) /\ Do(FileSetSize(Begin, Entry(mem, f), n), {f}, {})
Flush(f) ==
  Exists(mem, f) /\ Do(FileFlush(Begin, Entry(mem, f)), {}, {f})
Sync == Do(FsSync(Begin), {}, {f \in Name : Exists(mem, f)})

WriteOut ==
  /\ todo # <<>>
  /\ disk' = [disk EXCEPT ![Head(todo)[1]] = Head(todo)[2]]
  /\ todo' = Tail(todo)
  /\ IF Len(todo) = 1 THEN durable' = durable \cup flushing /\ flushing' = {}
                      ELSE UNCHANGED <<durable, flushing>>
  /\ UNCHANGED <<mem, crashes>>

\* The cache is lost, and fs_init starts from the disk.  (Then check_bc and
\* fs_test run again, see Init; no power failure meets them here.)
Crash ==
  /\ crashes < MaxCrash
  /\ crashes' = crashes + 1
  /\ mem' = disk /\ todo' = <<>> /\ flushing' = {}
  /\ UNCHANGED <<disk, durable>>

Next ==
  \/ \E f \in Name : Create(f) \/ Open(f) \/ Flush(f)
  \/ \E f \in Name : \E n \in Sizes[f] : Resize(f, n)
  \/ \E f \in Name : \E n \in Counts, off \in Offsets[f] :
       Read(f, n, off) \/ Write(f, n, off)
  \/ Sync \/ WriteOut \/ Crash

Spec == Init /\ [][Next]_vars

-----------------------------------------------------------------------------
(* Properties.                                                             *)

\* What clients must not ask for (serve_set_size takes any size): a size that
\* leaves a file some pointers of its indirect block and takes others away.
\* file_set_size clears them in the cache and does not write the indirect block
\* to the disk, where they still name blocks that alloc_block gives away.
WholeCuts ==
  \A f \in Name : \A n \in Sizes[f] : Blocks(n) <= NDIRECT \/ Blocks(n) >= MaxBlocks

Pointer == {NullPtr} \cup Usable
File == [name : Name \cup {NoName}, size : Nat,
         direct : [0..NDIRECT-1 -> Pointer], ind : Pointer]
Content == [file : [1..BLKFILES -> File], ptr : [0..NINDIRECT-1 -> Pointer],
            byte : [0..BLKSIZE-1 -> Name \cup {Zero}]]

\* Also the assertions of the code: the size of the directory is a multiple of
\* the block size, the reserved blocks are never free.
TypeOK ==
  /\ \A m \in {mem, disk} : \A b \in 0..NBLOCKS-1 :
       IF b = Bitmap THEN m[b] \subseteq Usable ELSE m[b] \in Content
  /\ FileAt(mem, Root).size % BLKSIZE = 0
  /\ \A i \in 1..Len(todo) : todo[i][1] \in 1..NBLOCKS-1
  /\ flushing \subseteq Name /\ durable \subseteq Name
  /\ crashes \in 0..MaxCrash

\* Every file of an image and where it is, the root directory included.
Files(m) == {Root} \cup UNION {Entries(m, f) : f \in Name}
\* The places that hold a block pointer, and what they hold.
DirectAt(m) == {a \in Files(m) \X (0..NDIRECT-1) : FileAt(m, a[1]).direct[a[2]] # NullPtr}
IndirectAt(m) == {l \in Files(m) : FileAt(m, l).ind # NullPtr}
EntryAt(m) == {a \in IndirectAt(m) \X (0..NINDIRECT-1) :
                 m[FileAt(m, a[1]).ind].ptr[a[2]] # NullPtr}
Pointed(m) ==
  {FileAt(m, a[1]).direct[a[2]] : a \in DirectAt(m)}
  \cup {FileAt(m, l).ind : l \in IndirectAt(m)}
  \cup {m[FileAt(m, a[1]).ind].ptr[a[2]] : a \in EntryAt(m)}
Pointers(m) == Cardinality(DirectAt(m)) + Cardinality(IndirectAt(m)) + Cardinality(EntryAt(m))

OneOwner(m) == /\ Cardinality(Pointed(m)) = Pointers(m)
               /\ Pointed(m) \cap m[Bitmap] = {}

\* Under WholeCuts no block has two owners, and none that is pointed to is free,
\* in the cache and on the disk a crash would leave ("reading free block" of
\* bc_pgfault is not reached, and alloc_block gives out no block a file has):
\* alloc_block writes the bitmap before there is a pointer, and file_set_size
\* the shorter struct File before the blocks can be given out again.
BlocksOwned == OneOwner(mem) /\ OneOwner(disk)

\* As long as there was no crash, every block that requests took is pointed to,
\* whatever failed for lack of space; and no file keeps a block beyond its size,
\* after a crash under WholeCuts only.
NothingLost ==
  /\ crashes = 0 => Usable \subseteq mem[Bitmap] \cup Pointed(mem)
  /\ \A l \in Files(mem), i \in 0..NDIRECT+NINDIRECT-1 :
       HasSlot(mem, l, i) /\ Slot(mem, l, i) # NullPtr =>
         i < Blocks(FileAt(mem, l).size)

ByteAt(m, l, p) ==
  LET i == p \div BLKSIZE IN
  IF ~HasSlot(m, l, i) \/ Slot(m, l, i) = NullPtr THEN Zero
  ELSE m[Slot(m, l, i)].byte[p % BLKSIZE]
Bytes(m, f) ==
  IF Exists(m, f)
  THEN [p \in 1..FileAt(m, Entry(m, f)).size |-> ByteAt(m, Entry(m, f), p - 1)]
  ELSE Missing
Store == INSTANCE FileStore WITH content <- [f \in Name |-> Bytes(mem, f)]

\* A file holds what was written to it and nothing another file owned, holes
\* read as zero, and what file_flush or fs_sync has finished with survives a
\* crash at any later moment, in the middle of operations on other files too.
\* Under WholeCuts: otherwise a pointer left on the disk brings the bytes of the
\* file that got the block into this one.
ImplementsFileStore == Store!Spec
=============================================================================
