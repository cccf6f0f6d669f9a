----------------------------- MODULE PipeProofs -----------------------------
(* The pipe keeps its bytes in order, and on one CPU its end of file means *)
(* that the other end is closed, for any buffer size and any number of     *)
(* bytes, dups and interrupts.                                             *)
EXTENDS Pipe, FiniteSetTheorems, SequenceTheorems, TLAPS

(* Two invariants, one for the bytes and one for the mappings.             *)

\* The places of an environment.
PC == {"start", "dup", "undup", "undup2", "shut", "shut2", "look", "snap", "ref1",
       "ref2", "check", "eof", "take", "took", "put", "stored", "close", "close2",
       "done"}

\* What the variables hold.
Types ==
  /\ maps \in [Proc -> SUBSET Slot] /\ pc \in [Proc -> PC]
  /\ rpos \in Nat /\ wpos \in 0..NBytes /\ buf \in [0..Size-1 -> 0..NBytes]
  /\ got \in Seq(0..NBytes)
  /\ smp \in BOOLEAN /\ on \subseteq Proc
  /\ same \in [Proc -> BOOLEAN] /\ trapped \in [Proc -> BOOLEAN]
  /\ ref \in [Proc -> {"rd", "wr", "data"} \X Nat]

\* The positions stay within the buffer, also by what the two ends saw before.
Positions ==
  /\ rpos <= wpos /\ wpos <= rpos + Size
  /\ pc["writer"] \in {"put", "stored"} => wpos < rpos + Size /\ wpos < NBytes
  /\ pc["reader"] \in {"take", "took"} => rpos < wpos

\* Between the positions are the bytes nobody has read, in order.
Bytes ==
  /\ \A k \in Nat : rpos <= k /\ k < wpos => buf[k % Size] = k + 1
  /\ pc["writer"] = "stored" => buf[wpos % Size] = wpos + 1

\* The reader has the bytes before them, and the one it is at.
Taken ==
  /\ InOrder
  /\ Len(got) \in {rpos, rpos + 1}
  /\ pc["reader"] = "took" => Len(got) = rpos + 1
  /\ pc["reader"] \notin {"took", "done"} => Len(got) = rpos

RingInv == Types /\ Positions /\ Bytes /\ Taken

\* What p may have mapped at its place in close and dup.
Allowed(p) ==
  CASE pc[p] \in {"start", "shut"} -> {"rd", "wr"} \X {"fd", "data"}
    [] pc[p] = "dup" -> ({"rd", "wr"} \X {"fd", "data"}) \cup {<<"dup", "data">>}
    [] pc[p] = "undup" -> Slot
    [] pc[p] = "undup2" -> Slot \ {<<"dup", "fd">>}
    [] pc[p] = "shut2" -> ({End[p]} \X {"fd", "data"}) \cup {<<End[Other(p)], "data">>}
    [] pc[p] = "close2" -> {<<End[p], "data">>}
    [] pc[p] = "done" -> {}
    [] OTHER -> {End[p]} \X {"fd", "data"}

\* The data page is mapped before a descriptor and unmapped after it.
DataFirst(p) ==
  /\ \A s \in {"rd", "wr", "dup"} : <<s, "fd">> \in maps[p] => <<s, "data">> \in maps[p]
  /\ pc[p] = "dup" => <<"dup", "data">> \in maps[p]

MapInv == Types /\ \A p \in Proc : maps[p] \subseteq Allowed(p) /\ DataFirst(p)

\* Nobody has the other end open.
OtherClosed(p) == \A q \in Proc : \A x \in maps[q] :
  x # <<End[Other(p)], "fd">> /\ (p = "writer" => x # <<"dup", "fd">>)

\* On one CPU nobody else has executed since a check that was not interrupted
\* began, but for an environment that was destroyed.
CheckedAt(p) ==
  /\ Checking(p) /\ ~trapped[p] => on = {p}
  /\ pc[p] = "ref2" => ref[p][1] \in {End[p], "data"}
  /\ pc[p] = "ref2" /\ ~trapped[p] =>
       ref[p][2] = PageRef(ref[p][1]) \/ ~Alive(Other(p))
  /\ pc[p] = "check" /\ ~trapped[p] /\ same[p] => OtherClosed(p)
  /\ pc[p] = "eof" => OtherClosed(p)

OneCpu == ~smp => (\E q \in Proc : on = {q}) /\ \A p \in Proc : CheckedAt(p)

EofInv == MapInv /\ OneCpu

-----------------------------------------------------------------------------
(* Arithmetic of the ring, and steps of one environment.                   *)

\* A position is its remainder and a multiple of the size.
LEMMA Remainder ==
  ASSUME NEW a \in Int
  PROVE  /\ a % Size = a - Size * (a \div Size) /\ a \div Size \in Int
         /\ a % Size \in 0..Size-1
BY PipeAssumption

\* Less than the size apart, two positions have different slots.
LEMMA SlotsDiffer ==
  ASSUME NEW a \in Nat, NEW b \in Nat, a < b, b < a + Size
  PROVE  a % Size # b % Size
<1> SUFFICES ASSUME a % Size = b % Size PROVE FALSE
  OBVIOUS
<1> DEFINE j == a \div Size
           k == b \div Size
<1>1. j \in Int /\ k \in Int /\ a - Size * j = b - Size * k
  BY Remainder
<1> HIDE DEF j, k
<1>2. b - a = Size * k - Size * j /\ Size * k - Size * j = Size * (k - j)
  BY <1>1, PipeAssumption
<1>3. 0 < Size * (k - j) /\ Size * (k - j) < Size
  BY <1>1, <1>2, PipeAssumption
<1> QED
  BY <1>1, <1>3, PipeAssumption

\* One environment moves from one place to another.
LEMMA GotoEffect ==
  ASSUME Types, NEW p \in Proc, NEW from, NEW to \in PC, Goto(p, from, to)
  PROVE  /\ pc' \in [Proc -> PC] /\ p \in on
         /\ pc[p] = from /\ pc'[p] = to /\ \A q \in Proc : q # p => pc'[q] = pc[q]
BY DEF Types, Goto

\* The mappings pageref counts.
Holders(page) == {x \in Proc \X Slot : /\ x[2] \in maps[x[1]]
  /\ CASE page = "rd" -> x[2] \in {<<"rd", "fd">>, <<"dup", "fd">>}
       [] page = "wr" -> x[2] = <<"wr", "fd">>
       [] page = "data" -> x[2][2] = "data"}

\* There are finitely many.
LEMMA HoldersFinite ==
  ASSUME NEW page
  PROVE  /\ PageRef(page) = Cardinality(Holders(page))
         /\ IsFiniteSet(Holders(page)) /\ Holders(page) \subseteq Proc \X Slot
<1>1. IsFiniteSet(Proc \X Slot)
  <2>1. IsFiniteSet({}) /\ IsFiniteSet({"reader"}) /\ IsFiniteSet({"rd"})
        /\ IsFiniteSet({"fd"})
    BY FS_EmptySet, FS_Singleton
  <2>2. IsFiniteSet({"reader"} \cup {"writer"}) /\ IsFiniteSet({"fd"} \cup {"data"})
        /\ IsFiniteSet({"rd"} \cup {"wr"})
    BY <2>1, FS_AddElement
  <2>3. IsFiniteSet(({"rd"} \cup {"wr"}) \cup {"dup"})
    BY <2>2, FS_AddElement
  <2>4. /\ Proc = {"reader"} \cup {"writer"} /\ {"fd", "data"} = {"fd"} \cup {"data"}
        /\ {"rd", "wr", "dup"} = ({"rd"} \cup {"wr"}) \cup {"dup"}
    BY DEF Proc
  <2>5. IsFiniteSet(Slot)
    BY <2>2, <2>3, <2>4, FS_Product DEF Slot
  <2> QED
    BY <2>2, <2>4, <2>5, FS_Product
<1>2. Holders(page) \subseteq Proc \X Slot
  BY DEF Holders
<1>3. PageRef(page) = Cardinality(Holders(page))
  BY DEF PageRef, Holders
<1> QED
  BY <1>1, <1>2, <1>3, FS_Subset

\* So the count is a number.
LEMMA PageRefNat ==
  ASSUME NEW page
  PROVE  PageRef(page) \in Nat
BY HoldersFinite, FS_CardinalityType

-----------------------------------------------------------------------------
(* Types.                                                                  *)

\* The next place of an environment is one of PC.
LEMMA PcType ==
  ASSUME Types, NEW p \in Proc, Step(p) \/ Timer(p) \/ Die(p) \/ Resume(p)
  PROVE  pc' \in [Proc -> PC] /\ \A q \in Proc : q # p => pc'[q] = pc[q]
<1>1. ASSUME NEW from, NEW to \in PC, NEW q \in Proc, q = p, Goto(q, from, to)
      PROVE  pc' \in [Proc -> PC] /\ \A x \in Proc : x # p => pc'[x] = pc[x]
  BY <1>1, GotoEffect
<1>2. CASE Closing(p)
  BY <1>1, <1>2 DEF Closing, Close, PC
<1>3. CASE PipeIsClosed(p)
  <2>1. (IF same[p] THEN "eof" ELSE "look") \in PC
    BY DEF PC
  <2> QED
    BY <1>1, <1>3, <2>1 DEF PipeIsClosed, Snap, FirstRef, SecondRef, Interrupted,
       Decided, PC
<1>4. CASE Finish(p) \/ (p = "writer" /\ (Dup(p) \/ StopDup(p)))
  BY <1>1, <1>4 DEF Finish, Dup, StopDup, PC
<1>5. CASE p = "reader" /\ (ReadLook \/ ReadByte)
  <2>1. (CASE rpos # wpos -> "take" [] i > 0 -> "look" [] OTHER -> "snap") \in PC
    BY DEF PC
  <2> QED
    BY <1>1, <1>5, <2>1 DEF ReadLook, ReadByte, PC
<1>6. CASE p = "writer" /\ (WriteLook \/ WriteByte)
  <2>1. (CASE wpos = NBytes -> "close" [] Full -> "snap" [] OTHER -> "put") \in PC
    BY DEF PC
  <2> QED
    BY <1>1, <1>6, <2>1 DEF WriteLook, WriteByte, PC
<1>7. CASE Timer(p) \/ Resume(p)
  BY <1>7 DEF Timer, Resume, Types
<1>8. CASE Die(p)
  BY <1>8 DEF Die, Types, PC
<1> QED
  BY <1>2, <1>3, <1>4, <1>5, <1>6, <1>7, <1>8 DEF Step

\* Mappings are of the slots there are.
LEMMA MapsType ==
  ASSUME Types, NEW p \in Proc, Step(p) \/ Timer(p) \/ Die(p) \/ Resume(p)
  PROVE  /\ maps' \in [Proc -> SUBSET Slot] /\ \A q \in Proc : q # p => maps'[q] = maps[q]
         /\ smp' = smp /\ on' \subseteq Proc
<1>1. Other(p) \in Proc /\ <<"dup", "data">> \in Slot /\ <<"dup", "fd">> \in Slot
  BY DEF Other, Proc, Slot
<1>2. ASSUME NEW slot, Unmap(p, slot)
      PROVE  maps' \in [Proc -> SUBSET Slot] /\ \A q \in Proc : q # p => maps'[q] = maps[q]
  BY <1>2 DEF Unmap, Types
<1>3. ASSUME NEW slot \in Slot, Map(p, slot)
      PROVE  maps' \in [Proc -> SUBSET Slot] /\ \A q \in Proc : q # p => maps'[q] = maps[q]
  BY <1>3 DEF Map, Types
<1>4. CASE Closing(p)
  BY <1>2, <1>4 DEF Closing, Close, Types
<1>5. CASE PipeIsClosed(p)
  BY <1>1, <1>5 DEF PipeIsClosed, Snap, FirstRef, SecondRef, Interrupted, Decided, Types
<1>6. CASE p = "writer" /\ Dup(p)
  BY <1>1, <1>3, <1>6 DEF Dup, Types
<1>7. CASE Finish(p) \/ StopDup(p) \/ Timer(p) \/ Resume(p)
  BY <1>1, <1>7 DEF Finish, StopDup, Timer, Resume, Types
<1>8. CASE \/ p = "reader" /\ (ReadLook \/ ReadByte)
           \/ p = "writer" /\ (WriteLook \/ WriteByte)
  BY <1>8 DEF ReadLook, ReadByte, WriteLook, WriteByte, Types
<1>9. CASE Die(p)
  BY <1>9 DEF Die, Types
<1> QED
  BY <1>4, <1>5, <1>6, <1>7, <1>8, <1>9 DEF Step

\* So are the local variables of a check.
LEMMA CheckType ==
  ASSUME Types, NEW p \in Proc, Step(p) \/ Timer(p) \/ Die(p) \/ Resume(p)
  PROVE  /\ same' \in [Proc -> BOOLEAN] /\ trapped' \in [Proc -> BOOLEAN]
         /\ ref' \in [Proc -> {"rd", "wr", "data"} \X Nat]
         /\ \A q \in Proc : q # p => same'[q] = same[q] /\ trapped'[q] = trapped[q]
                                     /\ ref'[q] = ref[q]
<1>1. CASE PipeIsClosed(p)
  <2>1. CASE Snap(p) \/ Interrupted(p) \/ Decided(p)
    BY <2>1 DEF Snap, Interrupted, Decided, Types
  <2>2. CASE FirstRef(p)
    <3>1. PICK page \in {End[p], "data"} : ref' = [ref EXCEPT ![p] = <<page, PageRef(page)>>]
      BY <2>2 DEF FirstRef
    <3>2. page \in {"rd", "wr", "data"} /\ PageRef(page) \in Nat
      BY PageRefNat DEF End, Proc
    <3> QED
      BY <2>2, <3>1, <3>2 DEF FirstRef, Types
  <2>3. CASE SecondRef(p)
    BY <2>3 DEF SecondRef, Types
  <2> QED
    BY <1>1, <2>1, <2>2, <2>3 DEF PipeIsClosed
<1>2. CASE Timer(p)
  BY <1>2 DEF Timer, Types
<1>3. CASE Closing(p) \/ Finish(p) \/ Dup(p) \/ StopDup(p) \/ Die(p) \/ Resume(p)
  BY <1>3 DEF Closing, Close, Finish, Dup, StopDup, Die, Resume, check, Types
<1>4. CASE \/ p = "reader" /\ (ReadLook \/ ReadByte)
           \/ p = "writer" /\ (WriteLook \/ WriteByte)
  BY <1>4 DEF ReadLook, ReadByte, WriteLook, WriteByte, check, Types
<1> QED
  BY <1>1, <1>2, <1>3, <1>4 DEF Step

\* And the ring, whose bytes and positions go no further than NBytes.
LEMMA RingType ==
  ASSUME Types, Positions, NEW p \in Proc, Step(p) \/ Timer(p) \/ Die(p) \/ Resume(p)
  PROVE  /\ rpos' \in Nat /\ wpos' \in 0..NBytes
         /\ buf' \in [0..Size-1 -> 0..NBytes] /\ got' \in Seq(0..NBytes)
<1>1. CASE UNCHANGED <<rpos, wpos, buf, got>>
  BY <1>1 DEF Types
<1>2. CASE ReadByte
  <2>1. rpos \in Int
    BY DEF Types
  <2>2. rpos % Size \in 0..Size-1
    BY <2>1, Remainder
  <2>3. buf[rpos % Size] \in 0..NBytes
    BY <2>2 DEF Types
  <2>4. /\ wpos' = wpos /\ buf' = buf
        /\ \/ rpos' = rpos /\ got' = Append(got, buf[rpos % Size])
           \/ rpos' = rpos + 1 /\ got' = got
    BY <1>2 DEF ReadByte, TakeByte, NextByte
  <2>5. Append(got, buf[rpos % Size]) \in Seq(0..NBytes)
    BY <2>3 DEF Types
  <2>6. rpos + 1 \in Nat /\ got \in Seq(0..NBytes) /\ rpos \in Nat
    BY DEF Types
  <2>7. rpos' \in Nat /\ got' \in Seq(0..NBytes)
    BY <2>4, <2>5, <2>6
  <2> QED
    BY <2>4, <2>7 DEF Types
<1>3. CASE WriteByte
  <2>1. pc["writer"] \in {"put", "stored"}
    BY <1>3 DEF WriteByte, Goto
  <2>2. wpos + 1 \in 0..NBytes
    BY <2>1, PipeAssumption DEF Positions, Types
  <2> QED
    BY <1>3, <2>2 DEF WriteByte, Types
<1> QED
  BY <1>1, <1>2, <1>3 DEF Step, Closing, Close, PipeIsClosed, Snap, FirstRef,
     SecondRef, Interrupted, Decided, Finish, Dup, StopDup, Timer, Die, Resume,
     ReadLook, WriteLook, data

\* All together.
LEMMA TypesStep ==
  ASSUME Types, Positions, NEW p \in Proc, Step(p) \/ Timer(p) \/ Die(p) \/ Resume(p)
  PROVE  Types'
BY PcType, MapsType, CheckType, RingType DEF Types

-----------------------------------------------------------------------------
(* The ring buffer.                                                        *)

\* A step away from the ring.
LEMMA RingStill ==
  ASSUME RingInv, Types', Positions', UNCHANGED <<rpos, wpos, buf, got>>,
         pc'["writer"] = "stored" => pc["writer"] = "stored",
         pc'["reader"] = "took" => pc["reader"] = "took",
         pc'["reader"] \notin {"took", "done"} => pc["reader"] \notin {"took", "done"}
  PROVE  RingInv'
<1>1. Bytes'
  BY DEF RingInv, Bytes
<1>2. Taken'
  BY DEF RingInv, Taken, InOrder
<1> QED
  BY <1>1, <1>2 DEF RingInv

\* The reader takes the byte at rpos, which is number rpos + 1.
LEMMA RingTake ==
  ASSUME RingInv, Types', Goto("reader", "take", "took"), TakeByte,
         UNCHANGED <<wpos, buf>>
  PROVE  RingInv'
<1>1. /\ pc["reader"] = "take" /\ pc'["reader"] = "took" /\ pc'["writer"] = pc["writer"]
      /\ "reader" \in Proc /\ "writer" \in Proc
  BY GotoEffect DEF RingInv, Proc, PC
<1>2. rpos \in Nat /\ wpos \in Nat /\ rpos < wpos /\ Len(got) = rpos
  BY <1>1 DEF RingInv, Types, Positions, Taken
<1>3. buf[rpos % Size] = rpos + 1
  BY <1>2 DEF RingInv, Bytes
<1>4. got' = Append(got, rpos + 1) /\ rpos' = rpos
  BY <1>3 DEF TakeByte
<1>5. Len(got') = rpos + 1 /\ InOrder'
  <2>1. got \in Seq(0..NBytes) /\ \A k \in 1..Len(got) : got[k] = k
    BY DEF RingInv, Types, Taken, InOrder
  <2>2. Len(Append(got, rpos + 1)) = Len(got) + 1
        /\ \A k \in 1..Len(got) + 1 :
             Append(got, rpos + 1)[k] = IF k = Len(got) + 1 THEN rpos + 1 ELSE got[k]
    BY <2>1
  <2>3. DOMAIN got' = 1..Len(got')
    BY DEF Types
  <2>4. Len(got') = rpos + 1 /\ \A k \in 1..rpos + 1 : got'[k] = k
    BY <1>2, <1>4, <2>1, <2>2
  <2> QED
    BY <2>3, <2>4 DEF InOrder
<1>6. Taken'
  BY <1>1, <1>4, <1>5 DEF Taken
<1>7. Positions' /\ Bytes'
  BY <1>1, <1>2, <1>4 DEF RingInv, Positions, Bytes
<1> QED
  BY <1>6, <1>7 DEF RingInv

\* And goes on to the next one.
LEMMA RingNext ==
  ASSUME RingInv, Types', Goto("reader", "took", "look"), NextByte,
         UNCHANGED <<wpos, buf>>
  PROVE  RingInv'
<1>1. /\ pc["reader"] = "took" /\ pc'["reader"] = "look" /\ pc'["writer"] = pc["writer"]
      /\ "reader" \in Proc /\ "writer" \in Proc
  BY GotoEffect DEF RingInv, Proc, PC
<1>2. /\ rpos \in Nat /\ wpos \in Nat /\ rpos < wpos /\ Len(got) = rpos + 1
      /\ Size \in Nat
  BY <1>1, PipeAssumption DEF RingInv, Types, Positions, Taken
<1>3. rpos' = rpos + 1 /\ got' = got
  BY DEF NextByte
<1>4. Positions'
  BY <1>1, <1>2, <1>3 DEF RingInv, Positions
<1>5. Bytes'
  BY <1>1, <1>2, <1>3 DEF RingInv, Bytes
<1>6. Taken'
  BY <1>1, <1>2, <1>3 DEF RingInv, Taken, InOrder
<1> QED
  BY <1>4, <1>5, <1>6 DEF RingInv

\* The writer fills a slot that holds no byte still to be read.
LEMMA RingPut ==
  ASSUME RingInv, Types', Goto("writer", "put", "stored"),
         buf' = [buf EXCEPT ![wpos % Size] = wpos + 1], UNCHANGED <<rpos, wpos, got>>
  PROVE  RingInv'
<1>1. /\ pc["writer"] = "put" /\ pc'["writer"] = "stored" /\ pc'["reader"] = pc["reader"]
      /\ "reader" \in Proc /\ "writer" \in Proc
  BY GotoEffect DEF RingInv, Proc, PC
<1>2. rpos \in Nat /\ wpos \in Nat /\ wpos \in Int /\ wpos < rpos + Size /\ Size \in Nat
  BY <1>1, PipeAssumption DEF RingInv, Types, Positions
<1>3. Positions' /\ Taken'
  BY <1>1 DEF RingInv, Positions, Taken, InOrder
<1>4. wpos % Size \in 0..Size-1
  BY <1>2, Remainder
<1>5. buf'[wpos % Size] = wpos + 1
  BY <1>4 DEF RingInv, Types
<1>6. ASSUME NEW k \in Nat, rpos <= k, k < wpos
      PROVE  buf'[k % Size] = k + 1
  <2>1. wpos < k + Size
    BY <1>2, <1>6
  <2>2. k % Size # wpos % Size
    BY <1>2, <1>6, <2>1, SlotsDiffer
  <2>3. buf[k % Size] = k + 1
    BY <1>6 DEF RingInv, Bytes
  <2> QED
    BY <2>2, <2>3, <1>6, Remainder DEF RingInv, Types
<1>7. Bytes'
  BY <1>5, <1>6 DEF Bytes
<1> QED
  BY <1>3, <1>7 DEF RingInv

\* And then counts it.
LEMMA RingStored ==
  ASSUME RingInv, Types', Goto("writer", "stored", "look"), wpos' = wpos + 1,
         UNCHANGED <<rpos, buf, got>>
  PROVE  RingInv'
<1>1. /\ pc["writer"] = "stored" /\ pc'["writer"] = "look" /\ pc'["reader"] = pc["reader"]
      /\ "reader" \in Proc /\ "writer" \in Proc
  BY GotoEffect DEF RingInv, Proc, PC
<1>2. rpos \in Nat /\ wpos \in Nat /\ wpos < rpos + Size /\ Size \in Nat
  BY <1>1, PipeAssumption DEF RingInv, Types, Positions
<1>3. Positions'
  BY <1>1, <1>2 DEF RingInv, Positions
<1>4. Bytes'
  <2>1. SUFFICES ASSUME NEW k \in Nat, rpos <= k, k < wpos + 1
                 PROVE  buf[k % Size] = k + 1
    BY <1>1 DEF Bytes
  <2>2. CASE k = wpos
    BY <1>1, <2>2 DEF RingInv, Bytes
  <2>3. CASE k # wpos
    <3>1. k < wpos
      BY <1>2, <2>1, <2>3
    <3> QED
      BY <2>1, <3>1 DEF RingInv, Bytes
  <2> QED
    BY <2>2, <2>3
<1>5. Taken'
  BY <1>1 DEF RingInv, Taken, InOrder
<1> QED
  BY <1>3, <1>4, <1>5 DEF RingInv

\* Every step keeps the ring.
LEMMA RingStep ==
  ASSUME RingInv, NEW p \in Proc, Step(p) \/ Timer(p) \/ Die(p) \/ Resume(p)
  PROVE  RingInv'
<1>1. Types /\ Types' /\ Positions
  BY TypesStep DEF RingInv
<1>2. "reader" \in Proc /\ "writer" \in Proc
  BY DEF Proc
<1>3. CASE p = "reader" /\ ReadByte
  BY <1>1, <1>3, RingTake, RingNext DEF ReadByte
<1>4. CASE p = "writer" /\ WriteByte
  BY <1>1, <1>4, RingPut, RingStored DEF WriteByte
<1>5. CASE p = "reader" /\ ReadLook
  <2>1. /\ UNCHANGED <<rpos, wpos, buf, got>> /\ pc'["writer"] = pc["writer"]
        /\ pc["reader"] = "look"
        /\ pc'["reader"] \in {"take", "look", "snap"}
        /\ pc'["reader"] = "take" => rpos # wpos
    <3>1. pc' = [pc EXCEPT !["reader"] = CASE rpos # wpos -> "take"
                                           [] i > 0 -> "look" [] OTHER -> "snap"]
      BY <1>5 DEF ReadLook, Goto
    <3> QED
      BY <1>1, <1>2, <1>5, <3>1 DEF ReadLook, Goto, Types
  <2>2. Positions'
    BY <1>1, <2>1 DEF Positions, Types
  <2> QED
    BY <1>1, <2>1, <2>2, RingStill
<1>6. CASE p = "writer" /\ WriteLook
  <2>1. /\ UNCHANGED <<rpos, wpos, buf, got>> /\ pc'["reader"] = pc["reader"]
        /\ pc'["writer"] \in {"close", "snap", "put"}
        /\ pc'["writer"] = "put" => wpos # NBytes /\ ~Full
    <3>1. pc' = [pc EXCEPT !["writer"] = CASE wpos = NBytes -> "close"
                                           [] Full -> "snap" [] OTHER -> "put"]
      BY <1>6 DEF WriteLook, Goto
    <3> QED
      BY <1>1, <1>2, <1>6, <3>1 DEF WriteLook, data, Types
  <2>2. Positions'
    BY <1>1, <2>1, PipeAssumption DEF Positions, Types, Full
  <2> QED
    BY <1>1, <2>1, <2>2, RingStill
<1>7. CASE \/ Closing(p) \/ PipeIsClosed(p) \/ Finish(p) \/ Timer(p) \/ Die(p) \/ Resume(p)
           \/ p = "writer" /\ (Dup(p) \/ StopDup(p))
  <2>1. UNCHANGED <<rpos, wpos, buf, got>>
    BY <1>7 DEF Closing, Close, PipeIsClosed, Snap, FirstRef, SecondRef, Interrupted,
       Decided, Finish, Timer, Die, Resume, Dup, StopDup, data
  <2>2. ASSUME NEW q \in Proc, NEW from, NEW to \in PC,
               from \notin {"take", "took", "put", "stored"}, from # "done",
               to \notin {"take", "took", "put", "stored"}, q = p, Goto(q, from, to)
        PROVE  /\ pc[p] \notin {"take", "took", "put", "stored", "done"}
               /\ pc'[p] \notin {"take", "took", "put", "stored"}
    BY <1>1, <2>2, GotoEffect
  <2>3. \/ pc' = pc
        \/ pc'[p] = "done"
        \/ /\ pc[p] \notin {"take", "took", "put", "stored", "done"}
           /\ pc'[p] \notin {"take", "took", "put", "stored"}
    <3>1. CASE Closing(p) \/ Finish(p) \/ (p = "writer" /\ (Dup(p) \/ StopDup(p)))
      BY <2>2, <3>1 DEF Closing, Close, Finish, Dup, StopDup, PC
    <3>2. CASE PipeIsClosed(p)
      <4>1. /\ (IF same[p] THEN "eof" ELSE "look") \in PC
            /\ (IF same[p] THEN "eof" ELSE "look") \notin {"take", "took", "put", "stored"}
        BY DEF PC
      <4> QED
        BY <2>2, <3>2, <4>1 DEF PipeIsClosed, Snap, FirstRef, SecondRef, Interrupted,
           Decided, PC
    <3>3. CASE Timer(p) \/ Resume(p)
      BY <3>3 DEF Timer, Resume
    <3>4. CASE Die(p)
      BY <1>1, <3>4 DEF Die, Types
    <3> QED
      BY <1>7, <3>1, <3>2, <3>3, <3>4
  <2>4. \A q \in Proc : q # p => pc'[q] = pc[q]
    BY <1>1, PcType
  <2>5. Positions'
    BY <1>1, <1>2, <2>1, <2>3, <2>4 DEF Positions
  <2> QED
    BY <1>1, <1>2, <2>1, <2>3, <2>4, <2>5, RingStill
<1> QED
  BY <1>3, <1>4, <1>5, <1>6, <1>7 DEF Step

\* The pipe is empty and nothing was read.
LEMMA RingInit == Init => RingInv
<1> SUFFICES ASSUME Init PROVE RingInv
  OBVIOUS
<1>1. Types
  BY PipeAssumption DEF Init, Types, Slot, PC, Proc
<1>2. Positions /\ Bytes
  BY PipeAssumption DEF Init, Positions, Bytes, Proc
<1>3. Taken
  BY DEF Init, Taken, InOrder, Proc
<1> QED
  BY <1>1, <1>2, <1>3 DEF RingInv

\* In the pipe and with the reader are the bytes by number.
LEMMA RingIs ==
  ASSUME RingInv
  PROVE  /\ Queue = [k \in 1..wpos - rpos |-> rpos + k]
         /\ Received = [k \in 1..rpos |-> k]
         /\ rpos \in Nat /\ wpos \in Nat /\ rpos <= wpos /\ wpos <= NBytes
<1>1. rpos \in Nat /\ wpos \in Nat /\ rpos <= wpos /\ wpos <= NBytes /\ NBytes \in Nat
  BY PipeAssumption DEF RingInv, Types, Positions
<1>2. ASSUME NEW k \in 1..wpos - rpos PROVE buf[(rpos + k - 1) % Size] = rpos + k
  <2>1. rpos + k - 1 \in Nat /\ rpos <= rpos + k - 1 /\ rpos + k - 1 < wpos
        /\ (rpos + k - 1) + 1 = rpos + k
    BY <1>1
  <2> QED
    BY <2>1 DEF RingInv, Bytes
<1>3. Queue = [k \in 1..wpos - rpos |-> rpos + k]
  BY <1>2 DEF Queue
<1>4. Received = [k \in 1..rpos |-> k]
  <2>1. got \in Seq(0..NBytes) /\ rpos <= Len(got)
    BY <1>1 DEF RingInv, Types, Taken
  <2>2. DOMAIN got = 1..Len(got) /\ Len(got) \in Nat
    BY <2>1
  <2>3. \A k \in 1..rpos : got[k] = k
    <3>1. \A k \in 1..rpos : k \in 1..Len(got)
      BY <1>1, <2>1, <2>2
    <3> QED
      BY <2>2, <3>1 DEF RingInv, Taken, InOrder
  <2>4. Received = [k \in 1..rpos |-> got[k]]
    BY <1>1, <2>1, <2>2 DEF Received
  <2> QED
    BY <2>3, <2>4
<1> QED
  BY <1>1, <1>3, <1>4

-----------------------------------------------------------------------------
(* The ring implements Fifo: only the positions matter.                    *)

\* The numbers from a + 1 on are a sequence; one more appends, one less takes
\* the first.
LEMMA Numbers ==
  ASSUME NEW a \in Nat, NEW n \in Nat
  PROVE  /\ [k \in 1..n |-> a + k] \in Seq(Nat)
         /\ Len([k \in 1..n |-> a + k]) = n
         /\ [k \in 1..n + 1 |-> a + k] = Append([k \in 1..n |-> a + k], a + n + 1)
         /\ [k \in 1..n |-> (a + 1) + k] = Tail([k \in 1..n + 1 |-> a + k])
         /\ Head([k \in 1..n + 1 |-> a + k]) = a + 1
         /\ [k \in 1..n + 1 |-> a + k] # <<>>
<1> DEFINE s == [k \in 1..n |-> a + k]
           t == [k \in 1..n + 1 |-> a + k]
<1>1. s \in Seq(Nat) /\ Len(s) = n
  BY DEF s
<1>2. t \in Seq(Nat) /\ Len(t) = n + 1
  BY DEF t
<1>3. t = Append(s, a + n + 1)
  <2>1. Append(s, a + n + 1) \in Seq(Nat) /\ Len(Append(s, a + n + 1)) = n + 1
    BY <1>1
  <2>2. \A k \in 1..n + 1 : Append(s, a + n + 1)[k] = a + k
    BY <1>1
  <2> QED
    BY <1>2, <2>1, <2>2, SeqEqual
<1>4. [k \in 1..n |-> (a + 1) + k] = Tail(t)
  <2>1. Tail(t) \in Seq(Nat) /\ Len(Tail(t)) = n /\ \A k \in 1..n : Tail(t)[k] = t[k + 1]
    BY <1>2
  <2>2. \A k \in 1..n : t[k + 1] = (a + 1) + k
    OBVIOUS
  <2>3. [k \in 1..n |-> (a + 1) + k] \in Seq(Nat)
        /\ Len([k \in 1..n |-> (a + 1) + k]) = n
    OBVIOUS
  <2> QED
    BY <2>1, <2>2, <2>3, SeqEqual
<1>5. Head(t) = a + 1 /\ t # <<>>
  BY <1>2
<1> QED
  BY <1>1, <1>3, <1>4, <1>5

\* The step that counts a byte sends it; the step past a byte receives it.
LEMMA RingFifo ==
  ASSUME RingInv, RingInv',
         \/ rpos' = rpos /\ wpos' = wpos
         \/ rpos' = rpos /\ wpos' = wpos + 1 /\ wpos < rpos + Size
         \/ rpos' = rpos + 1 /\ wpos' = wpos /\ rpos < wpos
  PROVE  [Content!Next]_<<Queue, Received>>
<1>1. /\ Queue = [k \in 1..wpos - rpos |-> rpos + k]
      /\ Received = [k \in 1..rpos |-> k]
      /\ rpos \in Nat /\ wpos \in Nat /\ rpos <= wpos /\ wpos <= NBytes
  BY RingIs
<1>2. /\ Queue' = [k \in 1..wpos' - rpos' |-> rpos' + k]
      /\ Received' = [k \in 1..rpos' |-> k]
      /\ rpos' \in Nat /\ wpos' \in Nat /\ rpos' <= wpos' /\ wpos' <= NBytes
  <2>1. (/\ Queue = [k \in 1..wpos - rpos |-> rpos + k]
         /\ Received = [k \in 1..rpos |-> k]
         /\ rpos \in Nat /\ wpos \in Nat /\ rpos <= wpos /\ wpos <= NBytes)'
    BY RingIs, PTL
  <2> QED
    BY <2>1
<1>3. CASE rpos' = rpos /\ wpos' = wpos
  BY <1>1, <1>2, <1>3
<1>4. CASE rpos' = rpos /\ wpos' = wpos + 1 /\ wpos < rpos + Size
  <2> DEFINE n == wpos - rpos
  <2>1. n \in Nat /\ n < Size /\ wpos' - rpos' = n + 1 /\ rpos + n + 1 = wpos + 1
        /\ wpos + 1 \in 1..NBytes
    BY <1>1, <1>2, <1>4, PipeAssumption
  <2>2. Queue = [k \in 1..n |-> rpos + k] /\ Queue' = [k \in 1..n + 1 |-> rpos + k]
    BY <1>1, <1>2, <1>4, <2>1
  <2> HIDE DEF n
  <2>3. Queue' = Append(Queue, wpos + 1) /\ Len(Queue) < Size
    BY <1>1, <2>1, <2>2, Numbers
  <2>4. Received' = Received
    BY <1>1, <1>2, <1>4
  <2> QED
    BY <2>1, <2>3, <2>4 DEF Content!Next, Content!Send
<1>5. CASE rpos' = rpos + 1 /\ wpos' = wpos /\ rpos < wpos
  <2> DEFINE n == wpos - rpos - 1
  <2>1. n \in Nat /\ wpos - rpos = n + 1 /\ wpos' - rpos' = n
    BY <1>1, <1>5
  <2>2. Queue = [k \in 1..n + 1 |-> rpos + k] /\ Queue' = [k \in 1..n |-> (rpos + 1) + k]
    BY <1>1, <1>2, <1>5, <2>1
  <2> HIDE DEF n
  <2>3. Queue # <<>> /\ Queue' = Tail(Queue) /\ Head(Queue) = rpos + 1
    <3>1. /\ [k \in 1..n |-> (rpos + 1) + k] = Tail([k \in 1..n + 1 |-> rpos + k])
          /\ Head([k \in 1..n + 1 |-> rpos + k]) = rpos + 1
          /\ [k \in 1..n + 1 |-> rpos + k] # <<>>
      BY <1>1, <2>1, Numbers
    <3> QED
      BY <2>2, <3>1
  <2>4. Received' = Append(Received, rpos + 1)
    <3>1. [k \in 1..rpos + 1 |-> 0 + k] = Append([k \in 1..rpos |-> 0 + k], 0 + rpos + 1)
      BY <1>1, Numbers
    <3>2. \A m \in Nat : [k \in 1..m |-> 0 + k] = [k \in 1..m |-> k]
      OBVIOUS
    <3> QED
      BY <1>1, <1>2, <1>5, <3>1, <3>2
  <2> QED
    BY <2>3, <2>4 DEF Content!Next, Content!Receive
<1> QED
  BY <1>3, <1>4, <1>5

\* Only two steps move a position.
LEMMA RingMoves ==
  ASSUME RingInv, NEW p \in Proc, Step(p) \/ Timer(p) \/ Die(p) \/ Resume(p)
  PROVE  \/ rpos' = rpos /\ wpos' = wpos
         \/ rpos' = rpos /\ wpos' = wpos + 1 /\ wpos < rpos + Size
         \/ rpos' = rpos + 1 /\ wpos' = wpos /\ rpos < wpos
<1>1. CASE p = "reader" /\ ReadByte
  BY <1>1 DEF ReadByte, TakeByte, NextByte, Goto, RingInv, Positions
<1>2. CASE p = "writer" /\ WriteByte
  BY <1>2 DEF WriteByte, Goto, RingInv, Positions
<1>3. CASE UNCHANGED <<rpos, wpos>>
  BY <1>3
<1> QED
  BY <1>1, <1>2, <1>3 DEF Step, Closing, Close, PipeIsClosed, Snap, FirstRef,
     SecondRef, Interrupted, Decided, Finish, Dup, StopDup, Timer, Die, Resume,
     ReadLook, WriteLook, data

\* A step keeps the ring and is one of Fifo, or moves neither position.
LEMMA RingInvStep == RingInv /\ [Next]_vars => RingInv' /\ [Content!Next]_<<Queue, Received>>
<1> SUFFICES ASSUME RingInv, [Next]_vars
             PROVE  RingInv' /\ [Content!Next]_<<Queue, Received>>
  OBVIOUS
<1>1. CASE Next
  <2>1. PICK p \in Proc : Step(p) \/ Timer(p) \/ Die(p) \/ Resume(p)
    BY <1>1 DEF Next
  <2>2. RingInv'
    BY <2>1, RingStep
  <2> QED
    BY <2>1, <2>2, RingMoves, RingFifo
<1>2. CASE UNCHANGED vars
  <2>1. RingInv'
    BY <1>2 DEF vars, data, check, RingInv, Types, Positions, Bytes, Taken, InOrder
  <2>2. UNCHANGED <<Queue, Received>>
    BY <1>2 DEF vars, data, Queue, Received
  <2> QED
    BY <2>1, <2>2
<1> QED
  BY <1>1, <1>2

\* ImplementsFifo: whatever the interleaving of the two ends, interrupts and
\* deaths, the bytes come out in the order they went in, and no more than Size
\* are inside.
THEOREM Implements == Spec => ImplementsFifo
<1>1. Init => RingInv /\ Content!Init
  <2> SUFFICES ASSUME Init PROVE RingInv /\ Content!Init
    OBVIOUS
  <2>1. RingInv /\ rpos = 0 /\ wpos = 0
    BY RingInit DEF Init
  <2>2. Queue = [k \in 1..0 |-> 0 + k] /\ Received = [k \in 1..0 |-> k]
    BY <2>1, RingIs
  <2>3. Queue = <<>> /\ Received = <<>>
    BY <2>2
  <2> QED
    BY <2>1, <2>3 DEF Content!Init
<1> QED
  BY <1>1, RingInvStep, PTL DEF Spec, ImplementsFifo, Content!Spec

\* InOrder: no byte is lost or doubled on the way to the reader.
THEOREM InOrderHolds == Spec => []InOrder
<1>1. RingInv => InOrder
  BY DEF RingInv, Taken
<1> QED
  BY RingInit, RingInvStep, <1>1, PTL DEF Spec

-----------------------------------------------------------------------------
(* Mappings.                                                               *)

\* The descriptors and slots by name.
LEMMA Names ==
  /\ "reader" \in Proc /\ "writer" \in Proc
  /\ \A p \in Proc : /\ Other(p) \in Proc /\ Other(p) # p /\ Other(Other(p)) = p
                     /\ End[p] # End[Other(p)] /\ {End[p], End[Other(p)]} = {"rd", "wr"}
                     /\ \A q \in Proc : q = p \/ q = Other(p)
  /\ End["reader"] = "rd" /\ End["writer"] = "wr"
  /\ Other("reader") = "writer" /\ Other("writer") = "reader"
BY DEF Proc, Other, End

\* With both ends in their places nothing is left to close.
Settled == PC \ {"start", "shut", "dup", "undup", "undup2", "shut2", "close2", "done"}

\* The environment that does not step keeps its mappings and its place.
LEMMA MapRest ==
  ASSUME MapInv, NEW q \in Proc, maps'[q] = maps[q], pc'[q] = pc[q]
  PROVE  maps'[q] \subseteq Allowed(q)' /\ DataFirst(q)'
BY DEF MapInv, Allowed, DataFirst

\* Settled steps: the mappings stay.
LEMMA MapSettled ==
  ASSUME MapInv, NEW p \in Proc, maps'[p] = maps[p],
         pc[p] \in Settled, pc'[p] \in Settled
  PROVE  maps'[p] \subseteq Allowed(p)' /\ DataFirst(p)'
<1>1. Allowed(p) = {End[p]} \X {"fd", "data"} /\ Allowed(p)' = {End[p]} \X {"fd", "data"}
  BY DEF Allowed, Settled
<1> QED
  BY <1>1 DEF MapInv, DataFirst, Settled

\* close, the descriptor page first.
LEMMA MapClosing ==
  ASSUME MapInv, NEW p \in Proc, Closing(p)
  PROVE  maps'[p] \subseteq Allowed(p)' /\ DataFirst(p)'
<1>1. maps[p] \subseteq Allowed(p) /\ DataFirst(p) /\ Types
  BY DEF MapInv
<1>2. ASSUME NEW from, NEW to \in PC, NEW slot, Goto(p, from, to), Unmap(p, slot)
      PROVE  pc[p] = from /\ pc'[p] = to /\ maps'[p] = maps[p] \ {slot}
  BY <1>1, <1>2, GotoEffect DEF Unmap, Types
<1>3. CASE Close(p, "dup", "undup", "undup2", "start")
  <2>1. CASE pc[p] = "undup" /\ pc'[p] = "undup2" /\ maps'[p] = maps[p] \ {<<"dup", "fd">>}
    BY <1>1, <2>1 DEF Allowed, DataFirst
  <2>2. CASE pc[p] = "undup2" /\ pc'[p] = "start" /\ maps'[p] = maps[p] \ {<<"dup", "data">>}
    BY <1>1, <2>2 DEF Allowed, DataFirst, Slot
  <2> QED
    BY <1>2, <1>3, <2>1, <2>2 DEF Close, PC
<1>4. CASE Close(p, End[Other(p)], "shut", "shut2", "look")
  <2>1. CASE pc[p] = "shut" /\ pc'[p] = "shut2"
             /\ maps'[p] = maps[p] \ {<<End[Other(p)], "fd">>}
    <3>1. maps[p] \subseteq {"rd", "wr"} \X {"fd", "data"}
      BY <1>1, <2>1 DEF Allowed
    <3>2. Allowed(p)' = ({End[p]} \X {"fd", "data"}) \cup {<<End[Other(p)], "data">>}
      BY <2>1 DEF Allowed
    <3>3. {"rd", "wr"} = {End[p], End[Other(p)]}
      BY Names
    <3>4. maps'[p] \subseteq Allowed(p)'
      BY <2>1, <3>1, <3>2, <3>3
    <3> QED
      BY <1>1, <2>1, <3>4 DEF DataFirst
  <2>2. CASE pc[p] = "shut2" /\ pc'[p] = "look"
             /\ maps'[p] = maps[p] \ {<<End[Other(p)], "data">>}
    <3>1. maps[p] \subseteq ({End[p]} \X {"fd", "data"}) \cup {<<End[Other(p)], "data">>}
      BY <1>1, <2>2 DEF Allowed
    <3>2. Allowed(p)' = {End[p]} \X {"fd", "data"}
      BY <2>2 DEF Allowed
    <3>3. maps'[p] \subseteq Allowed(p)'
      BY <2>2, <3>1, <3>2
    <3>4. End[p] # End[Other(p)]
      BY Names
    <3> QED
      BY <1>1, <2>2, <3>1, <3>2, <3>3, <3>4 DEF DataFirst
  <2> QED
    BY <1>2, <1>4, <2>1, <2>2 DEF Close, PC
<1>5. CASE Close(p, End[p], "close", "close2", "done")
  <2>1. CASE pc[p] = "close" /\ pc'[p] = "close2" /\ maps'[p] = maps[p] \ {<<End[p], "fd">>}
    BY <1>1, <2>1 DEF Allowed, DataFirst
  <2>2. CASE pc[p] = "close2" /\ pc'[p] = "done" /\ maps'[p] = maps[p] \ {<<End[p], "data">>}
    BY <1>1, <2>2 DEF Allowed, DataFirst
  <2> QED
    BY <1>2, <1>5, <2>1, <2>2 DEF Close, PC
<1> QED
  BY <1>3, <1>4, <1>5 DEF Closing

\* dup, the data page first, and the close that is not preceded by a dup.
LEMMA MapDup ==
  ASSUME MapInv, NEW p \in Proc, Dup(p) \/ StopDup(p)
  PROVE  maps'[p] \subseteq Allowed(p)' /\ DataFirst(p)'
<1>1. maps[p] \subseteq Allowed(p) /\ DataFirst(p) /\ Types
  BY DEF MapInv
<1>2. CASE Dup(p) /\ Goto(p, "start", "dup") /\ Map(p, <<"dup", "data">>)
  <2>1. pc[p] = "start" /\ pc'[p] = "dup" /\ maps'[p] = maps[p] \cup {<<"dup", "data">>}
    BY <1>1, <1>2, GotoEffect DEF Map, Types, PC
  <2> QED
    BY <1>1, <2>1 DEF Allowed, DataFirst
<1>3. CASE Dup(p) /\ Goto(p, "dup", "undup") /\ Map(p, <<"dup", "fd">>)
  <2>1. pc[p] = "dup" /\ pc'[p] = "undup" /\ maps'[p] = maps[p] \cup {<<"dup", "fd">>}
    BY <1>1, <1>3, GotoEffect DEF Map, Types, PC
  <2> QED
    BY <1>1, <2>1 DEF Allowed, DataFirst, Slot, Types
<1>4. CASE StopDup(p)
  <2>1. pc[p] = "start" /\ pc'[p] = "shut" /\ maps'[p] = maps[p]
    BY <1>1, <1>4, GotoEffect DEF StopDup, PC
  <2> QED
    BY <1>1, <2>1 DEF Allowed, DataFirst
<1> QED
  BY <1>2, <1>3, <1>4 DEF Dup

\* Nothing else maps or unmaps, but for a death.
LEMMA MapStep ==
  ASSUME MapInv, Types', NEW p \in Proc, Step(p) \/ Timer(p) \/ Die(p) \/ Resume(p)
  PROVE  MapInv'
<1>1. \A q \in Proc : q # p => maps'[q] = maps[q] /\ pc'[q] = pc[q]
  BY MapsType, PcType DEF MapInv
<1>2. \A q \in Proc : q # p => maps'[q] \subseteq Allowed(q)' /\ DataFirst(q)'
  BY <1>1, MapRest
<1>3. maps'[p] \subseteq Allowed(p)' /\ DataFirst(p)'
  <2>1. CASE Closing(p) \/ Dup(p) \/ StopDup(p)
    BY <2>1, MapClosing, MapDup
  <2>2. CASE Die(p)
    <3>1. maps'[p] = {} /\ pc'[p] = "done"
      BY <2>2 DEF Die, MapInv, Types
    <3> QED
      BY <3>1 DEF DataFirst
  <2>3. CASE Timer(p) \/ Resume(p)
    BY <2>3, MapRest DEF Timer, Resume
  <2>4. ASSUME NEW from \in Settled, NEW to \in Settled, Goto(p, from, to)
        PROVE  pc[p] \in Settled /\ pc'[p] \in Settled
    BY <2>4, GotoEffect DEF MapInv, Settled
  <2>5. CASE PipeIsClosed(p) \/ Finish(p) \/ (p = "reader" /\ ReadByte)
             \/ (p = "writer" /\ WriteByte)
    <3>1. (IF same[p] THEN "eof" ELSE "look") \in Settled
      BY DEF PC, Settled
    <3>2. pc[p] \in Settled /\ pc'[p] \in Settled
      BY <2>4, <2>5, <3>1 DEF PipeIsClosed, Snap, FirstRef, SecondRef, Interrupted, Decided,
         Finish, ReadByte, WriteByte, PC, Settled
    <3>3. maps' = maps
      BY <2>5 DEF PipeIsClosed, Snap, FirstRef, SecondRef, Interrupted, Decided,
         Finish, ReadByte, WriteByte
    <3> QED
      BY <3>2, <3>3, MapSettled
  <2>6. CASE (p = "reader" /\ ReadLook) \/ (p = "writer" /\ WriteLook)
    <3>1. /\ (CASE rpos # wpos -> "take" [] i > 0 -> "look" [] OTHER -> "snap") \in Settled
          /\ (CASE wpos = NBytes -> "close" [] Full -> "snap" [] OTHER -> "put") \in Settled
          /\ "look" \in Settled
      BY DEF PC, Settled
    <3>2. pc[p] \in Settled /\ pc'[p] \in Settled
      BY <2>4, <2>6, <3>1 DEF ReadLook, WriteLook
    <3>3. maps' = maps
      BY <2>6 DEF ReadLook, WriteLook
    <3> QED
      BY <3>2, <3>3, MapSettled
  <2> QED
    BY <2>1, <2>2, <2>3, <2>5, <2>6 DEF Step
<1> QED
  BY <1>2, <1>3 DEF MapInv

\* At the start both have both ends open.
LEMMA MapInit == Init => MapInv
<1> SUFFICES ASSUME Init PROVE MapInv
  OBVIOUS
<1>1. Types
  BY RingInit DEF RingInv
<1>2. \A p \in Proc : pc[p] \in {"start", "shut"} /\ maps[p] = {"rd", "wr"} \X {"fd", "data"}
  BY DEF Init
<1>3. \A p \in Proc : maps[p] \subseteq Allowed(p)
  BY <1>2 DEF Allowed
<1>4. \A p \in Proc : DataFirst(p)
  BY <1>2 DEF DataFirst
<1> QED
  BY <1>1, <1>3, <1>4 DEF MapInv

-----------------------------------------------------------------------------
(* Counting mappings.                                                      *)

\* The data page has a mapping for every mapping of a descriptor.
LEMMA CountsAll ==
  ASSUME MapInv
  PROVE  DataCountsAll
<1> DEFINE A == Holders("rd")
           B == Holders("wr")
           D == Holders("data")
           f == [x \in A \cup B |-> <<x[1], <<x[2][1], "data">>>>]
<1>1. \A x \in A : x[1] \in Proc /\ x[2] \in maps[x[1]]
                   /\ (x = <<x[1], <<"rd", "fd">>>> \/ x = <<x[1], <<"dup", "fd">>>>)
  BY DEF Holders
<1>2. \A x \in B : x[1] \in Proc /\ x[2] \in maps[x[1]] /\ x = <<x[1], <<"wr", "fd">>>>
  BY DEF Holders
<1>3. \A p \in Proc, s \in {"rd", "wr", "dup"} :
        <<s, "data">> \in maps[p] => <<p, <<s, "data">>>> \in D
  BY DEF Holders, Slot
<1>4. \A p \in Proc, s \in {"rd", "wr", "dup"} :
        <<s, "fd">> \in maps[p] => <<s, "data">> \in maps[p]
  BY DEF MapInv, DataFirst
<1> HIDE DEF A, B, D
<1>5. \A x \in A \cup B : \E s \in {"rd", "wr", "dup"} :
        x[1] \in Proc /\ <<s, "fd">> \in maps[x[1]] /\ x = <<x[1], <<s, "fd">>>>
  BY <1>1, <1>2
<1>6. f \in [A \cup B -> D]
  <2> SUFFICES ASSUME NEW x \in A \cup B PROVE <<x[1], <<x[2][1], "data">>>> \in D
    OBVIOUS
  <2>1. PICK s \in {"rd", "wr", "dup"} :
          x[1] \in Proc /\ <<s, "fd">> \in maps[x[1]] /\ x = <<x[1], <<s, "fd">>>>
    BY <1>5
  <2>2. x[2][1] = s
    BY <2>1
  <2> QED
    BY <1>3, <1>4, <2>1, <2>2
<1>7. \A x, y \in A \cup B : f[x] = f[y] => x = y
  <2> SUFFICES ASSUME NEW x \in A \cup B, NEW y \in A \cup B,
                      <<x[1], <<x[2][1], "data">>>> = <<y[1], <<y[2][1], "data">>>>
               PROVE  x = y
    OBVIOUS
  <2>1. PICK s \in {"rd", "wr", "dup"} : x = <<x[1], <<s, "fd">>>>
    BY <1>5
  <2>2. PICK t \in {"rd", "wr", "dup"} : y = <<y[1], <<t, "fd">>>>
    BY <1>5
  <2>3. x[1] = y[1] /\ x[2][1] = y[2][1]
    OBVIOUS
  <2>4. x[2][1] = s /\ y[2][1] = t
    BY <2>1, <2>2
  <2> QED
    BY <2>1, <2>2, <2>3, <2>4
<1>8. f \in Injection(A \cup B, D)
  BY <1>6, <1>7 DEF Injection, IsInjective
<1>9. IsFiniteSet(A) /\ IsFiniteSet(B) /\ IsFiniteSet(D)
  BY HoldersFinite DEF A, B, D
<1>10. Cardinality(A \cup B) <= Cardinality(D)
  BY <1>8, <1>9, FS_Injection
<1>11. A \cap B = {}
  BY <1>1, <1>2
<1>12. Cardinality(A \cup B) = Cardinality(A) + Cardinality(B)
  <2>1. Cardinality(A \cap B) = 0
    BY <1>11, FS_EmptySet
  <2>2. Cardinality(A \cup B) = Cardinality(A) + Cardinality(B) - Cardinality(A \cap B)
    BY <1>9, FS_Union
  <2>3. Cardinality(A) \in Nat /\ Cardinality(B) \in Nat
    BY <1>9, FS_CardinalityType
  <2> QED
    BY <2>1, <2>2, <2>3
<1>13. /\ PageRef("rd") = Cardinality(A) /\ PageRef("wr") = Cardinality(B)
       /\ PageRef("data") = Cardinality(D)
  BY HoldersFinite DEF A, B, D
<1> QED
  BY <1>10, <1>12, <1>13 DEF DataCountsAll

\* A page nobody maps counts nothing.
LEMMA ClosedCount ==
  ASSUME MapInv, NEW p \in Proc
  PROVE  OtherClosed(p) <=> PageRef(End[Other(p)]) = 0
<1>1. PageRef(End[Other(p)]) = 0 <=> Holders(End[Other(p)]) = {}
  BY HoldersFinite, FS_EmptySet
<1>2. CASE p = "reader"
  <2>1. End[Other(p)] = "wr"
    BY <1>2, Names
  <2>2. \A x : x \in Holders("wr") <=>
          \E q \in Proc : x = <<q, <<"wr", "fd">>>> /\ <<"wr", "fd">> \in maps[q]
    BY DEF Holders, Slot
  <2>3. OtherClosed(p) <=> \A q \in Proc : <<"wr", "fd">> \notin maps[q]
    BY <1>2, <2>1 DEF OtherClosed
  <2> QED
    BY <1>1, <2>1, <2>2, <2>3
<1>3. CASE p = "writer"
  <2>1. End[Other(p)] = "rd"
    BY <1>3, Names
  <2>2. \A x : x \in Holders("rd") <=>
          \E q \in Proc, s \in {"rd", "dup"} : x = <<q, <<s, "fd">>>> /\ <<s, "fd">> \in maps[q]
    BY DEF Holders, Slot
  <2>3. OtherClosed(p) <=>
          \A q \in Proc : <<"rd", "fd">> \notin maps[q] /\ <<"dup", "fd">> \notin maps[q]
    BY <1>3, <2>1 DEF OtherClosed
  <2> QED
    BY <1>1, <2>1, <2>2, <2>3
<1> QED
  BY <1>2, <1>3 DEF Proc

-----------------------------------------------------------------------------
(* End of file on one CPU.                                                 *)

\* Once the other end is closed nobody opens it again.
LEMMA ClosedStays ==
  ASSUME MapInv, NEW a \in Proc, Step(a) \/ Timer(a) \/ Die(a) \/ Resume(a),
         NEW p \in Proc, OtherClosed(p), p = "writer" => pc[p] # "dup"
  PROVE  OtherClosed(p)'
<1>1. End[Other(p)] \in {"rd", "wr"} /\ (p = "reader" => End[Other(p)] = "wr")
  BY Names
<1>2. CASE \A q \in Proc : maps'[q] \subseteq maps[q] \cup {<<"dup", "data">>}
  BY <1>1, <1>2 DEF OtherClosed
<1>3. CASE /\ a = "writer" /\ pc[a] = "dup" /\ maps'[a] = maps[a] \cup {<<"dup", "fd">>}
           /\ \A q \in Proc : q # a => maps'[q] = maps[q]
  <2>1. p = "reader"
    BY <1>3 DEF Proc
  <2> QED
    BY <1>1, <1>3, <2>1 DEF OtherClosed
<1>4. \A q \in Proc : q # a => maps'[q] = maps[q]
  BY MapsType DEF MapInv
<1>5. CASE a = "writer" /\ Dup(a)
  BY <1>2, <1>3, <1>4, <1>5 DEF Dup, Goto, Map, MapInv, Types
<1>6. CASE Closing(a)
  BY <1>2, <1>4, <1>6 DEF Closing, Close, Unmap, MapInv, Types
<1>7. CASE Die(a)
  BY <1>2, <1>4, <1>7 DEF Die, MapInv, Types
<1>8. CASE maps' = maps
  BY <1>2, <1>8
<1> QED
  BY <1>5, <1>6, <1>7, <1>8 DEF Step, PipeIsClosed, Snap, FirstRef, SecondRef,
     Interrupted, Decided, Finish, StopDup, Timer, Resume, ReadLook, ReadByte,
     WriteLook, WriteByte

\* Who executes, before and after a step.
LEMMA OnStep ==
  ASSUME MapInv, OneCpu, ~smp, NEW a \in Proc, Step(a) \/ Timer(a) \/ Die(a) \/ Resume(a)
  PROVE  /\ smp' = smp /\ \E q \in Proc : on' = {q}
         /\ Step(a) \/ Timer(a) => on = {a}
         /\ Step(a) => on' = on \/ Decided(a)
<1>1. PICK q \in Proc : on = {q}
  BY DEF OneCpu
<1>2. smp' = smp /\ Other(a) \in Proc
  BY MapsType, Names DEF MapInv
<1>3. CASE Step(a)
  <2>1. a \in on
    BY <1>3 DEF Step, Closing, Close, PipeIsClosed, Snap, FirstRef, SecondRef,
       Interrupted, Decided, Finish, ReadLook, ReadByte, WriteLook, WriteByte, Dup,
       StopDup, Goto
  <2>2. on' = on \/ Decided(a)
    BY <1>3 DEF Step, Closing, Close, PipeIsClosed, Snap, FirstRef, SecondRef,
       Interrupted, Finish, ReadLook, ReadByte, WriteLook, WriteByte, Dup, StopDup
  <2>3. Decided(a) => on' = on \/ on' = {Other(a)}
    BY DEF Decided
  <2> QED
    BY <1>1, <1>2, <2>1, <2>2, <2>3
<1>4. CASE ~Step(a) /\ (Timer(a) \/ Die(a) \/ Resume(a))
  <2>1. CASE Timer(a)
    <3>1. a \in on /\ (on' = on \/ on' = {Other(a)})
      BY <2>1 DEF Timer
    <3> QED
      BY <1>1, <1>2, <1>4, <3>1
  <2>2. CASE Die(a)
    <3>1. on' = on
      BY <2>2 DEF Die
    <3>2. ~Timer(a)
      BY <2>2 DEF Timer, Die, MapInv, Types, Alive, PC
    <3> QED
      BY <1>1, <1>2, <1>4, <3>1, <3>2
  <2>3. CASE Resume(a)
    <3>1. on' = {a} /\ on = {Other(a)} /\ Other(a) # a
      BY <2>3, Names DEF Resume
    <3>2. ~Timer(a)
      BY <3>1 DEF Timer
    <3> QED
      BY <1>2, <1>4, <3>1, <3>2
  <2> QED
    BY <1>4, <2>1, <2>2, <2>3
<1> QED
  BY <1>3, <1>4

\* An environment that does not step is checked as before: the one that steps
\* was destroyed, or the check is interrupted already.
LEMMA CheckedOther ==
  ASSUME EofInv, ~smp, NEW a \in Proc, Step(a) \/ Timer(a) \/ Die(a) \/ Resume(a),
         NEW p \in Proc, p # a
  PROVE  CheckedAt(p)'
<1>1. Types /\ MapInv /\ CheckedAt(p) /\ a = Other(p) /\ p = Other(a)
  BY Names DEF EofInv, OneCpu, MapInv
<1>2. pc'[p] = pc[p] /\ same'[p] = same[p] /\ trapped'[p] = trapped[p] /\ ref'[p] = ref[p]
  BY <1>1, PcType, CheckType
<1>3. pc[p] \in {"check", "eof"} /\ OtherClosed(p) => OtherClosed(p)'
  BY <1>1, ClosedStays
<1>4. Checking(p) /\ ~trapped[p] => on' = on /\ pc'[a] = "done"
  <2> SUFFICES ASSUME Checking(p), ~trapped[p] PROVE on' = on /\ pc'[a] = "done"
    OBVIOUS
  <2>1. on = {p}
    BY <1>1 DEF CheckedAt
  <2>2. ~(Step(a) \/ Timer(a))
    BY <1>1, <2>1, OnStep DEF EofInv
  <2>3. ~Resume(a)
    BY <1>1 DEF Resume, Alive, Checking
  <2>4. Die(a)
    BY <2>2, <2>3
  <2> QED
    BY <1>1, <2>4 DEF Die, Types
<1>5. (Checking(p) /\ ~trapped[p] => on = {p})'
  BY <1>1, <1>2, <1>4 DEF CheckedAt, Checking
<1>6. (pc[p] = "ref2" /\ ~trapped[p] =>
         ref[p][2] = PageRef(ref[p][1]) \/ ~Alive(Other(p)))'
  BY <1>1, <1>2, <1>4 DEF Checking, Alive
<1> QED
  BY <1>1, <1>2, <1>3, <1>5, <1>6 DEF CheckedAt, Checking

\* Equal counts mean that the other end is closed.
LEMMA EqualMeansClosed ==
  ASSUME MapInv, NEW p \in Proc, PageRef(End[p]) = PageRef("data")
  PROVE  OtherClosed(p)
<1>1. PageRef("data") >= PageRef("rd") + PageRef("wr")
  BY CountsAll DEF DataCountsAll
<1>2. PageRef("rd") \in Nat /\ PageRef("wr") \in Nat /\ PageRef("data") \in Nat
  BY PageRefNat
<1>3. \/ End[p] = "rd" /\ End[Other(p)] = "wr"
      \/ End[p] = "wr" /\ End[Other(p)] = "rd"
  BY Names DEF Proc
<1>4. PageRef(End[Other(p)]) = 0
  BY <1>1, <1>2, <1>3
<1> QED
  BY <1>4, ClosedCount

\* So does a death, for one who has closed its own copy of the other end.
LEMMA DeadMeansClosed ==
  ASSUME MapInv, NEW p \in Proc, ~Alive(Other(p)), pc[p] = "ref2"
  PROVE  OtherClosed(p)
<1>1. maps[Other(p)] = {}
  BY Names DEF MapInv, Allowed, Alive
<1>2. maps[p] \subseteq {End[p]} \X {"fd", "data"}
  BY DEF MapInv, Allowed
<1>3. /\ End[p] # End[Other(p)] /\ (p = "writer" => End[p] = "wr")
      /\ \A q \in Proc : q = p \/ q = Other(p)
  BY Names
<1> QED
  BY <1>1, <1>2, <1>3 DEF OtherClosed

\* The environment that steps.
LEMMA CheckedSelf ==
  ASSUME EofInv, ~smp, NEW p \in Proc, Step(p) \/ Timer(p) \/ Die(p) \/ Resume(p)
  PROVE  CheckedAt(p)'
<1>1. Types /\ MapInv /\ CheckedAt(p) /\ Other(p) \in Proc /\ Other(p) # p
  BY Names DEF EofInv, OneCpu, MapInv
<1>2. Step(p) => on = {p}
  BY <1>1, OnStep DEF EofInv
<1>3. pc[p] \in {"check", "eof"} /\ OtherClosed(p) => OtherClosed(p)'
  BY <1>1, ClosedStays
<1>4. ASSUME pc'[p] \notin {"ref1", "ref2", "check", "eof"} PROVE CheckedAt(p)'
  BY <1>4 DEF CheckedAt, Checking
<1>5. CASE Snap(p)
  <2>1. pc'[p] = "ref1" /\ on' = {p}
    BY <1>1, <1>2, <1>5, GotoEffect DEF Snap, Step, PipeIsClosed, PC
  <2> QED
    BY <2>1 DEF CheckedAt
<1>6. CASE FirstRef(p)
  <2>1. pc'[p] = "ref2" /\ on' = {p} /\ maps' = maps
    BY <1>1, <1>2, <1>6, GotoEffect DEF FirstRef, Step, PipeIsClosed, PC
  <2>2. PICK page \in {End[p], "data"} : ref' = [ref EXCEPT ![p] = <<page, PageRef(page)>>]
    BY <1>6 DEF FirstRef
  <2>3. ref'[p] = <<page, PageRef(page)>>
    BY <1>1, <2>2 DEF Types
  <2>4. ref'[p][1] = page /\ ref'[p][2] = PageRef(page) /\ page \in {End[p], "data"}
    BY <2>2, <2>3
  <2>5. (PageRef(ref[p][1]))' = PageRef(page)
    BY <2>1, <2>4 DEF PageRef
  <2> QED
    BY <2>1, <2>4, <2>5 DEF CheckedAt
<1>7. CASE SecondRef(p)
  <2>1. /\ pc[p] = "ref2" /\ pc'[p] = "check" /\ on' = {p} /\ maps' = maps
        /\ trapped' = trapped
    BY <1>1, <1>2, <1>7, GotoEffect DEF SecondRef, Step, PipeIsClosed, PC
  <2>2. ASSUME ~trapped[p], same'[p] PROVE OtherClosed(p)
    <3>1. CASE ~Alive(Other(p))
      BY <1>1, <2>1, <3>1, DeadMeansClosed
    <3>2. CASE ref[p][2] = PageRef(ref[p][1])
      <4>1. ref[p][1] \in {End[p], "data"}
        BY <1>1, <2>1 DEF CheckedAt
      <4>2. same'[p] = (ref[p][2] = PageRef(IF ref[p][1] = "data" THEN End[p] ELSE "data"))
        BY <1>1, <1>7 DEF SecondRef, Types
      <4>3. PageRef(End[p]) = PageRef("data")
        <5>1. CASE ref[p][1] = "data"
          BY <2>2, <3>2, <4>2, <5>1
        <5>2. CASE ref[p][1] # "data"
          BY <2>2, <3>2, <4>1, <4>2, <5>2
        <5> QED
          BY <5>1, <5>2
      <4> QED
        BY <1>1, <4>3, EqualMeansClosed
    <3> QED
      BY <1>1, <2>1, <2>2, <3>1, <3>2 DEF CheckedAt
  <2>3. ~trapped'[p] /\ same'[p] => OtherClosed(p)'
    BY <2>1, <2>2 DEF OtherClosed
  <2> QED
    BY <2>1, <2>3 DEF CheckedAt
<1>8. CASE Decided(p)
  <2>1. /\ pc[p] = "check" /\ ~trapped[p] /\ pc'[p] = IF same[p] THEN "eof" ELSE "look"
    BY <1>1, <1>8 DEF Decided, Goto, Types
  <2>2. pc'[p] = "eof" => OtherClosed(p)'
    BY <1>1, <1>3, <2>1 DEF CheckedAt
  <2>3. pc'[p] \in {"eof", "look"}
    BY <2>1
  <2> QED
    BY <2>2, <2>3 DEF CheckedAt, Checking
<1>9. CASE Timer(p)
  <2>1. pc' = pc /\ ref' = ref /\ trapped'[p]
    BY <1>1, <1>9 DEF Timer, Types
  <2>2. pc'[p] = "eof" => OtherClosed(p)'
    BY <1>1, <1>3, <2>1 DEF CheckedAt
  <2> QED
    BY <1>1, <2>1, <2>2 DEF CheckedAt
<1>10. CASE Resume(p)
  <2>1. pc' = pc /\ ref' = ref /\ trapped' = trapped /\ on # {p}
    BY <1>1, <1>10 DEF Resume, check
  <2>2. pc'[p] = "eof" => OtherClosed(p)'
    BY <1>1, <1>3, <2>1 DEF CheckedAt
  <2> QED
    BY <1>1, <2>1, <2>2 DEF CheckedAt, Checking
<1>11. CASE Die(p)
  BY <1>1, <1>4, <1>11 DEF Die, Types
<1>12. ASSUME NEW from, NEW to \in PC \ {"ref1", "ref2", "check", "eof"}, Goto(p, from, to)
       PROVE  pc'[p] \notin {"ref1", "ref2", "check", "eof"}
  BY <1>1, <1>12, GotoEffect
<1>13. CASE \/ Closing(p) \/ Interrupted(p) \/ Finish(p)
            \/ p = "reader" /\ ReadByte
            \/ p = "writer" /\ (WriteByte \/ Dup(p) \/ StopDup(p))
  BY <1>4, <1>12, <1>13 DEF Closing, Close, Interrupted, Finish, ReadByte, WriteByte,
     Dup, StopDup, PC
<1>14. CASE (p = "reader" /\ ReadLook) \/ (p = "writer" /\ WriteLook)
  <2>1. /\ (CASE rpos # wpos -> "take" [] i > 0 -> "look" [] OTHER -> "snap")
             \in PC \ {"ref1", "ref2", "check", "eof"}
        /\ (CASE wpos = NBytes -> "close" [] Full -> "snap" [] OTHER -> "put")
             \in PC \ {"ref1", "ref2", "check", "eof"}
    BY DEF PC
  <2> QED
    BY <1>4, <1>12, <1>14, <2>1 DEF ReadLook, WriteLook
<1> QED
  BY <1>5, <1>6, <1>7, <1>8, <1>9, <1>10, <1>11, <1>13, <1>14 DEF Step, PipeIsClosed

\* Every step keeps the checks honest.
LEMMA EofInvStep == EofInv /\ RingInv /\ [Next]_vars => EofInv'
<1> SUFFICES ASSUME EofInv, RingInv, [Next]_vars PROVE EofInv'
  OBVIOUS
<1>1. Types'
  BY RingInvStep DEF RingInv
<1>2. CASE Next
  <2>1. PICK a \in Proc : Step(a) \/ Timer(a) \/ Die(a) \/ Resume(a)
    BY <1>2 DEF Next
  <2>2. MapInv'
    BY <1>1, <2>1, MapStep DEF EofInv
  <2>3. OneCpu'
    <3>1. CASE smp
      <4>1. smp' = smp
        BY <2>1, MapsType DEF EofInv, MapInv
      <4> QED
        BY <3>1, <4>1 DEF OneCpu
    <3>2. CASE ~smp
      <4>1. \E q \in Proc : on' = {q}
        BY <2>1, <3>2, OnStep DEF EofInv
      <4>2. \A p \in Proc : CheckedAt(p)'
        BY <2>1, <3>2, CheckedOther, CheckedSelf
      <4> QED
        BY <4>1, <4>2 DEF OneCpu
    <3> QED
      BY <3>1, <3>2
  <2> QED
    BY <2>2, <2>3 DEF EofInv
<1>3. CASE UNCHANGED vars
  <2>1. /\ maps' = maps /\ pc' = pc /\ ref' = ref /\ same' = same /\ trapped' = trapped
        /\ smp' = smp /\ on' = on
    BY <1>3 DEF vars, check
  <2>2. MapInv'
    BY <1>1, <2>1 DEF EofInv, MapInv, Allowed, DataFirst
  <2>3. \A page : PageRef(page)' = PageRef(page)
    BY <2>1 DEF PageRef
  <2>4. \A p \in Proc : CheckedAt(p) => CheckedAt(p)'
    BY <2>1 DEF CheckedAt, Checking, Alive, OtherClosed, PageRef
  <2>5. OneCpu'
    BY <2>1, <2>4 DEF EofInv, OneCpu
  <2> QED
    BY <2>2, <2>5 DEF EofInv
<1> QED
  BY <1>2, <1>3

\* And no check has begun at the start.
LEMMA EofInvInit == Init => EofInv
<1> SUFFICES ASSUME Init PROVE EofInv
  OBVIOUS
<1>1. OneCpu
  <2>1. \A p \in Proc : pc[p] \notin {"ref1", "ref2", "check", "eof"}
    BY DEF Init
  <2>2. ~smp => \E q \in Proc : on = {q}
    BY Names DEF Init
  <2> QED
    BY <2>1, <2>2 DEF OneCpu, CheckedAt, Checking
<1> QED
  BY <1>1, MapInit DEF EofInv

\* DataCountsAll: at every moment the data page counts at least as often as
\* the two descriptor pages together, in the middle of dup and close too.
THEOREM DataCountsAllHolds == Spec => []DataCountsAll
<1>1. EofInv => DataCountsAll
  BY CountsAll DEF EofInv
<1> QED
  BY RingInit, RingInvStep, EofInvInit, EofInvStep, <1>1, PTL DEF Spec

\* EofMeansClosed: on one CPU an environment that sees end of file is the last
\* one with the pipe open, however often the check was interrupted and whoever
\* dups, closes or dies meanwhile.
THEOREM EofMeansClosedHolds == Spec => []EofMeansClosed
<1>1. EofInv => EofMeansClosed
  <2> SUFFICES ASSUME EofInv, NEW p \in Proc, pc[p] = "eof", ~smp
               PROVE  PageRef(End[Other(p)]) = 0
    BY DEF EofMeansClosed
  <2>1. OtherClosed(p)
    BY DEF EofInv, OneCpu, CheckedAt
  <2> QED
    BY <2>1, ClosedCount DEF EofInv
<1> QED
  BY RingInit, RingInvStep, EofInvInit, EofInvStep, <1>1, PTL DEF Spec
=============================================================================
