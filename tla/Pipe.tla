-------------------------------- MODULE Pipe --------------------------------
(***************************************************************************)
(* Two environments and the pipe they share after a fork (lib/pipe.c,      *)
(* lib/pageref.c, dup and close of lib/fd.c), one memory access or system  *)
(* call at a time.  The reader closes its write end and reads; the writer  *)
(* may first dup and close the read end, as user/testpiperace.c does, then *)
(* closes it, writes NBytes bytes and closes.  Either may stop early or be *)
(* destroyed.                                                              *)
(*                                                                         *)
(* pipe.c never asks who has the other end open: it compares the number of *)
(* mappings of a descriptor page with that of the data page, read one      *)
(* after the other, and reads env_runs before and after to see whether the *)
(* environment was interrupted in between.                                 *)
(***************************************************************************)
EXTENDS Integers, FiniteSets, Sequences

CONSTANTS
  Size,       \* PIPEBUFSIZ: 32 in the code
  NBytes,     \* bytes the writer has to say
  Chunk,      \* the n of the reader's read(fd, buf, n)
  NDups,      \* times the writer dups the read end
  NTraps      \* times a check of _pipeisclosed is interrupted, at most

ASSUME PipeAssumption ==
  /\ Size \in Nat \ {0} /\ NBytes \in Nat /\ Chunk \in Nat \ {0}
  /\ NDups \in Nat /\ NTraps \in Nat

Proc == {"reader", "writer"}
End == [reader |-> "rd", writer |-> "wr"]       \* the descriptor each uses
Slot == {"rd", "wr", "dup"} \X {"fd", "data"}   \* dup is a dup of rd

VARIABLES
  maps,       \* maps[p]: the pages p has mapped, by descriptor
  rpos, wpos, \* p_rpos, p_wpos
  buf,        \* p_buf; byte number k has the value k
  pc,
  i,          \* the i of devpipe_read; bytes in the caller's buffer
  got,        \* what the reader was given, over all its calls
  dups,       \* dups done so far
  ref,        \* ref[p]: the page count read first, with its page
  same,       \* same[p]: ret of _pipeisclosed
  trapped,    \* trapped[p]: env_runs has changed since n was read
  tries,      \* interrupted checks in a row
  smp,        \* there is a CPU for each environment, not one for both
  on          \* the environments that execute now

data == <<rpos, wpos, buf, i, got>>
check == <<ref, same, trapped, tries>>
vars == <<maps, data, pc, dups, check, smp, on>>

\* pageref: the number of mappings of a page in all environments.
PageRef(page) ==
  Cardinality({x \in Proc \X Slot : /\ x[2] \in maps[x[1]]
     /\ CASE page = "rd" -> x[2] \in {<<"rd", "fd">>, <<"dup", "fd">>}
          [] page = "wr" -> x[2] = <<"wr", "fd">>
          [] page = "data" -> x[2][2] = "data"})

\* After pipe() and fork(): both ends open on both sides.
Init ==
  /\ maps = [p \in Proc |-> {"rd", "wr"} \X {"fd", "data"}]
  /\ rpos = 0 /\ wpos = 0 /\ buf = [b \in 0..Size-1 |-> 0]
  /\ pc = [p \in Proc |-> IF p = "reader" THEN "shut" ELSE "start"]
  /\ i = 0 /\ got = <<>> /\ dups = 0
  /\ ref = [p \in Proc |-> <<"data", 0>>] /\ same = [p \in Proc |-> FALSE]
  /\ trapped = [p \in Proc |-> FALSE] /\ tries = [p \in Proc |-> 0]
  /\ smp \in BOOLEAN
  /\ on = IF smp THEN Proc ELSE {"reader"}

Goto(p, from, to) ==
  /\ p \in on /\ pc[p] = from /\ pc' = [pc EXCEPT ![p] = to]

Map(p, slot) == maps' = [maps EXCEPT ![p] = @ \cup {slot}]
Unmap(p, slot) == maps' = [maps EXCEPT ![p] = @ \ {slot}]

Other(p) == IF p = "reader" THEN "writer" ELSE "reader"
Alive(p) == pc[p] # "done"

-----------------------------------------------------------------------------
(* close and dup: one system call each for the descriptor and the data.    *)

\* Mutant: devpipe_close unmaps the data page first.
Close_DataFirst(p, s, at, mid, to) ==
  /\ \/ Goto(p, at, mid) /\ Unmap(p, <<s, "data">>)
     \/ Goto(p, mid, to) /\ Unmap(p, <<s, "fd">>)
  /\ UNCHANGED <<data, dups, smp, check, on>>

\* devpipe_close: the descriptor page, then the data page.
Close(p, s, at, mid, to) ==
  /\ \/ Goto(p, at, mid) /\ Unmap(p, <<s, "fd">>)
     \/ Goto(p, mid, to) /\ Unmap(p, <<s, "data">>)
  /\ UNCHANGED <<data, dups, smp, check, on>>

\* Mutant: dup maps the descriptor page first.
Dup_FdFirst(p) ==
  /\ \/ Goto(p, "start", "dup") /\ dups < NDups /\ Map(p, <<"dup", "fd">>)
     \/ Goto(p, "dup", "undup") /\ Map(p, <<"dup", "data">>)
  /\ dups' = IF pc[p] = "start" THEN dups + 1 ELSE dups
  /\ UNCHANGED <<data, check, smp, on>>

\* dup(p[0], 10): the data page, then the descriptor page.
Dup(p) ==
  /\ \/ Goto(p, "start", "dup") /\ dups < NDups /\ Map(p, <<"dup", "data">>)
     \/ Goto(p, "dup", "undup") /\ Map(p, <<"dup", "fd">>)
  /\ dups' = IF pc[p] = "start" THEN dups + 1 ELSE dups
  /\ UNCHANGED <<data, check, smp, on>>

StopDup(p) ==
  /\ Goto(p, "start", "shut")
  /\ UNCHANGED <<maps, data, dups, smp, check, on>>

Closing(p) ==
  \/ Close(p, "dup", "undup", "undup2", "start")
  \/ Close(p, End[Other(p)], "shut", "shut2", "look")
  \/ Close(p, End[p], "close", "close2", "done")

-----------------------------------------------------------------------------
(* _pipeisclosed.                                                          *)

\* n = thisenv->env_runs.
Snap(p) ==
  /\ Goto(p, "snap", "ref1")
  /\ trapped' = [trapped EXCEPT ![p] = FALSE]
  /\ UNCHANGED <<maps, data, dups, smp, ref, same, tries, on>>

\* C leaves the order of the two pageref calls to the compiler.
FirstRef(p) ==
  /\ Goto(p, "ref1", "ref2")
  /\ \E page \in {End[p], "data"} :
       ref' = [ref EXCEPT ![p] = <<page, PageRef(page)>>]
  /\ UNCHANGED <<maps, data, dups, smp, same, trapped, tries, on>>

SecondRef(p) ==
  /\ Goto(p, "ref2", "check")
  /\ LET page == IF ref[p][1] = "data" THEN End[p] ELSE "data" IN
     same' = [same EXCEPT ![p] = ref[p][2] = PageRef(page)]
  /\ UNCHANGED <<maps, data, dups, smp, ref, trapped, tries, on>>

\* Mutant: n is read once, before the loop.
Interrupted_OldN(p) ==
  /\ Goto(p, "check", "ref1") /\ trapped[p]
  /\ UNCHANGED <<maps, data, dups, smp, check, on>>

\* n # nn: once more.
Interrupted(p) ==
  /\ Goto(p, "check", "snap") /\ trapped[p]
  /\ tries' = [tries EXCEPT ![p] = @ + 1]
  /\ UNCHANGED <<maps, data, dups, smp, ref, same, trapped, on>>

\* Mutant: env_runs is not looked at.
Decided_Always(p) ==
  /\ Goto(p, "check", IF same[p] THEN "eof" ELSE "look")
  /\ tries' = [tries EXCEPT ![p] = 0]
  /\ on' = IF ~same[p] /\ ~smp /\ Alive(Other(p)) THEN {Other(p)} ELSE on
  /\ UNCHANGED <<maps, data, dups, smp, ref, same, trapped>>

\* n = nn: end of file, or sys_yield and look again.
Decided(p) ==
  /\ Goto(p, "check", IF same[p] THEN "eof" ELSE "look") /\ ~trapped[p]
  /\ tries' = [tries EXCEPT ![p] = 0]
  /\ on' = IF ~same[p] /\ ~smp /\ Alive(Other(p)) THEN {Other(p)} ELSE on
  /\ UNCHANGED <<maps, data, dups, smp, ref, same, trapped>>

PipeIsClosed(p) ==
  Snap(p) \/ FirstRef(p) \/ SecondRef(p) \/ Interrupted(p) \/ Decided(p)

-----------------------------------------------------------------------------
(* devpipe_read and devpipe_write.                                         *)

\* Is the pipe empty?  A call that has some bytes returns them.
ReadLook ==
  /\ Goto("reader", "look",
          CASE rpos # wpos -> "take" [] i > 0 -> "look" [] OTHER -> "snap")
  /\ i' = IF rpos = wpos THEN 0 ELSE i
  /\ UNCHANGED <<maps, rpos, wpos, buf, got, dups, smp, check, on>>

TakeByte == got' = Append(got, buf[rpos % Size]) /\ UNCHANGED <<rpos, i>>

\* Mutant: the call goes on for one byte after n.
NextByte_TooFar ==
  /\ rpos' = rpos + 1
  /\ i' = IF i = Chunk THEN 0 ELSE i + 1
  /\ UNCHANGED got

NextByte ==
  /\ rpos' = rpos + 1
  /\ i' = IF i + 1 = Chunk THEN 0 ELSE i + 1      \* i = n: return
  /\ UNCHANGED got

\* Mutant: rpos is incremented before the byte is taken.
ReadByte_Early ==
  /\ \/ Goto("reader", "take", "took") /\ NextByte
     \/ /\ Goto("reader", "took", "look")
        /\ got' = Append(got, buf[(rpos - 1) % Size]) /\ UNCHANGED <<rpos, i>>
  /\ UNCHANGED <<maps, wpos, buf, dups, smp, check, on>>

\* "wait to increment rpos until the byte is taken!"
ReadByte ==
  /\ \/ Goto("reader", "take", "took") /\ TakeByte
     \/ Goto("reader", "took", "look") /\ NextByte
  /\ UNCHANGED <<maps, wpos, buf, dups, smp, check, on>>

\* Mutant: one byte more than the buffer has.
Full_OffByOne == wpos > rpos + Size

Full == wpos >= rpos + Size

\* Is there room?  Done after NBytes bytes.
WriteLook ==
  /\ Goto("writer", "look",
          CASE wpos = NBytes -> "close" [] Full -> "snap" [] OTHER -> "put")
  /\ UNCHANGED <<maps, data, dups, smp, check, on>>

WriteByte ==
  /\ \/ Goto("writer", "put", "stored") /\ UNCHANGED wpos
        /\ buf' = [buf EXCEPT ![wpos % Size] = wpos + 1]
     \/ Goto("writer", "stored", "look") /\ wpos' = wpos + 1 /\ UNCHANGED buf
  /\ UNCHANGED <<maps, rpos, i, got, dups, smp, check, on>>

\* The caller closes its end at end of file, or when it has had enough.
Finish(p) ==
  /\ \/ Goto(p, "eof", "close")
     \/ (p = "reader" => i = 0) /\ Goto(p, "look", "close")
  /\ UNCHANGED <<maps, data, dups, smp, check, on>>

-----------------------------------------------------------------------------
(* The kernel: preemption, and the end of an environment.                  *)

Checking(p) == pc[p] \in {"ref1", "ref2", "check"}

\* A timer interrupt of p runs another environment, and later p again; with
\* a CPU to itself it runs p again at once.  Either way env_runs goes up.
Timer(p) ==
  /\ p \in on
  /\ Checking(p) => tries[p] < NTraps
  /\ trapped' = [trapped EXCEPT ![p] = TRUE]
  /\ on' = IF ~smp /\ Alive(Other(p)) THEN {Other(p)} ELSE on
  /\ UNCHANGED <<maps, data, pc, dups, smp, ref, same, tries>>

\* env_free unmaps everything; also the end of exit().
Die(p) ==
  /\ Alive(p)
  /\ pc' = [pc EXCEPT ![p] = "done"]
  /\ maps' = [maps EXCEPT ![p] = {}]
  /\ on' = IF smp THEN on \ {p} ELSE on
  /\ UNCHANGED <<data, dups, smp, check>>

\* The other environment runs when the one that executed has ended.
Resume(p) ==
  /\ ~smp /\ Alive(p) /\ on = {Other(p)} /\ ~Alive(Other(p))
  /\ on' = {p}
  /\ UNCHANGED <<maps, data, pc, dups, smp, check>>

Step(p) ==
  \/ Closing(p) \/ PipeIsClosed(p) \/ Finish(p)
  \/ p = "reader" /\ (ReadLook \/ ReadByte)
  \/ p = "writer" /\ (WriteLook \/ WriteByte \/ Dup(p) \/ StopDup(p))

Next == \E p \in Proc : Step(p) \/ Timer(p) \/ Die(p) \/ Resume(p)

Spec == Init /\ [][Next]_vars

\* A time slice is long enough for an instruction or a system call; the
\* timer ends every time slice.
FairSpec ==
  /\ Spec
  /\ \A p \in Proc : SF_vars(Step(p)) /\ WF_vars(Resume(p)) /\ SF_vars(Timer(p))

-----------------------------------------------------------------------------
TypeOK ==
  /\ maps \in [Proc -> SUBSET Slot]
  /\ rpos \in 0..NBytes /\ wpos \in 0..NBytes
  /\ buf \in [0..Size-1 -> 0..NBytes]
  /\ i \in 0..Chunk-1 /\ got \in Seq(0..NBytes) /\ dups \in 0..NDups
  /\ smp \in BOOLEAN /\ on \subseteq Proc /\ tries \in [Proc -> 0..NTraps]
  /\ trapped \in [Proc -> BOOLEAN] /\ same \in [Proc -> BOOLEAN]

\* On one CPU, end of file is reported only if no environment has the other
\* end open any more ("if all the writers are gone, note eof").  On several it
\* is not so: env_runs says nothing of what another CPU did meanwhile.
EofMeansClosed ==
  \A p \in Proc : pc[p] = "eof" /\ ~smp => PageRef(End[Other(p)]) = 0

\* The data page counts at least as often as the two descriptor pages
\* together, in the middle of close and dup too: _pipeisclosed relies on it.
DataCountsAll == PageRef("data") >= PageRef("rd") + PageRef("wr")

\* The bytes come out as they went in, whatever the interleaving.
Queue == [k \in 1..wpos - rpos |-> buf[(rpos + k - 1) % Size]]
Received == SubSeq(got, 1, rpos)
Content == INSTANCE Fifo WITH
  Byte <- 1..NBytes, queue <- Queue, received <- Received

ImplementsFifo == Content!Spec

\* No byte is lost or doubled.
InOrder == \A k \in DOMAIN got : got[k] = k

\* Also on one CPU, where end of file means that the writer has closed, a reader
\* that is told "end of file" has had every byte ("pipe is empty").
EofMeansDrained == pc["reader"] = "eof" /\ ~smp => rpos = wpos

\* Neither end waits for ever: it is served, or sees the other end close.
BothEnd == <>(\A p \in Proc : pc[p] = "done")
=============================================================================
