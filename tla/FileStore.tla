----------------------------- MODULE FileStore -----------------------------
(***************************************************************************)
(* What the file system promises its clients: files that hold what was     *)
(* written to them and to no other file, and that survive a crash once     *)
(* they are flushed.                                                       *)
(***************************************************************************)
EXTENDS Naturals, Sequences

CONSTANTS
  Name,      \* file names
  Missing,   \* content of a file that does not exist
  Zero       \* a byte that nobody wrote

VARIABLES
  content,   \* content[f]: the bytes of f, f itself standing for a byte written
  durable    \* files whose content a crash preserves

Content(f) == Seq({Zero, f})

\* What one request may make of file f, from old to new.
Created(f, old, new) == old = Missing /\ new = <<>>

\* The first k of n bytes at offset o are written, all of them if the disk has
\* room.  The file has grown in any case, by bytes that are its own.
Written(f, old, new) ==
  /\ old # Missing /\ new \in Content(f)
  /\ \E o \in 0..Len(new) : \E n \in 0..Len(new)-o : \E k \in 0..n :
       /\ Len(new) = IF o + n > Len(old) THEN o + n ELSE Len(old)
       /\ \A i \in 1..Len(new) :
            IF i \in (o+1)..(o+k) THEN new[i] = f
            ELSE i <= Len(old) => new[i] = old[i]

Resized(f, old, new) ==
  /\ old # Missing /\ new \in Content(f)
  /\ \A i \in 1..Len(new) : i <= Len(old) => new[i] = old[i]

Lost(f, old, new) == new = Missing \/ new \in Content(f)

Init == content = [f \in Name |-> Missing] /\ durable = {}

Change == \E old \in {content}, new \in {content'} : \E f \in Name :
  /\ new = [old EXCEPT ![f] = new[f]]
  /\ \/ Created(f, old[f], new[f])
     \/ Written(f, old[f], new[f])
     \/ Resized(f, old[f], new[f])
  /\ durable' = durable \ {f}

Flush == content' = content /\ durable \subseteq durable' /\ durable' \subseteq Name

Crash == \E old \in {content}, new \in {content'} :
  /\ new = [f \in Name |-> new[f]]
  /\ \A f \in Name :
       old[f] # new[f] => f \notin durable /\ Lost(f, old[f], new[f])
  /\ UNCHANGED durable

Next == Change \/ Flush \/ Crash

Spec == Init /\ [][Next]_<<content, durable>>
=============================================================================
