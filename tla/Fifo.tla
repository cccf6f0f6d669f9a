-------------------------------- MODULE Fifo --------------------------------
(* What a pipe promises its two ends: bytes come out in the order they     *)
(* went in, and no more than Size of them are inside (lib/pipe.c).         *)
EXTENDS Naturals, Sequences

CONSTANTS Byte, Size

VARIABLES queue, received

Init == queue = <<>> /\ received = <<>>

Send == /\ Len(queue) < Size
        /\ \E b \in Byte : queue' = Append(queue, b)
        /\ UNCHANGED received

Receive == /\ queue # <<>>
           /\ queue' = Tail(queue)
           /\ received' = Append(received, Head(queue))

Next == Send \/ Receive

Spec == Init /\ [][Next]_<<queue, received>>
=============================================================================
