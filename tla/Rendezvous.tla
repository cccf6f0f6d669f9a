----------------------------- MODULE Rendezvous -----------------------------
(* What JOS IPC promises: a receiver opens its box, one sender fills it,   *)
(* and the receiver takes out what that sender put in.                     *)

CONSTANTS Env, Msg

VARIABLES
  open,       \* the environments that wait for a message
  box         \* box[e]: the message delivered to e, if any

vars == <<open, box>>

Init == open = {} /\ box = [e \in Env |-> {}]

Open(e) == /\ e \notin open /\ box[e] = {}
           /\ open' = open \cup {e} /\ UNCHANGED box

Deliver(e, m) == /\ e \in open /\ open' = open \ {e}
                 /\ box' = [box EXCEPT ![e] = {m}]

Take(e) == /\ box[e] # {} /\ box' = [box EXCEPT ![e] = {}]
           /\ UNCHANGED open

Destroy(e) == open' = open \ {e} /\ box' = [box EXCEPT ![e] = {}]

Next == \E e \in Env : \/ Open(e) \/ Take(e) \/ Destroy(e)
                       \/ \E m \in Msg : Deliver(e, m)

Spec == Init /\ [][Next]_vars
=============================================================================
