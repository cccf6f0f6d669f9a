--------------------------- MODULE PrivateMemory ---------------------------
(***************************************************************************)
(* What fork promises (lib/fork.c): every environment has a memory of its  *)
(* own, and a child starts with a copy of its parent's.                    *)
(***************************************************************************)
CONSTANTS
  Env, First,   \* environments, and the one that exists at the start
  Addr,         \* private virtual pages
  Value, Zero   \* contents of a page

VARIABLES
  alive,        \* the environments that execute
  mem           \* mem[e][v]: what e reads at v

Blank == [v \in Addr |-> Zero]

Init ==
  /\ alive = {First}
  /\ mem = [e \in Env |-> Blank]

Write(e, v, x) ==
  /\ e \in alive
  /\ mem' = [mem EXCEPT ![e][v] = x]
  /\ UNCHANGED alive

Fork(e, c) ==
  /\ e \in alive /\ c \notin alive
  /\ alive' = alive \cup {c}
  /\ mem' = [mem EXCEPT ![c] = mem[e]]

Exit(e) ==
  /\ e \in alive
  /\ alive' = alive \ {e}
  /\ mem' = [mem EXCEPT ![e] = Blank]

Next == \E e \in Env :
  \/ \E v \in Addr, x \in Value : Write(e, v, x)
  \/ \E c \in Env : Fork(e, c)
  \/ Exit(e)

Spec == Init /\ [][Next]_<<alive, mem>>
=============================================================================
