----------------------------- MODULE MCForkCow -----------------------------
(***************************************************************************)
(* ForkCow for TLC.                                                        *)
(***************************************************************************)
EXTENDS ForkCow

\* Physical pages are interchangeable: a state is known by the mappings that
\* refer to one page and by what that page holds.
Mappings(e, v) == {<<d, w>> \in Env \X Addr :
  Present(d, w) /\ page[d][w] = page[e][v]}
View == <<perm, status, upcall, forkVars, faultVars,
  [e \in Env |-> [v \in Addr |->
    IF Present(e, v) THEN <<Mappings(e, v), content[page[e][v]]>> ELSE <<>>]]>>
=============================================================================
