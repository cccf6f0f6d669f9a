----------------------------- MODULE MCFileSys -----------------------------
(***************************************************************************)
(* FileSys for TLC: big uses both pointers of its indirect block and is    *)
(* set to a size beyond what it can hold, small competes with it for       *)
(* blocks and shares its directory block, extra needs the directory to     *)
(* grow.                                                                   *)
(***************************************************************************)
EXTENDS FileSys

CONSTANTS big, small, extra

MCSizes == (big :> {1, 7}) @@ (small :> {0}) @@ (extra :> {})
MCOffsets == (big :> {2}) @@ (small :> {0}) @@ (extra :> {})

\* What clients ask for leaves a file all of its indirect block or nothing.
ASSUME MCWholeCuts == WholeCuts
=============================================================================
