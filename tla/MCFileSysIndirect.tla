------------------------- MODULE MCFileSysIndirect -------------------------
(***************************************************************************)
(* FileSys without WholeCuts: a file of three blocks is cut to two, which  *)
(* keeps its indirect block and one of the two pointers there.             *)
(***************************************************************************)
EXTENDS FileSys

CONSTANTS big, small

MCSizes == (big :> {3, 5}) @@ (small :> {})
MCOffsets == (big :> {2}) @@ (small :> {0})
=============================================================================
