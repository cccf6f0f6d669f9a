------------------------------- MODULE MCPmap -------------------------------
(* Pmap on a small machine.  Neither the pages nor the CPUs differ.        *)
EXTENDS Pmap, TLC

ReadOrWrite == {{"U"}, {"U", "W"}}
Symmetry == Permutations(Page) \cup Permutations(CPU)
=============================================================================
