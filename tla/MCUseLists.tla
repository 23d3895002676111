----------------------------- MODULE MCUseLists -----------------------------
(* UseLists for TLC: the keys of each table are interchangeable.           *)
EXTENDS UseLists, TLC

Symmetry == Permutations(Use) \cup Permutations(Inst) \cup Permutations(Block)

=============================================================================
