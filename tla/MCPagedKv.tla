----------------------------- MODULE MCPagedKv -----------------------------
(* The allocator with two physical blocks and two sequences. *)
EXTENDS PagedKv, TLC

Symmetry == Permutations(Blocks) \cup Permutations(SequenceIds)
=============================================================================
