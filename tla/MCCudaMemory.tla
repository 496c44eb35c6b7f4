---------------------------- MODULE MCCudaMemory ----------------------------
(* Small instances of CudaMemory for TLC. *)
EXTENDS CudaMemory, TLC

ResourceSymmetry ==
    Permutations(Threads) \cup Permutations(Streams) \cup Permutations(Device)
=============================================================================
