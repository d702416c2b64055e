------------------------------ MODULE MCTimeHeap ------------------------------
(* Small heaps for TLC.                                                     *)
EXTENDS TimeHeap, TLC

Symmetry == Permutations(Timers)
=============================================================================
