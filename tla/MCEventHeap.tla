---------------------------- MODULE MCEventHeap ----------------------------
(* Six events are the fewest with which a deletion moves an event upwards.  *)
EXTENDS EventHeap, TLC
Symmetry == Permutations(TMEVTB)
=============================================================================
