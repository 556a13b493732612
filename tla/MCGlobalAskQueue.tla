-------------------------- MODULE MCGlobalAskQueue --------------------------
(* TLC instances of GlobalAskQueue: symmetry of the interchangeable names. *)
EXTENDS GlobalAskQueue, TLC

Symmetry == Permutations(Jobs) \cup Permutations(Processes) \cup Permutations(Slots)
=============================================================================
