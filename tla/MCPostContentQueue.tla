------------------------- MODULE MCPostContentQueue -------------------------
(* TLC instances of PostContentQueue: symmetry of the interchangeable names. *)
EXTENDS PostContentQueue, TLC

Symmetry == Permutations(Processes) \cup Permutations(Clients) \cup Permutations(Bodies)
=============================================================================
