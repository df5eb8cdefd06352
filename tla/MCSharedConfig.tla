--------------------------- MODULE MCSharedConfig ---------------------------
(* Mains are interchangeable, and so are the other processes. *)
EXTENDS SharedConfig, TLC

Twins == Permutations(Mains) \cup Permutations(Procs \ Mains)
=============================================================================
