-------------------------- MODULE MCEvidenceFrontier --------------------------
(* Small instances of EvidenceFrontier: the constants are given in the .cfg files. *)
EXTENDS EvidenceFrontier, TLC

\* Entries, Workers and routes are interchangeable: no definition tells them apart.
Interchangeable == Permutations(Entries) \cup Permutations(Workers) \cup Permutations(Routes)
===============================================================================
