----------------------------- MODULE MCStudyMap -----------------------------
(* A small instance of StudyMap: the constants are given in the .cfg file.  *)
(* Threads are interchangeable, parts are not.                              *)
EXTENDS StudyMap, TLC
Symmetry == Permutations(Threads)

(* Bound: another policy comes when there is a map to lose, and such a      *)
(* behaviour goes on only until what was made under it is lost; after any   *)
(* other failure or death one part is made again in one revision.           *)
Again     == {rp \in Revs \X Parts : part[rp[1]][rp[2]].time > 1}
OneChange == IF policy = 1 THEN faults = 0 \/ Cardinality(Again) <= 1
             ELSE /\ rows # {} \/ revoked # {}
                  /\ \A rp \in Again : part[rp[1]][rp[2]].state = "invalidated"
=============================================================================
