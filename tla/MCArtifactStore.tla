--------------------------- MODULE MCArtifactStore ---------------------------
(* A small instance of ArtifactStore: the constants are given in the .cfg file. *)
EXTENDS ArtifactStore
===============================================================================
