------------------------ MODULE MCProviderCredentials ------------------------
(* Small instances of ProviderCredentials: the constants are given in the .cfg files. *)
EXTENDS ProviderCredentials, TLC

\* No definition tells two profiles apart.
Alike == Permutations(Profiles)
===============================================================================
