---------------------------- MODULE MCRunLifecycle ----------------------------
(* Small instances of RunLifecycle: the constants are given in the .cfg files. *)
EXTENDS RunLifecycle
===============================================================================
