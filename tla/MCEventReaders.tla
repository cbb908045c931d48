---------------------------- MODULE MCEventReaders ----------------------------
(* Small instances of EventReaders: the constants are given in the .cfg files. *)
EXTENDS EventReaders
===============================================================================
