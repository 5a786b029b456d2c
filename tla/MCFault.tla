------------------------------ MODULE MCFault ------------------------------
(* Where the one fault may strike: outside and inside a critical section.  *)
EXTENDS Fault
Outside == {"out", "save", "cli", "restore"}
Inside == {"critical"}
=============================================================================
