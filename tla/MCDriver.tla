------------------------------ MODULE MCDriver ------------------------------
(* Driver for two sources and two names of output files, one of them given.  *)
EXTENDS Driver
=============================================================================
