---------------------------- MODULE MCDbPersist ----------------------------
(***************************************************************************)
(* Instances of DbPersist: two writers that wait for each other, and a      *)
(* writer with I/O errors next to a reader that takes no lock.             *)
(***************************************************************************)
EXTENDS DbPersist

CONSTANTS w1, w2, rd, i1, i2
=============================================================================
