------------------------------- MODULE MCLsm --------------------------------
(***************************************************************************)
(* Lsm on three levels with memtables of one entry: every write after the  *)
(* first rotates, and three writes reach the bottom level.                 *)
(***************************************************************************)
EXTENDS Lsm
=============================================================================
