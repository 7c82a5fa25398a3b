------------------------------- MODULE MCWal --------------------------------
(***************************************************************************)
(* Wal on blocks of six cells with headers of two: a payload of nine cells *)
(* has a first, a middle and a last fragment.                              *)
(***************************************************************************)
EXTENDS Wal
=============================================================================
