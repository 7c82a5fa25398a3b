------------------------------ MODULE MCVlogGc ------------------------------
(***************************************************************************)
(* VlogGc with entries of three bytes, two of them value bytes, and a      *)
(* trigger of one entry: any separated write lets a pass begin.            *)
(***************************************************************************)
EXTENDS VlogGc, TLC

\* Keys are compared and never ordered.
Symmetry == Permutations(Key)
=============================================================================
