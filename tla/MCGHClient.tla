----------------------------- MODULE MCGHClient -----------------------------
(***************************************************************************)
(* TLC instance of GHClient.                                               *)
(***************************************************************************)
EXTENDS GHClient, TLC

Symmetry == Permutations(Key)

==============================================================================
