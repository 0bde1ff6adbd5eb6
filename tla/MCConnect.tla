----------------------------- MODULE MCConnect -----------------------------
(***************************************************************************)
(* Connect for TLC.  Requests are interchangeable: they differ by what     *)
(* they are asked, not by who they are.  Symmetry serves the safety runs   *)
(* only.                                                                   *)
(***************************************************************************)
EXTENDS Connect, TLC

Symmetry == Permutations(Requests)
=============================================================================
