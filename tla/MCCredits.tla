----------------------------- MODULE MCCredits -----------------------------
(***************************************************************************)
(* Instances of Credits for TLC.                                           *)
(***************************************************************************)
EXTENDS Credits, TLC

CONSTANTS ann, bob, cyd, pass, approval

Symmetry == Permutations(People)
=============================================================================
