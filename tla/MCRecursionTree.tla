-------------------------- MODULE MCRecursionTree --------------------------
(***************************************************************************)
(* RecursionTree for TLC.  The signatures are only compared for equality   *)
(* and every property is an invariant, so permuting them is a symmetry.    *)
(***************************************************************************)
EXTENDS RecursionTree, TLC

SignatureSymmetry == Permutations(Signatures)
=============================================================================
