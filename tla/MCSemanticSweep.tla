-------------------------- MODULE MCSemanticSweep --------------------------
(***************************************************************************)
(* Instance of SemanticSweep for TLC: a fragment of two items that can be  *)
(* narrowed, and two more, so that a job can be dropped between two        *)
(* others.                                                                 *)
(***************************************************************************)
EXTENDS SemanticSweep

MCFragments == <<{1, 2}, {3}, {4}>>
=============================================================================
