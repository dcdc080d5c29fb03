------------------------- MODULE MCArticlePipeline -------------------------
(***************************************************************************)
(* Instances of ArticlePipeline for TLC.                                   *)
(***************************************************************************)
EXTENDS ArticlePipeline, TLC

EventSymmetry == Permutations(EventIds)
=============================================================================
