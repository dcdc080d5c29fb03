---------------------------- MODULE MCIndexRebuild ----------------------------
(* Small instances of IndexRebuild.  Articles are numbered because the     *)
(* snapshot follows their ids.                                             *)
EXTENDS IndexRebuild, TLC

CandidateSymmetry == Permutations(Indexes \ {FirstIndex})

(* No crash between the alias and the row that describes it.               *)
PairedSteps == Steps \ {"set", "backset"}
=============================================================================
