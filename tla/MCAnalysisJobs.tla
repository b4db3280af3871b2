--------------------------- MODULE MCAnalysisJobs ---------------------------
(***************************************************************************)
(* AnalysisJobs for TLC.  The cfg files choose the sets, the limits and the *)
(* faults; jobs, keys and workers are interchangeable model values, so the  *)
(* runs that check safety only may use their permutations as symmetry.      *)
(***************************************************************************)
EXTENDS AnalysisJobs, TLC

Symmetry == Permutations(Jobs) \cup Permutations(Keys) \cup Permutations(Workers)
=============================================================================
