-------------------------- MODULE MCAnalysisRuns --------------------------
(* AnalysisRuns for TLC.                                                    *)
EXTENDS AnalysisRuns
=============================================================================
