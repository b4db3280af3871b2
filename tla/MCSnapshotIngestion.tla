------------------------ MODULE MCSnapshotIngestion ------------------------
(* SnapshotIngestion for TLC.                                               *)
EXTENDS SnapshotIngestion
=============================================================================
