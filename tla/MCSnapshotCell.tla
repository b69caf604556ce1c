--------------------------- MODULE MCSnapshotCell ---------------------------
(* SnapshotCell with a snapshot of three words.                             *)
EXTENDS SnapshotCell
=============================================================================
