------------------------------ MODULE MCArchive ------------------------------
(* Small books for the runs of ArchiveProperties. *)
EXTENDS ArchiveProperties, TLC
=============================================================================
