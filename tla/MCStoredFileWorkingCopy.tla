---------------------- MODULE MCStoredFileWorkingCopy ----------------------
(* StoredFileWorkingCopy for TLC *)
EXTENDS StoredFileWorkingCopy, TLC

=============================================================================
