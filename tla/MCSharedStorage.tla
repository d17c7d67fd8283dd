-------------------------- MODULE MCSharedStorage --------------------------
(* SharedStorage for TLC *)
EXTENDS SharedStorage, TLC

=============================================================================
