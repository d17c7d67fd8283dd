----------------------------- MODULE MCStorage -----------------------------
(* Storage for TLC *)
EXTENDS Storage, TLC

\* Keys are interchangeable, and so are values
StorageSymmetry == Permutations(Keys) \cup Permutations(Values)

=============================================================================
