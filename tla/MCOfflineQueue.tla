--------------------------- MODULE MCOfflineQueue ----------------------------
(* Symmetry of OfflineQueue's constants for TLC. *)
EXTENDS OfflineQueue, TLC

MCSymmetry == Permutations(Tabs) \cup Permutations(Sos) \cup Permutations(Reports)

=============================================================================
