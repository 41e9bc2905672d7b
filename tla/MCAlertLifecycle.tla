-------------------------- MODULE MCAlertLifecycle ---------------------------
(* Symmetry of AlertLifecycle's constants for TLC. *)
EXTENDS AlertLifecycle, TLC

MCSymmetry == Permutations(Workers) \cup Permutations(Generates) \cup Permutations(Actions)
                \cup Permutations(Officials) \cup Permutations(Fingerprints)

=============================================================================
