---------------------------- MODULE MCSosNetwork ----------------------------
(* Constants of SosNetwork for TLC. *)
EXTENDS SosNetwork, TLC

CONSTANTS anita, bina, officer, photo

\* The evidence upload, if there is one, is anita's.
MCOwnerOf == [e \in Evidence |-> anita]

MCSymmetry == Permutations(Workers) \cup Permutations(Creates) \cup Permutations(Actions)

=============================================================================
