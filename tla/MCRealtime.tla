----------------------------- MODULE MCRealtime ------------------------------
(* Symmetry of Realtime's constants for TLC. *)
EXTENDS Realtime, TLC

MCSymmetry == Permutations(Sockets) \cup Permutations(Events)

=============================================================================
