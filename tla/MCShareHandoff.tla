--------------------------- MODULE MCShareHandoff ---------------------------
(* Instances of ShareHandoff for TLC. *)
EXTENDS ShareHandoff, TLC

MinerSymmetry == Permutations(Miners)

=============================================================================
