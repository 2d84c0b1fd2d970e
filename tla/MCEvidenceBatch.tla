--------------------------- MODULE MCEvidenceBatch ---------------------------
(* Small instances of EvidenceBatch: batches are interchangeable model     *)
(* values, evidence is numbered.                                           *)
EXTENDS EvidenceBatch, TLC

BatchSymmetry == Permutations(Batches)
=============================================================================
