----------------------- MODULE MCAttestationEvidence -----------------------
(* AttestationEvidence for TLC: requests are alike.                        *)
EXTENDS AttestationEvidence, TLC

SlotSymmetry == Permutations(Slots)
=============================================================================
