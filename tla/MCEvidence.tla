----------------------------- MODULE MCEvidence -----------------------------
(* Instances of EvidenceQueue for TLC. *)
EXTENDS EvidenceQueue, TLC

CONSTANTS t1, t2, w1, w2

\* workers are only told apart by what they hold
Workers == Permutations(Process)
=============================================================================
