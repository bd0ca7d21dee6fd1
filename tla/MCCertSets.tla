----------------------------- MODULE MCCertSets -----------------------------
(* CertSets for TLC: tasks and identifiers are interchangeable.            *)
EXTENDS CertSets, TLC

Alike == Permutations(Tasks) \union Permutations(Sets)
=============================================================================
