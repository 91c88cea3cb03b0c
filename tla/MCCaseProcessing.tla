-------------------------- MODULE MCCaseProcessing --------------------------
(* Instances of CaseProcessing for TLC. *)
EXTENDS CaseProcessing, TLC

\* Requests are interchangeable: nothing orders them, and the properties
\* checked with this symmetry are invariants or step properties.
RequestSymmetry == Permutations(Requests)
=============================================================================
