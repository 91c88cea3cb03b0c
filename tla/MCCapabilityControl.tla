------------------------ MODULE MCCapabilityControl ------------------------
(* CapabilityControl for TLC. *)
EXTENDS CapabilityControl, TLC

\* Requests are interchangeable.
AdminSymmetry == Permutations(Admins)
=============================================================================
