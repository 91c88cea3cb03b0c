--------------------------- MODULE MCToolGateway ---------------------------
(* ToolGateway for TLC. *)
EXTENDS ToolGateway, TLC

\* Control requests are interchangeable, and so are calls.
ActorSymmetry == Permutations(Admins) \cup Permutations(Calls)
=============================================================================
