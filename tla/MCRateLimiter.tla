--------------------------- MODULE MCRateLimiter ---------------------------
(* RateLimiter for TLC. *)
EXTENDS RateLimiter, TLC

\* One agent and one tool; calls of a user and calls that name none.
MCIdentities == {[agent |-> "a", user |-> u, tool |-> "t"] : u \in {"", "u"}}

\* The user has half of the agent's rate, and tools have no limit.
MCLimit == [agent |-> 2, user |-> 1, tool |-> 0]

CallSymmetry == Permutations(Calls)
=============================================================================
