--------------------------- MODULE MCAgentRuntime ---------------------------
(* Instances of AgentRuntime for TLC. *)
EXTENDS AgentRuntime

Machine(claude, codex) == [claude_code |-> claude, codex |-> codex]
MCProviders == {"claude_code", "codex"}
MCPosition == [claude_code |-> 1, codex |-> 2]
MCFindings ==
    {Machine("capable", "capable"), Machine("capable", "mute"),
     Machine("missing", "capable"), Machine("mute", "missing")}
=============================================================================
