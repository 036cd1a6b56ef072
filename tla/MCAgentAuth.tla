---------------------------- MODULE MCAgentAuth ----------------------------
(* Instances of AgentAuth for TLC. *)
EXTENDS AgentAuth

MCClockErrors == -2..2

============================================================================
