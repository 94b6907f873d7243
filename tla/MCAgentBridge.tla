---------------------------- MODULE MCAgentBridge ----------------------------
(* Three tool calls for TLC.  The calls are interchangeable.                  *)
EXTENDS AgentBridge, TLC

CallSymmetry == Permutations(Calls)

=============================================================================
