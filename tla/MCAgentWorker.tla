--------------------------- MODULE MCAgentWorker ----------------------------
(* AgentWorker for TLC: the configurations give every constant its value. *)
EXTENDS AgentWorker
=============================================================================
