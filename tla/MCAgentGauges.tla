---------------------------- MODULE MCAgentGauges ---------------------------
(* One pod with two collectors.                                            *)
EXTENDS AgentGauges

MCCollectors == CollectorID
=============================================================================
