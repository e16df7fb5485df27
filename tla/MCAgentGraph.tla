---------------------------- MODULE MCAgentGraph ----------------------------
(* Two faults, so that a document can be about the wrong one.              *)
EXTENDS AgentGraph, TLC

MCSymmetry == Permutations(Faults)
=============================================================================
