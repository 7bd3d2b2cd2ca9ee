--------------------------- MODULE MCAgentExecutor --------------------------
(***************************************************************************)
(* TLC instance of AgentExecutor.                                          *)
(***************************************************************************)
EXTENDS AgentExecutor, TLC

\* The channels are interchangeable in every safety property.
Symmetry == Permutations(Subscribers)
=============================================================================
