------------------------- MODULE MC_ServerPipeline --------------------------
(* Model-checking instance of ServerPipeline.                              *)
EXTENDS ServerPipeline, TLC

CONSTANTS c1, c2

MCOneClient == {c1}
MCTwoClients == {c1, c2}
MCMaxMsgs == 2

=============================================================================
