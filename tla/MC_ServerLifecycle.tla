------------------------ MODULE MC_ServerLifecycle -------------------------
(* Model-checking instance of ServerLifecycle: one error or warning from  *)
(* the pipeline is enough to have a message the timed pop drops, one it   *)
(* keeps, and one the bus watch takes first.                              *)
EXTENDS ServerLifecycle, TLC

MCMaxPosts == 2
=============================================================================
