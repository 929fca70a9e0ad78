---------------------------- MODULE MC_ClientApp ----------------------------
(* Small instance of ClientApp for TLC.  One decoder texture and one frame  *)
(* are enough for the render loop to draw, reuse and skip frames; the      *)
(* lifecycle bounds MaxCmds and MaxXrEvents are set per run in the .cfg   *)
(* files, to the shortest lifecycle that reaches the case a run is about. *)
EXTENDS ClientApp, TLC

CONSTANTS t1

MCTextures == {t1}
MCBlends == {"UNSET", "ADDITIVE"}
MCMaxSeq == 1

(* The data channel is unbounded and plays no part in the lifecycle: in   *)
(* these runs a report that finds a message in flight is dropped, as   *)
(* if the connection were down, which keeps the state space finite        *)
(* without a constraint that would cut behaviours short.  Report order is *)
(* checked by MC_RemoteExperience.                                         *)
MCEmitUpMessage(m) ==
  upChan' = IF conn = "connected" /\ Len(upChan) < 1
            THEN Append(upChan, m) ELSE upChan
=============================================================================
