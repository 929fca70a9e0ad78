---------------------------- MODULE StreamClient ----------------------------
(***************************************************************************)
(* The client's stream client (EmStreamClient, spec section 4.5): the      *)
(* decode thread pairs each decoded frame with the FrameMeta lifted from   *)
(* its RTP header extension and publishes it in a one-deep ready slot; the *)
(* render thread pulls it (try_pull_sample) and hands the decoder-owned    *)
(* texture back with release_sample.  The source of em_stream_client is    *)
(* not part of this repository, so every definition here is modelled from *)
(* the spec.                                                               *)
(*                                                                         *)
(* A frame's poses are abstracted to the sequence id of the frame they     *)
(* were rendered for; 0 stands for the all-zero pose.                      *)
(***************************************************************************)
EXTENDS Naturals

CONSTANTS
  Textures,  \* the decoder's output textures (model values)
  NoTex,     \* sentinel: "no texture"
  Blends,    \* env_blend_mode values carried by a FrameMeta, "UNSET" included
  MaxSeq     \* bound on frame_sequence_id: the server sends frames 1..MaxSeq

ASSUME StreamClientAssumption ==
  /\ NoTex \notin Textures
  /\ "UNSET" \in Blends
  /\ MaxSeq \in Nat

VARIABLES
  free,      \* textures owned by the decoder, available for new frames
  ready,     \* the one-deep ready slot (NoSample when empty)
  nextSeq,   \* lowest frame_sequence_id the server may still deliver
  scStopped  \* em_stream_client_stop has returned

scVars == <<free, ready, nextSeq, scStopped>>

(* A Sample: decoded texture, the frame's sequence id (and poses), blend. *)
Sample == [tex : Textures, seq : 1..MaxSeq, blend : Blends]
NoSample == [tex |-> NoTex, seq |-> 0, blend |-> "UNSET"]
OptSample == Sample \cup {NoSample}

(* The decoder texture a sample slot references, as a set of 0 or 1. *)
Held(s) == IF s.tex \in Textures THEN {s.tex} ELSE {}

SCInit ==
  /\ free = Textures
  /\ ready = NoSample
  /\ nextSeq = 1
  /\ scStopped = FALSE

(***************************************************************************)
(* The decode thread completes an Access Unit.  The sample for it takes a  *)
(* free texture and displaces the unconsumed sample in the ready slot,     *)
(* whose texture goes back to the decoder.  Lost frames leave gaps in the  *)
(* sequence ids; the server never repeats one.                             *)
(***************************************************************************)
Decode ==
  /\ ~scStopped
  /\ \E t \in free, n \in nextSeq..MaxSeq, b \in Blends :
       /\ ready' = [tex |-> t, seq |-> n, blend |-> b]
       /\ free' = (free \ {t}) \cup Held(ready)
       /\ nextSeq' = n + 1
  /\ UNCHANGED scStopped

(* em_stream_client_try_pull_sample: take the ready sample, if any.       *)
(* The caller conjoins what it does with the returned value ready.        *)
TryPull ==
  /\ ready' = NoSample
  /\ UNCHANGED <<free, nextSeq, scStopped>>

(* em_stream_client_release_sample(s): the texture returns to the pool.   *)
ReleaseSample(s) == free' = free \cup Held(s)

(* The connection went down: the pipeline is torn down and an unconsumed  *)
(* sample is dropped, so later pulls return none (spec scenario S4).      *)
Flush ==
  /\ ready' = NoSample
  /\ free' = free \cup Held(ready)
  /\ UNCHANGED <<nextSeq, scStopped>>
=============================================================================
