-------------------------- MODULE RemoteExperience --------------------------
(***************************************************************************)
(* The client's remote experience (em_remote_experience.cpp): the XR frame *)
(* loop em_remote_experience_poll_and_render_frame and its inner render,   *)
(* driven from android_main's main loop, together with the decode thread   *)
(* of the stream client (StreamClient), the data channel that carries the  *)
(* UpMessages, and the server callback that receives them                  *)
(* (data_channel_message_data_cb).                                         *)
(*                                                                         *)
(* One call of poll_and_render_frame is split where the render thread      *)
(* touches state the decode thread shares: after xrBeginFrame ("pull"),    *)
(* after try_pull_sample returned a sample ("draw"), and before xrEndFrame *)
(* ("submit").  The XR runtime's answers (xrWaitFrame failing,             *)
(* shouldRender, a failed time conversion or xrLocateSpace) are            *)
(* nondeterministic inputs.                                                *)
(***************************************************************************)
EXTENDS StreamClient, Sequences

VARIABLES
  phase,      \* where the render thread is in poll_and_render_frame
  prResult,   \* EmPollRenderResult of the current/last call
  pulled,     \* the sample try_pull_sample returned in this call
  prev,       \* exp->prev_sample: the sample held since the last NEW frame
  viewPose,   \* projectionViews[i].pose of this call (0: zero-initialised)
  swapImage,  \* frame drawn into the swapchain image last released (0: none)
  blend,      \* the passthrough policy's blend mode
  submitted,  \* projection layer given to the last xrEndFrame
  conn,       \* EmConnection state
  upChan,     \* UpMessages in flight on the ordered, reliable data channel
  serverLastFrame \* frame_sequence_id of the last frame report the server got

vars == <<free, ready, nextSeq, scStopped, phase, prResult, pulled, prev,
          viewPose, swapImage, blend, submitted, conn, upChan, serverLastFrame>>

Phases == {"idle", "pull", "draw", "submit", "destroyed"}
Results == {"NONE", "ERROR_WAITFRAME", "ERROR_EGL", "SHOULD_NOT_RENDER",
            "NO_SAMPLE", "REUSED", "NEW"}
UpMessage == [kind : {"tracking", "frame"}, seq : 0..MaxSeq]

ASSUME RemoteExperienceAssumption == "ADDITIVE" \in Blends

(***************************************************************************)
(* The state after em_remote_experience_new and em_connection_connect:     *)
(* no sample held, passthrough started in ADDITIVE mode, connecting.       *)
(***************************************************************************)
Init ==
  /\ SCInit
  /\ phase = "idle"
  /\ prResult = "NONE"
  /\ pulled = NoSample
  /\ prev = NoSample
  /\ viewPose = 0
  /\ swapImage = 0
  /\ blend = "ADDITIVE"
  /\ submitted = [result |-> "NONE", pose |-> 0, image |-> 0]
  /\ conn = "connecting"
  /\ upChan = << >>
  /\ serverLastFrame = 0

(* em_remote_experience_emit_upmessage: best effort, dropped when the     *)
(* connection is down (em_connection_send_bytes fails).                   *)
EmitUpMessage(m) ==
  upChan' = IF conn = "connected" THEN Append(upChan, m) ELSE upChan

(***************************************************************************)
(* xrWaitFrame and xrBeginFrame succeed, beginTime and the views are       *)
(* obtained and the EGL context is current; the frame goes on to the inner *)
(* render if the runtime says shouldRender, else straight to xrEndFrame    *)
(* with no layers.  projectionViews is a fresh zero-initialised array.     *)
(***************************************************************************)
BeginFrame ==
  /\ phase = "idle"
  /\ \E shouldRender \in BOOLEAN :
       /\ phase' = IF shouldRender THEN "pull" ELSE "submit"
       /\ prResult' = IF shouldRender THEN "NONE" ELSE "SHOULD_NOT_RENDER"
  /\ viewPose' = 0
  /\ UNCHANGED <<free, ready, nextSeq, scStopped, pulled, prev, swapImage,
                 blend, submitted, conn, upChan, serverLastFrame>>

(***************************************************************************)
(* The call returns early: xrWaitFrame failed, or after xrBeginFrame       *)
(* clock_gettime or xrLocateViews failed, or the EGL context could not be  *)
(* made current.  No xrEndFrame and no pose report follow.                 *)
(***************************************************************************)
FrameSkipped ==
  /\ phase = "idle"
  /\ \E r \in {"ERROR_WAITFRAME", "SHOULD_NOT_RENDER", "ERROR_EGL"} :
       prResult' = r
  /\ UNCHANGED <<free, ready, nextSeq, scStopped, phase, pulled, prev,
                 viewPose, swapImage, blend, submitted, conn, upChan,
                 serverLastFrame>>

(* try_pull_sample returned none: freeze-frame if a sample is held.       *)
PullNone ==
  /\ phase = "pull"
  /\ ready = NoSample
  /\ prResult' = IF prev = NoSample THEN "NO_SAMPLE" ELSE "REUSED"
  /\ phase' = "submit"
  /\ UNCHANGED <<free, ready, nextSeq, scStopped, pulled, prev, viewPose,
                 swapImage, blend, submitted, conn, upChan, serverLastFrame>>

(* Mutant of PullSample: the "no sample" early return is dropped, so an   *)
(* empty slot is taken for a new sample.                                   *)
PullSampleNoCheck ==
  /\ phase = "pull"
  /\ TryPull
  /\ pulled' = ready
  /\ phase' = "draw"
  /\ UNCHANGED <<prResult, prev, viewPose, swapImage, blend, submitted, conn,
                 upChan, serverLastFrame>>

(* try_pull_sample returned a new sample.                                 *)
PullSample ==
  /\ phase = "pull"
  /\ ready # NoSample
  /\ TryPull
  /\ pulled' = ready
  /\ phase' = "draw"
  /\ UNCHANGED <<prResult, prev, viewPose, swapImage, blend, submitted, conn,
                 upChan, serverLastFrame>>

(* report_frame_timing: dropped when a time conversion fails.             *)
ReportFrameTiming(n) ==
  \/ EmitUpMessage([kind |-> "frame", seq |-> n])
  \/ UNCHANGED upChan

(***************************************************************************)
(* The rest of the inner render for a new sample: adopt its blend mode     *)
(* unless UNSET, take its poses, draw its texture into the acquired        *)
(* swapchain image and release the image, release the previously held     *)
(* sample and hold this one, then send the frame-timing report.            *)
(***************************************************************************)
(* Mutant of DrawSample: the previously held sample is never released.   *)
DrawSampleNoRelease ==
  /\ phase = "draw"
  /\ blend' = IF pulled.blend # "UNSET" THEN pulled.blend ELSE blend
  /\ viewPose' = pulled.seq
  /\ swapImage' = pulled.seq
  /\ free' = free
  /\ prev' = pulled
  /\ pulled' = NoSample
  /\ ReportFrameTiming(pulled.seq)
  /\ prResult' = "NEW"
  /\ phase' = "submit"
  /\ UNCHANGED <<ready, nextSeq, scStopped, submitted, conn, serverLastFrame>>

(* Mutant of DrawSample: the "env_blend_mode != 0" guard is dropped.      *)
DrawSampleAdoptsUnset ==
  /\ phase = "draw"
  /\ blend' = pulled.blend
  /\ viewPose' = pulled.seq
  /\ swapImage' = pulled.seq
  /\ ReleaseSample(prev)
  /\ prev' = pulled
  /\ pulled' = NoSample
  /\ ReportFrameTiming(pulled.seq)
  /\ prResult' = "NEW"
  /\ phase' = "submit"
  /\ UNCHANGED <<ready, nextSeq, scStopped, submitted, conn, serverLastFrame>>

(* Mutant of DrawSample: the frame report names the sample held before    *)
(* the swap instead of the one just drawn.                                 *)
DrawSampleReportsPrev ==
  /\ phase = "draw"
  /\ blend' = IF pulled.blend # "UNSET" THEN pulled.blend ELSE blend
  /\ viewPose' = pulled.seq
  /\ swapImage' = pulled.seq
  /\ ReleaseSample(prev)
  /\ prev' = pulled
  /\ pulled' = NoSample
  /\ ReportFrameTiming(prev.seq)
  /\ prResult' = "NEW"
  /\ phase' = "submit"
  /\ UNCHANGED <<ready, nextSeq, scStopped, submitted, conn, serverLastFrame>>

DrawSample ==
  /\ phase = "draw"
  /\ blend' = IF pulled.blend # "UNSET" THEN pulled.blend ELSE blend
  /\ viewPose' = pulled.seq
  /\ swapImage' = pulled.seq
  /\ ReleaseSample(prev)
  /\ prev' = pulled
  /\ pulled' = NoSample
  /\ ReportFrameTiming(pulled.seq)
  /\ prResult' = "NEW"
  /\ phase' = "submit"
  /\ UNCHANGED <<ready, nextSeq, scStopped, submitted, conn, serverLastFrame>>

(* em_poll_render_result_include_layer                                    *)
IncludeLayer(r) == r \in {"NEW", "REUSED"}

(* em_remote_experience_report_pose: an UpMessage{tracking} with the HMD  *)
(* pose, unless xrLocateSpace fails.                                      *)
ReportPose ==
  \/ EmitUpMessage([kind |-> "tracking", seq |-> 0])
  \/ UNCHANGED upChan

(***************************************************************************)
(* xrEndFrame with the projection layer if the inner render produced one,  *)
(* release of the EGL context, then report_pose.                           *)
(***************************************************************************)
EndFrame ==
  /\ phase = "submit"
  /\ submitted' = IF IncludeLayer(prResult)
                  THEN [result |-> prResult, pose |-> viewPose, image |-> swapImage]
                  ELSE [result |-> prResult, pose |-> 0, image |-> 0]
  /\ ReportPose
  /\ phase' = "idle"
  /\ UNCHANGED <<free, ready, nextSeq, scStopped, prResult, pulled, prev,
                 viewPose, swapImage, blend, conn, serverLastFrame>>

(* The decode thread, while the connection carries the stream.            *)
DecodeFrame ==
  /\ conn = "connected"
  /\ Decode
  /\ UNCHANGED <<phase, prResult, pulled, prev, viewPose, swapImage, blend,
                 submitted, conn, upChan, serverLastFrame>>

(* The connection's "connected" signal.                                   *)
Connected ==
  /\ conn = "connecting"
  /\ conn' = "connected"
  /\ UNCHANGED <<free, ready, nextSeq, scStopped, phase, prResult, pulled,
                 prev, viewPose, swapImage, blend, submitted, upChan,
                 serverLastFrame>>

(* em_connection_disconnect from the main loop (APP_CMD_STOP or           *)
(* APP_CMD_TERM_WINDOW), between two frames.                              *)
Disconnect ==
  /\ phase = "idle"
  /\ conn' = "disconnected"
  /\ Flush
  /\ UNCHANGED <<phase, prResult, pulled, prev, viewPose, swapImage, blend,
                 submitted, upChan, serverLastFrame>>

(***************************************************************************)
(* em_remote_experience_destroy after the main loop: dispose stops the     *)
(* stream client, releases the held sample, disconnects, and destroys the  *)
(* stream client, which takes back the texture of an unconsumed sample.    *)
(***************************************************************************)
Destroy ==
  /\ phase = "idle"
  /\ scStopped' = TRUE
  /\ free' = free \cup Held(prev) \cup Held(ready)
  /\ prev' = NoSample
  /\ ready' = NoSample
  /\ conn' = "disconnected"
  /\ phase' = "destroyed"
  /\ UNCHANGED <<nextSeq, prResult, pulled, viewPose, swapImage, blend,
                 submitted, upChan, serverLastFrame>>

(* data_channel_message_data_cb on the server: decode the next UpMessage  *)
(* and hand it to the tracking callback.                                  *)
ServerReceive ==
  /\ upChan # << >>
  /\ upChan' = Tail(upChan)
  /\ serverLastFrame' = IF Head(upChan).kind = "frame"
                        THEN Head(upChan).seq ELSE serverLastFrame
  /\ UNCHANGED <<free, ready, nextSeq, scStopped, phase, prResult, pulled,
                 prev, viewPose, swapImage, blend, submitted, conn>>

(* After destroy and once the server has drained the channel nothing more *)
(* happens: the process detaches and returns from android_main.            *)
Terminated ==
  /\ phase = "destroyed"
  /\ upChan = << >>
  /\ UNCHANGED vars

Next ==
  \/ BeginFrame \/ FrameSkipped \/ PullNone \/ PullSample \/ DrawSample
  \/ EndFrame \/ DecodeFrame \/ Connected \/ Disconnect \/ Destroy
  \/ ServerReceive
  \/ Terminated

Spec == Init /\ [][Next]_vars

-----------------------------------------------------------------------------
TypeOK ==
  /\ free \subseteq Textures
  /\ ready \in OptSample
  /\ nextSeq \in 1..MaxSeq + 1
  /\ scStopped \in BOOLEAN
  /\ phase \in Phases
  /\ prResult \in Results
  /\ pulled \in OptSample
  /\ prev \in OptSample
  /\ viewPose \in 0..MaxSeq
  /\ swapImage \in 0..MaxSeq
  /\ blend \in Blends \ {"UNSET"}
  /\ submitted \in [result : Results, pose : 0..MaxSeq, image : 0..MaxSeq]
  /\ conn \in {"connecting", "connected", "disconnected"}
  /\ upChan \in Seq(UpMessage)
  /\ serverLastFrame \in 0..MaxSeq

(***************************************************************************)
(* Every decoder texture is in exactly one place: the decoder's pool, the  *)
(* ready slot, the sample the render thread just pulled, or the held       *)
(* prev_sample.  A texture in none of them was leaked (never released); a  *)
(* texture in two was released while still referenced, or handed out      *)
(* twice (spec section 3: released exactly once; at most one current).     *)
(***************************************************************************)
TexturesPartitioned ==
  /\ \A t \in Textures :
       t \in free \cup Held(ready) \cup Held(pulled) \cup Held(prev)
  /\ free \cap (Held(ready) \cup Held(pulled) \cup Held(prev)) = {}
  /\ Held(ready) \cap (Held(pulled) \cup Held(prev)) = {}
  /\ Held(pulled) \cap Held(prev) = {}

(***************************************************************************)
(* The frame-timing reports the server receives name strictly increasing   *)
(* frame_sequence_ids (spec property 1 at the end of the loop, scenario    *)
(* S1): each report in flight is newer than the last one received and      *)
(* than every report ahead of it on the channel.  A frame reported twice,  *)
(* or a stale sample drawn after a newer one, breaks it.                   *)
(***************************************************************************)
FrameReportsIncrease ==
  \A i \in 1..Len(upChan) :
    upChan[i].kind = "frame" =>
      /\ upChan[i].seq > serverLastFrame
      /\ \A j \in 1..i - 1 :
           upChan[j].kind = "frame" => upChan[j].seq < upChan[i].seq

(***************************************************************************)
(* Freeze-frame (spec property 7): a frame that recomposites the held      *)
(* sample (REUSED_SAMPLE) submits it with the poses that sample was        *)
(* rendered for, i.e. the poses of the image the swapchain shows.          *)
(***************************************************************************)
FreezeFrameReusesPoses ==
  submitted.result = "REUSED" => submitted.pose = submitted.image

-----------------------------------------------------------------------------
(***************************************************************************)
(* The refinement mapping onto SampleHandOff.  The renderer has checked    *)
(* out every texture the decoder does not own (neither in its pool nor in  *)
(* the ready slot): a leaked texture therefore stays checked out.  The     *)
(* newest checked-out sample is the pulled one while drawing, else the     *)
(* held prev_sample.                                                       *)
(***************************************************************************)
handOffOut == Textures \ (free \cup Held(ready))
handOffNewest == IF pulled # NoSample THEN pulled.seq ELSE prev.seq

HandOff == INSTANCE SampleHandOff
             WITH out <- handOffOut, newest <- handOffNewest,
                  open <- phase # "destroyed"

(***************************************************************************)
(* The render loop and the stream client implement the hand-off contract:  *)
(* try_pull_sample checks out a sample strictly newer than the held one    *)
(* while holding at most that one, the inner render releases the old       *)
(* prev_sample, and dispose gives every texture back.                      *)
(***************************************************************************)
ImplementsHandOff == HandOff!Spec
=============================================================================
