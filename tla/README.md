# Formal models of electric-maple

This directory holds TLA+ models of the electric-maple remote-rendering
pipeline. It contains the modules, the TLC configurations that model-check
them, and TLAPS proofs. `PROJECT.json` lists the following:

- every component, and whether it is modelled;
- every run, with its expected outcome;
- the mutants that show each checked property can fail;
- the map from each definition to the source lines it translates;
- the findings, the hazards and the proved theorems.

## 1. The system

There are two processes: a server that renders and streams, and an Android
OpenXR client that displays the stream and reports back.

| # | Component | Source | Runs on |
|---|---|---|---|
| C1 | FrameMeta / UpMessage codec (protobuf) | generated, not in `src/` | both |
| C2 | RTP extension stamper: `webrtcbin_srcpad_probe`, `ems_gstreamer_pipeline_set_down_msg` | `src/server/src/ems/gst/ems_gstreamer_pipeline.c` | server streaming thread / compositor thread |
| C3+C4 | Signaling bridge and per-client webrtcbin: `webrtc_client_connected_cb`, `on_offer_created`, `webrtc_sdp_answer_cb`, `webrtc_candidate_cb`, `webrtc_client_disconnected_cb`, the `data_channel_*` callbacks | same file | signaling / GLib main loop thread |
| C5 | Stream client (`em_stream_client_*`) | not in `src/` (spec 4.5) | client decode thread |
| C6 | Remote experience: `em_remote_experience_poll_and_render_frame`, the inner render, `report_pose`, `report_frame_timing`, `dispose` | `src/unnamed/part_000` lines 553-1138 | client render thread |
| — | `android_main`, `poll_events`, `onAppCmd` (Android lifecycle, OpenXR session events) | `src/unnamed/part_000` lines 1-540 | client render thread |
| C7 | Connection (`em_connection_*`) | not in `src/` | client |
| C8 | Swapchain buffer mapper (`GLSwapchain`) | not in `src/` | client |
| C9 | Passthrough policy (`em::Passthrough`) | not in `src/` | client |
| — | Pluto controller device | `src/unnamed/part_001` | server (Monado) |

How the components interact:

- **Server to client.**
  1. The server's compositor publishes the current DownMessage with `set_down_msg`.
  2. The stamper probe copies it into a two-byte RTP header extension on every marker packet.
  3. On the client, the decode thread pairs each decoded texture with its FrameMeta.
  4. The decode thread publishes the pair as a Sample in a one-deep ready slot.
- **Client render thread.** Each call of `poll_and_render_frame`:
  1. waits for, and begins, an XR frame;
  2. pulls the ready Sample, if there is one;
  3. draws its texture into the swapchain;
  4. releases the previously held Sample and keeps the new one as `prev_sample`;
  5. ends the frame;
  6. sends an `UpMessage{tracking}`, and for a new sample also an `UpMessage{frame}`.
- **Client to server.** The UpMessages travel on the ordered, reliable data channel to the server's `data_channel_message_data_cb`.
- **Lifecycle events.**
  - Android lifecycle events (`APP_CMD_STOP`, `APP_CMD_TERM_WINDOW`) disconnect the connection between frames.
  - `destroyRequested` is meant to end the main loop, after which `em_remote_experience_destroy` tears everything down; the run `client_destroy` shows that the loop never gets there.

What makes the system hard:

- Two client threads share the texture pool and the ready slot.
- On the server, the streaming thread shares a heap buffer with the producer of
  DownMessages.
- On the server, every client connection writes to the same single-slot fields of
  `struct ems_gstreamer_pipeline`: the data channel pointer and the timer id.
- Many early returns in the frame loop skip some of the steps.
- Teardown happens in several places.

## 2. Modules

### StreamClient (C5, spec-modelled)
The code of `em_stream_client` is not in this repository. Every definition here
is taken from spec section 4.5 and marked `spec_modelled` in the map.

State:

| Variable | Meaning |
|---|---|
| `free` | the decoder's pool of textures |
| `ready` | the one-deep ready slot |
| `nextSeq` | the lowest `frame_sequence_id` the server may still deliver |
| `scStopped` | whether `em_stream_client_stop` has returned |

Operations:

| Operation | What it does |
|---|---|
| `Decode` | A frame takes a pool texture and displaces the unconsumed sample, whose texture goes back to the pool. Sequence ids may have gaps but never repeat. |
| `TryPull` | Empties the slot. |
| `ReleaseSample` | Returns a texture to the pool. |
| `Flush` | The pipeline is torn down on disconnect (scenario S4). |

A Sample is abstracted as follows:

- it is a record of a texture, a sequence id and a blend mode;
- its poses are represented by the sequence id of the frame they were rendered for;
- 0 stands for the all-zero pose.

### RemoteExperience (C6, the core)
One call of `em_remote_experience_poll_and_render_frame` is split into
actions. The splits fall where the render thread touches state that the decode
thread shares. `phase` records where the render thread is.

| Action | Code |
|---|---|
| `BeginFrame` | xrWaitFrame and xrBeginFrame succeed; `shouldRender` chooses the inner render or an empty submit; `projectionViews` is fresh (pose 0) |
| `FrameSkipped` | the early returns: xrWaitFrame fails, clock_gettime or xrLocateViews fails, the EGL context cannot be made current |
| `PullNone` | `try_pull_sample` returns none: REUSED_SAMPLE or NO_SAMPLE |
| `PullSample` | `try_pull_sample` returns the ready sample |
| `DrawSample` | the rest of the inner render: blend mode, poses, draw, release of `prev_sample`, adoption, `report_frame_timing` |
| `EndFrame` | xrEndFrame with or without the projection layer (`em_poll_render_result_include_layer`), then `report_pose` |
| `DecodeFrame` | the decode thread, while connected |
| `Connected` | `connected_cb` |
| `Disconnect` | `onAppCmd` for APP_CMD_STOP / TERM_WINDOW, between frames |
| `Destroy` | `em_remote_experience_destroy` / `dispose` after the main loop |
| `ServerReceive` | the server's `data_channel_message_data_cb` takes the head of the channel |
| `Terminated` | the stutter after the process has cleaned up and the channel has drained |

The XR runtime's answers are nondeterministic choices:

- whether `shouldRender` is set;
- which early return fails;
- whether a time conversion or `xrLocateSpace` fails.

Two kinds of UpMessage are kept: `tracking`, and `frame` with its sequence id.
`up_message_id` is layout that no property compares, so it is left out.

### MC_RemoteExperience
The model-checking instance:

- textures `{t1, t2, t3}` are model values, and the symmetry set permutes them;
- the blend modes are `{UNSET, ADDITIVE, ALPHA_BLEND}`;
- `MaxSeq = 4`;
- the state constraint `Len(upChan) <= 3` bounds the channel.

Three textures are enough to fill every place a texture can be at the same time:
the ready slot, the pulled sample and `prev_sample`. The pool is then empty, and
a decode must wait.

Four frames are enough to have the following happen in one behaviour:

- a displaced frame;
- a dropped frame report;
- a reused frame;
- a disconnect.

The channel bound of 3 lets a tracking message, a frame report and a second
frame report be in flight together.

### ServerPipeline (C2, C3, C4)
Each GStreamer or signaling callback is one atomic action. The exception is
`webrtcbin_srcpad_probe`, which runs on the streaming thread while
`set_down_msg` runs on the compositor thread. The probe is therefore split
into two steps:

- `ProbeRead` reads the `egp->downMsg_bytes` pointer;
- `ProbeStamp` copies from it into the RTP header.

A DownMessage buffer is a number `1..MaxMsgs`, and `NULL` is 0. `freed` holds the
buffers that `g_bytes_unref` has released. Every callback touches only the
client it names, except through the single-slot fields of the pipeline.

| Variable | Meaning |
|---|---|
| `sig[c]` | the signaling state: none, connected, disconnected |
| `bin[c]` | the client's webrtcbin: none, offering (before `on_offer_created`), linked to the tee, blocking (the removal probe is installed), removed |
| `answered[c]` | whether `webrtc_sdp_answer_cb` has set the remote description |
| `dc[c]` | the data channel: none, created, open, closed |
| `binHoldsDC[c]`, `egpRefs` | the references that keep a channel alive: its webrtcbin's, and the one taken in `g_object_ref` when `egp->data_channel` is set |
| `dcSlot`, `timerSlot`, `timers` | `egp->data_channel`, `egp->timeout_src_id`, and the clients whose send timer is active |
| `probes` | the number of stamper probes on rtppay's src pad |
| `downMsg`, `freed` | `egp->downMsg_bytes`, and the buffers already released |
| `stream`, `pi`, `marker`, `held`, `stamps` | the packet in flight: which probe runs next, its marker bit, the pointer a probe has read, the extension elements added |

`Finalised(c)` says a channel was created and has lost both of its references.
`FairSpec` adds weak fairness on `OfferCreated` and `RemovePeer`. Both are
callbacks that GStreamer delivers once they are scheduled: the reply to
`create-offer`, and the pad probe that fires when `sink_0` blocks.

### MC_ServerPipeline
- Clients are model values. The passing run has one client; the run about the
  shared slots needs two.
- `MaxMsgs = 2`: a first DownMessage, and a second one whose `set_down_msg`
  frees the first.

`Candidate(c)` models `webrtc_candidate_cb`: a non-empty remote candidate is
added to the client's webrtcbin, which `get_webrtcbin_for_client` finds by
name. `DataChannelOpen` now needs both the answer and a candidate.

### SampleHandOff (abstract) and the refinement
`SampleHandOff` says what the stream client and the render loop promise each
other, without threads, the ready slot or the XR frame:

- a texture is either the decoder's or checked out to the renderer (`out`);
- the renderer checks out a sample only while it holds at most one other;
- each checked-out sample is newer than all before it (`newest` grows);
- a texture goes back only when the renderer releases it;
- `Close` gives everything back.

`RemoteExperience` defines the refinement mapping:

- `out` is every texture outside the pool and the ready slot;
- `newest` is the pulled sample's id while drawing, else `prev_sample`'s id;
- `open` is `phase # "destroyed"`.

`ImplementsHandOff == HandOff!Spec` is checked by the `remote_experience` run
and proved in `HandOffRefinement`.

### ClientApp (android_main, poll_events, onAppCmd)
`ClientApp` extends `RemoteExperience` and adds the Android app thread around
the frame steps.

| Variable | Meaning |
|---|---|
| `loop` | where `android_main`'s loop is: top, the Android poll, the XR event poll, inside the frame call, exited |
| `cmd` | the one pending APP_CMD; the glue's activity thread waits until each is processed, so there is at most one |
| `window`, `activity`, `destroyRequested` | what the glue's pre- and post-exec record |
| `sessionState`, `running` | `state.sessionState`, and whether the runtime's session runs: an `xrBeginSession` succeeded and no `xrEndSession` has succeeded since |
| `xrCall` | the session call (`begin`, `end`, none) `poll_events` made for the last event it handled; an auxiliary variable, the code keeps no record |
| `rtState`, `xrEvents` | the runtime's session state and its queue of state-change events |
| `frameOpen` | `xrBeginFrame` succeeded and `xrEndFrame` has not run |

| Action | Code |
|---|---|
| `LoopTop` | the `while (!app->destroyRequested)` test |
| `PollAndroid` | one pass of the ALooper loop in `poll_events`: wait with -1 unless the app is in the foreground, process a command through the glue and `onAppCmd`, and leave the loop when the timeout was 0 |
| `PollXrEvent` | one `xrPollEvent` with a session-state event: READY calls `xrBeginSession`, STOPPING calls `xrEndSession`, the rest only log (`SessionCall`). Either call may fail (`CallOutcomes`): a failed `xrBeginSession` is only logged and an `xrEndSession` result is ignored, and neither is retried |
| `XrPollDone` | the queue is empty: return false below READY, else render |
| `FrameStep` | one step of `poll_and_render_frame` from `RemoteExperience`, with `frameOpen` following `xrBeginFrame` and `xrEndFrame` |
| `SendCmd`, `RuntimeStep` | the Android glue and the OpenXR runtime (not under `src/`, modelled from the spec and the OpenXR state machine). The runtime follows the lifecycle (`RtTransitions`), leaves READY for SYNCHRONIZED only once the session runs and STOPPING for IDLE only once it has ended, and may lose the session (LOSS_PENDING) in any state but EXITING |
| `OtherThreads` | the decode thread, `connected_cb` and the server receiver, from `RemoteExperience` |

`APP_CMD_DESTROY` only comes after `APP_CMD_STOP`. So it is always processed
inside the blocking wait, and the loop never reaches the exit path. There is
therefore no destroy step in the app thread.

Fairness: `WF` on the app thread only. The thread runs whenever it is not
blocked. The glue and the runtime are outside events and get none.

`MC_ClientApp`:

- one texture;
- blends `{UNSET, ADDITIVE}`;
- `MaxSeq = 1`;
- a data channel that holds one message, by overriding `EmitUpMessage`.

Overriding `EmitUpMessage` bounds the channel without a state constraint,
which would cut liveness behaviours short.

The pass run has 5 commands and 6 runtime events: enough for a stop, a
resume, a full IDLE, READY, SYNCHRONIZED, STOPPING, IDLE cycle followed by a
second READY, or a session that reaches FOCUSED and falls back, each
interleaved with the Android wait. Each violation cfg uses the smallest bounds that reach
its counterexample.

### ServerLifecycle
`ServerLifecycle` models the lifecycle of the server pipeline from
`ems_gstreamer_pipeline.c`:

- **create:** the bus watch and the signaling handlers are registered with
  `egp`;
- **play:** sets the pipeline to PLAYING and starts the main loop thread;
- **stop:** sends EOS, waits with a timed pop that takes only EOS or ERROR and
  gives up after 3 s, then sets the pipeline to NULL, which flushes the bus
  (GstPipeline's `auto-flush-bus`);
- **stop_if_playing:** calls stop only when `get_state` succeeds and the
  pipeline is PLAYING;
- **the bus watch:** `gst_bus_cb` reads `egp`, and calls `g_error` on EOS;
- **a signaling handler:** dispatched with `egp`;
- **destroy:** frees `egp`.

The pipeline's posts (errors, warnings, EOS after the sinks) come from
GStreamer and are modelled from its documented behaviour.

Fairness: `WF` on the stop sequence. The caller's thread runs, and the timed
pop returns by its timeout. `MaxPosts = 2` lets an error and a warning both
reach the bus, ahead of the EOS or after it. One post is enough for an error
to race the EOS.

## 3. Runs

| Run | Expect | Properties | What it shows |
|---|---|---|---|
| `remote_experience` | pass | `TypeOK`, `TexturesPartitioned`, `FrameReportsIncrease`, `ImplementsHandOff` | About 120,000 distinct states, and every action fires. No texture is ever leaked or owned twice, across any interleaving of pull, decode, draw, disconnect and destroy. Frame reports reach the server with strictly increasing sequence ids. The render loop and the decoder implement the abstract hand-off. |
| `freeze_frame` | violation | `FreezeFrameReusesPoses` | In 9 steps, a frame is drawn. The next frame finds no new sample and returns REUSED_SAMPLE. Its projection layer carries the zero poses of a fresh `projectionViews` array, not the held sample's poses. This contradicts spec 4.6 step 7a and property 7 (finding). |
| `server_one_client` | pass | `TimerTargetsLiveChannel` | About 1,000 states. For one client, across every order of the signaling callbacks, the channel's open and close, the peer's removal, `set_down_msg` and the probe steps, the send timer never outlives its channel. The slots go wrong only when a second client overwrites them (`server_shared_slots`). |
| `server_down_msg_race` | violation | `ProbeReadsLiveBytes` | The probe reads `downMsg_bytes`, `set_down_msg` unrefs it, and the probe then copies from freed memory (finding). |
| `server_shared_slots` | violation | `TimerTargetsLiveChannel` | c1's channel opens (both slots name c1). c2 connects and overwrites `egp->data_channel` without an unref, so c1's reference leaks. c1's channel closes: it removes its own timer, but unrefs c2's channel. c2's channel then opens and arms a timer, and c2's bin is removed. Nothing references c2's channel any more, so it is finalised while its timer is still armed (finding). |
| `server_early_disconnect` | violation | `PeerRemovedAfterDisconnect` | Under the fairness above, a client disconnects before `on_offer_created`. It has no `sink_0`, so no removal probe is installed, and its bin stays linked forever (finding). |
| `client_app` | pass | `AppTypeOK`, `ReadySessionBegun`, `SessionCallsInState` | About 1,350,000 states, with both session calls free to fail and the session free to be lost in any state. `xrBeginSession` is called only while the runtime is READY, and `xrEndSession` only while it is STOPPING, except on a session the runtime has already moved to LOSS_PENDING: the queued events lag behind the runtime, and the strict form fails on READY, then LOSS_PENDING, then the begin call. A READY session in the foreground gets its `xrBeginSession` call; whether the call succeeds is the runtime's answer, and a failed one is never retried (hazard at line 154). |
| `client_destroy` | violation | `DestroyHonoured` | STOP, then DESTROY. The glue processes DESTROY inside the `-1` wait, and `poll_events` keeps waiting, so `android_main` never exits (finding). |
| `client_frame` | violation | `FrameEndedBeforeReturn` | `xrBeginFrame` succeeds, then `xrLocateViews` (or `clock_gettime` or EGL) fails. The frame call returns with the frame still open. Spec section 5 orders `xrEndFrame` before the next `xrWaitFrame`, and the failure paths skip it (finding). |
| `server_lifecycle` | pass | `LifecycleTypeOK`, `AbortOnlyAfterStop`, `StopReturns` | About 240 states, with up to two posted errors or warnings. A stop that has sent EOS always returns, whatever the bus holds. The process aborts only after a stop has sent its EOS: the pipeline's own errors and warnings are only logged. |
| `server_abort` | violation | `NeverAborts` | stop sends EOS, and the main loop's `gst_bus_cb` takes it before the timed pop does and calls `g_error` (finding). |
| `server_free` | violation | `NoCallbackAfterFree` | `stop_if_playing` and destroy free `egp`. A later bus message or signaling event then runs a callback on the freed `egp` (finding). |

Each property of a passing run has a mutant that breaks it:

- `DataChannelClose` that leaves the timer source running breaks `TimerTargetsLiveChannel`.
- `DrawSample` without the `env_blend_mode != 0` guard breaks `TypeOK`, because
  the passthrough policy is set to UNSET.
- `DrawSample` that reports the sample it held before the swap breaks
  `FrameReportsIncrease`.
- `DrawSample` that never releases `prev_sample` breaks `TexturesPartitioned`.
- `PullSample` that no longer checks `ready # NoSample`, and so pulls an empty slot, breaks `ImplementsHandOff`.
- `PollAndroid` that takes any command as the activity state breaks `AppTypeOK`.
- `PollXrEvent` without the READY case (no `xrBeginSession`) breaks `ReadySessionBegun`.
- `PollXrEvent` where FOCUSED falls through into STOPPING's `xrEndSession` breaks
  `SessionCallsInState`.
- A stop whose pop never times out breaks `StopReturns`.
- A stop that leaves the pipeline in READY breaks `LifecycleTypeOK`.
- `gst_bus_cb` whose WARNING case falls through into EOS breaks `AbortOnlyAfterStop`.

Deadlock is checked in the `RemoteExperience` and `ServerPipeline` runs. The
`ClientApp` and `ServerLifecycle` runs turn it off, because those systems
really do stop:

- the app blocks in its wait once the command bound is spent;
- the lifecycle ends after destroy.

Four divergences are recorded as hazards but have no run:

- the missing reconnect on resume;
- LOSS_PENDING and EXITING, which are only logged, and after which the loop
  still renders;
- a failed `xrBeginSession`, which is only logged and never retried;
- the second stamp with two clients. One stamper probe is installed per
  connection and none is removed, so with two clients a marker packet gets two
  FrameMeta elements. `StampsBoundedByClients` proves the general bound of one
  stamp per client ever connected.

For the first three, the code simply has no such path. The fourth is plain
from the code as soon as a second client connects.

## 4. Proofs (TLAPS)

All theorems hold for every value of the constants, under the named
assumptions of the modules that declare them:

- `NoTex` is not a texture;
- `UNSET` and `ADDITIVE` are blend modes;
- `MaxSeq`, `MaxMsgs`, `MaxCmds` and `MaxXrEvents` are natural numbers;
- `NoClient` is not a client.

**RemoteExperienceProofs**

- `TypeCorrect: Spec => []TypeOK`, from the lemmas `TypeInit` and `TypeStep`
  (one case per action).
- `TexturesNeverLeakedOrShared: Spec => []TexturesPartitioned`.
  `TexturesPartitioned` alone is not inductive. A render thread that holds a
  pulled sample outside the inner render would lose it to the next
  `PullSample`. The strengthening is
  `IInv == TypeOK /\ TexturesPartitioned /\ PulledOnlyWhileDrawing`.

**HandOffRefinement**

- `HandOffImplemented: Spec => ImplementsHandOff`. The invariant is
  `RInv == IInv /\ SeqOrdered /\ DrawingHasSample`:
  - sequence ids grow from `prev` to `pulled` to `ready`;
  - the inner render always has its sample.
- `RefinementStep` shows that every step is a `CheckOut`, a `Release`, a
  `Close` or a stutter of the abstract spec. `OutOfPartition` turns the
  partition into the mapping's `out`.

**FrameReportProofs**

- `FrameReportsIncreaseProved: Spec => []FrameReportsIncrease`. The
  strengthening is `FInv == RInv /\ FrameReportsIncrease /\ ReportsUpToPrev`.
  `ReportsUpToPrev` says that, until dispose, no frame report in flight or
  already received names a frame newer than `prev_sample`.
  - `DrawSample` reports the pulled sample, which `SeqOrdered` makes newer
    than `prev_sample`, and the pulled sample then becomes `prev_sample`.
  - The lemmas `AppendKeeps` and `TailKeeps` carry the ordering over a send
    and over the server's receive.

**ClientAppProofs**

- `SessionCallsProved: AppSpec => SessionCallsInState`. Whenever
  `poll_events` handles an event, `xrBeginSession` is called only while the
  runtime is READY or LOSS_PENDING, and `xrEndSession` only while it is
  STOPPING or LOSS_PENDING. The invariant `SessInv` says:
  - a queued READY (or STOPPING) event is followed in the queue only by
    LOSS_PENDING events (`OnlyLossAfter`);
  - while it is queued, the runtime is still READY (STOPPING) or has gone
    to LOSS_PENDING, and the session is not running (is running);
  - in IDLE and EXITING the session is not running.

  The runtime can leave READY or STOPPING only through a `xrBeginSession`
  or `xrEndSession` that the app makes, or to LOSS_PENDING. So when
  `poll_events` takes READY or STOPPING, the runtime is still in that state
  or in LOSS_PENDING. The lemmas:
  - `RuntimeStepInv` shows the runtime's step;
  - `PollXrEventInv` shows `poll_events`, with `OutcomeFacts` giving the
    effect of a call that succeeds or fails;
  - `SessionFrame` shows that every other step leaves the session alone;
  - `OnlyPollHandles` shows that only `poll_events` removes an event, so the
    property's guard picks out exactly its steps.

**ClientAppRefinement**

- `RemoteExperienceImplemented: AppSpec => Spec`. Every step of the
  composed app is a step of `RemoteExperience` or leaves its variables
  alone (`AppStepRefines`):
  - the frame steps are its frame actions;
  - `onAppCmd`'s disconnect is its `Disconnect`;
  - the other threads are its own actions;
  - the looper, the session events and the runtime leave its state alone.
  No invariant is needed, because `Disconnect` carries its own guard.
- `AppKeepsFrameLoopSafe`: under `AppSpec`, `[]TexturesPartitioned`,
  `[]FrameReportsIncrease` and `ImplementsHandOff` hold. These are the three
  `RemoteExperience` theorems, carried over through the refinement.
- `AppTypeCorrect: AppSpec => []AppTypeOK`. `TypeOK` comes through the
  refinement, the session variables from `SessInv`, and the loop's own
  variables from `LoopTypeOK`, which the command and transition bounds keep
  inductive. `XrStatesRanges` turns the ranges written with the
  `XrSessionState` enum into plain sets.

**ServerPipelineProofs**

- `ServerTypeCorrect: Spec => []TypeOK`.
- `StampsBoundedByClients`: for a finite set of clients,
  `Spec => [](Len(stamps) <= Cardinality(EverConnected))`, where
  `EverConnected` is the set of clients that have ever connected. The
  strengthening `PInv` has four parts:
  - `probes` equals the number of clients that have connected, because each
    connection adds one probe and none is removed (`FS_AddElement`);
  - the probe index never passes `probes + 1`;
  - a probe that has read the bytes has not passed `probes`;
  - a packet holds at most one stamp per probe already run.

**ServerLifecycleProofs**

- `LifecycleTypeCorrect: LifecycleSpec => []LifecycleTypeOK`. The pipeline is
  only ever NULL or PLAYING, and the bus holds only the kinds `gst_bus_cb`
  tells apart. Setting the pipeline to NULL flushes the bus, which
  `StopSetNull` models by emptying it.
- `AbortOnlyAfterStopProved: LifecycleSpec => []AbortOnlyAfterStop`. The
  strengthening `AbortInv` adds that an EOS in flight or on the bus means a
  stop has begun. The proof has three steps:
  - the stop sequence never goes back to `none`;
  - only a stop puts an EOS in flight;
  - only the bus watch aborts, and only on the EOS at the head of the bus.
  The lemmas `OnAppend`, `OnTail` and `OnHead` say which messages are on the
  bus after an append, a pop and at its head.

Every inductive invariant was checked with TLC as an invariant before it was
proved.

The following are checked by TLC only:

- **Liveness:** `ReadySessionBegun`, `StopReturns` and
  `PeerRemovedAfterDisconnect`. The installed provers do not handle ENABLED,
  and the fairness comes from the thread scheduling and GStreamer's delivery
  of scheduled callbacks.
- **The violated invariants:** `ProbeReadsLiveBytes` (a race with
  `set_down_msg` even for one client) and `TimerTargetsLiveChannel` with two
  clients. The timer claim for one client (`server_one_client`) is only
  model-checked.

## 5. Not modelled

- **C1**, because the codec is generated code.
- **C8 and C9** beyond the blend mode, because they are not in `src/` and hold
  no concurrency.
- **The Pluto controller**, because it has no concurrency and no protocol.
- **The `gst_parse_launch` string and element plumbing in create.**
  `src_event_cb` and `restart_source` are never installed by
  `ems_gstreamer_pipeline_create`, so they are dead code.
- **The NULL `downMsg_bytes` read**, which is modelled but not flagged by any
  property. `ProbeStamp` may stamp from NULL, because `extension_size` is
  uninitialised. Whether a marker packet can precede the first `set_down_msg`
  depends on the compositor, which is not in `src/`.
- **Whether the runtime needs `xrEndSession` while the app is in the
  background.** Events are polled only after the Android wait, so a STOPPING
  event waits until resume. What the runtime expects there is outside
  `src/`.
