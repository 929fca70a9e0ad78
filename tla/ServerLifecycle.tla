--------------------------- MODULE ServerLifecycle ---------------------------
(***************************************************************************)
(* The server pipeline's lifecycle (ems_gstreamer_pipeline.c):            *)
(* ems_gstreamer_pipeline_play, _stop and _stop_if_playing on the caller's *)
(* thread, the bus watch gst_bus_cb and the signaling handlers dispatched  *)
(* by the GLib main loop thread that play starts, the pipeline's streaming *)
(* threads posting bus messages, and the frame context's destroy, which    *)
(* frees egp.                                                              *)
(*                                                                         *)
(* The bus watch and every signaling handler take egp as user data; the    *)
(* main loop is never quit, and no handler or watch is ever removed.       *)
(* The peers and the stamper are modelled in ServerPipeline; here a        *)
(* signaling event stands for any of their handlers.                       *)
(***************************************************************************)
EXTENDS Naturals, Sequences

CONSTANT MaxPosts  \* bound on the errors and warnings the pipeline posts

ASSUME ServerLifecycleAssumption == MaxPosts \in Nat

(* The bus messages the model tells apart; STATE is a state-changed       *)
(* message, which gst_bus_cb passes to its default case.                  *)
BusMsgs == {"EOS", "ERROR", "WARNING", "STATE"}

VARIABLES
  pstate,   \* the pipeline's GstState: NULL or PLAYING
  played,   \* play has run: the main loop thread dispatches the default context
  bus,      \* messages on the pipeline's bus, oldest first
  posts,    \* errors and warnings posted so far
  eosSent,  \* stop's EOS event is travelling to the sinks
  stopPc,   \* the caller in stop: none, wait (timed pop), null, done
  egpFreed, \* destroy has freed egp
  aborted,  \* g_error was called: the process aborted
  uaf       \* a callback dereferenced egp after it was freed

lcVars == <<pstate, played, bus, posts, eosSent, stopPc, egpFreed, aborted,
            uaf>>

(***************************************************************************)
(* After ems_gstreamer_pipeline_create: the pipeline is parsed and in      *)
(* NULL, the bus watch is added with egp, and the disconnected, answer and *)
(* candidate handlers are connected; no main loop runs yet.                *)
(***************************************************************************)
LifecycleInit ==
  /\ pstate = "NULL"
  /\ played = FALSE
  /\ bus = << >>
  /\ posts = 0
  /\ eosSent = FALSE
  /\ stopPc = "none"
  /\ egpFreed = FALSE
  /\ aborted = FALSE
  /\ uaf = FALSE

(* ems_gstreamer_pipeline_play: set PLAYING (asserted to succeed, a        *)
(* state-changed message is posted), connect ws-client-connected, and      *)
(* start the thread that runs the main loop.                               *)
Play ==
  /\ ~played
  /\ stopPc = "none"
  /\ pstate' = "PLAYING"
  /\ bus' = Append(bus, "STATE")
  /\ played' = TRUE
  /\ UNCHANGED <<posts, eosSent, stopPc, egpFreed, aborted, uaf>>

(* A streaming thread posts an error or a warning.                        *)
PipelinePost ==
  /\ pstate = "PLAYING"
  /\ posts < MaxPosts
  /\ \E m \in {"ERROR", "WARNING"} : bus' = Append(bus, m)
  /\ posts' = posts + 1
  /\ UNCHANGED <<pstate, played, eosSent, stopPc, egpFreed, aborted, uaf>>

(* The EOS event has reached every sink: the bin posts EOS.  With no      *)
(* client connected there is no sink, and this never happens.             *)
PostEos ==
  /\ eosSent
  /\ pstate = "PLAYING"
  /\ bus' = Append(bus, "EOS")
  /\ eosSent' = FALSE
  /\ UNCHANGED <<pstate, played, posts, stopPc, egpFreed, aborted, uaf>>

(* Mutant of BusWatch: the WARNING case has no break and falls through   *)
(* into the EOS case's g_error.                                           *)
BusWatchWarningFallsThrough ==
  /\ played
  /\ bus # << >>
  /\ bus' = Tail(bus)
  /\ uaf' = (uaf \/ egpFreed)
  /\ aborted' = (Head(bus) \in {"WARNING", "EOS"})
  /\ UNCHANGED <<pstate, played, posts, eosSent, stopPc, egpFreed>>

(***************************************************************************)
(* gst_bus_cb on the main loop thread, for the oldest message: it reads    *)
(* egp->base.pipeline first, whatever the message; an error or a warning  *)
(* is logged, and EOS calls g_error, which aborts the process.            *)
(***************************************************************************)
BusWatch ==
  /\ played
  /\ bus # << >>
  /\ bus' = Tail(bus)
  /\ uaf' = (uaf \/ egpFreed)
  /\ aborted' = (Head(bus) = "EOS")
  /\ UNCHANGED <<pstate, played, posts, eosSent, stopPc, egpFreed>>

(* A signaling handler (client connected or disconnected, SDP answer,     *)
(* ICE candidate) runs on the main loop thread with egp as user data.     *)
SignalingEvent ==
  /\ played
  /\ uaf' = (uaf \/ egpFreed)
  /\ UNCHANGED <<pstate, played, bus, posts, eosSent, stopPc, egpFreed,
                 aborted>>

(***************************************************************************)
(* ems_gstreamer_pipeline_stop_if_playing: gst_element_get_state with a    *)
(* 3 s timeout; if it does not report success, log and return; if the      *)
(* pipeline is PLAYING, stop it (first step of stop: send EOS).            *)
(***************************************************************************)
SendEos ==
  /\ eosSent' = TRUE
  /\ stopPc' = "wait"

StopIfPlaying ==
  /\ stopPc = "none"
  /\ \E gotState \in BOOLEAN :
       IF gotState /\ pstate = "PLAYING"
       THEN SendEos
       ELSE stopPc' = "done" /\ UNCHANGED eosSent
  /\ UNCHANGED <<pstate, played, bus, posts, egpFreed, aborted, uaf>>

(* ems_gstreamer_pipeline_stop called directly: send EOS.                 *)
Stop ==
  /\ stopPc = "none"
  /\ SendEos
  /\ UNCHANGED <<pstate, played, bus, posts, egpFreed, aborted, uaf>>

(***************************************************************************)
(* gst_bus_timed_pop_filtered(EOS | ERROR): takes the oldest message;      *)
(* one that does not match the filter is dropped and the wait goes on.     *)
(* The result is not looked at.                                            *)
(***************************************************************************)
StopPop ==
  /\ stopPc = "wait"
  /\ bus # << >>
  /\ bus' = Tail(bus)
  /\ stopPc' = IF Head(bus) \in {"EOS", "ERROR"} THEN "null" ELSE "wait"
  /\ UNCHANGED <<pstate, played, posts, eosSent, egpFreed, aborted, uaf>>

(* Mutant of StopTimeout: the pop waits with GST_CLOCK_TIME_NONE.        *)
StopTimeoutNever == FALSE

(* The 3 s of the timed pop run out.                                      *)
StopTimeout ==
  /\ stopPc = "wait"
  /\ stopPc' = "null"
  /\ UNCHANGED <<pstate, played, bus, posts, eosSent, egpFreed, aborted, uaf>>

(* Mutant of StopSetNull: the pipeline is taken down to READY only.      *)
StopSetNullToReady ==
  /\ stopPc = "null"
  /\ pstate' = "READY"
  /\ eosSent' = FALSE
  /\ bus' = IF pstate = "PLAYING" THEN Append(bus, "STATE") ELSE bus
  /\ stopPc' = "done"
  /\ UNCHANGED <<played, posts, egpFreed, aborted, uaf>>

(* Set the pipeline to NULL: data flow stops, and on READY to NULL the     *)
(* pipeline flushes its bus (auto-flush-bus), dropping what is queued,     *)
(* the state changes of the way down included.                            *)
StopSetNull ==
  /\ stopPc = "null"
  /\ pstate' = "NULL"
  /\ eosSent' = FALSE
  /\ bus' = << >>
  /\ stopPc' = "done"
  /\ UNCHANGED <<played, posts, egpFreed, aborted, uaf>>

(***************************************************************************)
(* Frame context teardown after the stop: break_apart does nothing and     *)
(* destroy frees egp.  The pipeline, its bus watch and the handlers on the *)
(* global signaling server are left in place.                              *)
(***************************************************************************)
Destroy ==
  /\ stopPc = "done"
  /\ ~egpFreed
  /\ egpFreed' = TRUE
  /\ UNCHANGED <<pstate, played, bus, posts, eosSent, stopPc, aborted, uaf>>

(* The steps of the thread that owns the pipeline (the compositor).      *)
Caller == Play \/ StopIfPlaying \/ Stop \/ StopPop \/ StopTimeout
          \/ StopSetNull \/ Destroy

(* Nothing runs once the process has aborted.                             *)
LifecycleNext ==
  /\ ~aborted
  /\ \/ Caller
     \/ PipelinePost \/ PostEos
     \/ BusWatch \/ SignalingEvent

(***************************************************************************)
(* The caller's thread and the main loop thread run when they have         *)
(* something to do, and the timed pop returns after 3 s: weak fairness on  *)
(* the stop sequence.  Posting and signaling come from outside and get    *)
(* none.                                                                   *)
(***************************************************************************)
LifecycleSpec ==
  /\ LifecycleInit
  /\ [][LifecycleNext]_lcVars
  /\ WF_lcVars(~aborted /\ (StopPop \/ StopTimeout \/ StopSetNull))

-----------------------------------------------------------------------------
LifecycleTypeOK ==
  /\ pstate \in {"NULL", "PLAYING"}
  /\ played \in BOOLEAN
  /\ bus \in Seq(BusMsgs)
  /\ posts \in 0..MaxPosts
  /\ eosSent \in BOOLEAN
  /\ stopPc \in {"none", "wait", "null", "done"}
  /\ egpFreed \in BOOLEAN
  /\ aborted \in BOOLEAN
  /\ uaf \in BOOLEAN

(***************************************************************************)
(* A stop that has sent its EOS returns, whether or not an EOS or an error *)
(* ever reaches the bus: the timed pop gives up after 3 s.                 *)
(***************************************************************************)
StopReturns == stopPc = "wait" ~> (stopPc = "done" \/ aborted)

(***************************************************************************)
(* Spec section 6, media pipeline errors: bus errors and EOS are logged    *)
(* (and a source EOS restarts the source); the server process carries on. *)
(* No bus message aborts it.                                               *)
(***************************************************************************)
NeverAborts == ~aborted

(***************************************************************************)
(* The errors and warnings the streaming threads post are only logged by   *)
(* gst_bus_cb: the process can abort only once stop_if_playing or stop has *)
(* sent its EOS, when the bus watch takes that EOS ahead of the stop's     *)
(* timed pop.  What NeverAborts loses is confined to the stop sequence.    *)
(***************************************************************************)
AbortOnlyAfterStop == aborted => stopPc # "none"

(***************************************************************************)
(* No callback reads egp after destroy has freed it.                       *)
(***************************************************************************)
NoCallbackAfterFree == ~uaf
=============================================================================
