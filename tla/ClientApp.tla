------------------------------ MODULE ClientApp ------------------------------
(***************************************************************************)
(* The client application (main.cpp): android_main's main loop,            *)
(* poll_events with its Android looper wait and its OpenXR event drain,    *)
(* the onAppCmd handler, composed with RemoteExperience, which it drives   *)
(* one poll_and_render_frame call at a time.                               *)
(*                                                                         *)
(* The environment is the activity thread of android_native_app_glue and   *)
(* the OpenXR runtime.  The glue writes one command at a time to the       *)
(* looper pipe and waits until the main thread has processed it            *)
(* (activity state, window and destroy commands all wait), so a single     *)
(* slot `cmd` holds the command in flight.  The runtime moves the session  *)
(* through its lifecycle and queues a state-changed event per transition.  *)
(***************************************************************************)
EXTENDS RemoteExperience

CONSTANTS
  MaxCmds,     \* bound on the lifecycle commands the activity thread sends
  MaxXrEvents  \* bound on the session transitions the runtime makes

ASSUME ClientAppAssumption == MaxCmds \in Nat /\ MaxXrEvents \in Nat

VARIABLES
  loop,         \* where android_main's thread is (see Loops)
  cmd,          \* the glue command in flight on the looper pipe, or "none"
  window,       \* app->window # NULL
  activity,     \* app->activityState
  destroyRequested, \* app->destroyRequested
  nCmds,        \* commands sent so far
  sessionState, \* state.sessionState: the last state event the app handled
  rtState,      \* the runtime's session state
  running,      \* the runtime's session is running: an xrBeginSession
                \* succeeded and no xrEndSession has succeeded since
  xrCall,       \* the session call poll_events made for the last event it
                \* handled: "begin", "end" or "none" (auxiliary)
  xrEvents,     \* session-state events queued for xrPollEvent
  nXr,          \* runtime transitions so far
  frameOpen     \* the runtime has a frame begun and not yet ended

appVars == <<loop, cmd, window, activity, destroyRequested, nCmds,
             sessionState, rtState, running, xrCall, xrEvents, nXr, frameOpen>>
allVars == <<vars, appVars>>

(* top: the while condition; android: the looper loop of poll_events;    *)
(* xr: the xrPollEvent loop; render: inside poll_and_render_frame;        *)
(* exited: after the main loop.                                           *)
Loops == {"top", "android", "xr", "render", "exited"}
Cmds == {"START", "RESUME", "PAUSE", "STOP", "INIT_WINDOW", "TERM_WINDOW",
         "DESTROY"}
Activities == {"NONE", "START", "RESUME", "PAUSE", "STOP"}

(* XrSessionState, in the order of its enum values.                       *)
XrStates == <<"UNKNOWN", "IDLE", "READY", "SYNCHRONIZED", "VISIBLE", "FOCUSED",
              "STOPPING", "LOSS_PENDING", "EXITING">>
Rank(s) == CHOOSE i \in 1..Len(XrStates) : XrStates[i] = s

(* The session transitions of the OpenXR lifecycle the runtime may make,  *)
(* with what they need of the application (RuntimeStep).  The session may *)
(* be lost in any state but EXITING; LOSS_PENDING has no way out.         *)
RtTransitions ==
  {<<"IDLE", "READY">>, <<"READY", "SYNCHRONIZED">>,
   <<"SYNCHRONIZED", "VISIBLE">>, <<"VISIBLE", "FOCUSED">>,
   <<"FOCUSED", "VISIBLE">>, <<"VISIBLE", "SYNCHRONIZED">>,
   <<"SYNCHRONIZED", "STOPPING">>, <<"STOPPING", "IDLE">>,
   <<"IDLE", "EXITING">>}
  \cup {<<s, "LOSS_PENDING">> : s \in {"IDLE", "READY", "SYNCHRONIZED",
                                       "VISIBLE", "FOCUSED", "STOPPING"}}

(* The session calls of poll_events' switch.                              *)
Calls == {"none", "begin", "end"}

(* What a session call does to the runtime's session: xrBeginSession may  *)
(* start a READY session and xrEndSession may end a STOPPING one; either  *)
(* may fail instead, and in any other state it fails.                     *)
CallOutcomes(call) ==
  CASE call = "begin" /\ rtState = "READY"    -> {running, TRUE}
    [] call = "end"   /\ rtState = "STOPPING" -> {running, FALSE}
    [] OTHER                                  -> {running}

(* The app is in the foreground: it has a window and is resumed.         *)
Foreground == window /\ activity = "RESUME"

(***************************************************************************)
(* After the setup of android_main: the session was created (the runtime   *)
(* queued IDLE), the connection is connecting, the loop is about to test   *)
(* destroyRequested; no command has arrived yet.                           *)
(***************************************************************************)
AppInit ==
  /\ Init
  /\ loop = "top"
  /\ cmd = "none"
  /\ window = FALSE
  /\ activity = "NONE"
  /\ destroyRequested = FALSE
  /\ nCmds = 0
  /\ sessionState = "UNKNOWN"
  /\ rtState = "IDLE"
  /\ running = FALSE
  /\ xrCall = "none"
  /\ xrEvents = <<"IDLE">>
  /\ nXr = 0
  /\ frameOpen = FALSE

-----------------------------------------------------------------------------
(* The activity thread: the lifecycle command the glue may send next,     *)
(* given the state the main thread has processed so far.                  *)
Allowed(c) ==
  CASE c = "START"       -> activity \in {"NONE", "STOP"}
    [] c = "RESUME"      -> activity \in {"START", "PAUSE"}
    [] c = "PAUSE"       -> activity = "RESUME"
    [] c = "STOP"        -> activity = "PAUSE"
    [] c = "INIT_WINDOW" -> ~window /\ activity \in {"START", "RESUME", "PAUSE"}
    [] c = "TERM_WINDOW" -> window
    [] c = "DESTROY"     -> activity = "STOP" /\ ~window

SendCmd ==
  /\ cmd = "none"
  /\ ~destroyRequested
  /\ nCmds < MaxCmds
  /\ \E c \in Cmds : Allowed(c) /\ cmd' = c
  /\ nCmds' = nCmds + 1
  /\ UNCHANGED <<vars, loop, window, activity, destroyRequested, sessionState,
                 rtState, running, xrCall, xrEvents, nXr, frameOpen>>

(* The runtime changes the session state and queues the event.           *)
RuntimeStep ==
  /\ nXr < MaxXrEvents
  /\ \E tr \in RtTransitions :
       /\ tr[1] = rtState
       /\ tr = <<"READY", "SYNCHRONIZED">> => running
       /\ tr = <<"STOPPING", "IDLE">> => ~running
       /\ rtState' = tr[2]
       /\ xrEvents' = Append(xrEvents, tr[2])
  /\ nXr' = nXr + 1
  /\ UNCHANGED <<vars, loop, cmd, window, activity, destroyRequested, nCmds,
                 sessionState, running, xrCall, frameOpen>>

-----------------------------------------------------------------------------
(* while (!app->destroyRequested): test, then poll_events or leave.       *)
LoopTop ==
  /\ loop = "top"
  /\ loop' = IF destroyRequested THEN "exited" ELSE "android"
  /\ UNCHANGED <<vars, cmd, window, activity, destroyRequested, nCmds,
                 sessionState, rtState, running, xrCall, xrEvents, nXr, frameOpen>>

(***************************************************************************)
(* onAppCmd: APP_CMD_STOP and APP_CMD_TERM_WINDOW disconnect the           *)
(* connection (state.connected, never read, is left out); the others only *)
(* log.                                                                    *)
(***************************************************************************)
OnAppCmd(c) ==
  IF c \in {"STOP", "TERM_WINDOW"} THEN Disconnect ELSE UNCHANGED vars

(* Mutant of PollAndroid: every command, not only the four activity-state *)
(* commands, is recorded as the activity state.                            *)
PollAndroidAnyState ==
  /\ loop = "android"
  /\ LET wait == ~Foreground IN
     \/ /\ cmd # "none"
        /\ activity' = cmd
        /\ window' = CASE cmd = "INIT_WINDOW" -> TRUE
                       [] cmd = "TERM_WINDOW" -> FALSE
                       [] OTHER -> window
        /\ destroyRequested' = (destroyRequested \/ cmd = "DESTROY")
        /\ OnAppCmd(cmd)
        /\ cmd' = "none"
        /\ loop' = IF ~wait /\ ~(window' /\ activity' = "RESUME")
                   THEN "xr" ELSE "android"
     \/ /\ cmd = "none"
        /\ ~wait
        /\ loop' = "xr"
        /\ UNCHANGED <<vars, cmd, window, activity, destroyRequested>>
  /\ UNCHANGED <<nCmds, sessionState, rtState, running, xrCall, xrEvents, nXr,
                 frameOpen>>

(***************************************************************************)
(* One round of the looper loop of poll_events.  The timeout is -1 when    *)
(* there is no window or the activity is not resumed, else 0.  A command   *)
(* is processed by the glue (android_app_pre_exec_cmd, onAppCmd,           *)
(* android_app_post_exec_cmd).  The loop is left only when the timeout was *)
(* 0: because nothing was pending, or because the command just processed  *)
(* took the app out of the foreground.  With timeout -1 and nothing        *)
(* pending the thread blocks.                                              *)
(***************************************************************************)
PollAndroid ==
  /\ loop = "android"
  /\ LET wait == ~Foreground IN
     \/ /\ cmd # "none"
        /\ activity' = IF cmd \in {"START", "RESUME", "PAUSE", "STOP"}
                       THEN cmd ELSE activity
        /\ window' = CASE cmd = "INIT_WINDOW" -> TRUE
                       [] cmd = "TERM_WINDOW" -> FALSE
                       [] OTHER -> window
        /\ destroyRequested' = (destroyRequested \/ cmd = "DESTROY")
        /\ OnAppCmd(cmd)
        /\ cmd' = "none"
        /\ loop' = IF ~wait /\ ~(window' /\ activity' = "RESUME")
                   THEN "xr" ELSE "android"
     \/ /\ cmd = "none"
        /\ ~wait
        /\ loop' = "xr"
        /\ UNCHANGED <<vars, cmd, window, activity, destroyRequested>>
  /\ UNCHANGED <<nCmds, sessionState, rtState, running, xrCall, xrEvents, nXr,
                 frameOpen>>

(* Mutant of PollXrEvent: the READY case is missing from the switch, so  *)
(* xrBeginSession is never called.                                         *)
PollXrEventNoBegin ==
  /\ loop = "xr"
  /\ xrEvents # << >>
  /\ xrCall' = IF Head(xrEvents) = "STOPPING" THEN "end" ELSE "none"
  /\ running' \in CallOutcomes(xrCall')
  /\ sessionState' = Head(xrEvents)
  /\ xrEvents' = Tail(xrEvents)
  /\ UNCHANGED <<vars, loop, cmd, window, activity, destroyRequested, nCmds,
                 rtState, nXr, frameOpen>>

(* Mutant of PollXrEvent: the FOCUSED case has no break and falls        *)
(* through into STOPPING's xrEndSession.                                   *)
PollXrEventFallThrough ==
  /\ loop = "xr"
  /\ xrEvents # << >>
  /\ xrCall' = CASE Head(xrEvents) = "READY"                    -> "begin"
                [] Head(xrEvents) \in {"FOCUSED", "STOPPING"} -> "end"
                [] OTHER                                        -> "none"
  /\ running' \in CallOutcomes(xrCall')
  /\ sessionState' = Head(xrEvents)
  /\ xrEvents' = Tail(xrEvents)
  /\ UNCHANGED <<vars, loop, cmd, window, activity, destroyRequested, nCmds,
                 rtState, nXr, frameOpen>>

(* The session call poll_events makes for an event: READY calls           *)
(* xrBeginSession, STOPPING xrEndSession, the others only log.            *)
SessionCall(e) ==
  CASE e = "READY"    -> "begin"
    [] e = "STOPPING" -> "end"
    [] OTHER          -> "none"

(***************************************************************************)
(* One xrPollEvent that returned a session-state event: the switch makes   *)
(* the event's session call and the state is recorded.  A failed           *)
(* xrBeginSession is only logged and the result of xrEndSession is not     *)
(* looked at: neither is retried.                                          *)
(***************************************************************************)
PollXrEvent ==
  /\ loop = "xr"
  /\ xrEvents # << >>
  /\ xrCall' = SessionCall(Head(xrEvents))
  /\ running' \in CallOutcomes(xrCall')
  /\ sessionState' = Head(xrEvents)
  /\ xrEvents' = Tail(xrEvents)
  /\ UNCHANGED <<vars, loop, cmd, window, activity, destroyRequested, nCmds,
                 rtState, nXr, frameOpen>>

(* The event queue is empty: render if the session is at least READY,    *)
(* else sleep 100 ms and return false.                                    *)
XrPollDone ==
  /\ loop = "xr"
  /\ xrEvents = << >>
  /\ loop' = IF Rank(sessionState) < Rank("READY") THEN "top" ELSE "render"
  /\ UNCHANGED <<vars, cmd, window, activity, destroyRequested, nCmds,
                 sessionState, rtState, running, xrCall, xrEvents, nXr, frameOpen>>

-----------------------------------------------------------------------------
(***************************************************************************)
(* A step of em_remote_experience_poll_and_render_frame.  xrWaitFrame      *)
(* succeeds only on a running session.  A frame is begun by BeginFrame and *)
(* by the early returns after xrBeginFrame (clock_gettime, xrLocateViews,  *)
(* EGL), and ended only by xrEndFrame.  The call returns to the main loop  *)
(* when the frame loop is idle again.                                      *)
(***************************************************************************)
FrameStep ==
  /\ loop = "render"
  /\ \/ BeginFrame /\ running /\ frameOpen' = TRUE
     \/ /\ FrameSkipped
        /\ \/ prResult' = "ERROR_WAITFRAME" /\ UNCHANGED frameOpen
           \/ prResult' # "ERROR_WAITFRAME" /\ running /\ frameOpen' = TRUE
     \/ (PullNone \/ PullSample \/ DrawSample) /\ UNCHANGED frameOpen
     \/ EndFrame /\ frameOpen' = FALSE
  /\ loop' = IF phase' = "idle" THEN "top" ELSE "render"
  /\ UNCHANGED <<cmd, window, activity, destroyRequested, nCmds,
                 sessionState, rtState, running, xrCall, xrEvents, nXr>>

(* The other threads: decoding, the connection, the server.               *)
OtherThreads ==
  /\ DecodeFrame \/ Connected \/ ServerReceive
  /\ UNCHANGED appVars

(***************************************************************************)
(* The steps of android_main's thread.  The cleanup after the main loop    *)
(* (em_remote_experience_destroy, modelled as Destroy in RemoteExperience) *)
(* is not a step here: APP_CMD_DESTROY only comes after APP_CMD_STOP, so   *)
(* poll_events processes it with timeout -1 and goes on waiting, and the   *)
(* loop never reaches its test again (see DestroyHonoured).               *)
(***************************************************************************)
AppThread == LoopTop \/ PollAndroid \/ PollXrEvent \/ XrPollDone \/ FrameStep

AppNext == AppThread \/ SendCmd \/ RuntimeStep \/ OtherThreads

(***************************************************************************)
(* android_main's thread runs whenever it is not blocked in the looper:    *)
(* weak fairness on its steps.  The activity thread, the runtime, the      *)
(* decoder and the network are the environment and get none.               *)
(***************************************************************************)
AppSpec == AppInit /\ [][AppNext]_allVars /\ WF_allVars(AppThread)

-----------------------------------------------------------------------------
AppTypeOK ==
  /\ TypeOK
  /\ loop \in Loops
  /\ cmd \in Cmds \cup {"none"}
  /\ window \in BOOLEAN
  /\ activity \in Activities
  /\ destroyRequested \in BOOLEAN
  /\ nCmds \in 0..MaxCmds
  /\ sessionState \in {XrStates[i] : i \in 1..Len(XrStates)}
  /\ rtState \in {XrStates[i] : i \in 2..Len(XrStates)}
  /\ running \in BOOLEAN
  /\ xrCall \in Calls
  /\ xrEvents \in Seq({XrStates[i] : i \in 2..Len(XrStates)})
  /\ nXr \in 0..MaxXrEvents
  /\ frameOpen \in BOOLEAN

(***************************************************************************)
(* Spec 4.6 session state machine: poll_events calls xrBeginSession only   *)
(* while the runtime's session is READY and xrEndSession only while it is  *)
(* STOPPING, although it acts on queued events that may lag behind the     *)
(* runtime.  The one exception is a session the runtime has meanwhile      *)
(* moved to LOSS_PENDING, which no application can see coming; the call    *)
(* then fails and is only logged.                                          *)
(***************************************************************************)
EventHandled == xrEvents # << >> /\ xrEvents' = Tail(xrEvents)

SessionCallsInState ==
  [][ EventHandled =>
        /\ xrCall' = "begin" => rtState \in {"READY", "LOSS_PENDING"}
        /\ xrCall' = "end"   => rtState \in {"STOPPING", "LOSS_PENDING"} ]_allVars

(***************************************************************************)
(* A READY session gets its xrBeginSession call while the app is in the    *)
(* foreground: poll_events must get past the looper wait to the            *)
(* xrPollEvent loop and handle the READY event, whatever commands the glue *)
(* delivers meanwhile.  (Whether the call succeeds is the runtime's        *)
(* answer; a failed call is not retried.)                                  *)
(***************************************************************************)
ReadySessionBegun ==
  (rtState = "READY" /\ Foreground) ~> (xrCall = "begin" \/ ~Foreground)

(***************************************************************************)
(* Spec section 5: destroyRequested from the application host terminates   *)
(* the loop.  Once APP_CMD_DESTROY is processed, android_main leaves its   *)
(* main loop.                                                              *)
(***************************************************************************)
DestroyHonoured == destroyRequested ~> loop = "exited"

(***************************************************************************)
(* Spec property 6 and the order of steps in 4.6: each call of             *)
(* poll_and_render_frame that begins a frame ends it with xrEndFrame       *)
(* before returning, so no frame is open while the main loop is outside    *)
(* the call.                                                               *)
(***************************************************************************)
FrameEndedBeforeReturn == loop # "render" => ~frameOpen
=============================================================================
