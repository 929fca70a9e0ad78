-------------------------- MODULE ClientAppRefinement --------------------------
(***************************************************************************)
(* The client application drives the remote experience only through the    *)
(* steps RemoteExperience allows: android_main's frame calls are its frame *)
(* steps, onAppCmd's disconnect is its Disconnect, the decode thread, the  *)
(* connection and the server are its own actions, and every other step of *)
(* the app (the looper, the OpenXR events, the runtime) leaves its state   *)
(* alone.  So the composition implements RemoteExperience's Spec, and what *)
(* is proved of that Spec (the texture partition, the frame reports, the   *)
(* hand-off refinement) holds in the whole application.                    *)
(*                                                                         *)
(* The app's type invariant AppTypeOK follows: TypeOK through the          *)
(* refinement, the session variables from SessInv, and the loop's own     *)
(* variables from their guards (the command and transition bounds).        *)
(***************************************************************************)
EXTENDS ClientAppProofs, FrameReportProofs

(* The app's own variables, with their ranges.                            *)
LoopTypeOK ==
  /\ loop \in Loops
  /\ cmd \in Cmds \cup {"none"}
  /\ window \in BOOLEAN
  /\ activity \in Activities
  /\ destroyRequested \in BOOLEAN
  /\ nCmds \in 0..MaxCmds
  /\ sessionState \in AppSt
  /\ nXr \in 0..MaxXrEvents
  /\ frameOpen \in BOOLEAN
-----------------------------------------------------------------------------
(* Each step of the application is a step of RemoteExperience or leaves   *)
(* its variables unchanged.                                                *)
LEMMA AppStepRefines == [AppNext]_allVars => [Next]_vars
<1> SUFFICES ASSUME [AppNext]_allVars PROVE [Next]_vars
  OBVIOUS
<1>1. CASE SendCmd \/ RuntimeStep \/ LoopTop \/ PollXrEvent \/ XrPollDone
  BY <1>1 DEF SendCmd, RuntimeStep, LoopTop, PollXrEvent, XrPollDone
<1>2. CASE PollAndroid
  <2>1. CASE cmd # "none" /\ OnAppCmd(cmd)
    BY <2>1 DEF OnAppCmd, Next
  <2>2. CASE ~(cmd # "none" /\ OnAppCmd(cmd))
    BY <1>2, <2>2 DEF PollAndroid
  <2>3. QED
    BY <2>1, <2>2
<1>3. CASE FrameStep
  BY <1>3 DEF FrameStep, Next
<1>4. CASE OtherThreads
  BY <1>4 DEF OtherThreads, Next
<1>5. CASE UNCHANGED allVars
  BY <1>5 DEF allVars
<1>6. QED
  BY <1>1, <1>2, <1>3, <1>4, <1>5 DEF AppNext, AppThread

(***************************************************************************)
(* The application implements RemoteExperience: android_main's main loop, *)
(* poll_events and onAppCmd call em_remote_experience_poll_and_render_frame *)
(* and em_connection_disconnect only in ways the frame loop's own          *)
(* specification allows, whatever the lifecycle and the session do.        *)
(***************************************************************************)
THEOREM RemoteExperienceImplemented == AppSpec => Spec
<1>1. AppInit => Init
  BY DEF AppInit
<1>2. QED
  BY <1>1, AppStepRefines, PTL DEF AppSpec, Spec

(***************************************************************************)
(* In the whole application no texture is leaked or held twice, the frame *)
(* reports reach the server in increasing order, and the frame loop hands  *)
(* samples off as SampleHandOff says: the theorems about                   *)
(* em_remote_experience_poll_and_render_frame and the stream client hold   *)
(* under android_main's lifecycle handling and its disconnects.            *)
(***************************************************************************)
THEOREM AppKeepsFrameLoopSafe ==
  AppSpec => /\ []TexturesPartitioned
             /\ []FrameReportsIncrease
             /\ ImplementsHandOff
BY RemoteExperienceImplemented, TexturesNeverLeakedOrShared,
   FrameReportsIncreaseProved, HandOffImplemented
-----------------------------------------------------------------------------
(* The ranges AppTypeOK writes with the XrSessionState enum.              *)
LEMMA XrStatesRanges ==
  /\ {XrStates[i] : i \in 1..Len(XrStates)} = AppSt
  /\ {XrStates[i] : i \in 2..Len(XrStates)} = RtSt
<1>1. Len(XrStates) = 9
  BY DEF XrStates
<1>2. {XrStates[i] : i \in 2..9} = RtSt
  BY DEF XrStates, RtSt
<1>3. {XrStates[i] : i \in 1..9} = AppSt
  BY DEF XrStates, RtSt, AppSt
<1>4. QED
  BY <1>1, <1>2, <1>3

LEMMA LoopTypeInit == AppInit => LoopTypeOK
<1> SUFFICES ASSUME AppInit PROVE LoopTypeOK
  OBVIOUS
<1>1. loop \in Loops /\ cmd \in Cmds \cup {"none"} /\ activity \in Activities
  BY DEF AppInit, Loops, Activities
<1>2. window \in BOOLEAN /\ destroyRequested \in BOOLEAN /\ frameOpen \in BOOLEAN
  BY DEF AppInit
<1>3. nCmds \in 0..MaxCmds /\ nXr \in 0..MaxXrEvents
  BY ClientAppAssumption DEF AppInit
<1>4. sessionState \in AppSt
  BY DEF AppInit, AppSt
<1>5. QED
  BY <1>1, <1>2, <1>3, <1>4 DEF LoopTypeOK

LEMMA LoopTypeStep ==
  ASSUME LoopTypeOK, SessInv, [AppNext]_allVars
  PROVE  LoopTypeOK'
<1> USE ClientAppAssumption DEF LoopTypeOK
<1>1. CASE SendCmd
  BY <1>1 DEF SendCmd, Allowed
<1>2. CASE RuntimeStep
  BY <1>2 DEF RuntimeStep
<1>3. CASE LoopTop
  BY <1>3 DEF LoopTop, Loops
<1>4. CASE PollAndroid
  <2>1. loop' \in Loops /\ cmd' \in Cmds \cup {"none"}
    BY <1>4 DEF PollAndroid, Loops
  <2>2. window' \in BOOLEAN /\ destroyRequested' \in BOOLEAN
    BY <1>4 DEF PollAndroid
  <2>3. activity' \in Activities
    BY <1>4 DEF PollAndroid, Activities, Cmds
  <2>4. UNCHANGED <<nCmds, sessionState, nXr, frameOpen>>
    BY <1>4 DEF PollAndroid
  <2>5. QED
    BY <2>1, <2>2, <2>3, <2>4
<1>5. CASE PollXrEvent
  <2>1. sessionState' = Head(xrEvents) /\ xrEvents # << >>
    BY <1>5 DEF PollXrEvent
  <2>2. xrEvents \in Seq(RtSt)
    BY DEF SessInv, SessTypeOK
  <2>3. Head(xrEvents) \in RtSt
    BY <2>1, <2>2, HeadTailProperties
  <2>4. QED
    BY <1>5, <2>1, <2>3 DEF PollXrEvent, AppSt
<1>6. CASE XrPollDone
  BY <1>6 DEF XrPollDone, Loops
<1>7. CASE FrameStep
  BY <1>7 DEF FrameStep, Loops
<1>8. CASE OtherThreads
  BY <1>8 DEF OtherThreads, appVars
<1>9. CASE UNCHANGED allVars
  BY <1>9 DEF allVars, appVars
<1>10. QED
  BY <1>1, <1>2, <1>3, <1>4, <1>5, <1>6, <1>7, <1>8, <1>9 DEF AppNext, AppThread

(***************************************************************************)
(* AppTypeOK for every lifecycle and every bound: android_main's loop, the *)
(* glue's command slot, the activity state, the session and its event      *)
(* queue, and the frame loop keep their types.                             *)
(***************************************************************************)
THEOREM AppTypeCorrect == AppSpec => []AppTypeOK
<1>1. AppSpec => []TypeOK
  BY RemoteExperienceImplemented, TypeCorrect
<1>2. AppSpec => []SessInv
  BY SessInvInit, SessInvStep, PTL DEF AppSpec
<1>3. AppSpec => []LoopTypeOK
  BY <1>2, LoopTypeInit, LoopTypeStep, PTL DEF AppSpec
<1>4. TypeOK /\ SessInv /\ LoopTypeOK => AppTypeOK
  BY XrStatesRanges DEF AppTypeOK, SessInv, SessTypeOK, LoopTypeOK
<1>5. QED
  BY <1>1, <1>2, <1>3, <1>4, PTL
=============================================================================
