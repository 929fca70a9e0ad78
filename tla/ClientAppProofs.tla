---------------------------- MODULE ClientAppProofs ----------------------------
(***************************************************************************)
(* Proofs about ClientApp: poll_events calls xrBeginSession and            *)
(* xrEndSession only in the runtime states that allow them, or on a        *)
(* session being lost, for every lifecycle and every bound.                *)
(*                                                                         *)
(* SessionCallsInState is not inductive by itself: poll_events acts on     *)
(* queued events, so the proof needs to know what the queue can hold.     *)
(* The runtime cannot leave READY before the session is begun, nor leave  *)
(* STOPPING before it is ended, except into LOSS_PENDING, which has no way *)
(* out; so a queued READY or STOPPING is followed only by LOSS_PENDING and *)
(* the runtime is still in that state or lost (SessInv).                  *)
(***************************************************************************)
EXTENDS ClientApp, SequenceTheorems, TLAPS

(* The runtime's session states (UNKNOWN is only the app's initial value). *)
RtSt == {"IDLE", "READY", "SYNCHRONIZED", "VISIBLE", "FOCUSED", "STOPPING",
         "LOSS_PENDING", "EXITING"}
AppSt == RtSt \cup {"UNKNOWN"}

SessTypeOK ==
  /\ rtState \in RtSt
  /\ running \in BOOLEAN
  /\ xrCall \in Calls
  /\ xrEvents \in Seq(RtSt)

(* Only LOSS_PENDING is queued after the i-th event.                      *)
OnlyLossAfter(i) ==
  \A j \in i + 1..Len(xrEvents) : xrEvents[j] = "LOSS_PENDING"

(* A queued READY is followed only by LOSS_PENDING: the runtime waits in  *)
(* READY for xrBeginSession, or has lost the session.                      *)
ReadyQueued ==
  \A i \in 1..Len(xrEvents) :
    xrEvents[i] = "READY" =>
      /\ OnlyLossAfter(i)
      /\ ~running
      /\ rtState \in {"READY", "LOSS_PENDING"}

(* A queued STOPPING likewise: the runtime waits in STOPPING for           *)
(* xrEndSession, or has lost the session.                                  *)
StoppingQueued ==
  \A i \in 1..Len(xrEvents) :
    xrEvents[i] = "STOPPING" =>
      /\ OnlyLossAfter(i)
      /\ running
      /\ rtState \in {"STOPPING", "LOSS_PENDING"}

(* The runtime's states that need a running session, and those that       *)
(* exclude one.                                                            *)
RunningStates == rtState \in {"SYNCHRONIZED", "VISIBLE", "FOCUSED"} => running
IdleStates == rtState \in {"IDLE", "EXITING"} => ~running

SessInv ==
  SessTypeOK /\ ReadyQueued /\ StoppingQueued /\ RunningStates /\ IdleStates

(* The step relation of SessionCallsInState.                              *)
SessionStep ==
  EventHandled =>
    /\ xrCall' = "begin" => rtState \in {"READY", "LOSS_PENDING"}
    /\ xrCall' = "end"   => rtState \in {"STOPPING", "LOSS_PENDING"}
-----------------------------------------------------------------------------
(* Every step of the app that is not a runtime transition or an           *)
(* xrPollEvent leaves the session, the runtime and the queue alone.        *)
LEMMA SessionFrame ==
  ASSUME [AppNext]_allVars
  PROVE  \/ RuntimeStep
         \/ PollXrEvent
         \/ UNCHANGED <<rtState, running, xrCall, xrEvents>>
BY DEF AppNext, AppThread, SendCmd, LoopTop, PollAndroid, XrPollDone,
       FrameStep, OtherThreads, allVars, appVars

(* What the runtime's transitions lead from and to.                       *)
LEMMA TransitionFacts ==
  ASSUME NEW tr \in RtTransitions
  PROVE  /\ tr = <<tr[1], tr[2]>>
         /\ tr[2] \in RtSt
         /\ tr[1] # "LOSS_PENDING"
         /\ tr[1] = "READY" => tr[2] \in {"SYNCHRONIZED", "LOSS_PENDING"}
         /\ tr[1] = "STOPPING" => tr[2] \in {"IDLE", "LOSS_PENDING"}
         /\ tr[2] = "READY" => tr[1] = "IDLE"
         /\ tr[2] = "STOPPING" => tr[1] = "SYNCHRONIZED"
         /\ tr[2] \in {"SYNCHRONIZED", "VISIBLE", "FOCUSED"} =>
              tr[1] \in {"READY", "SYNCHRONIZED", "VISIBLE", "FOCUSED"}
         /\ tr[2] \in {"IDLE", "EXITING"} => tr[1] \in {"STOPPING", "IDLE"}
<1>1. CASE tr \in {<<"IDLE", "READY">>, <<"READY", "SYNCHRONIZED">>,
                   <<"SYNCHRONIZED", "VISIBLE">>, <<"VISIBLE", "FOCUSED">>,
                   <<"FOCUSED", "VISIBLE">>, <<"VISIBLE", "SYNCHRONIZED">>,
                   <<"SYNCHRONIZED", "STOPPING">>, <<"STOPPING", "IDLE">>,
                   <<"IDLE", "EXITING">>}
  BY <1>1 DEF RtSt
<1>2. CASE \E s \in {"IDLE", "READY", "SYNCHRONIZED", "VISIBLE", "FOCUSED",
                     "STOPPING"} : tr = <<s, "LOSS_PENDING">>
  BY <1>2 DEF RtSt
<1>3. QED
  BY <1>1, <1>2 DEF RtTransitions

LEMMA SessInvInit == AppInit => SessInv
<1> SUFFICES ASSUME AppInit PROVE SessInv
  OBVIOUS
<1>1. /\ rtState = "IDLE" /\ running = FALSE /\ xrCall = "none"
      /\ xrEvents = <<"IDLE">>
  BY DEF AppInit
<1>2. SessTypeOK
  <2>1. <<"IDLE">> = Append(<< >>, "IDLE")
    OBVIOUS
  <2>2. << >> \in Seq(RtSt) /\ "IDLE" \in RtSt
    BY EmptySeq DEF RtSt
  <2>3. QED
    BY <1>1, <2>1, <2>2, AppendProperties DEF SessTypeOK, Calls
<1>3. ReadyQueued /\ StoppingQueued
  BY <1>1 DEF ReadyQueued, StoppingQueued
<1>4. QED
  BY <1>1, <1>2, <1>3 DEF SessInv, RunningStates, IdleStates

(* A runtime transition appends its target state to the queue.  From     *)
(* READY the runtime can only be lost before the session is begun, and    *)
(* from STOPPING only before it is ended.                                  *)
LEMMA RuntimeStepInv ==
  ASSUME SessInv, RuntimeStep
  PROVE  SessInv'
<1> PICK tr \in RtTransitions :
      /\ tr[1] = rtState
      /\ tr = <<"READY", "SYNCHRONIZED">> => running
      /\ tr = <<"STOPPING", "IDLE">> => ~running
      /\ rtState' = tr[2]
      /\ xrEvents' = Append(xrEvents, tr[2])
  BY DEF RuntimeStep
<1> DEFINE n == Len(xrEvents)
<1>0. running' = running /\ xrCall' = xrCall
  BY DEF RuntimeStep
<1>a. /\ tr = <<rtState, tr[2]>>
      /\ tr[2] \in RtSt
      /\ rtState # "LOSS_PENDING"
      /\ rtState = "READY" => tr[2] \in {"SYNCHRONIZED", "LOSS_PENDING"}
      /\ rtState = "STOPPING" => tr[2] \in {"IDLE", "LOSS_PENDING"}
      /\ tr[2] = "READY" => rtState = "IDLE"
      /\ tr[2] = "STOPPING" => rtState = "SYNCHRONIZED"
      /\ tr[2] \in {"SYNCHRONIZED", "VISIBLE", "FOCUSED"} =>
           rtState \in {"READY", "SYNCHRONIZED", "VISIBLE", "FOCUSED"}
      /\ tr[2] \in {"IDLE", "EXITING"} => rtState \in {"STOPPING", "IDLE"}
  BY TransitionFacts
<1>b. /\ n \in Nat
      /\ xrEvents' \in Seq(RtSt)
      /\ Len(xrEvents') = n + 1
      /\ \A i \in 1..n : xrEvents'[i] = xrEvents[i]
      /\ xrEvents'[n + 1] = tr[2]
  BY <1>a, AppendProperties DEF SessInv, SessTypeOK
(* A queued READY or STOPPING pins the runtime: its next state is lost.   *)
<1>c. (\E i \in 1..n : xrEvents[i] \in {"READY", "STOPPING"})
        => tr[2] = "LOSS_PENDING"
  <2>1. CASE \E i \in 1..n : xrEvents[i] = "READY"
    <3>1. ~running /\ rtState \in {"READY", "LOSS_PENDING"}
      BY <2>1 DEF SessInv, ReadyQueued
    <3>2. QED
      BY <1>a, <3>1
  <2>2. CASE \E i \in 1..n : xrEvents[i] = "STOPPING"
    <3>1. running /\ rtState \in {"STOPPING", "LOSS_PENDING"}
      BY <2>2 DEF SessInv, StoppingQueued
    <3>2. QED
      BY <1>a, <3>1
  <2>3. QED
    BY <2>1, <2>2
<1>1. SessTypeOK'
  BY <1>0, <1>a, <1>b DEF SessInv, SessTypeOK
<1>3. ReadyQueued'
  <2> SUFFICES ASSUME NEW i \in 1..n + 1, xrEvents'[i] = "READY"
               PROVE  OnlyLossAfter(i)' /\ ~running' /\ rtState' \in {"READY", "LOSS_PENDING"}
    BY <1>b DEF ReadyQueued
  <2>1. CASE i \in 1..n
    <3>1. OnlyLossAfter(i) /\ ~running /\ tr[2] = "LOSS_PENDING"
      BY <1>b, <1>c, <2>1 DEF SessInv, ReadyQueued
    <3>2. \A j \in i + 1..n + 1 : xrEvents'[j] = "LOSS_PENDING"
      BY <1>b, <2>1, <3>1 DEF OnlyLossAfter
    <3>3. QED
      BY <1>0, <1>b, <3>1, <3>2 DEF OnlyLossAfter
  <2>2. CASE i = n + 1
    <3>1. rtState = "IDLE" /\ rtState' = "READY"
      BY <1>a, <1>b, <2>2
    <3>2. ~running
      BY <3>1 DEF SessInv, IdleStates
    <3>3. QED
      BY <1>0, <1>b, <2>2, <3>1, <3>2 DEF OnlyLossAfter
  <2>3. QED
    BY <2>1, <2>2, <1>b
<1>4. StoppingQueued'
  <2> SUFFICES ASSUME NEW i \in 1..n + 1, xrEvents'[i] = "STOPPING"
               PROVE  OnlyLossAfter(i)' /\ running' /\ rtState' \in {"STOPPING", "LOSS_PENDING"}
    BY <1>b DEF StoppingQueued
  <2>1. CASE i \in 1..n
    <3>1. OnlyLossAfter(i) /\ running /\ tr[2] = "LOSS_PENDING"
      BY <1>b, <1>c, <2>1 DEF SessInv, StoppingQueued
    <3>2. \A j \in i + 1..n + 1 : xrEvents'[j] = "LOSS_PENDING"
      BY <1>b, <2>1, <3>1 DEF OnlyLossAfter
    <3>3. QED
      BY <1>0, <1>b, <3>1, <3>2 DEF OnlyLossAfter
  <2>2. CASE i = n + 1
    <3>1. rtState = "SYNCHRONIZED" /\ rtState' = "STOPPING"
      BY <1>a, <1>b, <2>2
    <3>2. running
      BY <3>1 DEF SessInv, RunningStates
    <3>3. QED
      BY <1>0, <1>b, <2>2, <3>1, <3>2 DEF OnlyLossAfter
  <2>3. QED
    BY <2>1, <2>2, <1>b
<1>5. RunningStates'
  BY <1>0, <1>a DEF SessInv, RunningStates
<1>6. IdleStates'
  BY <1>0, <1>a DEF SessInv, IdleStates
<1>7. QED
  BY <1>1, <1>3, <1>4, <1>5, <1>6 DEF SessInv


(* What a session call can do to the session: nothing, or begin a READY   *)
(* one, or end a STOPPING one.                                             *)
LEMMA OutcomeFacts ==
  ASSUME running \in BOOLEAN, NEW call \in Calls, NEW r \in CallOutcomes(call)
  PROVE  /\ r \in BOOLEAN
         /\ call = "none" => r = running
         /\ r # running =>
              \/ call = "begin" /\ rtState = "READY" /\ r = TRUE
              \/ call = "end" /\ rtState = "STOPPING" /\ r = FALSE
BY DEF CallOutcomes, Calls

(* xrPollEvent takes the oldest event.  After a READY or a STOPPING only   *)
(* LOSS_PENDING is queued, so its call leaves no READY or STOPPING behind. *)
LEMMA PollXrEventInv ==
  ASSUME SessInv, PollXrEvent
  PROVE  SessInv'
<1> DEFINE e == Head(xrEvents)
           n == Len(xrEvents)
<1>0. /\ xrEvents \in Seq(RtSt)
      /\ xrEvents # << >>
      /\ xrEvents' = Tail(xrEvents)
      /\ rtState' = rtState
      /\ xrCall' = SessionCall(e)
      /\ running' \in CallOutcomes(SessionCall(e))
  BY DEF PollXrEvent, SessInv, SessTypeOK
<1>h. n \in Nat /\ 1 <= n /\ e = xrEvents[1]
  BY <1>0, EmptySeq, LenProperties
<1>t. /\ xrEvents' \in Seq(RtSt)
      /\ Len(xrEvents') = n - 1
      /\ \A i \in 1..n - 1 : xrEvents'[i] = xrEvents[i + 1]
  BY <1>0, <1>h, HeadTailProperties
<1>c. SessionCall(e) \in Calls /\ running \in BOOLEAN
  BY DEF SessionCall, Calls, SessInv, SessTypeOK
<1>o. /\ running' \in BOOLEAN
      /\ SessionCall(e) = "none" => running' = running
      /\ running' # running =>
           \/ SessionCall(e) = "begin" /\ rtState = "READY" /\ running' = TRUE
           \/ SessionCall(e) = "end" /\ rtState = "STOPPING" /\ running' = FALSE
  BY <1>0, <1>c, OutcomeFacts
<1>y. SessTypeOK'
  BY <1>0, <1>c, <1>o, <1>t DEF SessInv, SessTypeOK
(* A READY or STOPPING at the head: only LOSS_PENDING remains queued.     *)
<1>1. CASE e \in {"READY", "STOPPING"}
  <2>1. /\ OnlyLossAfter(1)
        /\ rtState \in {"READY", "STOPPING", "LOSS_PENDING"}
    BY <1>1, <1>h DEF SessInv, ReadyQueued, StoppingQueued
  <2>2. \A i \in 1..n - 1 : xrEvents'[i] = "LOSS_PENDING"
    BY <1>t, <2>1 DEF OnlyLossAfter
  <2>3. ReadyQueued' /\ StoppingQueued'
    BY <1>t, <2>2 DEF ReadyQueued, StoppingQueued
  <2>4. RunningStates' /\ IdleStates'
    BY <1>0, <2>1 DEF RunningStates, IdleStates
  <2>5. QED
    BY <1>y, <2>3, <2>4 DEF SessInv
(* Any other event is only logged; the queue moves up by one.             *)
<1>2. CASE e \notin {"READY", "STOPPING"}
  <2>1. running' = running
    BY <1>2, <1>o DEF SessionCall
  <2>2. \A i \in 1..n - 1 : OnlyLossAfter(i + 1) => OnlyLossAfter(i)'
    BY <1>t DEF OnlyLossAfter
  <2>3. ReadyQueued'
    BY <1>0, <1>t, <2>1, <2>2 DEF SessInv, ReadyQueued
  <2>4. StoppingQueued'
    BY <1>0, <1>t, <2>1, <2>2 DEF SessInv, StoppingQueued
  <2>5. RunningStates' /\ IdleStates'
    BY <1>0, <2>1 DEF SessInv, RunningStates, IdleStates
  <2>6. QED
    BY <1>y, <2>3, <2>4, <2>5 DEF SessInv
<1>3. QED
  BY <1>1, <1>2

LEMMA SessInvStep == SessInv /\ [AppNext]_allVars => SessInv'
<1> SUFFICES ASSUME SessInv, [AppNext]_allVars PROVE SessInv'
  OBVIOUS
<1>1. CASE RuntimeStep
  BY <1>1, RuntimeStepInv
<1>2. CASE PollXrEvent
  BY <1>2, PollXrEventInv
<1>3. CASE UNCHANGED <<rtState, running, xrCall, xrEvents>>
  BY <1>3 DEF SessInv, SessTypeOK, ReadyQueued, StoppingQueued, OnlyLossAfter,
              RunningStates, IdleStates
<1>4. QED
  BY <1>1, <1>2, <1>3, SessionFrame

(* Only xrPollEvent takes an event off the queue.                         *)
LEMMA OnlyPollHandles ==
  ASSUME SessInv, [AppNext]_allVars, EventHandled
  PROVE  PollXrEvent
<1>1. xrEvents \in Seq(RtSt) /\ xrEvents # << >> /\ xrEvents' = Tail(xrEvents)
  BY DEF SessInv, SessTypeOK, EventHandled
<1>2. Len(xrEvents') = Len(xrEvents) - 1 /\ Len(xrEvents) \in Nat
  BY <1>1, HeadTailProperties, LenProperties
<1>3. ~RuntimeStep
  <2>1. ASSUME RuntimeStep PROVE FALSE
    <3>1. PICK tr \in RtTransitions : xrEvents' = Append(xrEvents, tr[2])
      BY <2>1 DEF RuntimeStep
    <3>2. Len(xrEvents') = Len(xrEvents) + 1
      BY <1>1, <3>1, AppendProperties
    <3>3. QED
      BY <1>2, <3>2
  <2>2. QED
    BY <2>1
<1>4. xrEvents' # xrEvents
  BY <1>2
<1>5. QED
  BY <1>3, <1>4, SessionFrame

(* Under SessInv every xrPollEvent makes its session call in the runtime  *)
(* state that allows it, or on a lost session.                             *)
LEMMA SessionStepOK == SessInv /\ [AppNext]_allVars => [SessionStep]_allVars
<1> SUFFICES ASSUME SessInv, [AppNext]_allVars, EventHandled
             PROVE  /\ xrCall' = "begin" => rtState \in {"READY", "LOSS_PENDING"}
                    /\ xrCall' = "end"   => rtState \in {"STOPPING", "LOSS_PENDING"}
  BY DEF SessionStep
<1>1. PollXrEvent
  BY OnlyPollHandles
<1>2. /\ xrCall' = SessionCall(Head(xrEvents))
      /\ xrEvents # << >>
      /\ xrEvents \in Seq(RtSt)
  BY <1>1 DEF PollXrEvent, SessInv, SessTypeOK
<1>3. Head(xrEvents) = xrEvents[1] /\ 1 \in 1..Len(xrEvents)
  BY <1>2, EmptySeq, LenProperties
<1>4. Head(xrEvents) = "READY" => rtState \in {"READY", "LOSS_PENDING"}
  BY <1>3 DEF SessInv, ReadyQueued
<1>5. Head(xrEvents) = "STOPPING" => rtState \in {"STOPPING", "LOSS_PENDING"}
  BY <1>3 DEF SessInv, StoppingQueued
<1>6. QED
  BY <1>2, <1>4, <1>5 DEF SessionCall

(***************************************************************************)
(* SessionCallsInState for every lifecycle: poll_events calls              *)
(* xrBeginSession only while the runtime is READY and xrEndSession only    *)
(* while it is STOPPING (the READY and STOPPING branches of its            *)
(* xrPollEvent loop), or on a session the runtime has since lost.          *)
(***************************************************************************)
THEOREM SessionCallsProved == AppSpec => SessionCallsInState
<1>1. AppSpec => []SessInv
  BY SessInvInit, SessInvStep, PTL DEF AppSpec
<1>2. QED
  BY <1>1, SessionStepOK, PTL DEF AppSpec, SessionCallsInState, SessionStep
=============================================================================
