-------------------------- MODULE FrameReportProofs --------------------------
(***************************************************************************)
(* Proof that the frame-timing reports reach the server with strictly      *)
(* increasing frame_sequence_ids (FrameReportsIncrease), for every number  *)
(* of textures and frames.  It rests on the hand-off invariant RInv: a     *)
(* drawn sample is newer than the held prev_sample.                        *)
(***************************************************************************)
EXTENDS HandOffRefinement, SequenceTheorems

(***************************************************************************)
(* Until dispose, no frame report in flight and none the server has        *)
(* received names a frame newer than prev_sample, the last one drawn.     *)
(***************************************************************************)
ReportsUpToPrev ==
  phase # "destroyed" =>
    /\ \A i \in 1..Len(upChan) :
         upChan[i].kind = "frame" => upChan[i].seq <= prev.seq
    /\ serverLastFrame <= prev.seq

(* The inductive strengthening of FrameReportsIncrease.                   *)
FInv == RInv /\ FrameReportsIncrease /\ ReportsUpToPrev
-----------------------------------------------------------------------------
(* The two orderings, stated for any channel contents s.                  *)
Increasing(s, last) ==
  \A i \in 1..Len(s) :
    s[i].kind = "frame" =>
      /\ s[i].seq > last
      /\ \A j \in 1..i - 1 : s[j].kind = "frame" => s[j].seq < s[i].seq

UpTo(s, b) == \A i \in 1..Len(s) : s[i].kind = "frame" => s[i].seq <= b

(* Sending a message that is newer than everything before it (or is not a *)
(* frame report) keeps the channel increasing.                             *)
LEMMA AppendKeeps ==
  ASSUME NEW s \in Seq(UpMessage), NEW m \in UpMessage,
         NEW last \in Int, NEW b \in Int, NEW b2 \in Int,
         Increasing(s, last), UpTo(s, b), last <= b, b <= b2,
         m.kind = "frame" => b < m.seq /\ m.seq <= b2
  PROVE  Increasing(Append(s, m), last) /\ UpTo(Append(s, m), b2)
<1>1. /\ Len(Append(s, m)) = Len(s) + 1
      /\ \A i \in 1..Len(s) : Append(s, m)[i] = s[i]
      /\ Append(s, m)[Len(s) + 1] = m
  BY AppendProperties
<1>2. \A i \in 1..Len(s) : s[i] \in UpMessage
  OBVIOUS
<1>3. UpTo(Append(s, m), b2)
  BY <1>1, <1>2 DEF UpTo, UpMessage
<1>4. Increasing(Append(s, m), last)
  BY <1>1, <1>2 DEF Increasing, UpTo, UpMessage
<1>5. QED
  BY <1>3, <1>4

(* The server taking the oldest message keeps the rest increasing, above  *)
(* the last frame it has now seen.                                         *)
LEMMA TailKeeps ==
  ASSUME NEW s \in Seq(UpMessage), s # << >>,
         NEW last \in Int, NEW b \in Int,
         Increasing(s, last), UpTo(s, b), last <= b
  PROVE  LET last2 == IF Head(s).kind = "frame" THEN Head(s).seq ELSE last
         IN  /\ Increasing(Tail(s), last2)
             /\ UpTo(Tail(s), b)
             /\ last2 <= b
<1> DEFINE last2 == IF Head(s).kind = "frame" THEN Head(s).seq ELSE last
<1>1. /\ Len(Tail(s)) = Len(s) - 1
      /\ \A i \in 1..Len(Tail(s)) : Tail(s)[i] = s[i + 1]
      /\ Head(s) = s[1]
      /\ Len(s) >= 1
  BY HeadTailProperties, EmptySeq, LenProperties
<1>2. \A i \in 1..Len(s) : s[i] \in UpMessage
  OBVIOUS
<1>3. last2 <= b /\ last2 \in Int
  BY <1>1, <1>2 DEF UpTo, UpMessage
<1>4. UpTo(Tail(s), b)
  BY <1>1 DEF UpTo
<1>5. Increasing(Tail(s), last2)
  BY <1>1, <1>2 DEF Increasing, UpMessage
<1>6. QED
  BY <1>3, <1>4, <1>5
-----------------------------------------------------------------------------
LEMMA FInvInit == Init => FInv
<1> SUFFICES ASSUME Init PROVE FInv
  OBVIOUS
<1>1. RInv
  BY RInvInit
<1>2. upChan = << >> /\ serverLastFrame = 0 /\ prev.seq = 0
  BY DEF Init, NoSample
<1>3. QED
  BY <1>1, <1>2 DEF FInv, FrameReportsIncrease, ReportsUpToPrev

(* The facts about the current state that every case uses.                *)
LEMMA FInvFacts ==
  ASSUME FInv
  PROVE  /\ upChan \in Seq(UpMessage)
         /\ serverLastFrame \in 0..MaxSeq
         /\ prev.seq \in Nat /\ pulled.seq \in Nat
         /\ pulled \in OptSample /\ MaxSeq \in Nat
         /\ FrameReportsIncrease <=> Increasing(upChan, serverLastFrame)
         /\ ReportsUpToPrev <=>
              (phase # "destroyed" =>
                 UpTo(upChan, prev.seq) /\ serverLastFrame <= prev.seq)
<1>1. TypeOK
  BY DEF FInv, RInv, IInv
<1>2. prev.seq \in Nat /\ pulled.seq \in Nat
  BY <1>1, SeqOfSlot DEF TypeOK
<1>3. QED
  BY <1>1, <1>2, StreamClientAssumption
  DEF TypeOK, FrameReportsIncrease, Increasing, ReportsUpToPrev, UpTo

LEMMA FInvStep == FInv /\ [Next]_vars => FInv'
<1> SUFFICES ASSUME FInv, [Next]_vars PROVE FInv'
  OBVIOUS
<1>0. RInv'
  BY RInvStep DEF FInv
<1>t. /\ upChan \in Seq(UpMessage)
      /\ serverLastFrame \in 0..MaxSeq
      /\ prev.seq \in Nat /\ pulled.seq \in Nat
      /\ pulled \in OptSample /\ MaxSeq \in Nat
      /\ Increasing(upChan, serverLastFrame)
      /\ phase # "destroyed" =>
           UpTo(upChan, prev.seq) /\ serverLastFrame <= prev.seq
  BY FInvFacts DEF FInv
<1>e. \A i \in 1..Len(upChan) : upChan[i].seq \in 0..MaxSeq
  <2>1. \A i \in 1..Len(upChan) : upChan[i] \in UpMessage
    BY <1>t
  <2>2. QED
    BY <2>1 DEF UpMessage
<1>p. FInv' <=> /\ RInv'
                /\ Increasing(upChan', serverLastFrame')
                /\ phase' # "destroyed" =>
                     UpTo(upChan', prev'.seq) /\ serverLastFrame' <= prev'.seq
  BY DEF FInv, FrameReportsIncrease, Increasing, ReportsUpToPrev, UpTo
(* Steps that leave the channel, the server and prev_sample alone.        *)
<1>1. CASE UNCHANGED <<upChan, serverLastFrame, prev>>
           /\ ((phase' = "destroyed") <=> (phase = "destroyed"))
  BY <1>0, <1>t, <1>p, <1>1
(* dispose: nothing is sent after it.                                     *)
<1>2. CASE Destroy
  BY <1>0, <1>t, <1>p, <1>2 DEF Destroy
(* report_pose after xrEndFrame sends a tracking message at most.         *)
<1>3. CASE EndFrame
  <2> DEFINE m == [kind |-> "tracking", seq |-> 0]
  <2>1. /\ phase # "destroyed" /\ phase' # "destroyed"
        /\ UNCHANGED <<serverLastFrame, prev>>
        /\ upChan' = upChan \/ upChan' = Append(upChan, m)
    BY <1>3 DEF EndFrame, ReportPose, EmitUpMessage
  <2>2. m \in UpMessage
    BY <1>t DEF UpMessage
  <2>3. CASE upChan' = Append(upChan, m)
    BY <1>0, <1>t, <1>p, <2>1, <2>2, <2>3, AppendKeeps
  <2>4. QED
    BY <1>0, <1>t, <1>p, <2>1, <2>3
(* The inner render draws a sample newer than prev_sample and reports it. *)
<1>4. CASE DrawSample
  <2> DEFINE m == [kind |-> "frame", seq |-> pulled.seq]
  <2>1. /\ phase = "draw" /\ phase' = "submit"
        /\ prev' = pulled /\ UNCHANGED serverLastFrame
        /\ upChan' = upChan \/ upChan' = Append(upChan, m)
    BY <1>4 DEF DrawSample, ReportFrameTiming, EmitUpMessage
  <2>2. prev.seq < pulled.seq
    BY <2>1 DEF FInv, RInv, SeqOrdered, DrawingHasSample
  <2>3. m \in UpMessage
    BY <1>t DEF UpMessage, OptSample, Sample, NoSample
  <2>4. CASE upChan' = Append(upChan, m)
    BY <1>0, <1>t, <1>p, <2>1, <2>2, <2>3, <2>4, AppendKeeps
  <2>5. CASE upChan' = upChan
    <3>1. UpTo(upChan, pulled.seq)
      <4>1. UpTo(upChan, prev.seq)
        BY <1>t, <2>1
      <4>2. QED
        BY <4>1, <1>e, <1>t, <2>2 DEF UpTo
    <3>2. QED
      BY <1>0, <1>t, <1>p, <2>1, <2>2, <2>5, <3>1
  <2>6. QED
    BY <2>1, <2>4, <2>5
(* data_channel_message_data_cb takes the oldest message.                 *)
<1>5. CASE ServerReceive
  <2>1. /\ upChan # << >> /\ upChan' = Tail(upChan)
        /\ serverLastFrame' = IF Head(upChan).kind = "frame"
                              THEN Head(upChan).seq ELSE serverLastFrame
        /\ UNCHANGED <<prev, phase>>
    BY <1>5 DEF ServerReceive
  <2>2. CASE phase = "destroyed"
    <3>1. UpTo(upChan, MaxSeq)
      BY <1>e DEF UpTo
    <3>2. QED
      BY <1>0, <1>t, <1>p, <2>1, <2>2, <3>1, TailKeeps
  <2>3. CASE phase # "destroyed"
    BY <1>0, <1>t, <1>p, <2>1, <2>3, TailKeeps
  <2>4. QED
    BY <2>2, <2>3
<1>6. QED
  <2>1. CASE BeginFrame \/ FrameSkipped \/ PullNone \/ PullSample
             \/ DecodeFrame \/ Connected \/ Disconnect \/ Terminated
             \/ UNCHANGED vars
    <3>1. UNCHANGED <<upChan, serverLastFrame, prev>>
          /\ ((phase' = "destroyed") <=> (phase = "destroyed"))
      BY <2>1 DEF BeginFrame, FrameSkipped, PullNone, PullSample, TryPull,
                  DecodeFrame, Connected, Disconnect, Terminated, vars
    <3>2. QED
      BY <3>1, <1>1
  <2>2. QED
    BY <2>1, <1>2, <1>3, <1>4, <1>5 DEF Next

(***************************************************************************)
(* For every number of textures and frames, the frame-timing reports that  *)
(* report_frame_timing sends reach the server's data_channel_message_data_cb *)
(* with strictly increasing frame_sequence_ids: the checked invariant      *)
(* FrameReportsIncrease holds in every reachable state.                    *)
(***************************************************************************)
THEOREM FrameReportsIncreaseProved == Spec => []FrameReportsIncrease
<1>1. Spec => []FInv
  BY FInvInit, FInvStep, PTL DEF Spec
<1>2. QED
  BY <1>1, PTL DEF FInv
=============================================================================
