----------------------- MODULE RemoteExperienceProofs -----------------------
(***************************************************************************)
(* Proofs about RemoteExperience for every value of the constants: the     *)
(* type invariant, and that no decoder texture is ever leaked or owned     *)
(* twice (TexturesPartitioned).                                            *)
(***************************************************************************)
EXTENDS RemoteExperience, TLAPS

(* The render thread holds a pulled sample only inside the inner render,  *)
(* between try_pull_sample and the adoption of that sample as prev.       *)
PulledOnlyWhileDrawing == phase # "draw" => pulled = NoSample

(* The inductive strengthening of TexturesPartitioned.                    *)
IInv == TypeOK /\ TexturesPartitioned /\ PulledOnlyWhileDrawing

(***************************************************************************)
(* Held(s) names the texture a slot references: none for NoSample, the     *)
(* sample's own texture otherwise.                                         *)
(***************************************************************************)
LEMMA HeldFacts ==
  ASSUME NEW s \in OptSample
  PROVE  /\ Held(s) \subseteq Textures
         /\ s = NoSample => Held(s) = {}
         /\ s \in Sample => Held(s) = {s.tex}
<1>1. NoSample \notin Sample
  BY StreamClientAssumption DEF NoSample, Sample
<1>2. QED
  BY <1>1, StreamClientAssumption DEF Held, OptSample, Sample, NoSample

-----------------------------------------------------------------------------
(* The initial state of em_remote_experience_new is well typed.           *)
LEMMA TypeInit == Init => TypeOK
<1> SUFFICES ASSUME Init PROVE TypeOK
  OBVIOUS
<1>1. NoSample \in OptSample
  BY DEF OptSample
<1>2. "ADDITIVE" \in Blends \ {"UNSET"}
  BY RemoteExperienceAssumption
<1>3. [result |-> "NONE", pose |-> 0, image |-> 0]
        \in [result : Results, pose : 0..MaxSeq, image : 0..MaxSeq]
  BY StreamClientAssumption DEF Results
<1>4. << >> \in Seq(UpMessage)
  OBVIOUS
<1>5. nextSeq \in 1..MaxSeq + 1
  BY StreamClientAssumption DEF Init, SCInit
<1>6. free \subseteq Textures /\ ready \in OptSample /\ scStopped \in BOOLEAN
  BY <1>1 DEF Init, SCInit
<1>7. QED
  BY <1>1, <1>2, <1>3, <1>4, <1>5, <1>6 DEF Init, TypeOK, Phases, Results

(* Every step of the render thread, the decode thread, the connection and *)
(* the server keeps the state well typed.                                  *)
LEMMA TypeStep == TypeOK /\ [Next]_vars => TypeOK'
<1> SUFFICES ASSUME TypeOK, [Next]_vars PROVE TypeOK'
  OBVIOUS
<1> USE StreamClientAssumption, RemoteExperienceAssumption
<1>1. CASE BeginFrame
  BY <1>1 DEF BeginFrame, TypeOK, Phases, Results
<1>2. CASE FrameSkipped
  BY <1>2 DEF FrameSkipped, TypeOK, Results
<1>3. CASE PullNone
  BY <1>3 DEF PullNone, TypeOK, Phases, Results
<1>4. CASE PullSample
  BY <1>4 DEF PullSample, TryPull, TypeOK, Phases, OptSample, NoSample
<1>5. CASE DrawSample
  <2>1. pulled.seq \in 0..MaxSeq /\ pulled.blend \in Blends
    BY DEF TypeOK, OptSample, Sample, NoSample
  <2>2. Held(prev) \subseteq Textures
    BY HeldFacts DEF TypeOK
  <2>3. [kind |-> "frame", seq |-> pulled.seq] \in UpMessage
    BY <2>1 DEF UpMessage
  <2>4. upChan' \in Seq(UpMessage)
    BY <1>5, <2>3 DEF DrawSample, ReportFrameTiming, EmitUpMessage, TypeOK
  <2>5. blend' \in Blends \ {"UNSET"}
    BY <1>5, <2>1 DEF DrawSample, TypeOK
  <2>6. NoSample \in OptSample
    BY DEF OptSample
  <2>7. QED
    BY <1>5, <2>1, <2>2, <2>4, <2>5, <2>6
    DEF DrawSample, ReleaseSample, TypeOK, Phases, Results
<1>6. CASE EndFrame
  <2>1. [kind |-> "tracking", seq |-> 0] \in UpMessage
    BY DEF UpMessage
  <2>2. upChan' \in Seq(UpMessage)
    <3>1. CASE EmitUpMessage([kind |-> "tracking", seq |-> 0])
      BY <3>1, <2>1 DEF EmitUpMessage, TypeOK
    <3>2. CASE UNCHANGED upChan
      BY <3>2 DEF TypeOK
    <3>3. QED
      BY <1>6, <3>1, <3>2 DEF EndFrame, ReportPose
  <2>3. submitted' \in [result : Results, pose : 0..MaxSeq, image : 0..MaxSeq]
    BY <1>6 DEF EndFrame, TypeOK
  <2>4. QED
    BY <1>6, <2>2, <2>3 DEF EndFrame, TypeOK, Phases
<1>7. CASE DecodeFrame
  <2>1. Held(ready) \subseteq Textures
    BY HeldFacts DEF TypeOK
  <2>2. QED
    BY <1>7, <2>1 DEF DecodeFrame, Decode, TypeOK, OptSample, Sample
<1>8. CASE Connected
  BY <1>8 DEF Connected, TypeOK
<1>9. CASE Disconnect
  <2>1. Held(ready) \subseteq Textures
    BY HeldFacts DEF TypeOK
  <2>2. QED
    BY <1>9, <2>1 DEF Disconnect, Flush, TypeOK, OptSample, NoSample
<1>10. CASE Destroy
  <2>1. Held(ready) \subseteq Textures /\ Held(prev) \subseteq Textures
    BY HeldFacts DEF TypeOK
  <2>2. QED
    BY <1>10, <2>1 DEF Destroy, TypeOK, OptSample, NoSample, Phases
<1>11. CASE ServerReceive
  <2>1. Head(upChan) \in UpMessage
    BY <1>11 DEF ServerReceive, TypeOK
  <2>2. QED
    BY <1>11, <2>1 DEF ServerReceive, TypeOK, UpMessage
<1>12. CASE Terminated
  BY <1>12 DEF Terminated, TypeOK, vars
<1>13. CASE UNCHANGED vars
  BY <1>13 DEF TypeOK, vars
<1>14. QED
  BY <1>1, <1>2, <1>3, <1>4, <1>5, <1>6, <1>7, <1>8, <1>9, <1>10, <1>11,
     <1>12, <1>13 DEF Next

(* Type correctness of the model for every value of the constants.       *)
THEOREM TypeCorrect == Spec => []TypeOK
BY TypeInit, TypeStep, PTL DEF Spec

-----------------------------------------------------------------------------
(* The empty slot references no texture; a slot holding a sample of       *)
(* texture t references exactly t.                                         *)
LEMMA HeldNoSample == Held(NoSample) = {}
BY StreamClientAssumption DEF Held, NoSample

LEMMA HeldSample ==
  ASSUME NEW t \in Textures, NEW n, NEW b
  PROVE  Held([tex |-> t, seq |-> n, blend |-> b]) = {t}
BY DEF Held

(* The decode thread and the render thread start with every texture in    *)
(* the decoder's pool.                                                     *)
LEMMA IInvInit == Init => IInv
<1> SUFFICES ASSUME Init PROVE IInv
  OBVIOUS
<1>1. TypeOK
  BY TypeInit
<1>2. Held(ready) = {} /\ Held(pulled) = {} /\ Held(prev) = {}
  BY HeldNoSample DEF Init, SCInit
<1>3. QED
  BY <1>1, <1>2 DEF IInv, TexturesPartitioned, PulledOnlyWhileDrawing,
                    Init, SCInit

(***************************************************************************)
(* Every step moves a texture between the pool, the ready slot, the pulled *)
(* sample and prev_sample without copying or dropping it: the decode       *)
(* thread takes a pool texture and returns the displaced one, try_pull     *)
(* moves the ready sample to the render thread (whose pulled slot is empty *)
(* outside the inner render), the inner render returns prev's texture, and *)
(* disconnect and destroy return what the slots held.                      *)
(***************************************************************************)
LEMMA IInvStep == IInv /\ [Next]_vars => IInv'
<1> SUFFICES ASSUME IInv, [Next]_vars PROVE IInv'
  OBVIOUS
<1> USE StreamClientAssumption
<1>0. TypeOK'
  BY TypeStep DEF IInv
<1>1. CASE UNCHANGED <<free, ready, pulled, prev>>
            /\ (pulled = NoSample \/ phase' = phase)
  BY <1>0, <1>1 DEF IInv, TexturesPartitioned, PulledOnlyWhileDrawing, Held
<1>2. CASE PullSample
  <2>1. pulled = NoSample
    BY <1>2 DEF PullSample, IInv, PulledOnlyWhileDrawing
  <2>2. Held(pulled) = {} /\ Held(ready') = {} /\ Held(pulled') = Held(ready)
    BY <1>2, <2>1, HeldNoSample DEF PullSample, TryPull
  <2>3. QED
    BY <1>0, <1>2, <2>2 DEF PullSample, TryPull, IInv, TexturesPartitioned,
                            PulledOnlyWhileDrawing
<1>3. CASE DrawSample
  <2>1. Held(pulled') = {} /\ Held(prev') = Held(pulled)
    BY <1>3, HeldNoSample DEF DrawSample
  <2>2. QED
    BY <1>0, <1>3, <2>1 DEF DrawSample, ReleaseSample, IInv,
                            TexturesPartitioned, PulledOnlyWhileDrawing
<1>4. CASE DecodeFrame
  <2>1. PICK t \in free, n \in nextSeq..MaxSeq, b \in Blends :
          /\ ready' = [tex |-> t, seq |-> n, blend |-> b]
          /\ free' = (free \ {t}) \cup Held(ready)
    BY <1>4 DEF DecodeFrame, Decode
  <2>2. t \in Textures
    BY DEF IInv, TypeOK
  <2>3. Held(ready') = {t}
    BY <2>1, <2>2, HeldSample
  <2>4. UNCHANGED <<pulled, prev, phase>>
    BY <1>4 DEF DecodeFrame
  <2>5. QED
    BY <1>0, <2>1, <2>3, <2>4 DEF IInv, TexturesPartitioned,
                                  PulledOnlyWhileDrawing, Held
<1>5. CASE Disconnect
  <2>1. Held(ready') = {} /\ UNCHANGED <<pulled, prev, phase>>
    BY <1>5, HeldNoSample DEF Disconnect, Flush
  <2>2. QED
    BY <1>0, <1>5, <2>1 DEF Disconnect, Flush, IInv, TexturesPartitioned,
                            PulledOnlyWhileDrawing, Held
<1>6. CASE Destroy
  <2>1. Held(ready') = {} /\ Held(prev') = {} /\ Held(pulled) = {}
    BY <1>6, HeldNoSample DEF Destroy, IInv, PulledOnlyWhileDrawing
  <2>2. QED
    BY <1>0, <1>6, <2>1 DEF Destroy, IInv, TexturesPartitioned,
                            PulledOnlyWhileDrawing, Held
<1>7. QED
  <2>1. CASE BeginFrame \/ FrameSkipped \/ PullNone \/ EndFrame \/ Connected
             \/ ServerReceive \/ Terminated \/ UNCHANGED vars
    <3>1. UNCHANGED <<free, ready, pulled, prev>>
      BY <2>1 DEF BeginFrame, FrameSkipped, PullNone, EndFrame, Connected,
                  ServerReceive, Terminated, vars
    <3>2. pulled = NoSample \/ phase' = phase
      BY <2>1 DEF IInv, PulledOnlyWhileDrawing, BeginFrame, FrameSkipped, PullNone, EndFrame, Connected,
                  ServerReceive, Terminated, vars
    <3>3. QED
      BY <1>1, <3>1, <3>2
  <2>2. QED
    BY <2>1, <1>2, <1>3, <1>4, <1>5, <1>6 DEF Next

(***************************************************************************)
(* No decoder texture is ever leaked or referenced from two places, for    *)
(* every number of textures and frames: the hand-off between the decode    *)
(* thread and the render thread (try_pull_sample / release_sample, the     *)
(* prev_sample swap, flush and destroy) releases each texture exactly once. *)
(***************************************************************************)
THEOREM TexturesNeverLeakedOrShared == Spec => []TexturesPartitioned
<1>1. IInv => TexturesPartitioned
  BY DEF IInv
<1>2. QED
  BY IInvInit, IInvStep, <1>1, PTL DEF Spec
=============================================================================
