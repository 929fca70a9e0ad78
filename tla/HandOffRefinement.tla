--------------------------- MODULE HandOffRefinement ---------------------------
(***************************************************************************)
(* Proof that RemoteExperience (the render loop with the stream client)    *)
(* implements SampleHandOff under the refinement mapping HandOff defined   *)
(* in RemoteExperience, for every value of the constants.                  *)
(***************************************************************************)
EXTENDS RemoteExperienceProofs

(***************************************************************************)
(* Sequence ids only grow along the hand-off: every sample in a slot was   *)
(* decoded before nextSeq, a pulled sample is newer than the held one, and *)
(* the ready sample is newer than both.                                    *)
(***************************************************************************)
SeqOrdered ==
  /\ prev.seq < nextSeq /\ pulled.seq < nextSeq /\ ready.seq < nextSeq
  /\ pulled # NoSample => prev.seq < pulled.seq
  /\ ready # NoSample => prev.seq < ready.seq /\ pulled.seq < ready.seq

(* The inner render always has the sample try_pull_sample returned.       *)
DrawingHasSample == phase = "draw" => pulled # NoSample

RInv == IInv /\ SeqOrdered /\ DrawingHasSample

(***************************************************************************)
(* When the pool, the ready slot and the two render-thread slots partition *)
(* the textures, the textures outside the pool and the ready slot are      *)
(* exactly those the render thread holds.                                  *)
(***************************************************************************)
LEMMA OutOfPartition ==
  ASSUME NEW F, NEW r \in OptSample, NEW pu \in OptSample, NEW pr \in OptSample,
         F \subseteq Textures,
         \A t \in Textures : t \in F \cup Held(r) \cup Held(pu) \cup Held(pr),
         F \cap (Held(r) \cup Held(pu) \cup Held(pr)) = {},
         Held(r) \cap (Held(pu) \cup Held(pr)) = {}
  PROVE  Textures \ (F \cup Held(r)) = Held(pu) \cup Held(pr)
<1>1. Held(pu) \subseteq Textures /\ Held(pr) \subseteq Textures
  BY HeldFacts
<1>2. QED
  BY <1>1

(* A sample in a slot has a positive sequence id; the empty slot has 0.  *)
LEMMA SeqOfSlot ==
  ASSUME NEW s \in OptSample
  PROVE  /\ s.seq \in Nat
         /\ s # NoSample => s.seq >= 1
<1>1. NoSample.seq = 0
  BY DEF NoSample
<1>2. QED
  BY <1>1, StreamClientAssumption DEF OptSample, Sample

-----------------------------------------------------------------------------
LEMMA RInvInit == Init => RInv
<1> SUFFICES ASSUME Init PROVE RInv
  OBVIOUS
<1>1. IInv
  BY IInvInit
<1>2. ready = NoSample /\ pulled = NoSample /\ prev = NoSample /\ nextSeq = 1
  BY DEF Init, SCInit
<1>3. QED
  BY <1>1, <1>2 DEF RInv, SeqOrdered, DrawingHasSample, NoSample, Init

(***************************************************************************)
(* The decode thread gives each frame an id at or above nextSeq, so a new  *)
(* ready sample is newer than everything the render thread holds; pulling *)
(* moves the newest sample to the render thread, and the inner render      *)
(* makes it prev_sample.                                                   *)
(***************************************************************************)
LEMMA SeqStep == RInv /\ [Next]_vars => SeqOrdered'
<1> SUFFICES ASSUME RInv, [Next]_vars PROVE SeqOrdered'
  OBVIOUS
<1> USE StreamClientAssumption
<1>0. /\ ready \in OptSample /\ pulled \in OptSample /\ prev \in OptSample
      /\ nextSeq \in Nat
  BY DEF RInv, IInv, TypeOK
<1>s. /\ ready.seq \in Nat /\ pulled.seq \in Nat /\ prev.seq \in Nat
      /\ ready # NoSample => ready.seq >= 1
      /\ NoSample.seq = 0
  BY <1>0, SeqOfSlot DEF NoSample
<1>1. CASE UNCHANGED <<ready, pulled, prev, nextSeq>>
  BY <1>1 DEF RInv, SeqOrdered
<1>2. CASE PullSample
  <2>1. pulled' = ready /\ ready' = NoSample /\ UNCHANGED <<prev, nextSeq>>
    BY <1>2 DEF PullSample, TryPull
  <2>2. ready # NoSample
    BY <1>2 DEF PullSample
  <2>3. QED
    BY <2>1, <2>2, <1>0, <1>s DEF RInv, SeqOrdered
<1>3. CASE DrawSample
  <2>1. prev' = pulled /\ pulled' = NoSample /\ UNCHANGED <<ready, nextSeq>>
    BY <1>3 DEF DrawSample
  <2>2. QED
    BY <2>1, <1>0, <1>s DEF RInv, SeqOrdered
<1>4. CASE DecodeFrame
  <2>1. PICK t \in free, n \in nextSeq..MaxSeq, b \in Blends :
          /\ ready' = [tex |-> t, seq |-> n, blend |-> b]
          /\ nextSeq' = n + 1
    BY <1>4 DEF DecodeFrame, Decode
  <2>2. UNCHANGED <<pulled, prev>>
    BY <1>4 DEF DecodeFrame
  <2>3. QED
    BY <2>1, <2>2, <1>0, <1>s DEF RInv, SeqOrdered
<1>5. CASE Disconnect
  <2>1. ready' = NoSample /\ UNCHANGED <<pulled, prev, nextSeq>>
    BY <1>5 DEF Disconnect, Flush
  <2>2. QED
    BY <2>1, <1>0, <1>s DEF RInv, SeqOrdered
<1>6. CASE Destroy
  <2>1. ready' = NoSample /\ prev' = NoSample /\ UNCHANGED <<pulled, nextSeq>>
    BY <1>6 DEF Destroy
  <2>2. QED
    BY <2>1, <1>0, <1>s DEF RInv, SeqOrdered
<1>7. QED
  <2>1. CASE BeginFrame \/ FrameSkipped \/ PullNone \/ EndFrame \/ Connected
             \/ ServerReceive \/ Terminated \/ UNCHANGED vars
    <3>1. UNCHANGED <<ready, pulled, prev, nextSeq>>
      BY <2>1 DEF BeginFrame, FrameSkipped, PullNone, EndFrame, Connected,
                  ServerReceive, Terminated, vars
    <3>2. QED
      BY <3>1, <1>1
  <2>2. QED
    BY <2>1, <1>2, <1>3, <1>4, <1>5, <1>6 DEF Next

(* Only try_pull_sample with a sample enters the inner render, and only   *)
(* the adoption of that sample leaves it.                                  *)
LEMMA DrawingStep == RInv /\ [Next]_vars => DrawingHasSample'
<1> SUFFICES ASSUME RInv, [Next]_vars PROVE DrawingHasSample'
  OBVIOUS
<1>1. CASE PullSample
  BY <1>1 DEF PullSample, DrawingHasSample
<1>2. CASE DrawSample
  BY <1>2 DEF DrawSample, DrawingHasSample
<1>3. CASE BeginFrame \/ FrameSkipped \/ PullNone \/ EndFrame \/ Connected
           \/ ServerReceive \/ Terminated \/ DecodeFrame \/ Disconnect
           \/ Destroy \/ UNCHANGED vars
  <2>1. phase' # "draw" \/ UNCHANGED <<phase, pulled>>
    BY <1>3 DEF BeginFrame, FrameSkipped, PullNone, EndFrame, Connected,
                ServerReceive, Terminated, DecodeFrame, Disconnect, Destroy,
                vars
  <2>2. QED
    BY <2>1 DEF RInv, DrawingHasSample
<1>4. QED
  BY <1>1, <1>2, <1>3 DEF Next

LEMMA RInvStep == RInv /\ [Next]_vars => RInv'
BY IInvStep, SeqStep, DrawingStep DEF RInv

-----------------------------------------------------------------------------
(***************************************************************************)
(* Each step of the render loop and the stream client is a step of the     *)
(* hand-off or leaves it unchanged: try_pull_sample checks out the ready   *)
(* sample, the inner render releases the old prev_sample, dispose closes,  *)
(* and every other step (the decode thread, flush, the XR frame) moves     *)
(* textures only among the decoder's places.                               *)
(***************************************************************************)
LEMMA RefinementStep == RInv /\ [Next]_vars => [HandOff!Next]_HandOff!vars
<1> SUFFICES ASSUME RInv, [Next]_vars PROVE [HandOff!Next]_HandOff!vars
  OBVIOUS
<1> USE StreamClientAssumption
<1>0. IInv'
  BY IInvStep DEF RInv
<1>a. handOffOut = Held(pulled) \cup Held(prev)
  <2>1. /\ free \subseteq Textures
        /\ ready \in OptSample /\ pulled \in OptSample /\ prev \in OptSample
    BY DEF RInv, IInv, TypeOK
  <2>2. QED
    BY <2>1, OutOfPartition DEF RInv, IInv, TexturesPartitioned, handOffOut
<1>b. handOffOut' = Held(pulled') \cup Held(prev')
  <2>1. /\ free' \subseteq Textures
        /\ ready' \in OptSample /\ pulled' \in OptSample /\ prev' \in OptSample
    BY <1>0 DEF IInv, TypeOK
  <2>2. QED
    BY <1>0, <2>1, OutOfPartition DEF IInv, TexturesPartitioned, handOffOut
<1>1. CASE UNCHANGED <<pulled, prev>>
            /\ ((phase' = "destroyed") <=> (phase = "destroyed"))
  <2>1. UNCHANGED HandOff!vars
    BY <1>1, <1>a, <1>b DEF HandOff!vars, handOffNewest
  <2>2. QED
    BY <2>1
<1>2. CASE PullSample
  <2>1. /\ pulled = NoSample /\ ready # NoSample /\ phase = "pull"
        /\ pulled' = ready /\ ready' = NoSample /\ phase' = "draw"
        /\ UNCHANGED <<free, prev>>
    BY <1>2 DEF PullSample, TryPull, RInv, IInv, PulledOnlyWhileDrawing
  <2>2. ready \in Sample /\ prev \in OptSample
    BY <2>1 DEF RInv, IInv, TypeOK, OptSample
  <2>3. Held(ready) = {ready.tex} /\ Held(pulled) = {}
    <3>1. Held(ready) = {ready.tex}
      BY <2>2 DEF Held, Sample
    <3>2. QED
      BY <3>1, <2>1, HeldNoSample
  <2>4. ready.tex \in Textures \ handOffOut
    <3>1. ready.tex \in Textures
      BY <2>2 DEF Sample
    <3>2. QED
      BY <3>1, <2>3, <1>a DEF RInv, IInv, TexturesPartitioned
  <2>5. \A u, v \in handOffOut : u = v
    <3>1. CASE prev = NoSample
      BY <3>1, <1>a, <2>3, HeldNoSample
    <3>2. CASE prev # NoSample
      <4>1. prev \in Sample
        BY <3>2, <2>2 DEF OptSample
      <4>2. Held(prev) = {prev.tex}
        BY <4>1 DEF Held, Sample
      <4>3. QED
        BY <4>2, <1>a, <2>3
    <3>3. QED
      BY <3>1, <3>2
  <2>6. handOffOut' = handOffOut \cup {ready.tex}
    BY <2>1, <2>3, <1>a, <1>b
  <2>7. handOffNewest' \in Nat /\ handOffNewest' > handOffNewest
    <3>1. handOffNewest' = ready.seq /\ handOffNewest = prev.seq
      BY <2>1 DEF handOffNewest
    <3>2. ready.seq \in Nat
      BY <2>2, SeqOfSlot DEF OptSample
    <3>3. QED
      BY <3>1, <3>2, <2>1 DEF RInv, SeqOrdered
  <2>8. HandOff!CheckOut(ready.tex)
    BY <2>1, <2>4, <2>5, <2>6, <2>7 DEF HandOff!CheckOut
  <2>9. ready.tex \in Textures
    BY <2>2 DEF Sample
  <2>10. QED
    BY <2>8, <2>9 DEF HandOff!Next
<1>3. CASE DrawSample
  <2>1. /\ phase = "draw" /\ phase' = "submit"
        /\ prev' = pulled /\ pulled' = NoSample
    BY <1>3 DEF DrawSample
  <2>2. Held(pulled') = {}
    BY <2>1, HeldNoSample
  <2>3. handOffNewest' = handOffNewest
    <3>1. pulled # NoSample
      BY <2>1 DEF RInv, DrawingHasSample
    <3>2. QED
      BY <2>1, <3>1 DEF handOffNewest
  <2>4. CASE prev = NoSample
    <3>1. handOffOut' = handOffOut
      BY <2>1, <2>2, <2>4, <1>a, <1>b, HeldNoSample
    <3>2. QED
      BY <2>1, <2>3, <3>1 DEF HandOff!vars
  <2>5. CASE prev # NoSample
    <3>1. prev \in Sample
      BY <2>5 DEF RInv, IInv, TypeOK, OptSample
    <3>2. Held(prev) = {prev.tex} /\ prev.tex \in Textures
      BY <3>1 DEF Held, Sample
    <3>3. prev.tex \notin Held(pulled)
      BY <3>2 DEF RInv, IInv, TexturesPartitioned
    <3>4. handOffOut' = handOffOut \ {prev.tex}
      BY <2>1, <2>2, <3>2, <3>3, <1>a, <1>b
    <3>5. HandOff!Release(prev.tex)
      BY <2>1, <2>3, <3>2, <3>4, <1>a DEF HandOff!Release
    <3>6. QED
      BY <3>2, <3>5 DEF HandOff!Next
  <2>6. QED
    BY <2>4, <2>5
<1>4. CASE Destroy
  <2>1. /\ phase = "idle" /\ phase' = "destroyed"
        /\ prev' = NoSample /\ pulled' = pulled /\ pulled = NoSample
    BY <1>4 DEF Destroy, RInv, IInv, PulledOnlyWhileDrawing
  <2>2. handOffOut' = {}
    BY <2>1, <1>b, HeldNoSample
  <2>3. handOffNewest' = 0
    BY <2>1 DEF handOffNewest, NoSample
  <2>4. HandOff!Close
    BY <2>1, <2>2, <2>3 DEF HandOff!Close
  <2>5. QED
    BY <2>4 DEF HandOff!Next
<1>5. QED
  <2>1. CASE BeginFrame \/ FrameSkipped \/ PullNone \/ EndFrame \/ Connected
             \/ ServerReceive \/ Terminated \/ DecodeFrame \/ Disconnect
             \/ UNCHANGED vars
    <3>1. UNCHANGED <<pulled, prev>>
          /\ ((phase' = "destroyed") <=> (phase = "destroyed"))
      BY <2>1 DEF BeginFrame, FrameSkipped, PullNone, EndFrame, Connected,
                  ServerReceive, Terminated, DecodeFrame, Disconnect, vars
    <3>2. QED
      BY <3>1, <1>1
  <2>2. QED
    BY <2>1, <1>2, <1>3, <1>4 DEF Next

(***************************************************************************)
(* The render loop and the stream client implement the sample hand-off     *)
(* contract, for every number of textures and frames: the checked property *)
(* ImplementsHandOff holds of every behaviour of Spec.                     *)
(***************************************************************************)
THEOREM HandOffImplemented == Spec => ImplementsHandOff
<1>1. Init => HandOff!Init
  <2>1. Init => handOffOut = {}
    BY HeldNoSample DEF Init, SCInit, handOffOut
  <2>2. Init => handOffNewest = 0
    BY DEF Init, handOffNewest, NoSample
  <2>3. QED
    BY <2>1, <2>2 DEF Init, HandOff!Init
<1>2. QED
  BY <1>1, RInvInit, RInvStep, RefinementStep, PTL
  DEF Spec, ImplementsHandOff, HandOff!Spec
=============================================================================
