------------------------ MODULE ServerLifecycleProofs ------------------------
(***************************************************************************)
(* Type correctness of the server pipeline's lifecycle for every bound on  *)
(* the messages the pipeline posts.                                        *)
(***************************************************************************)
EXTENDS ServerLifecycle, SequenceTheorems, TLAPS

USE ServerLifecycleAssumption

LEMMA LcTypeInit == LifecycleInit => LifecycleTypeOK
<1> SUFFICES ASSUME LifecycleInit PROVE LifecycleTypeOK
  OBVIOUS
<1>1. bus \in Seq(BusMsgs)
  BY EmptySeq DEF LifecycleInit
<1>2. /\ pstate \in {"NULL", "PLAYING"} /\ posts \in 0..MaxPosts
      /\ stopPc \in {"none", "wait", "null", "done"}
  BY DEF LifecycleInit
<1>3. /\ played \in BOOLEAN /\ eosSent \in BOOLEAN /\ egpFreed \in BOOLEAN
      /\ aborted \in BOOLEAN /\ uaf \in BOOLEAN
  BY DEF LifecycleInit
<1>4. QED
  BY <1>1, <1>2, <1>3 DEF LifecycleTypeOK

(* A message a step posts is one the bus can hold.                        *)
LEMMA PostKeeps ==
  ASSUME NEW b \in Seq(BusMsgs), NEW m \in BusMsgs
  PROVE  Append(b, m) \in Seq(BusMsgs)
BY AppendProperties

LEMMA LcTypeStep == LifecycleTypeOK /\ [LifecycleNext]_lcVars => LifecycleTypeOK'
<1> SUFFICES ASSUME LifecycleTypeOK, [LifecycleNext]_lcVars
             PROVE  LifecycleTypeOK'
  OBVIOUS
<1> USE DEF LifecycleTypeOK
<1>1. CASE Play
  <2>1. bus' \in Seq(BusMsgs)
    BY <1>1, PostKeeps DEF Play, BusMsgs
  <2>2. QED
    BY <1>1, <2>1 DEF Play
<1>2. CASE PipelinePost
  <2>1. bus' \in Seq(BusMsgs)
    BY <1>2, PostKeeps DEF PipelinePost, BusMsgs
  <2>2. QED
    BY <1>2, <2>1 DEF PipelinePost
<1>3. CASE PostEos
  <2>1. bus' \in Seq(BusMsgs)
    BY <1>3, PostKeeps DEF PostEos, BusMsgs
  <2>2. QED
    BY <1>3, <2>1 DEF PostEos
(* The bus watch and the stop's pop take the oldest message.              *)
<1>4. CASE BusWatch \/ StopPop
  <2>1. bus # << >> /\ bus' = Tail(bus)
    BY <1>4 DEF BusWatch, StopPop
  <2>2. bus' \in Seq(BusMsgs)
    BY <2>1, HeadTailProperties
  <2>3. QED
    BY <1>4, <2>2 DEF BusWatch, StopPop
<1>5. CASE StopSetNull
  <2>1. bus' \in Seq(BusMsgs)
    BY <1>5, EmptySeq DEF StopSetNull
  <2>2. QED
    BY <1>5, <2>1 DEF StopSetNull
<1>6. CASE SignalingEvent \/ StopIfPlaying \/ Stop \/ StopTimeout \/ Destroy
  BY <1>6 DEF SignalingEvent, StopIfPlaying, Stop, SendEos, StopTimeout,
              Destroy
<1>7. CASE UNCHANGED lcVars
  BY <1>7 DEF lcVars
<1>8. QED
  BY <1>1, <1>2, <1>3, <1>4, <1>5, <1>6, <1>7 DEF LifecycleNext, Caller

(* Every reachable state of play, stop, the bus watch and destroy is well *)
(* typed: in particular stop always leaves the pipeline in NULL, never in *)
(* an intermediate state, and the bus holds only the message kinds        *)
(* gst_bus_cb handles.                                                     *)
THEOREM LifecycleTypeCorrect == LifecycleSpec => []LifecycleTypeOK
BY LcTypeInit, LcTypeStep, PTL DEF LifecycleSpec
-----------------------------------------------------------------------------
(***************************************************************************)
(* AbortOnlyAfterStop.  gst_bus_cb aborts only on EOS, and only stop sends *)
(* one, so the strengthening says that an EOS in flight or on the bus      *)
(* means a stop has begun; the stop sequence never goes back to "none".    *)
(***************************************************************************)
OnBus(m) == \E i \in 1..Len(bus) : bus[i] = m

EosPending == eosSent \/ OnBus("EOS")

AbortInv ==
  /\ LifecycleTypeOK
  /\ EosPending => stopPc # "none"
  /\ AbortOnlyAfterStop

(* A message is on a sequence after an append if it was before, or it is  *)
(* the one appended.                                                       *)
LEMMA OnAppend ==
  ASSUME NEW b \in Seq(BusMsgs), NEW m \in BusMsgs, NEW x,
         \E i \in 1..Len(Append(b, m)) : Append(b, m)[i] = x
  PROVE  (\E i \in 1..Len(b) : b[i] = x) \/ m = x
BY AppendProperties

(* A message left on a sequence after its head is taken was on it.        *)
LEMMA OnTail ==
  ASSUME NEW b \in Seq(BusMsgs), b # << >>, NEW x,
         \E i \in 1..Len(Tail(b)) : Tail(b)[i] = x
  PROVE  \E i \in 1..Len(b) : b[i] = x
BY HeadTailProperties

(* The head of a non-empty sequence is on it.                             *)
LEMMA OnHead ==
  ASSUME NEW b \in Seq(BusMsgs), b # << >>
  PROVE  \E i \in 1..Len(b) : b[i] = Head(b)
BY EmptySeq, LenProperties

LEMMA AbortInvInit == LifecycleInit => AbortInv
<1> SUFFICES ASSUME LifecycleInit PROVE AbortInv
  OBVIOUS
<1>1. ~EosPending /\ ~aborted
  BY DEF LifecycleInit, EosPending, OnBus
<1>2. QED
  BY <1>1, LcTypeInit DEF AbortInv, AbortOnlyAfterStop

LEMMA AbortInvStep == AbortInv /\ [LifecycleNext]_lcVars => AbortInv'
<1> SUFFICES ASSUME AbortInv, [LifecycleNext]_lcVars PROVE AbortInv'
  OBVIOUS
<1>0. bus \in Seq(BusMsgs)
  BY DEF AbortInv, LifecycleTypeOK
(* Once begun, the stop sequence never returns to "none".                 *)
<1>1. stopPc # "none" => stopPc' # "none"
  BY DEF LifecycleNext, Caller, Play, StopIfPlaying, Stop, SendEos, StopPop,
         StopTimeout, StopSetNull, Destroy, PipelinePost, PostEos, BusWatch,
         SignalingEvent, lcVars
(* An EOS appears only where a stop has begun.                            *)
<1>2. EosPending' => EosPending \/ stopPc' # "none"
  <2>1. CASE Play
    <3>a. bus' = Append(bus, "STATE") /\ eosSent' = eosSent
      BY <2>1 DEF Play
    <3>b. OnBus("EOS")' => OnBus("EOS")
      BY <1>0, <3>a, OnAppend DEF OnBus, BusMsgs
    <3>c. QED
      BY <3>a, <3>b DEF EosPending
  <2>2. CASE PipelinePost
    <3>a. PICK m \in {"ERROR", "WARNING"} : bus' = Append(bus, m)
      BY <2>2 DEF PipelinePost
    <3>b. OnBus("EOS")' => OnBus("EOS")
      BY <1>0, <3>a, OnAppend DEF OnBus, BusMsgs
    <3>c. QED
      BY <2>2, <3>b DEF PipelinePost, EosPending
  <2>3. CASE PostEos
    BY <2>3 DEF PostEos, EosPending
  <2>4. CASE BusWatch \/ StopPop
    <3>a. bus # << >> /\ bus' = Tail(bus) /\ eosSent' = eosSent
      BY <2>4 DEF BusWatch, StopPop
    <3>b. OnBus("EOS")' => OnBus("EOS")
      BY <1>0, <3>a, OnTail DEF OnBus
    <3>c. QED
      BY <3>a, <3>b DEF EosPending
  <2>5. CASE StopIfPlaying \/ Stop
    BY <2>5 DEF StopIfPlaying, Stop, SendEos
  <2>6. CASE StopSetNull
    <3>a. eosSent' = FALSE /\ stopPc' = "done"
      BY <2>6 DEF StopSetNull
    <3>b. QED
      BY <3>a
  <2>7. CASE SignalingEvent \/ StopTimeout \/ Destroy \/ UNCHANGED lcVars
    BY <2>7 DEF SignalingEvent, StopTimeout, Destroy, lcVars, EosPending, OnBus
  <2>8. QED
    BY <2>1, <2>2, <2>3, <2>4, <2>5, <2>6, <2>7 DEF LifecycleNext, Caller
(* Only the bus watch aborts, and only on an EOS at the head of the bus.  *)
<1>3. aborted' => aborted \/ EosPending
  <2>1. CASE BusWatch
    <3>a. bus # << >> /\ aborted' = (Head(bus) = "EOS")
      BY <2>1 DEF BusWatch
    <3>b. QED
      BY <1>0, <3>a, OnHead DEF EosPending, OnBus
  <2>2. CASE ~BusWatch
    BY <2>2 DEF LifecycleNext, Caller, Play, StopIfPlaying, Stop, StopPop,
           StopTimeout, StopSetNull, Destroy, PipelinePost, PostEos,
           SignalingEvent, lcVars
  <2>3. QED
    BY <2>1, <2>2
<1>4. LifecycleTypeOK'
  BY LcTypeStep DEF AbortInv
<1>5. QED
  BY <1>1, <1>2, <1>3, <1>4 DEF AbortInv, AbortOnlyAfterStop

(***************************************************************************)
(* For every bound on the errors and warnings the pipeline posts, the      *)
(* server process aborts only after a stop has sent its EOS: gst_bus_cb    *)
(* logs the pipeline's own errors and warnings and carries on.             *)
(***************************************************************************)
THEOREM AbortOnlyAfterStopProved == LifecycleSpec => []AbortOnlyAfterStop
<1>1. LifecycleSpec => []AbortInv
  BY AbortInvInit, AbortInvStep, PTL DEF LifecycleSpec
<1>2. QED
  BY <1>1, PTL DEF AbortInv
=============================================================================
