------------------------ MODULE ServerPipelineProofs ------------------------
(***************************************************************************)
(* Proofs about ServerPipeline for every value of the constants: the type  *)
(* invariant, and that a packet carries at most one FrameMeta stamp per    *)
(* client ever connected, because every connection installs one more      *)
(* stamper probe and none is removed.                                      *)
(***************************************************************************)
EXTENDS ServerPipeline, SequenceTheorems, FiniteSetTheorems, TLAPS

USE ServerPipelineAssumption

(* The values a stamp or a held pointer can take.                         *)
MsgVal == {NULL} \cup Msgs

-----------------------------------------------------------------------------
(* The state ems_gstreamer_pipeline_create leaves is well typed.          *)
LEMMA TypeInit == Init => TypeOK
<1> SUFFICES ASSUME Init PROVE TypeOK
  OBVIOUS
<1>1. stamps \in Seq({NULL} \cup Msgs)
  BY EmptySeq DEF Init
<1>2. /\ sig \in [Clients -> {"none", "connected", "disconnected"}]
      /\ bin \in [Clients -> {"none", "offering", "linked", "blocking", "removed"}]
      /\ answered \in [Clients -> BOOLEAN]
      /\ ice \in [Clients -> BOOLEAN]
      /\ dc \in [Clients -> {"none", "created", "open", "closed"}]
      /\ binHoldsDC \in [Clients -> BOOLEAN]
  BY DEF Init
<1>3. egpRefs \subseteq Clients /\ timers \subseteq Clients /\ freed \subseteq Msgs
  BY DEF Init
<1>4. dcSlot \in Clients \cup {NoClient} /\ timerSlot \in Clients \cup {NoClient}
  BY DEF Init
<1>5. probes \in Nat /\ pi \in Nat \ {0}
  BY DEF Init
<1>6. downMsg \in {NULL} \cup Msgs /\ held \in {NULL} \cup Msgs
  BY DEF Init
<1>7. stream \in {"idle", "probing", "read"} /\ marker \in BOOLEAN
  BY DEF Init
<1>8. QED
  BY <1>1, <1>2, <1>3, <1>4, <1>5, <1>6, <1>7 DEF TypeOK

(* Every callback, set_down_msg and every probe step keep the state well   *)
(* typed.                                                                  *)
LEMMA TypeStep == TypeOK /\ [Next]_vars => TypeOK'
<1> SUFFICES ASSUME TypeOK, [Next]_vars PROVE TypeOK'
  OBVIOUS
<1>1. ASSUME NEW c \in Clients,
             \/ ClientConnected(c) \/ OfferCreated(c) \/ SdpAnswer(c)
             \/ Candidate(c) \/ DataChannelOpen(c) \/ DataChannelClose(c)
             \/ ClientDisconnected(c) \/ RemovePeer(c)
      PROVE  TypeOK'
  <2> USE DEF TypeOK, peerVars, streamVars
  <2>1. CASE ClientConnected(c)
    BY <2>1 DEF ClientConnected, AddPayloadPadProbe
  <2>2. CASE OfferCreated(c)
    BY <2>2 DEF OfferCreated
  <2>3. CASE SdpAnswer(c)
    BY <2>3 DEF SdpAnswer
  <2>4. CASE Candidate(c)
    BY <2>4 DEF Candidate
  <2>5. CASE DataChannelOpen(c)
    BY <2>5 DEF DataChannelOpen
  <2>6. CASE DataChannelClose(c)
    BY <2>6 DEF DataChannelClose
  <2>7. CASE ClientDisconnected(c)
    BY <2>7 DEF ClientDisconnected
  <2>8. CASE RemovePeer(c)
    BY <2>8 DEF RemovePeer
  <2>9. QED
    BY <1>1, <2>1, <2>2, <2>3, <2>4, <2>5, <2>6, <2>7, <2>8
<1>2. CASE SetDownMsg
  BY <1>2 DEF SetDownMsg, TypeOK, Msgs, NULL, peerVars, streamVars
<1>3. CASE PacketArrives
  <2>1. << >> \in Seq(MsgVal)
    BY EmptySeq
  <2>2. QED
    BY <1>3, <2>1 DEF PacketArrives, TypeOK, MsgVal, peerVars
<1>4. CASE ProbeSkip \/ ProbeRead \/ PacketOut
  BY <1>4 DEF ProbeSkip, ProbeRead, PacketOut, TypeOK, peerVars
<1>5. CASE ProbeStamp
  <2>1. stamps' \in Seq(MsgVal)
    BY <1>5, AppendProperties DEF ProbeStamp, TypeOK, MsgVal
  <2>2. QED
    BY <1>5, <2>1 DEF ProbeStamp, TypeOK, MsgVal, NULL, peerVars
<1>6. CASE UNCHANGED vars
  BY <1>6 DEF vars, TypeOK
<1>7. QED
  BY <1>1, <1>2, <1>3, <1>4, <1>5, <1>6 DEF Next

(* Every reachable state of the server's control plane and stamper is     *)
(* well typed, for every set of clients and every DownMessage bound.      *)
THEOREM ServerTypeCorrect == Spec => []TypeOK
BY TypeInit, TypeStep, PTL DEF Spec

-----------------------------------------------------------------------------
(***************************************************************************)
(* The stamps on a packet.  Each stamper probe runs once per packet and   *)
(* adds at most one stamp, and webrtc_client_connected_cb installs one     *)
(* probe per client and nothing removes one: so a packet carries at most   *)
(* as many stamps as clients have ever connected.                          *)
(***************************************************************************)
EverConnected == {c \in Clients : sig[c] # "none"}

PInv ==
  /\ TypeOK
  /\ probes = Cardinality(EverConnected)
  /\ pi <= probes + 1
  /\ stream = "read" => pi <= probes
  /\ Len(stamps) <= pi - 1

(* Only webrtc_client_connected_cb adds a client to those ever connected. *)
LEMMA EverConnectedStep ==
  ASSUME TypeOK, NEW c \in Clients,
         \/ OfferCreated(c) \/ SdpAnswer(c) \/ Candidate(c)
         \/ DataChannelOpen(c) \/ DataChannelClose(c)
         \/ ClientDisconnected(c) \/ RemovePeer(c)
  PROVE  EverConnected' = EverConnected /\ probes' = probes
BY DEF TypeOK, EverConnected, OfferCreated, SdpAnswer, Candidate,
       DataChannelOpen, DataChannelClose, ClientDisconnected, RemovePeer

LEMMA PInvInit == Init => PInv
<1> SUFFICES ASSUME Init PROVE PInv
  OBVIOUS
<1>1. EverConnected = {}
  BY DEF Init, EverConnected
<1>2. probes = Cardinality(EverConnected)
  BY <1>1, FS_EmptySet DEF Init
<1>3. pi = 1 /\ stream = "idle" /\ Len(stamps) = 0 /\ probes = 0
  BY DEF Init
<1>4. QED
  BY <1>2, <1>3, TypeInit DEF PInv

LEMMA PInvStep ==
  ASSUME IsFiniteSet(Clients)
  PROVE  PInv /\ [Next]_vars => PInv'
<1> SUFFICES ASSUME PInv, [Next]_vars PROVE PInv'
  OBVIOUS
<1>0. TypeOK /\ TypeOK' /\ probes \in Nat /\ pi \in Nat /\ stamps \in Seq(MsgVal)
  BY TypeStep DEF PInv, TypeOK, MsgVal
<1>f. IsFiniteSet(EverConnected)
  BY FS_Subset DEF EverConnected
(* connected_cb installs one more probe for a client not connected before. *)
<1>1. ASSUME NEW c \in Clients, ClientConnected(c)
      PROVE  PInv'
  <2>1. c \notin EverConnected /\ EverConnected' = EverConnected \cup {c}
    BY <1>0, <1>1 DEF ClientConnected, EverConnected, TypeOK
  <2>2. Cardinality(EverConnected') = Cardinality(EverConnected) + 1
    BY <1>f, <2>1, FS_AddElement
  <2>3. probes' = probes + 1 /\ UNCHANGED streamVars
    BY <1>1 DEF ClientConnected, AddPayloadPadProbe
  <2>4. QED
    BY <1>0, <2>2, <2>3 DEF PInv, streamVars
<1>2. ASSUME NEW c \in Clients,
             \/ OfferCreated(c) \/ SdpAnswer(c) \/ Candidate(c)
             \/ DataChannelOpen(c) \/ DataChannelClose(c)
             \/ ClientDisconnected(c) \/ RemovePeer(c)
      PROVE  PInv'
  <2>1. EverConnected' = EverConnected /\ probes' = probes
    BY <1>0, <1>2, EverConnectedStep
  <2>2. UNCHANGED streamVars
    BY <1>2 DEF OfferCreated, SdpAnswer, Candidate, DataChannelOpen,
                DataChannelClose, ClientDisconnected, RemovePeer
  <2>3. QED
    BY <1>0, <2>1, <2>2 DEF PInv, streamVars
(* The stream steps leave the clients and the probes alone.               *)
<1>3. ASSUME SetDownMsg \/ PacketArrives \/ ProbeSkip \/ ProbeRead
             \/ ProbeStamp \/ PacketOut \/ UNCHANGED vars
      PROVE  EverConnected' = EverConnected /\ probes' = probes
  <2>1. UNCHANGED <<sig, probes>>
    BY <1>3 DEF SetDownMsg, PacketArrives, ProbeSkip, ProbeRead, ProbeStamp,
                PacketOut, peerVars, vars
  <2>2. QED
    BY <2>1 DEF EverConnected
<1>4. CASE SetDownMsg \/ UNCHANGED vars
  <2>1. UNCHANGED streamVars
    BY <1>4 DEF SetDownMsg, vars, streamVars
  <2>2. EverConnected' = EverConnected /\ probes' = probes
    BY <1>3, <1>4
  <2>3. QED
    BY <1>0, <2>1, <2>2 DEF PInv, streamVars
(* A new packet starts at the first probe with no stamp.                  *)
<1>5. CASE PacketArrives
  <2>1. EverConnected' = EverConnected /\ probes' = probes
    BY <1>3, <1>5
  <2>2. pi' = 1 /\ stream' = "probing" /\ stamps' = << >>
    BY <1>5 DEF PacketArrives
  <2>3. QED
    BY <1>0, <2>1, <2>2 DEF PInv
<1>6. CASE ProbeSkip \/ ProbeRead \/ PacketOut
  <2>1. EverConnected' = EverConnected /\ probes' = probes
    BY <1>3, <1>6
  <2>2. CASE ProbeSkip
    BY <1>0, <2>1, <2>2 DEF ProbeSkip, PInv
  <2>3. CASE ProbeRead
    BY <1>0, <2>1, <2>3 DEF ProbeRead, PInv
  <2>4. CASE PacketOut
    BY <1>0, <2>1, <2>4 DEF PacketOut, PInv
  <2>5. QED
    BY <1>6, <2>2, <2>3, <2>4
(* A probe that read the bytes adds at most one stamp and moves on.       *)
<1>7. CASE ProbeStamp
  <2>1. Len(stamps') <= Len(stamps) + 1
    <3>1. CASE stamps' = Append(stamps, held)
      BY <1>0, <3>1, AppendProperties
    <3>2. CASE UNCHANGED stamps
      BY <1>0, <3>2
    <3>3. QED
      BY <1>7, <3>1, <3>2 DEF ProbeStamp
  <2>2. pi <= probes /\ pi' = pi + 1 /\ stream' = "probing"
    BY <1>7 DEF ProbeStamp, PInv
  <2>3. EverConnected' = EverConnected /\ probes' = probes
    BY <1>3, <1>7
  <2>4. QED
    BY <1>0, <2>1, <2>2, <2>3 DEF PInv
<1>8. QED
  BY <1>1, <1>2, <1>4, <1>5, <1>6, <1>7 DEF Next

(***************************************************************************)
(* For any finite set of clients, webrtcbin_srcpad_probe stamps a packet   *)
(* at most once per client that has ever connected: the count of FrameMeta *)
(* elements grows with the probes connected_cb installs, one per client.   *)
(***************************************************************************)
THEOREM StampsBoundedByClients ==
  ASSUME IsFiniteSet(Clients)
  PROVE  Spec => [](Len(stamps) <= Cardinality(EverConnected))
<1>1. PInv => Len(stamps) <= Cardinality(EverConnected)
  BY DEF PInv, TypeOK
<1>2. Spec => []PInv
  BY PInvInit, PInvStep, PTL DEF Spec
<1>3. QED
  BY <1>1, <1>2, PTL

=============================================================================
