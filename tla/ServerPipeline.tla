--------------------------- MODULE ServerPipeline ---------------------------
(***************************************************************************)
(* The server's WebRTC control plane and RTP stamper                       *)
(* (ems_gstreamer_pipeline.c).  Each GLib/GStreamer callback is one        *)
(* action: the signaling callbacks for a client connecting, answering and  *)
(* disconnecting; the create-offer promise (on_offer_created); the data    *)
(* channel's on-open and on-close; the blocking probe that removes a peer; *)
(* set_down_msg on the compositor thread; and the payloader's src-pad      *)
(* probe on the streaming thread, split between reading egp->downMsg_bytes *)
(* and copying its data into the RTP header, because set_down_msg can run  *)
(* in between.                                                             *)
(*                                                                         *)
(* A data channel is finalised once no reference to it is left: its       *)
(* webrtcbin holds one until the bin is removed, and                       *)
(* create-data-channel hands one to egp->data_channel, which only on-close *)
(* drops (g_clear_object), for whichever channel the slot then names.      *)
(***************************************************************************)
EXTENDS Naturals, Sequences

CONSTANTS
  Clients,   \* EmsClientId values of the clients that connect (model values)
  NoClient,  \* an empty egp->data_channel or egp->timeout_src_id slot
  MaxMsgs    \* bound on the DownMessages the compositor publishes

ASSUME ServerPipelineAssumption ==
  /\ NoClient \notin Clients
  /\ MaxMsgs \in Nat

NULL == 0            \* egp->downMsg_bytes before the first set_down_msg
Msgs == 1..MaxMsgs   \* the GBytes set_down_msg allocates, in order

VARIABLES
  sig,        \* per client: none, connected, disconnected (signaling events)
  bin,        \* per client webrtcbin: none, offering, linked, blocking, removed
  answered,   \* per client: remote description set from the SDP answer
  ice,        \* per client: a remote ICE candidate was added to its webrtcbin
  dc,         \* per client data channel: none, created, open, closed
  binHoldsDC, \* per client: the webrtcbin still references its data channel
  egpRefs,    \* clients whose channel egp took a reference to and never dropped
  dcSlot,     \* egp->data_channel
  timers,     \* clients whose channel an active datachannel_send_message source targets
  timerSlot,  \* the client whose source egp->timeout_src_id names
  probes,     \* stamper probes installed on rtppay's src pad
  downMsg,    \* egp->downMsg_bytes (NULL or a GBytes)
  freed,      \* GBytes released by set_down_msg
  stream,     \* the streaming thread: idle, or at probe pi of a packet
  pi,         \* index of the next stamper probe to run on the packet
  marker,     \* the packet's RTP marker bit
  held,       \* the GBytes pointer the running probe read (NULL if none)
  stamps      \* the DownMessages stamped on the packet so far, in order

vars == <<sig, bin, answered, ice, dc, binHoldsDC, egpRefs, dcSlot, timers,
          timerSlot, probes, downMsg, freed, stream, pi, marker, held, stamps>>
peerVars == <<sig, bin, answered, ice, dc, binHoldsDC, egpRefs, dcSlot, timers,
              timerSlot, probes>>
streamVars == <<stream, pi, marker, held, stamps>>

(* No reference to c's data channel is left: the GObject is finalised.   *)
Finalised(c) == dc[c] # "none" /\ ~binHoldsDC[c] /\ c \notin egpRefs

Init ==
  /\ sig = [c \in Clients |-> "none"]
  /\ bin = [c \in Clients |-> "none"]
  /\ answered = [c \in Clients |-> FALSE]
  /\ ice = [c \in Clients |-> FALSE]
  /\ dc = [c \in Clients |-> "none"]
  /\ binHoldsDC = [c \in Clients |-> FALSE]
  /\ egpRefs = {}
  /\ dcSlot = NoClient
  /\ timers = {}
  /\ timerSlot = NoClient
  /\ probes = 0
  /\ downMsg = NULL
  /\ freed = {}
  /\ stream = "idle"
  /\ pi = 1
  /\ marker = FALSE
  /\ held = NULL
  /\ stamps = << >>

(* ems_gstreamer_pipeline_add_payload_pad_probe: one more stamper probe  *)
(* on rtppay's src pad, with no check for one already there.              *)
AddPayloadPadProbe == probes' = probes + 1

(***************************************************************************)
(* webrtc_client_connected_cb: a new webrtcbin with a data channel whose   *)
(* reference is stored in the single egp->data_channel slot (overwriting,  *)
(* without unref, the previous client's), create-offer issued, and one     *)
(* more stamper probe added to rtppay's src pad.                           *)
(***************************************************************************)
ClientConnected(c) ==
  /\ sig[c] = "none"
  /\ sig' = [sig EXCEPT ![c] = "connected"]
  /\ bin' = [bin EXCEPT ![c] = "offering"]
  /\ dc' = [dc EXCEPT ![c] = "created"]
  /\ binHoldsDC' = [binHoldsDC EXCEPT ![c] = TRUE]
  /\ egpRefs' = egpRefs \cup {c}
  /\ dcSlot' = c
  /\ AddPayloadPadProbe
  /\ UNCHANGED <<answered, ice, timers, timerSlot, downMsg, freed>>
  /\ UNCHANGED streamVars

(* on_offer_created: send the offer, then link a new tee src pad to the   *)
(* webrtcbin's new sink_0 (the bin still has its parent pipeline).        *)
OfferCreated(c) ==
  /\ bin[c] = "offering"
  /\ bin' = [bin EXCEPT ![c] = "linked"]
  /\ UNCHANGED <<sig, answered, ice, dc, binHoldsDC, egpRefs, dcSlot, timers,
                 timerSlot, probes, downMsg, freed>>
  /\ UNCHANGED streamVars

(* webrtc_sdp_answer_cb with a well-formed answer to the offer sent: the   *)
(* remote description is set.  A malformed answer changes nothing.         *)
SdpAnswer(c) ==
  /\ sig[c] = "connected"
  /\ bin[c] = "linked"
  /\ ~answered[c]
  /\ answered' = [answered EXCEPT ![c] = TRUE]
  /\ UNCHANGED <<sig, bin, ice, dc, binHoldsDC, egpRefs, dcSlot, timers,
                 timerSlot, probes, downMsg, freed>>
  /\ UNCHANGED streamVars

(***************************************************************************)
(* webrtc_candidate_cb with a non-empty candidate: get_webrtcbin_for_client *)
(* finds the bin by its name webrtcbin_<client id>, and add-ice-candidate   *)
(* hands it the candidate.  The signaling server forwards candidates of    *)
(* connected clients only, whose bin is still in the pipeline, so the      *)
(* lookup succeeds; an empty candidate is only logged (a stutter).         *)
(***************************************************************************)
Candidate(c) ==
  /\ sig[c] = "connected"
  /\ bin[c] \notin {"none", "removed"}
  /\ ice' = [ice EXCEPT ![c] = TRUE]
  /\ UNCHANGED <<sig, bin, answered, dc, binHoldsDC, egpRefs, dcSlot, timers,
                 timerSlot, probes, downMsg, freed>>
  /\ UNCHANGED streamVars

(* data_channel_open_cb: a 3 s datachannel_send_message source on this    *)
(* channel; its id overwrites egp->timeout_src_id.                        *)
DataChannelOpen(c) ==
  /\ dc[c] = "created"
  /\ answered[c]
  /\ ice[c]
  /\ bin[c] \in {"linked", "blocking"}
  /\ dc' = [dc EXCEPT ![c] = "open"]
  /\ timers' = timers \cup {c}
  /\ timerSlot' = c
  /\ UNCHANGED <<sig, bin, answered, ice, binHoldsDC, egpRefs, dcSlot, probes,
                 downMsg, freed>>
  /\ UNCHANGED streamVars

(***************************************************************************)
(* data_channel_close_cb for channel c (the peer closed it or its bin was  *)
(* torn down): remove the source egp->timeout_src_id names and drop the    *)
(* reference in egp->data_channel, whichever channel each names.           *)
(***************************************************************************)
(* Mutant of DataChannelClose: the g_clear_handle_id of the timer is      *)
(* missing; only the channel reference is dropped.                         *)
DataChannelCloseKeepsTimer(c) ==
  /\ dc[c] = "open"
  /\ ~Finalised(c)
  /\ dc' = [dc EXCEPT ![c] = "closed"]
  /\ egpRefs' = egpRefs \ {dcSlot}
  /\ dcSlot' = NoClient
  /\ UNCHANGED <<sig, bin, answered, ice, binHoldsDC, timers, timerSlot, probes,
                 downMsg, freed>>
  /\ UNCHANGED streamVars

DataChannelClose(c) ==
  /\ dc[c] = "open"
  /\ ~Finalised(c)
  /\ dc' = [dc EXCEPT ![c] = "closed"]
  /\ timers' = timers \ {timerSlot}
  /\ timerSlot' = NoClient
  /\ egpRefs' = egpRefs \ {dcSlot}
  /\ dcSlot' = NoClient
  /\ UNCHANGED <<sig, bin, answered, ice, binHoldsDC, probes, downMsg, freed>>
  /\ UNCHANGED streamVars

(***************************************************************************)
(* webrtc_client_disconnected_cb: find the client's webrtcbin and, if it   *)
(* has a sink_0 pad, put a blocking probe on the tee pad that feeds it.    *)
(* Before on_offer_created there is no sink_0, and nothing is done.        *)
(***************************************************************************)
ClientDisconnected(c) ==
  /\ sig[c] = "connected"
  /\ sig' = [sig EXCEPT ![c] = "disconnected"]
  /\ bin' = IF bin[c] = "linked" THEN [bin EXCEPT ![c] = "blocking"] ELSE bin
  /\ UNCHANGED <<answered, ice, dc, binHoldsDC, egpRefs, dcSlot, timers,
                 timerSlot, probes, downMsg, freed>>
  /\ UNCHANGED streamVars

(* remove_webrtcbin_probe_cb, once a buffer reaches the blocked pad: the  *)
(* webrtcbin leaves the pipeline and goes to NULL, dropping its channel.  *)
RemovePeer(c) ==
  /\ bin[c] = "blocking"
  /\ bin' = [bin EXCEPT ![c] = "removed"]
  /\ binHoldsDC' = [binHoldsDC EXCEPT ![c] = FALSE]
  /\ UNCHANGED <<sig, answered, ice, dc, egpRefs, dcSlot, timers, timerSlot,
                 probes, downMsg, freed>>
  /\ UNCHANGED streamVars

(***************************************************************************)
(* ems_gstreamer_pipeline_set_down_msg: encode the DownMessage; on success *)
(* unref the published GBytes (its only reference) and publish a new one.  *)
(* A failed encode returns with nothing changed.                           *)
(***************************************************************************)
SetDownMsg ==
  /\ downMsg < MaxMsgs
  /\ freed' = IF downMsg # NULL THEN freed \cup {downMsg} ELSE freed
  /\ downMsg' = downMsg + 1
  /\ UNCHANGED peerVars
  /\ UNCHANGED streamVars

(* The payloader pushes the next RTP packet; the marker bit is set on the *)
(* last packet of an Access Unit.                                          *)
PacketArrives ==
  /\ stream = "idle"
  /\ \E m \in BOOLEAN : marker' = m
  /\ stream' = "probing"
  /\ pi' = 1
  /\ stamps' = << >>
  /\ UNCHANGED <<held, downMsg, freed>>
  /\ UNCHANGED peerVars

(***************************************************************************)
(* webrtcbin_srcpad_probe, first part: the buffer is passed on unstamped   *)
(* when gst_rtp_buffer_map fails (on any packet) or the marker bit is      *)
(* clear (ProbeSkip); otherwise egp->downMsg_bytes and the data pointer    *)
(* g_bytes_get_data returns are read (ProbeRead).                          *)
(***************************************************************************)
ProbeSkip ==
  /\ stream = "probing"
  /\ pi <= probes
  /\ pi' = pi + 1
  /\ UNCHANGED <<stream, marker, held, stamps, downMsg, freed>>
  /\ UNCHANGED peerVars

ProbeRead ==
  /\ stream = "probing"
  /\ pi <= probes
  /\ marker
  /\ held' = downMsg
  /\ stream' = "read"
  /\ UNCHANGED <<pi, marker, stamps, downMsg, freed>>
  /\ UNCHANGED peerVars

(***************************************************************************)
(* webrtcbin_srcpad_probe, second part: unless the size is over 255 bytes  *)
(* or adding the extension fails, copy the bytes read into a two-byte      *)
(* header extension element.  For NULL bytes the size is uninitialised,    *)
(* so either branch may be taken.                                          *)
(***************************************************************************)
ProbeStamp ==
  /\ stream = "read"
  /\ \/ stamps' = Append(stamps, held)
     \/ UNCHANGED stamps  \* oversize, or add_extension_twobytes_header failed
  /\ pi' = pi + 1
  /\ held' = NULL
  /\ stream' = "probing"
  /\ UNCHANGED <<marker, downMsg, freed>>
  /\ UNCHANGED peerVars

(* Every installed probe has run: the packet goes on to the tee.          *)
PacketOut ==
  /\ stream = "probing"
  /\ pi > probes
  /\ stream' = "idle"
  /\ UNCHANGED <<pi, marker, held, stamps, downMsg, freed>>
  /\ UNCHANGED peerVars

Next ==
  \/ \E c \in Clients :
       \/ ClientConnected(c) \/ OfferCreated(c) \/ SdpAnswer(c)
       \/ Candidate(c)
       \/ DataChannelOpen(c) \/ DataChannelClose(c)
       \/ ClientDisconnected(c) \/ RemovePeer(c)
  \/ SetDownMsg
  \/ PacketArrives \/ ProbeSkip \/ ProbeRead \/ ProbeStamp \/ PacketOut

Spec == Init /\ [][Next]_vars

(* The GLib main loop and webrtcbin's threads deliver the create-offer    *)
(* reply, and the streaming thread keeps pushing buffers into a blocked   *)
(* pad, so both callbacks run once they are due.                           *)
FairSpec ==
  /\ Spec
  /\ \A c \in Clients : WF_vars(OfferCreated(c)) /\ WF_vars(RemovePeer(c))

-----------------------------------------------------------------------------
TypeOK ==
  /\ sig \in [Clients -> {"none", "connected", "disconnected"}]
  /\ bin \in [Clients -> {"none", "offering", "linked", "blocking", "removed"}]
  /\ answered \in [Clients -> BOOLEAN]
  /\ ice \in [Clients -> BOOLEAN]
  /\ dc \in [Clients -> {"none", "created", "open", "closed"}]
  /\ binHoldsDC \in [Clients -> BOOLEAN]
  /\ egpRefs \subseteq Clients
  /\ dcSlot \in Clients \cup {NoClient}
  /\ timers \subseteq Clients
  /\ timerSlot \in Clients \cup {NoClient}
  /\ probes \in Nat
  /\ downMsg \in {NULL} \cup Msgs
  /\ freed \subseteq Msgs
  /\ stream \in {"idle", "probing", "read"}
  /\ pi \in Nat \ {0}
  /\ marker \in BOOLEAN
  /\ held \in {NULL} \cup Msgs
  /\ stamps \in Seq({NULL} \cup Msgs)

(***************************************************************************)
(* Spec 4.2 and section 5: a DownMessage buffer replaced by set_down_msg   *)
(* stays live until the probe that read it has copied it; the probe never  *)
(* copies from freed bytes.                                                *)
(***************************************************************************)
ProbeReadsLiveBytes == stream = "read" => held \notin freed

(***************************************************************************)
(* Every active datachannel_send_message source targets a data channel     *)
(* that still exists: on-close removes the source of its own channel       *)
(* before the last reference goes, so the 3 s timer never sends on a       *)
(* finalised channel.                                                      *)
(***************************************************************************)
TimerTargetsLiveChannel == \A c \in timers : ~Finalised(c)

(***************************************************************************)
(* Spec section 3 (per-client peer lifecycle) and scenario S6: a client    *)
(* that disconnects has its webrtcbin removed from the pipeline.           *)
(***************************************************************************)
PeerRemovedAfterDisconnect ==
  \A c \in Clients : sig[c] = "disconnected" ~> bin[c] = "removed"
=============================================================================
