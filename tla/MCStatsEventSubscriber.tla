----------------------- MODULE MCStatsEventSubscriber -----------------------
(* Model-checking instances of StatsEventSubscriber.                       *)
EXTENDS StatsEventSubscriber

(* Receiver clock 100 ms ahead of the sender; the estimator's bounds       *)
(* bracket the skew exactly (midpoint 100).                                *)
MCSkew == 100
MCOffsetBounds == {<<90, 110>>}

(* Two frames and a frame cache of two, so that a second frame evicts the  *)
(* first (MaybeInsertFrameInfo erases at size() >= capacity).  The E2E and *)
(* capacity runs leave out FRAME_DECODED, which only updates counters and  *)
(* times.                                                                  *)
MCFrameKinds == {"FRAME_CAPTURE_BEGIN", "FRAME_CAPTURE_END", "FRAME_ENCODED",
                 "FRAME_ACK_SENT", "FRAME_PLAYOUT"}
MCFrameRtps == {1, 2}
MCPlayoutDelays == {0, 5}

(* The combined run: every frame kind, and the packet kinds that pair     *)
(* (SENT, RETRANSMITTED, RECEIVED) and that the loss fraction counts;     *)
(* PACKET_RTX_REJECTED is only counted.  The estimator's bounds move from *)
(* a wrong midpoint (95) to the right one (100).                           *)
MCAllFrameKinds == MCFrameKinds \cup {"FRAME_DECODED"}
MCTwoOffsetBounds == {<<90, 100>>, <<90, 110>>}
MCLossPacketKinds == {"PACKET_SENT_TO_NETWORK", "PACKET_RETRANSMITTED", "PACKET_RECEIVED"}
=============================================================================
