------------------------- MODULE StatsEventSubscriber -------------------------
(***************************************************************************)
(* StatsEventSubscriber (src/unnamed/part_000): the telemetry engine of    *)
(* the Cast transport.  It is fed frame and packet events of one media     *)
(* type, on one thread, and keeps per-kind counters, a bounded cache of    *)
(* per-frame timestamps (recent_frame_infos_), a bounded cache of packet   *)
(* send/receive times (packet_sent_times_), latency totals and histograms. *)
(*                                                                         *)
(* Abstractions.                                                           *)
(*  - Time is a sender clock in ms that advances by one per event, so      *)
(*    every event has its own timestamp.  Sender events are stamped        *)
(*    clock, receiver events clock + Skew (the receiver's clock).  0 is    *)
(*    the null TimeTicks.                                                  *)
(*  - The ReceiverTimeOffsetEstimator is an environment variable holding   *)
(*    either no bounds or a pair of bounds from OffsetBounds; it becomes   *)
(*    bounded between events, never within one.                           *)
(*  - Events whose media type differs from the subscriber's are dropped    *)
(*    on entry and change nothing, so they are not generated.             *)
(*  - Frame and packet sizes only feed the bitrate statistics: the sums    *)
(*    of sizes are left out (each event counts as one byte there); the     *)
(*    counters and delay sums are kept.                                    *)
(*  - A histogram is the bag of the int64 samples added to it (Histogram   *)
(*    models the bucketing of those samples).                              *)
(* History variables (not in the code): log, epoch_start, net_pairs and   *)
(* e2e_log record what happened so that properties can refer to it.       *)
(***************************************************************************)
EXTENDS Integers, Sequences, FiniteSets, Bags, BagsExt

CONSTANTS
  Rtps,                        \* rtp timestamps (frame identities)
  PacketIds,                   \* packet ids within a frame
  FrameEventKinds,             \* frame event kinds the log delivers
  PacketEventKinds,            \* packet event kinds the log delivers
  PlayoutDelays,               \* delay_delta values of FRAME_PLAYOUT, ms
  Skew,                        \* receiver clock minus sender clock, ms
  OffsetBounds,                \* bounds pairs the estimator may report
  kMaxFrameInfoMapSize,        \* capacity of recent_frame_infos_
  kMaxPacketEventTimeMapSize,  \* capacity of packet_sent_times_
  MaxEvents                    \* the clock's bound: at most MaxEvents - 1 events

ASSUME kMaxFrameInfoMapSize \in Nat \ {0} /\ kMaxPacketEventTimeMapSize \in Nat \ {0}
ASSUME \A b \in OffsetBounds : b[1] <= b[2] /\ (b[1] + b[2]) % 2 = 0

FrameKinds == {"FRAME_CAPTURE_BEGIN", "FRAME_CAPTURE_END", "FRAME_ENCODED",
               "FRAME_ACK_SENT", "FRAME_DECODED", "FRAME_PLAYOUT"}
PacketKinds == {"PACKET_SENT_TO_NETWORK", "PACKET_RECEIVED",
                "PACKET_RETRANSMITTED", "PACKET_RTX_REJECTED"}
HistoNames == {"CAPTURE_LATENCY_MS_HISTO", "ENCODE_LATENCY_MS_HISTO",
               "PACKET_LATENCY_MS_HISTO", "FRAME_LATENCY_MS_HISTO",
               "PLAYOUT_DELAY_MS_HISTO"}
ASSUME FrameEventKinds \subseteq FrameKinds /\ PacketEventKinds \subseteq PacketKinds

NoBounds == <<>>
Null == 0                      \* base::TimeTicks() / is_null()

VARIABLES
  clock, offset_bounds,                            \* environment
  frame_stats_, packet_stats_,
  recent_frame_infos_, packet_sent_times_,
  total_network_latency_, network_latency_datapoints_,
  total_e2e_latency_, e2e_latency_datapoints_,
  num_frames_dropped_by_encoder_, num_frames_late_,
  start_time_, last_response_received_time_,
  first_event_time_, last_event_time_, histograms_,
  log, epoch_start, net_pairs, e2e_log            \* history

env       == <<clock, offset_bounds>>
history   == <<log, epoch_start, net_pairs, e2e_log>>
frameVars == <<recent_frame_infos_, num_frames_dropped_by_encoder_,
               total_e2e_latency_, e2e_latency_datapoints_, num_frames_late_,
               e2e_log>>
netVars   == <<packet_sent_times_, total_network_latency_,
               network_latency_datapoints_, net_pairs>>
timeVars  == <<first_event_time_, last_event_time_, last_response_received_time_>>
vars == <<env, frame_stats_, packet_stats_, frameVars, netVars, timeVars,
          start_time_, histograms_, log, epoch_start>>

IsReceiverEvent(kind) ==
  kind \in {"FRAME_DECODED", "FRAME_PLAYOUT", "FRAME_ACK_SENT", "PACKET_RECEIVED"}

(* GetReceiverOffset: FALSE when the estimator has no bounds, else their   *)
(* midpoint.                                                               *)
HasReceiverOffset == offset_bounds # NoBounds
ReceiverOffset == (offset_bounds[1] + offset_bounds[2]) \div 2

AddSample(h, name, v) == [h EXCEPT ![name] = BagAdd(@, v)]

MinOf(S, Less(_, _)) == CHOOSE m \in S : \A x \in S \ {m} : Less(m, x)
RtpLess(a, b) == a < b
(* std::pair<RtpTimestamp, uint16> order of packet_sent_times_.            *)
KeyLess(a, b) == a[1] < b[1] \/ (a[1] = b[1] /\ a[2] < b[2])

(* The counter update at the top of both handlers: insert a new entry      *)
(* with count 1 or increment the existing one.                             *)
Bump(stats, kind, d) ==
  IF kind \in DOMAIN stats
  THEN [stats EXCEPT ![kind] = [event_counter |-> @.event_counter + 1,
                                sum_delay |-> @.sum_delay + d]]
  ELSE stats @@ (kind :> [event_counter |-> 1, sum_delay |-> d])

BumpCount(stats, kind) ==
  IF kind \in DOMAIN stats THEN [stats EXCEPT ![kind] = @ + 1]
  ELSE stats @@ (kind :> 1)

UpdateFirstLastEventTime(timestamp, is_receiver_event) ==
  IF is_receiver_event /\ ~HasReceiverOffset
  THEN UNCHANGED <<first_event_time_, last_event_time_>>
  ELSE LET t == IF is_receiver_event THEN timestamp - ReceiverOffset ELSE timestamp
       IN /\ first_event_time_' = IF first_event_time_ = Null THEN t
                                  ELSE IF t < first_event_time_ THEN t ELSE first_event_time_
          /\ last_event_time_' = IF last_event_time_ = Null THEN t
                                 ELSE IF t > last_event_time_ THEN t ELSE last_event_time_

(* Mutant: the receiver's timestamp stored without the offset.            *)
UpdateLastResponseTimeRaw(is_receiver_event, receiver_time) ==
  IF is_receiver_event /\ HasReceiverOffset
  THEN last_response_received_time_' = receiver_time
  ELSE UNCHANGED last_response_received_time_

UpdateLastResponseTime(is_receiver_event, receiver_time) ==
  IF is_receiver_event /\ HasReceiverOffset
  THEN last_response_received_time_' = receiver_time - ReceiverOffset
  ELSE UNCHANGED last_response_received_time_
-----------------------------------------------------------------------------
(***************************************************************************)
(* Frame path.  A FrameInfo is [capture_time, capture_end_time,            *)
(* encode_time], each Null until observed.                                 *)
(***************************************************************************)
NewFrameInfo == [capture_time |-> Null, capture_end_time |-> Null, encode_time |-> Null]

(* Mutant: the dropped test reading capture_end_time.                      *)
IsDroppedByEncoderWrongField(info) == info.capture_end_time = Null

(* An evicted frame counts as dropped by the encoder if never encoded.     *)
IsDroppedByEncoder(info) == info.encode_time = Null

(* MaybeInsertFrameInfo: skip a key below every key of a full map; else    *)
(* std::map::insert (which keeps an existing entry), then erase the        *)
(* smallest key once size() >= kMaxFrameInfoMapSize, counting it as        *)
(* dropped by the encoder if it was never encoded.                         *)
MaybeInsertFrameInfo(rtp_timestamp, frame_info) ==
  LET keys == DOMAIN recent_frame_infos_
  IN IF Cardinality(keys) = kMaxFrameInfoMapSize /\ rtp_timestamp < MinOf(keys, RtpLess)
     THEN UNCHANGED <<recent_frame_infos_, num_frames_dropped_by_encoder_>>
     ELSE LET ins == IF rtp_timestamp \in keys THEN recent_frame_infos_
                     ELSE recent_frame_infos_ @@ (rtp_timestamp :> frame_info)
              erase == MinOf(DOMAIN ins, RtpLess)
              dropped == IsDroppedByEncoder(ins[erase])
          IN IF Cardinality(DOMAIN ins) >= kMaxFrameInfoMapSize
             THEN /\ recent_frame_infos_' = [r \in DOMAIN ins \ {erase} |-> ins[r]]
                  /\ num_frames_dropped_by_encoder_' =
                       num_frames_dropped_by_encoder_ + (IF dropped THEN 1 ELSE 0)
             ELSE /\ recent_frame_infos_' = ins
                  /\ UNCHANGED num_frames_dropped_by_encoder_

RecordFrameCaptureTime(rtp, ts) ==
  /\ MaybeInsertFrameInfo(rtp, [NewFrameInfo EXCEPT !.capture_time = ts])
  /\ UNCHANGED <<histograms_, total_e2e_latency_, e2e_latency_datapoints_,
                 num_frames_late_, e2e_log>>

RecordCaptureLatency(rtp, ts) ==
  /\ IF rtp \notin DOMAIN recent_frame_infos_
     THEN UNCHANGED <<histograms_, recent_frame_infos_>>
     ELSE LET info == recent_frame_infos_[rtp]
          IN /\ histograms_' = IF info.capture_time # Null
                               THEN AddSample(histograms_, "CAPTURE_LATENCY_MS_HISTO",
                                              info.capture_time - ts)
                               ELSE histograms_
             /\ recent_frame_infos_' =
                  [recent_frame_infos_ EXCEPT ![rtp].capture_end_time = ts]
  /\ UNCHANGED <<num_frames_dropped_by_encoder_, total_e2e_latency_,
                 e2e_latency_datapoints_, num_frames_late_, e2e_log>>

RecordEncodeLatency(rtp, ts) ==
  IF rtp \notin DOMAIN recent_frame_infos_
  THEN /\ MaybeInsertFrameInfo(rtp, [NewFrameInfo EXCEPT !.encode_time = ts])
       /\ UNCHANGED <<histograms_, total_e2e_latency_, e2e_latency_datapoints_,
                      num_frames_late_, e2e_log>>
  ELSE LET info == recent_frame_infos_[rtp]
       IN /\ histograms_' = IF info.capture_end_time # Null
                            THEN AddSample(histograms_, "ENCODE_LATENCY_MS_HISTO",
                                           ts - info.capture_end_time)
                            ELSE histograms_
          /\ recent_frame_infos_' = [recent_frame_infos_ EXCEPT ![rtp].encode_time = ts]
          /\ UNCHANGED <<num_frames_dropped_by_encoder_, total_e2e_latency_,
                         e2e_latency_datapoints_, num_frames_late_, e2e_log>>

RecordFrameTxLatency(rtp, ts) ==
  /\ IF /\ rtp \in DOMAIN recent_frame_infos_
        /\ recent_frame_infos_[rtp].encode_time # Null
        /\ HasReceiverOffset
     THEN histograms_' = AddSample(histograms_, "FRAME_LATENCY_MS_HISTO",
                           (ts - ReceiverOffset) - recent_frame_infos_[rtp].encode_time)
     ELSE UNCHANGED histograms_
  /\ UNCHANGED frameVars

(* RecordE2ELatency, then the playout-delay histogram and late counter of  *)
(* the FRAME_PLAYOUT branch of OnReceiveFrameEvent.                        *)
RecordPlayout(rtp, ts, delay_delta) ==
  /\ IF HasReceiverOffset /\ rtp \in DOMAIN recent_frame_infos_
     THEN LET playout_time == ts + delay_delta - ReceiverOffset
              capture_time == recent_frame_infos_[rtp].capture_time
          IN /\ total_e2e_latency_' = total_e2e_latency_ + (playout_time - capture_time)
             /\ e2e_latency_datapoints_' = e2e_latency_datapoints_ + 1
             /\ e2e_log' = e2e_log \cup {<<rtp, capture_time>>}
     ELSE UNCHANGED <<total_e2e_latency_, e2e_latency_datapoints_, e2e_log>>
  /\ histograms_' = AddSample(histograms_, "PLAYOUT_DELAY_MS_HISTO", delay_delta)
  /\ num_frames_late_' = IF delay_delta <= 0 THEN num_frames_late_ + 1 ELSE num_frames_late_
  /\ UNCHANGED <<recent_frame_infos_, num_frames_dropped_by_encoder_>>

(* OnReceiveFrameEvent for an event of this media type.                    *)
OnReceiveFrameEvent(type, rtp, delay_delta) ==
  LET is_receiver_event == IsReceiverEvent(type)
      ts == IF is_receiver_event THEN clock + Skew ELSE clock
  IN /\ frame_stats_' = Bump(frame_stats_, type, delay_delta)
     /\ UpdateFirstLastEventTime(ts, is_receiver_event)
     /\ CASE type = "FRAME_CAPTURE_BEGIN" -> RecordFrameCaptureTime(rtp, ts)
          [] type = "FRAME_CAPTURE_END"   -> RecordCaptureLatency(rtp, ts)
          [] type = "FRAME_ENCODED"       -> RecordEncodeLatency(rtp, ts)
          [] type = "FRAME_ACK_SENT"      -> RecordFrameTxLatency(rtp, ts)
          [] type = "FRAME_PLAYOUT"       -> RecordPlayout(rtp, ts, delay_delta)
          [] OTHER -> UNCHANGED <<histograms_, frameVars>>
     /\ UpdateLastResponseTime(is_receiver_event, ts)
     /\ log' = Append(log, [kind |-> type, key |-> rtp, ts |-> ts])
     /\ UNCHANGED <<packet_stats_, netVars, start_time_>>
-----------------------------------------------------------------------------
(***************************************************************************)
(* Packet path.  packet_sent_times_ maps <<rtp_timestamp, packet_id>> to   *)
(* <<timestamp, type>> of the first of sent/received seen for the packet.  *)
(***************************************************************************)
(* Mutant: the retransmission erase dropped.                              *)
ErasePacketSentTimeNoop(key) == UNCHANGED packet_sent_times_

ErasePacketSentTime(key) ==
  packet_sent_times_' = [k \in DOMAIN packet_sent_times_ \ {key} |-> packet_sent_times_[k]]

(* Mutant: the capacity test made before the insertion.                   *)
InsertPacketSentTimeCheckFirst(key, value) ==
  packet_sent_times_' =
    IF Cardinality(DOMAIN packet_sent_times_) > kMaxPacketEventTimeMapSize
    THEN LET oldest == MinOf(DOMAIN packet_sent_times_, KeyLess)
         IN [k \in DOMAIN packet_sent_times_ \ {oldest} |-> packet_sent_times_[k]]
            @@ (key :> value)
    ELSE packet_sent_times_ @@ (key :> value)

(* Insert a new pairing entry, then erase the smallest key if the map has  *)
(* grown past kMaxPacketEventTimeMapSize.                                  *)
InsertPacketSentTime(key, value) ==
  LET ins == packet_sent_times_ @@ (key :> value)
  IN packet_sent_times_' =
       IF Cardinality(DOMAIN ins) > kMaxPacketEventTimeMapSize
       THEN LET oldest == MinOf(DOMAIN ins, KeyLess)
            IN [k \in DOMAIN ins \ {oldest} |-> ins[k]]
       ELSE ins

RecordNetworkLatency(type, key, ts) ==
  IF ~HasReceiverOffset
  THEN UNCHANGED <<netVars, histograms_>>
  ELSE IF key \notin DOMAIN packet_sent_times_
  THEN /\ InsertPacketSentTime(key, <<ts, type>>)
       /\ UNCHANGED <<total_network_latency_, network_latency_datapoints_,
                      net_pairs, histograms_>>
  ELSE LET value == packet_sent_times_[key]
           recorded_type == value[2]
           sent_first == recorded_type = "PACKET_SENT_TO_NETWORK" /\ type = "PACKET_RECEIVED"
           recv_first == recorded_type = "PACKET_RECEIVED" /\ type = "PACKET_SENT_TO_NETWORK"
           packet_sent_time == IF sent_first THEN value[1] ELSE ts
           packet_received_time == IF sent_first THEN ts ELSE value[1]
           latency_delta == (packet_received_time - ReceiverOffset) - packet_sent_time
       IN IF sent_first \/ recv_first
          THEN /\ total_network_latency_' = total_network_latency_ + latency_delta
               /\ network_latency_datapoints_' = network_latency_datapoints_ + 1
               /\ histograms_' = AddSample(histograms_, "PACKET_LATENCY_MS_HISTO", latency_delta)
               /\ ErasePacketSentTime(key)
               /\ net_pairs' = net_pairs \cup {<<packet_sent_time, packet_received_time>>}
          ELSE UNCHANGED <<netVars, histograms_>>

(* OnReceivePacketEvent for an event of this media type.                   *)
OnReceivePacketEvent(type, key) ==
  LET is_receiver_event == IsReceiverEvent(type)
      ts == IF is_receiver_event THEN clock + Skew ELSE clock
  IN /\ packet_stats_' = BumpCount(packet_stats_, type)
     /\ UpdateFirstLastEventTime(ts, is_receiver_event)
     /\ CASE type \in {"PACKET_SENT_TO_NETWORK", "PACKET_RECEIVED"} ->
               RecordNetworkLatency(type, key, ts)
          [] type = "PACKET_RETRANSMITTED" ->
               /\ ErasePacketSentTime(key)
               /\ UNCHANGED <<total_network_latency_, network_latency_datapoints_,
                              net_pairs, histograms_>>
          [] OTHER -> UNCHANGED <<netVars, histograms_>>
     /\ UpdateLastResponseTime(is_receiver_event, ts)
     /\ log' = Append(log, [kind |-> type, key |-> key, ts |-> ts])
     /\ UNCHANGED <<frame_stats_, frameVars, start_time_>>

(* StatsEventSubscriber::Reset.  History: the sample logs restart and the  *)
(* epoch starts after the events logged so far.                            *)
Reset ==
  /\ frame_stats_' = <<>>
  /\ packet_stats_' = <<>>
  /\ total_network_latency_' = 0
  /\ network_latency_datapoints_' = 0
  /\ total_e2e_latency_' = 0
  /\ e2e_latency_datapoints_' = 0
  /\ num_frames_dropped_by_encoder_' = 0
  /\ num_frames_late_' = 0
  /\ recent_frame_infos_' = <<>>
  /\ packet_sent_times_' = <<>>
  /\ start_time_' = clock
  /\ last_response_received_time_' = Null
  /\ histograms_' = [n \in HistoNames |-> EmptyBag]
  /\ first_event_time_' = Null
  /\ last_event_time_' = Null
  /\ epoch_start' = Len(log) + 1
  /\ net_pairs' = {} /\ e2e_log' = {}
  /\ UNCHANGED <<env, log>>

-----------------------------------------------------------------------------
(* The subscriber is constructed with clock_->NowTicks() as start_time_.   *)
Init ==
  /\ clock = 1
  /\ offset_bounds = NoBounds
  /\ frame_stats_ = <<>> /\ packet_stats_ = <<>>
  /\ recent_frame_infos_ = <<>> /\ packet_sent_times_ = <<>>
  /\ total_network_latency_ = 0 /\ network_latency_datapoints_ = 0
  /\ total_e2e_latency_ = 0 /\ e2e_latency_datapoints_ = 0
  /\ num_frames_dropped_by_encoder_ = 0 /\ num_frames_late_ = 0
  /\ start_time_ = clock
  /\ last_response_received_time_ = Null
  /\ first_event_time_ = Null /\ last_event_time_ = Null
  /\ histograms_ = [n \in HistoNames |-> EmptyBag]
  /\ log = <<>> /\ epoch_start = 1
  /\ net_pairs = {} /\ e2e_log = {}

(* The event log delivers one frame event; the clock then moves on.        *)
DeliverFrameEvent ==
  /\ clock < MaxEvents
  /\ \E type \in FrameEventKinds, rtp \in Rtps :
       \E d \in (IF type = "FRAME_PLAYOUT" THEN PlayoutDelays ELSE {0}) :
         OnReceiveFrameEvent(type, rtp, d)
  /\ clock' = clock + 1
  /\ UNCHANGED <<offset_bounds, epoch_start>>

DeliverPacketEvent ==
  /\ clock < MaxEvents
  /\ \E type \in PacketEventKinds, key \in Rtps \X PacketIds :
       OnReceivePacketEvent(type, key)
  /\ clock' = clock + 1
  /\ UNCHANGED <<offset_bounds, epoch_start>>

(* The offset estimator gets (new) bounds from the RTCP round trips.       *)
EstimatorUpdate ==
  /\ \E b \in OffsetBounds \ {offset_bounds} : offset_bounds' = b
  /\ UNCHANGED <<clock, frame_stats_, packet_stats_, frameVars, netVars, timeVars,
                 start_time_, histograms_, log, epoch_start>>

Next == DeliverFrameEvent \/ DeliverPacketEvent \/ EstimatorUpdate \/ Reset

Spec == Init /\ [][Next]_vars

-----------------------------------------------------------------------------
(***************************************************************************)
(* GetStats / GetStatsInternal: a read-only snapshot taken at              *)
(* end_time = clock_->NowTicks().  A statistic is [num, den], the double   *)
(* num / den the code computes (den 1 for a plain value).  Sizes are not  *)
(* modelled: for the bitrates every event is taken to carry one byte, so a *)
(* sum_size is the event count.                                            *)
(***************************************************************************)
Ratio(n, d) == [num |-> n, den |-> d]
Value(n) == Ratio(n, 1)

(* PopulateFpsStat: count / duration, or 0 when the duration is not > 0.  *)
PopulateFpsStat(end_time, event, stat) ==
  IF event \notin DOMAIN frame_stats_ THEN <<>>
  ELSE stat :> IF end_time - start_time_ > 0
               THEN Ratio(1000 * frame_stats_[event].event_counter, end_time - start_time_)
               ELSE Value(0)

(* The kbps stats: sum_size / duration_ms * 8, or 0 when the duration is   *)
(* not > 0.                                                                 *)
Kbps(end_time, sum_size) ==
  IF end_time - start_time_ > 0 THEN Ratio(8 * sum_size, end_time - start_time_)
  ELSE Value(0)

PopulateFrameBitrateStat(end_time) ==
  IF "FRAME_ENCODED" \notin DOMAIN frame_stats_ THEN <<>>
  ELSE "ENCODE_KBPS" :> Kbps(end_time, frame_stats_["FRAME_ENCODED"].event_counter)

PopulatePacketBitrateStat(end_time, event, stat) ==
  IF event \notin DOMAIN packet_stats_ THEN <<>>
  ELSE stat :> Kbps(end_time, packet_stats_[event])

PopulateFrameCountStat(event, stat) ==
  IF event \in DOMAIN frame_stats_ THEN stat :> Value(frame_stats_[event].event_counter)
  ELSE <<>>

PopulatePacketCountStat(event, stat) ==
  IF event \in DOMAIN packet_stats_ THEN stat :> Value(packet_stats_[event]) ELSE <<>>

PopulatePlayoutDelayStat ==
  IF "FRAME_PLAYOUT" \notin DOMAIN frame_stats_ THEN <<>>
  ELSE "AVG_PLAYOUT_DELAY_MS" :>
         IF frame_stats_["FRAME_PLAYOUT"].event_counter # 0
         THEN Ratio(frame_stats_["FRAME_PLAYOUT"].sum_delay,
                    frame_stats_["FRAME_PLAYOUT"].event_counter)
         ELSE Value(0)

PacketCount(kind) == IF kind \in DOMAIN packet_stats_ THEN packet_stats_[kind] ELSE 0

(* PopulatePacketLossPercentageStat: retransmitted / (sent +               *)
(* retransmitted), only once a PACKET_SENT_TO_NETWORK has been counted.    *)
PopulatePacketLossPercentageStat ==
  IF "PACKET_SENT_TO_NETWORK" \notin DOMAIN packet_stats_ THEN <<>>
  ELSE "PACKET_LOSS_FRACTION" :>
         Ratio(PacketCount("PACKET_RETRANSMITTED"),
               PacketCount("PACKET_SENT_TO_NETWORK") + PacketCount("PACKET_RETRANSMITTED"))

(* The averages and times GetStatsInternal computes itself.               *)
LatencyAndTimeStats(end_time) ==
  LET net == IF network_latency_datapoints_ > 0
             THEN "AVG_NETWORK_LATENCY_MS" :> Ratio(total_network_latency_, network_latency_datapoints_)
             ELSE <<>>
      e2e == IF e2e_latency_datapoints_ > 0
             THEN "AVG_E2E_LATENCY_MS" :> Ratio(total_e2e_latency_, e2e_latency_datapoints_)
             ELSE <<>>
      resp == IF last_response_received_time_ # Null
              THEN "MS_SINCE_LAST_RECEIVER_RESPONSE" :> Value(end_time - last_response_received_time_)
              ELSE <<>>
      first == IF first_event_time_ # Null THEN "FIRST_EVENT_TIME_MS" :> Value(first_event_time_)
               ELSE <<>>
      last == IF last_event_time_ # Null THEN "LAST_EVENT_TIME_MS" :> Value(last_event_time_)
              ELSE <<>>
  IN net @@ e2e @@ resp @@ first @@ last
     @@ ("NUM_FRAMES_DROPPED_BY_ENCODER" :> Value(num_frames_dropped_by_encoder_))
     @@ ("NUM_FRAMES_LATE" :> Value(num_frames_late_))

GetStatsInternal(end_time) ==
  PopulateFpsStat(end_time, "FRAME_CAPTURE_BEGIN", "CAPTURE_FPS")
  @@ PopulateFpsStat(end_time, "FRAME_ENCODED", "ENCODE_FPS")
  @@ PopulateFpsStat(end_time, "FRAME_DECODED", "DECODE_FPS")
  @@ PopulatePlayoutDelayStat
  @@ PopulateFrameBitrateStat(end_time)
  @@ PopulatePacketBitrateStat(end_time, "PACKET_SENT_TO_NETWORK", "TRANSMISSION_KBPS")
  @@ PopulatePacketBitrateStat(end_time, "PACKET_RETRANSMITTED", "RETRANSMISSION_KBPS")
  @@ PopulatePacketLossPercentageStat
  @@ PopulateFrameCountStat("FRAME_CAPTURE_END", "NUM_FRAMES_CAPTURED")
  @@ PopulatePacketCountStat("PACKET_SENT_TO_NETWORK", "NUM_PACKETS_SENT")
  @@ PopulatePacketCountStat("PACKET_RETRANSMITTED", "NUM_PACKETS_RETRANSMITTED")
  @@ PopulatePacketCountStat("PACKET_RTX_REJECTED", "NUM_PACKETS_RTX_REJECTED")
  @@ LatencyAndTimeStats(end_time)

(* The NowTicks() a GetStats call between two events may read: the tick   *)
(* of the last event or a later one, never before start_time_.             *)
StatsTimes == {t \in {clock - 1, clock} : t >= start_time_}

(* The scalar CastStat values CastStatToString names; any other value     *)
(* reaches its NOTREACHED.                                                 *)
StatNames ==
  {"CAPTURE_FPS", "ENCODE_FPS", "DECODE_FPS", "AVG_ENCODE_TIME_MS", "AVG_PLAYOUT_DELAY_MS", "ENCODE_KBPS",
   "TRANSMISSION_KBPS", "RETRANSMISSION_KBPS", "PACKET_LOSS_FRACTION",
   "NUM_FRAMES_CAPTURED", "NUM_PACKETS_SENT", "NUM_PACKETS_RETRANSMITTED",
   "NUM_PACKETS_RTX_REJECTED", "AVG_NETWORK_LATENCY_MS", "AVG_E2E_LATENCY_MS",
   "MS_SINCE_LAST_RECEIVER_RESPONSE", "FIRST_EVENT_TIME_MS", "LAST_EVENT_TIME_MS",
   "NUM_FRAMES_DROPPED_BY_ENCODER", "NUM_FRAMES_LATE"}
-----------------------------------------------------------------------------
FrameCount(kind) ==
  IF kind \in DOMAIN frame_stats_ THEN frame_stats_[kind].event_counter ELSE 0

(* Indices of the events logged since the last Reset.                      *)
Epoch == epoch_start .. Len(log)

TypeOK ==
  /\ clock \in 1 .. MaxEvents
  /\ offset_bounds \in OffsetBounds \cup {NoBounds}
  /\ DOMAIN frame_stats_ \subseteq FrameKinds
  /\ DOMAIN packet_stats_ \subseteq PacketKinds
  /\ DOMAIN recent_frame_infos_ \subseteq Rtps
  /\ DOMAIN packet_sent_times_ \subseteq Rtps \X PacketIds
  /\ network_latency_datapoints_ \in Nat /\ e2e_latency_datapoints_ \in Nat
  /\ num_frames_dropped_by_encoder_ \in Nat /\ num_frames_late_ \in Nat
  /\ \A n \in HistoNames : IsABag(histograms_[n])
  /\ epoch_start \in 1 .. Len(log) + 1
  /\ Cardinality(DOMAIN recent_frame_infos_) <= kMaxFrameInfoMapSize
  /\ Cardinality(DOMAIN packet_sent_times_) <= kMaxPacketEventTimeMapSize
  /\ \A t \in StatsTimes : DOMAIN GetStatsInternal(t) \subseteq StatNames

(* Network latency (RecordNetworkLatency) is only ever measured between a  *)
(* PACKET_SENT_TO_NETWORK and a PACKET_RECEIVED of the same packet, in     *)
(* either order, logged since the last Reset, with no                      *)
(* PACKET_RETRANSMITTED of that packet between them (ErasePacketSentTime); *)
(* and no event is used by two samples.                                    *)
NetworkSamplesPairCleanly ==
  /\ \A p \in net_pairs :
       \E i, j \in Epoch :
         /\ log[i].kind = "PACKET_SENT_TO_NETWORK" /\ log[i].ts = p[1]
         /\ log[j].kind = "PACKET_RECEIVED" /\ log[j].ts = p[2]
         /\ log[i].key = log[j].key
         /\ ~\E m \in Epoch : /\ log[m].kind = "PACKET_RETRANSMITTED"
                             /\ log[m].key = log[i].key
                             /\ ((i < m /\ m < j) \/ (j < m /\ m < i))
  /\ \A p, q \in net_pairs : p # q => p[1] # q[1] /\ p[2] # q[2]

(* A frame counted as dropped by the encoder (MaybeInsertFrameInfo) was    *)
(* inserted by its FRAME_CAPTURE_BEGIN: the count never exceeds the        *)
(* capture-begin events counted since the last Reset.                      *)
DroppedAtMostCaptured ==
  num_frames_dropped_by_encoder_ <= FrameCount("FRAME_CAPTURE_BEGIN")

(* The receiver-response time (UpdateLastResponseTime) and the event time *)
(* span (UpdateFirstLastEventTime) are on the sender clock: the last       *)
(* response lies within [first_event_time_, last_event_time_].             *)
ResponseWithinEventSpan ==
  last_response_received_time_ # Null =>
    /\ first_event_time_ # Null
    /\ first_event_time_ <= last_response_received_time_
    /\ last_response_received_time_ <= last_event_time_

FrameCacheEvictsOnlyWhenFull ==
  [][DOMAIN recent_frame_infos_ \ DOMAIN recent_frame_infos_' # {} /\ ~Reset
       => Cardinality(DOMAIN recent_frame_infos_) = kMaxFrameInfoMapSize]_vars

=============================================================================
