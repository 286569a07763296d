\* The event handlers, with the GetStats snapshot evaluated in TypeOK: two frames (one packet each)
\* competing for caches of 2 frames and 1 packet, two offset estimates, at most 4 events
\* (the clock starts at 1 and an event needs clock < MaxEvents).
CONSTANTS
  Rtps <- MCFrameRtps
  PacketIds = {0}
  FrameEventKinds <- MCAllFrameKinds
  PacketEventKinds <- MCLossPacketKinds
  PlayoutDelays <- MCPlayoutDelays
  Skew <- MCSkew
  OffsetBounds <- MCTwoOffsetBounds
  kMaxFrameInfoMapSize = 2
  kMaxPacketEventTimeMapSize = 1
  MaxEvents = 5
SPECIFICATION Spec
INVARIANT TypeOK
INVARIANT NetworkSamplesPairCleanly
INVARIANT DroppedAtMostCaptured
INVARIANT ResponseWithinEventSpan
