\* Is a frame only erased from a full frame cache?
CONSTANTS
  Rtps <- MCFrameRtps
  PacketIds = {0}
  FrameEventKinds <- MCFrameKinds
  PacketEventKinds = {}
  PlayoutDelays <- MCPlayoutDelays
  Skew <- MCSkew
  OffsetBounds <- MCOffsetBounds
  kMaxFrameInfoMapSize = 2
  kMaxPacketEventTimeMapSize = 1
  MaxEvents = 6
SPECIFICATION Spec
PROPERTY FrameCacheEvictsOnlyWhenFull
