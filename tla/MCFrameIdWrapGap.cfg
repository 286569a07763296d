\* In-order deliveries with forward gaps of up to 100 ids.
CONSTANTS
  Fwd <- MCHalfWireGap
  Back = 0
  MaxFrameId <- MCMaxFrameId
  FirstIds <- MCGapFirstIds
SPECIFICATION Spec
PROPERTY IncreasingInOrder
