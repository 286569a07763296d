\* Streams started at any id, deliveries up to 64 ahead of or behind the
\* highest id, over two wraps.
CONSTANTS
  Fwd <- MCWindow
  Back <- MCWindow
  MaxFrameId <- MCMaxFrameId
  FirstIds <- MCFirstIds
SPECIFICATION Spec
INVARIANT TypeOK
INVARIANT ResolvesTrueId
PROPERTY ShiftStableInOrder
