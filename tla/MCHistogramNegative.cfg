\* Does every negative latency land in the underflow bucket?
CONSTANTS
  MinMs = 0
  MaxMs <- kMaxLatencyBucketMs
  WidthMs <- kBucketWidthMs
  LatencySamplesUs <- MCLatencySamplesUs
  MaxAdds <- MCMaxAdds
SPECIFICATION Spec
INVARIANT NegativeLatencyUnderflows
