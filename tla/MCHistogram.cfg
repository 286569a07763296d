\* The production histogram shape, boundary samples, up to 4 adds per reset.
CONSTANTS
  MinMs = 0
  MaxMs <- kMaxLatencyBucketMs
  WidthMs <- kBucketWidthMs
  LatencySamplesUs <- MCLatencySamplesUs
  MaxAdds <- MCMaxAdds
SPECIFICATION Spec
INVARIANT TypeOK
INVARIANT BucketsMatchLabels
