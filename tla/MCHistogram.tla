---------------------------- MODULE MCHistogram ----------------------------
(* Model-checking instance of Histogram with the shape InitHistograms      *)
(* gives all five histograms: SimpleHistogram(0, kMaxLatencyBucketMs,      *)
(* kBucketWidthMs).                                                        *)
EXTENDS Histogram

kMaxLatencyBucketMs == 800
kBucketWidthMs == 20

(* Deltas at every boundary: below min, just under 0 ms, 0, the last and   *)
(* first microsecond of an interior bucket, the last interior bucket, max. *)
MCLatencySamplesUs ==
  {-20000, -999, 0, 19999, 20000, 799999, 800000}

MCMaxAdds == 4
=============================================================================
