-------------------------- MODULE MCLidarProcessor --------------------------
(***************************************************************************)
(* The LIDAR processor for TLC: scans of five rays, 60 degrees apart, of   *)
(* every combination of nothing, a near and a far reading and one out of   *)
(* range; the switches of the stages, and one parameter of most of them.   *)
(***************************************************************************)
EXTENDS LidarProcessor, TLC

MCDefaults ==
  ("filters_enabled" :> TRUE)
  @@ ("range_clamp.enabled" :> TRUE) @@ ("range_clamp.min_range" :> 30) @@ ("range_clamp.max_range" :> 12 * Metre)
  @@ ("outlier.enabled" :> TRUE) @@ ("outlier.kernel_size" :> 5) @@ ("outlier.threshold" :> 3)
  @@ ("median.enabled" :> TRUE) @@ ("median.kernel_size" :> 5)
  @@ ("smoothing.enabled" :> FALSE) @@ ("smoothing.kernel_size" :> 3)
  @@ ("roi.enabled" :> FALSE) @@ ("roi.angle_min_deg" :> -90) @@ ("roi.angle_max_deg" :> 90)
  @@ ("downsample.enabled" :> FALSE) @@ ("downsample.factor" :> 2)

MCValues ==
  ("filters_enabled" :> BOOLEAN) @@ ("outlier.enabled" :> BOOLEAN) @@ ("outlier.kernel_size" :> {2, 5})
  @@ ("median.enabled" :> BOOLEAN) @@ ("smoothing.enabled" :> BOOLEAN)
  @@ ("roi.enabled" :> BOOLEAN) @@ ("roi.angle_max_deg" :> {30, 90}) @@ ("downsample.enabled" :> BOOLEAN)

MCAngleMin == -120
MCRawScans == [1 .. 5 -> {NaN, Metre, 3 * Metre, 13 * Metre}]
=============================================================================
