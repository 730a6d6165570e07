--------------------------- MODULE LidarProcessor ---------------------------
(***************************************************************************)
(* The LIDAR processor node: the chain of filters between /scan and        *)
(* /scan/processed, tuned by parameters and switched by a service.         *)
(***************************************************************************)
EXTENDS ScanFilters

CONSTANTS
  Defaults,     \* the parameters as declared: from names to values
  Values,       \* what a parameter may be set to: from names to sets of values
  RawScans,        \* raw scans
  angle_min, angle_increment   \* their geometry

\* The parameters the node declares.
Declared == {"filters_enabled", "range_clamp.enabled", "range_clamp.min_range", "range_clamp.max_range",
             "outlier.enabled", "outlier.kernel_size", "outlier.threshold",
             "median.enabled", "median.kernel_size", "smoothing.enabled", "smoothing.kernel_size",
             "roi.enabled", "roi.angle_min_deg", "roi.angle_max_deg",
             "downsample.enabled", "downsample.factor"}

\* Those that the windows and the rejection are tuned by.
Tuning == {"outlier.kernel_size", "outlier.threshold", "median.kernel_size", "smoothing.kernel_size"}

ASSUME ProcessorAssumption ==
  /\ DOMAIN Defaults = Declared /\ DOMAIN Values \subseteq Declared
  /\ \A name \in Tuning : Defaults[name] \in Int
  /\ \A name \in Tuning \cap DOMAIN Values : Values[name] \subseteq Int
  /\ RawScans \subseteq Seq(Nat \cup {NaN})

VARIABLES
  parameters,  \* the parameters as the node's parameter services show them
  config,      \* the instance variables the filters are tuned by
  out          \* the last scan published with this config: [raw, ranges], or Nothing

processor_vars == <<parameters, config, out>>

Nothing == [raw |-> <<>>, ranges |-> <<>>]

\* _declare_parameters, then _load_config.
ProcessorInit ==
  /\ parameters = Defaults
  /\ config = parameters
  /\ out = Nothing

\* The callback of the parameter services, which have checked the type of the value.
on_parameter_change(name, value) == [config EXCEPT ![name] = value]

\* Parameters are set one by one, and every value is accepted.
SetParameter ==
  \E name \in DOMAIN Values : \E value \in Values[name] :
    /\ parameters' = [parameters EXCEPT ![name] = value]
    /\ config' = on_parameter_change(name, value)
    /\ out' = Nothing

\* The service switches the filters and leaves the parameter as it is.
enable_filters(data) ==
  /\ config' = [config EXCEPT !["filters_enabled"] = data]
  /\ out' = Nothing
  /\ UNCHANGED parameters

\* The stages, each of them if it is enabled.
Stage(name, filtered, scan) == IF config[name] THEN filtered ELSE scan
Clamp(scan) ==
  Stage("range_clamp.enabled",
        range_clamp_filter(scan, config["range_clamp.min_range"], config["range_clamp.max_range"]), scan)
Outlier(scan) ==
  Stage("outlier.enabled",
        outlier_rejection_filter(scan, config["outlier.kernel_size"], config["outlier.threshold"]), scan)
MedianStage(scan) == Stage("median.enabled", median_filter(scan, config["median.kernel_size"]), scan)
Smoothing(scan) ==
  Stage("smoothing.enabled", moving_average_filter(scan, config["smoothing.kernel_size"]), scan)
Roi(scan) ==
  Stage("roi.enabled",
        roi_crop_filter(scan, angle_min, angle_increment, config["roi.angle_min_deg"], config["roi.angle_max_deg"]),
        scan)
Downsample(scan) == Stage("downsample.enabled", downsample_filter(scan, config["downsample.factor"]), scan)

\* Mutant: the scan is cropped first, to save work.
apply_filtersCropsFirst(scan) == Downsample(Smoothing(MedianStage(Outlier(Clamp(Roi(scan))))))

apply_filters(scan) == Downsample(Roi(Smoothing(MedianStage(Outlier(Clamp(scan))))))

\* Bound: one scan for a config; the node remembers nothing of a scan.
scan_callback(scan) ==
  /\ out = Nothing
  /\ out' = [raw |-> scan, ranges |-> IF config["filters_enabled"] THEN apply_filters(scan) ELSE scan]
  /\ UNCHANGED <<parameters, config>>

ProcessorNext ==
  \/ SetParameter
  \/ \E data \in BOOLEAN : enable_filters(data)
  \/ \E scan \in RawScans : scan_callback(scan)

ProcessorSpec == ProcessorInit /\ [][ProcessorNext]_processor_vars

-----------------------------------------------------------------------------
(* Properties *)

\* The properties read the parameters as the parameter services show them, which the filters
\* must follow; only the switch is turned behind its parameter's back (processor_node.py:274).
Filtered == out # Nothing /\ config["filters_enabled"]
Rays == DOMAIN out.raw
Published(i) == out.ranges[i]

\* How far from its ray a reading can have been carried: by the median and by the mean.
Reach ==
  (IF parameters["median.enabled"] THEN Half(parameters["median.kernel_size"]) ELSE 0)
    + (IF parameters["smoothing.enabled"] THEN Half(parameters["smoothing.kernel_size"]) ELSE 0)

\* A published reading lies between two readings that were measured within reach of its
\* ray and within the clamp: no stage invents one, and none brings back a value that was
\* discarded.
NothingInvented ==
  Filtered => \A i \in Rays : Valid(Published(i)) =>
    LET near == Range(Around(Clamp(out.raw), Reach, i))
    IN  \E low, high \in near : Published(i) \in low .. high

\* A ray out of the region of interest, or passed over by the downsampling, is published
\* as NaN, although the median gives rays without a reading those of their neighbours.
InRoi(i) ==
  parameters["roi.enabled"] =>
    Angle(angle_min, angle_increment, i) \in parameters["roi.angle_min_deg"] .. parameters["roi.angle_max_deg"]
Wanted(i) == InRoi(i) /\ (parameters["downsample.enabled"] => Selected(parameters["downsample.factor"], i))
OutsideIsBlank == Filtered => \A i \in Rays : ~Wanted(i) => ~Valid(Published(i))

\* A wall is seen as it is, up to one spike in it that the rejection can tell, being far
\* enough off and by two other readings around it: the wall's distance is published for
\* every ray that is wanted, but for the spike's where nothing fills it again, and the
\* spike nowhere.
Wall(i, distance) == \A j \in Rays \ {i} : Clamp(out.raw)[j] = distance
Spike(i, distance) ==
  LET least == parameters["outlier.threshold"] * (Metre \div 100)
  IN  /\ least >= 0
      /\ Valid(Clamp(out.raw)[i]) => 2 * Distance(Clamp(out.raw)[i], distance) > least
      /\ Count(Window(Clamp(out.raw), parameters["outlier.kernel_size"], i)) >= 3
Seen(i, distance) ==
  \A j \in Rays : Wanted(j) =>
    Published(j) \in {distance} \cup (IF j = i /\ Reach = 0 THEN {NaN} ELSE {})
WallSeen ==
  Filtered /\ parameters["outlier.enabled"] =>
    \A i \in Rays : \A distance \in ToSet(out.raw) \ {NaN} :
      Wall(i, distance) /\ Spike(i, distance) => Seen(i, distance)
=============================================================================
