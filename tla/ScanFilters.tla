----------------------------- MODULE ScanFilters -----------------------------
(***************************************************************************)
(* The filters of a LIDAR scan, each a function of a scan and its          *)
(* parameters.                                                             *)
(*                                                                         *)
(* A scan is a sequence of readings, one for each ray.  A reading is a     *)
(* length in units of 1/600 m, which the medians and means of a few whole  *)
(* metres do not leave, or NaN.  Angles are whole degrees and thresholds   *)
(* are in halves.  Rounding of floats is left out.                         *)
(***************************************************************************)
EXTENDS Integers, FiniteSets, SequencesExt

Metre == 600
NaN == -1
Valid(reading) == reading # NaN

\* An even kernel, or one below three, is made odd and three at least.
Odd(kernel_size) ==
  LET size == IF kernel_size < 3 THEN 3 ELSE kernel_size
  IN  IF size % 2 = 0 THEN size + 1 ELSE size
Half(kernel_size) == Odd(kernel_size) \div 2

Distance(a, b) == IF a > b THEN a - b ELSE b - a

\* The readings around ray i, by their rays; at the ends of the scan the window is cut off.
Around(scan, reach, i) ==
  [j \in {j \in DOMAIN scan : Distance(i, j) <= reach /\ Valid(scan[j])} |-> scan[j]]
Window(scan, kernel_size, i) == Around(scan, Half(kernel_size), i)

\* The reading that is the r-th once they are sorted: the least one that r of them do not
\* exceed.
Rank(readings, v) == Cardinality({j \in DOMAIN readings : readings[j] <= v})
Sorted(readings, r) ==
  CHOOSE v \in Range(readings) :
    Rank(readings, v) >= r /\ \A u \in Range(readings) : Rank(readings, u) >= r => v <= u

\* np.median takes the mean of the two in the middle.
Count(readings) == Cardinality(DOMAIN readings)
Median(readings) ==
  LET n == Count(readings)
  IN  (Sorted(readings, (n + 1) \div 2) + Sorted(readings, n \div 2 + 1)) \div 2
Total(readings) == FoldFunction(LAMBDA a, b : a + b, 0, readings)

\* Mutant: rays without a reading count.
MeanOfKernel(readings) == Total(readings) \div 3

Mean(readings) == Total(readings) \div Count(readings)

\* A ray without a reading is given that of its neighbours.
median_filter(scan, kernel_size) ==
  [i \in DOMAIN scan |-> LET window == Window(scan, kernel_size, i)
                         IN  IF Count(window) = 0 THEN scan[i] ELSE Median(window)]

moving_average_filter(scan, kernel_size) ==
  [i \in DOMAIN scan |-> LET window == Window(scan, kernel_size, i)
                         IN  IF Count(window) = 0 THEN scan[i] ELSE Mean(window)]

\* A deviation of next to nothing counts as a centimetre.
Limit(window, threshold) ==
  LET mad == Median([k \in DOMAIN window |-> Distance(window[k], Median(window))])
  IN  threshold * (IF mad = 0 THEN Metre \div 100 ELSE mad)

\* Mutant: three readings are not enough to reject one of them.
RejectsOfFour(scan, kernel_size, threshold, i) ==
  LET window == Window(scan, kernel_size, i)
  IN  Valid(scan[i]) /\ Count(window) > 3 /\ 2 * Distance(scan[i], Median(window)) > Limit(window, threshold)

Rejects(scan, kernel_size, threshold, i) ==
  LET window == Window(scan, kernel_size, i)
  IN  Valid(scan[i]) /\ Count(window) >= 3 /\ 2 * Distance(scan[i], Median(window)) > Limit(window, threshold)

outlier_rejection_filter(scan, kernel_size, threshold) ==
  [i \in DOMAIN scan |-> IF Rejects(scan, kernel_size, threshold, i) THEN NaN ELSE scan[i]]

\* Every factor-th ray, from the first.
Selected(factor, i) == factor < 2 \/ (i - 1) % factor = 0

downsample_filter(scan, factor) ==
  [i \in DOMAIN scan |-> IF Selected(factor, i) THEN scan[i] ELSE NaN]

Angle(angle_min, angle_increment, i) == angle_min + (i - 1) * angle_increment
roi_crop_filter(scan, angle_min, angle_increment, roi_angle_min, roi_angle_max) ==
  [i \in DOMAIN scan |->
    IF Angle(angle_min, angle_increment, i) \in roi_angle_min .. roi_angle_max THEN scan[i] ELSE NaN]

range_clamp_filter(scan, min_range, max_range) ==
  [i \in DOMAIN scan |-> IF scan[i] \in min_range .. max_range THEN scan[i] ELSE NaN]
=============================================================================
