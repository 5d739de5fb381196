------------------------------ MODULE Statistics ------------------------------
(***************************************************************************)
(* What the executors and runners print of their samples                    *)
(* (src/inc/timer_utils.h, src/src/stats.cpp): differences of time stamps,  *)
(* their average, and the mean, median and spread of those averages.  All   *)
(* of it is arithmetic on unsigned words.                                   *)
(***************************************************************************)
EXTENDS Integers, Sequences, FiniteSets, Sorting

CONSTANT WordSize  \* 2^64: numbers are taken modulo this one

ASSUME StatisticsAssumption == WordSize \in Nat \ {0}

VARIABLES before, after  \* two arrays of time stamps, one entry per request

stat_vars == <<before, after>>

StatInit(stamps, durations) ==
  /\ before \in stamps
  /\ \E length \in durations :
       /\ Len(length) = Len(before)
       /\ after = [n \in 1 .. Len(before) |-> (before[n] + length[n]) % WordSize]

Wrapped(n) == n % WordSize

\* The sums of the first entries.
Totals(arr) ==
  LET total[n \in 0 .. Len(arr)] ==
        IF n = 0 THEN 0 ELSE Wrapped(total[n - 1] + arr[n])
  IN  total
Total(arr) == Totals(arr)[Len(arr)]

-----------------------------------------------------------------------------
\* array2[i] - array1[i]
gen_diff_array(array1, array2) ==
  [n \in 1 .. Len(array1) |-> Wrapped(array2[n] - array1[n])]

\* The sum starts with the second sample; the divisor is the number of all.
Mut_Summed(array) == SubSeq(array, 1, Len(array) - 1)
Summed(array) == Tail(array)
do_sum_array(array) == Total(Summed(array)) \div Len(array)

avg_samples_from_arrays(later, earlier) ==
  do_sum_array(gen_diff_array(earlier, later))

avg_from_array(arr) == Total(arr) \div Len(arr)

\* arr[i] - avg wraps for samples below the average.
Mut_Deviation(x, avg) == IF x >= avg THEN x - avg ELSE 0
Deviation(x, avg) == Wrapped(x - avg)
SumOfSquares(arr) ==
  LET avg == avg_from_array(arr) IN
  Total([n \in 1 .. Len(arr) |->
           Wrapped(Deviation(arr[n], avg) * Deviation(arr[n], avg))])

Mut_Middle(size) == size - 1
Middle(size) == size \div 2
median_from_array(arr) == Sorted(arr)[Middle(Len(arr)) + 1]

-----------------------------------------------------------------------------
Durations == gen_diff_array(before, after)
ExactSums(arr) ==
  LET total[n \in 0 .. Len(arr)] ==
        IF n = 0 THEN 0 ELSE total[n - 1] + arr[n]
  IN  total
ExactSum(arr) == ExactSums(arr)[Len(arr)]
ExactSpread(arr) ==
  LET avg == ExactSum(arr) \div Len(arr) IN
  ExactSum([n \in 1 .. Len(arr) |-> (arr[n] - avg) * (arr[n] - avg)])

\* A counter that wraps between two stamps does no harm; a printed average is
\* short of the average of all samples by the share of the first one, up to
\* rounding.
AverageMissesFirst ==
  LET all == ExactSum(Durations) \div Len(Durations)
      share == Durations[1] \div Len(Durations)
  IN
  ExactSum(Durations) < WordSize =>
    avg_samples_from_arrays(after, before) \in {all - share - 1, all - share}

\* The spread is that of the samples although differences below zero wrap, as
\* long as the exact sum of squares fits a word.
SpreadSurvivesWrap ==
  ExactSum(Durations) < WordSize /\ ExactSpread(Durations) < WordSize =>
    SumOfSquares(Durations) = ExactSpread(Durations)

\* No more than half of the samples are above the median, or below it.
MedianInMiddle ==
  LET med == median_from_array(Durations)
      Count(S) == Cardinality(S)
      n == Len(Durations)
  IN
  /\ 2 * Count({k \in 1 .. n : Durations[k] < med}) <= n
  /\ 2 * Count({k \in 1 .. n : Durations[k] > med}) <= n

StatisticsSound == AverageMissesFirst /\ SpreadSurvivesWrap /\ MedianInMiddle
=============================================================================
