---------------------------- MODULE Accumulators ----------------------------
(***************************************************************************)
(* The accumulators of include/bh_python/accumulators: mean, weighted_mean *)
(* and weighted_sum, filled sample by sample, merged and scaled, and what  *)
(* a histogram of means makes of them in counts() and variances() (hist.py *)
(* 1008-1093).  view.py shows the cells of a histogram as arrays of        *)
(* records: items are read from them and assigned to them, and the         *)
(* arithmetic of WeightedSumView has to agree with the accumulators cell   *)
(* by cell.                                                                *)
(*                                                                         *)
(* Numbers are exact fractions.  The variables drawn and weighed hold the  *)
(* sums that define what the accumulators report, kept without ever        *)
(* dividing.                                                               *)
(***************************************************************************)
EXTENDS Integers, Rationals, SequencesExt

CONSTANTS
  Cells,       \* accumulators of each kind
  Values,      \* samples
  Weights,     \* their weights
  Factors,     \* what is scaled with
  MaxOps       \* bound on the number of operations

ASSUME NumbersAssumption ==
  /\ IsFiniteSet(Cells)
  /\ Values \subseteq Int
  /\ Weights \subseteq Nat \ {0}
  /\ Factors \subseteq Int \ {0}
  /\ MaxOps \in Nat

VARIABLES
  mean, wmean, wsum,     \* the accumulators
  drawn,                 \* the samples behind mean and wmean: their number
                         \* and sums of w, w^2, w * x and w * x^2
  weighed,               \* the entries behind wsum: sums of w and w^2
  ops

vars == <<mean, wmean, wsum, drawn, weighed, ops>>

EmptyMean == [count |-> Zero, value |-> Zero, deltas |-> Zero]
EmptyWMean == [sum |-> Zero, sum2 |-> Zero, value |-> Zero, deltas |-> Zero]
EmptyWSum == [value |-> Zero, variance |-> Zero]
-----------------------------------------------------------------------------
(* mean and weighted_mean *)

\* One sample, without a weight or with it.
FillMean(m, w, x) ==
  LET count == Plus(m.count, w)
      delta == Minus(x, m.value)
      value == Plus(m.value, Over(Times(w, delta), count))
  IN [count |-> count, value |-> value,
      deltas |-> Plus(m.deltas, Times(Times(w, delta), Minus(x, value)))]

FillWMean(m, w, x) ==
  LET sum == Plus(m.sum, w)
      delta == Minus(x, m.value)
      value == Plus(m.value, Over(Times(w, delta), sum))
  IN [sum |-> sum, sum2 |-> Plus(m.sum2, Square(w)), value |-> value,
      deltas |-> Plus(m.deltas, Times(Times(w, delta), Minus(x, value)))]

\* The mean of two means, and what their distance adds to the deltas.
MeanOf(n1, mu1, n2, mu2) ==
  Over(Plus(Times(n1, mu1), Times(n2, mu2)), Plus(n1, n2))
Spread(n1, mu1, n2, mu2) ==
  LET mu == MeanOf(n1, mu1, n2, mu2)
  IN Plus(Times(n1, Square(Minus(mu, mu1))), Times(n2, Square(Minus(mu, mu2))))

\* A variant that forgets how far the right-hand side was from the new mean.
SpreadHalf(n1, mu1, n2, mu2) ==
  Times(n1, Square(Minus(MeanOf(n1, mu1, n2, mu2), mu1)))

\* operator +=, which returns at once when the right-hand side is empty.
MergeMeanHalf(m, r) ==
  IF r.count = Zero THEN m
  ELSE [count |-> Plus(m.count, r.count),
        value |-> MeanOf(m.count, m.value, r.count, r.value),
        deltas |-> Plus(Plus(m.deltas, r.deltas),
                        SpreadHalf(m.count, m.value, r.count, r.value))]

MergeMean(m, r) ==
  IF r.count = Zero THEN m
  ELSE [count |-> Plus(m.count, r.count),
        value |-> MeanOf(m.count, m.value, r.count, r.value),
        deltas |-> Plus(Plus(m.deltas, r.deltas),
                        Spread(m.count, m.value, r.count, r.value))]

\* A variant that weighs the means with the sums of the squares.
MergeWMeanSquares(m, r) ==
  IF r.sum = Zero THEN m
  ELSE [sum |-> Plus(m.sum, r.sum), sum2 |-> Plus(m.sum2, r.sum2),
        value |-> MeanOf(m.sum2, m.value, r.sum2, r.value),
        deltas |-> Plus(Plus(m.deltas, r.deltas),
                        Spread(m.sum2, m.value, r.sum2, r.value))]

MergeWMean(m, r) ==
  IF r.sum = Zero THEN m
  ELSE [sum |-> Plus(m.sum, r.sum), sum2 |-> Plus(m.sum2, r.sum2),
        value |-> MeanOf(m.sum, m.value, r.sum, r.value),
        deltas |-> Plus(Plus(m.deltas, r.deltas),
                        Spread(m.sum, m.value, r.sum, r.value))]

ScaleMean(m, s) ==
  [m EXCEPT !.value = Times(@, s), !.deltas = Times(@, Square(s))]

MeanVariance(m) == Over(m.deltas, Minus(m.count, Whole(1)))
Effective(m) == Minus(m.sum, Over(m.sum2, m.sum))
WMeanVariance(m) == Over(m.deltas, Effective(m))

\* counts() and variances() of a histogram of means or weighted means.
WMeanCountsSum(m) == m.sum   \* a variant
WMeanCounts(m) == IF m.sum2 = Zero THEN Zero ELSE Over(Square(m.sum), m.sum2)

\* A variant that divides by the sum of the squares.
WMeanVariancesSquares(m) ==
  IF Above(m.sum, Whole(1)) THEN Over(WMeanVariance(m), Square(m.sum)) ELSE NaN
WMeanVariances(m) ==
  IF Above(m.sum, Whole(1)) THEN Over(WMeanVariance(m), m.sum) ELSE NaN
MeanVariances(m) ==
  IF Above(m.count, Whole(1)) THEN Over(MeanVariance(m), m.count) ELSE NaN

\* The constructors that take a variance.
NewMean(n, value, variance) ==
  [count |-> n, value |-> value,
   deltas |-> Times(variance, Minus(n, Whole(1)))]
NewWMean(sum, sum2, value, variance) ==
  [sum |-> sum, sum2 |-> sum2, value |-> value,
   deltas |-> Times(variance, Minus(sum, Over(sum2, sum)))]

Fill(i, w, x) ==
  /\ mean' = [mean EXCEPT ![i] = FillMean(@, Whole(w), Whole(x))]
  /\ wmean' = [wmean EXCEPT ![i] = FillWMean(@, Whole(w), Whole(x))]
  /\ drawn' = [drawn EXCEPT ![i] =
                 [n |-> @.n + 1, w |-> @.w + w, w2 |-> @.w2 + w * w,
                  x |-> @.x + w * x, x2 |-> @.x2 + w * x * x]]
  /\ UNCHANGED <<wsum, weighed>>

\* i and j may be the same accumulator.
Merge(i, j) ==
  /\ mean' = [mean EXCEPT ![i] = MergeMean(@, mean[j])]
  /\ wmean' = [wmean EXCEPT ![i] = MergeWMean(@, wmean[j])]
  /\ drawn' = [drawn EXCEPT ![i] = [f \in DOMAIN @ |-> @[f] + drawn[j][f]]]
  /\ UNCHANGED <<wsum, weighed>>

Scale(i, s) ==
  /\ mean' = [mean EXCEPT ![i] = ScaleMean(@, Whole(s))]
  /\ wmean' = [wmean EXCEPT ![i] = ScaleMean(@, Whole(s))]
  /\ drawn' = [drawn EXCEPT ![i].x = s * @, ![i].x2 = s * s * @]
  /\ UNCHANGED <<wsum, weighed>>

-----------------------------------------------------------------------------
(* weighted_sum and WeightedSumView *)

AddWeight(s, w) ==
  [value |-> Plus(s.value, w), variance |-> Plus(s.variance, Square(w))]
MergeWSum(s, r) ==
  [value |-> Plus(s.value, r.value), variance |-> Plus(s.variance, r.variance)]
ScaleWSum(s, f) ==
  [value |-> Times(s.value, f), variance |-> Times(s.variance, Square(f))]

\* view + number, number + view, view - number, number - view, -view,
\* view * number, view / number and view + view.
ViewPlus(s, x) ==
  [value |-> Plus(s.value, x), variance |-> Plus(s.variance, Square(x))]

\* A variant that adds the number to the variance.
ViewMinusUnsquared(s, x) ==
  [value |-> Minus(s.value, x), variance |-> Plus(s.variance, x)]

ViewMinus(s, x) ==
  [value |-> Minus(s.value, x), variance |-> Plus(s.variance, Square(x))]
ViewFrom(s, x) ==
  [value |-> Minus(x, s.value), variance |-> Plus(Square(x), s.variance)]
ViewNegative(s) == [s EXCEPT !.value = Minus(Zero, @)]
ViewTimes(s, x) ==
  [value |-> Times(s.value, x), variance |-> Times(s.variance, Square(x))]
ViewOver(s, x) ==
  [value |-> Over(s.value, x), variance |-> Over(s.variance, Square(x))]
ViewAdd(s, r) ==
  [value |-> Plus(s.value, r.value), variance |-> Plus(s.variance, r.variance)]

\* The same entry added through the accumulator or through the view.
AddSum(i, w) ==
  /\ \/ wsum' = [wsum EXCEPT ![i] = AddWeight(@, Whole(w))]
     \/ wsum' = [wsum EXCEPT ![i] = ViewPlus(@, Whole(w))]
     \/ wsum' = [wsum EXCEPT ![i] = ViewMinus(@, Whole(-w))]
  /\ weighed' = [weighed EXCEPT ![i] =
                   [w |-> Plus(@.w, Whole(w)), w2 |-> Plus(@.w2, Whole(w * w))]]
  /\ UNCHANGED <<mean, wmean, drawn>>

\* A number minus the view: the weights change their sign, and one is added.
SubtractFrom(i, w) ==
  /\ wsum' = [wsum EXCEPT ![i] = ViewFrom(@, Whole(w))]
  /\ weighed' = [weighed EXCEPT ![i] =
                   [w |-> Minus(Whole(w), @.w), w2 |-> Plus(Whole(w * w), @.w2)]]
  /\ UNCHANGED <<mean, wmean, drawn>>

MergeSum(i, j) ==
  /\ \/ wsum' = [wsum EXCEPT ![i] = MergeWSum(@, wsum[j])]
     \/ wsum' = [wsum EXCEPT ![i] = ViewAdd(@, wsum[j])]
  /\ weighed' = [weighed EXCEPT ![i] =
                   [w |-> Plus(@.w, weighed[j].w), w2 |-> Plus(@.w2, weighed[j].w2)]]
  /\ UNCHANGED <<mean, wmean, drawn>>

\* Scaling with f, or with 1 / f by a division.
ScaleSum(i, f) ==
  /\ \/ wsum' = [wsum EXCEPT ![i] = ScaleWSum(@, f)]
     \/ wsum' = [wsum EXCEPT ![i] = ViewTimes(@, f)]
     \/ wsum' = [wsum EXCEPT ![i] = ViewOver(@, Over(Whole(1), f))]
     \/ f = Whole(-1) /\ wsum' = [wsum EXCEPT ![i] = ViewNegative(@)]
  /\ weighed' = [weighed EXCEPT ![i] =
                   [w |-> Times(@.w, f), w2 |-> Times(@.w2, Square(f))]]
  /\ UNCHANGED <<mean, wmean, drawn>>
-----------------------------------------------------------------------------
(* Cells as items of an array *)

\* The fields of the records.
Fields ==
  [WeightedSum |-> <<"value", "variance">>,
   WeightedMean |-> <<"sum", "sum2", "value", "deltas">>,
   Mean |-> <<"count", "value", "deltas">>]

\* _to_view: the accumulator whose view has these fields.
ToView(names) == CHOOSE parent \in DOMAIN Fields : Fields[parent] = names

\* _make takes the fields of an accumulator, _array what its constructor takes.
Make(parent, a) ==
  LET names == Fields[parent]
  IN [f \in ToSet(names) |-> a[CHOOSE k \in DOMAIN names : names[k] = f]]

\* A variant of _array for which the variance is the last field.
ArrayOfFields(parent, a) == Make(parent, a)
ArrayOf(parent, a) ==
  CASE parent = "Mean" -> NewMean(a[1], a[2], a[3])
    [] parent = "WeightedMean" -> NewWMean(a[1], a[2], a[3], a[4])
    [] parent = "WeightedSum" -> Make(parent, a)

\* An array to assign: numbers, one more dimension of them, or records.
Numbers(a) == [dtype |-> <<>>, last |-> a]
Record(parent, m) ==
  [dtype |-> Fields[parent],
   last |-> [k \in DOMAIN Fields[parent] |-> m[Fields[parent][k]]]]

\* view[...], which makes accumulators of records, and records an accumulator
\* gives to NumPy.
GetItem(record) == Make(ToView(record.dtype), record.last)

\* view[...] = value; ValueError where there is no result.
SetItem(parent, value) ==
  IF value.dtype = <<>> /\ Len(value.last) = Len(Fields[parent])
  THEN {ArrayOf(parent, value.last)}
  ELSE IF value.dtype = Fields[parent] THEN {GetItem(value)}
  ELSE {}

\* view.field = x, for one field after the other.
SetFields(parent, m, r) ==
  [f \in DOMAIN m |-> IF f \in ToSet(Fields[parent]) THEN r[f] ELSE m[f]]

\* The ways to write the cell r over the cell m: by what r reports, if all of
\* that is numbers, as the variance of a single sample is not; as a record; or
\* field by field.
Written(parent, m, r, reports) ==
  (IF NaN \in ToSet(reports) THEN {} ELSE SetItem(parent, Numbers(reports)))
    \cup SetItem(parent, Record(parent, r))
    \cup {SetFields(parent, m, r)}

\* Cell i becomes a copy of cell j.
AssignMean(i, j) ==
  /\ \E m \in Written("Mean", mean[i], mean[j],
                       <<mean[j].count, mean[j].value, MeanVariance(mean[j])>>) :
       mean' = [mean EXCEPT ![i] = m]
  /\ \E m \in Written("WeightedMean", wmean[i], wmean[j],
                       <<wmean[j].sum, wmean[j].sum2, wmean[j].value,
                         WMeanVariance(wmean[j])>>) :
       wmean' = [wmean EXCEPT ![i] = m]
  /\ drawn' = [drawn EXCEPT ![i] = drawn[j]]
  /\ UNCHANGED <<wsum, weighed>>

AssignWSum(i, j) ==
  /\ \E s \in Written("WeightedSum", wsum[i], wsum[j],
                       <<wsum[j].value, wsum[j].variance>>) :
       wsum' = [wsum EXCEPT ![i] = s]
  /\ weighed' = [weighed EXCEPT ![i] = weighed[j]]
  /\ UNCHANGED <<mean, wmean, drawn>>

\* Cell i becomes np.sum(view), the only ufunc that reduces.
Total(field) == FoldFunction(Plus, Zero, field)
AssignTotal(i) ==
  /\ wsum' = [wsum EXCEPT ![i] =
                 Make("WeightedSum", <<Total([k \in Cells |-> wsum[k].value]),
                                       Total([k \in Cells |-> wsum[k].variance])>>)]
  /\ weighed' = [weighed EXCEPT ![i] =
                    [w |-> Total([k \in Cells |-> weighed[k].w]),
                     w2 |-> Total([k \in Cells |-> weighed[k].w2])]]
  /\ UNCHANGED <<mean, wmean, drawn>>
-----------------------------------------------------------------------------
Init ==
  /\ mean = [i \in Cells |-> EmptyMean]
  /\ wmean = [i \in Cells |-> EmptyWMean]
  /\ wsum = [i \in Cells |-> EmptyWSum]
  /\ drawn = [i \in Cells |-> [n |-> 0, w |-> 0, w2 |-> 0, x |-> 0, x2 |-> 0]]
  /\ weighed = [i \in Cells |-> [w |-> Zero, w2 |-> Zero]]
  /\ ops = 0

Next ==
  /\ ops < MaxOps
  /\ ops' = ops + 1
  /\ \/ \E i \in Cells, w \in Weights, x \in Values : Fill(i, w, x)
     \/ \E i, j \in Cells : Merge(i, j)
     \/ \E i \in Cells, s \in Factors : Scale(i, s)
     \/ \E i, j \in Cells : AssignMean(i, j)
     \/ \E i, j \in Cells : AssignWSum(i, j)
     \/ \E i \in Cells : AssignTotal(i)
     \/ \E i \in Cells, w \in Weights : AddSum(i, w) \/ SubtractFrom(i, w)
     \/ \E i, j \in Cells : MergeSum(i, j)
     \/ \E i \in Cells, s \in Factors :
          ScaleSum(i, Whole(s)) \/ ScaleSum(i, Ratio(1, s))

Spec == Init /\ [][Next]_vars
-----------------------------------------------------------------------------
(* Correctness *)

\* sum w (x - mean)^2, from the sums.
Deviation(d) == Minus(Whole(d.x2), Ratio(d.x * d.x, d.w))

\* However the samples came in, one by one, in accumulators merged later, in
\* any order, with itself or with an empty one, scaled, or copied through a view
\* in any of its forms, a mean holds the number, the mean and the squared
\* deviations of all of them (mean.hpp 31-83, view.py 13-55).
MeanExact ==
  \A i \in Cells :
    IF drawn[i].w = 0 THEN mean[i] = EmptyMean
    ELSE mean[i] = [count |-> Whole(drawn[i].w),
                    value |-> Ratio(drawn[i].x, drawn[i].w),
                    deltas |-> Deviation(drawn[i])]

\* The same for a weighted mean, and for the sum of the squared weights that
\* its variance is divided by (weighted_mean.hpp 53-96, 32-40).
WeightedMeanExact ==
  \A i \in Cells :
    IF drawn[i].w = 0 THEN wmean[i] = EmptyWMean
    ELSE wmean[i] = [sum |-> Whole(drawn[i].w), sum2 |-> Whole(drawn[i].w2),
                     value |-> Ratio(drawn[i].x, drawn[i].w),
                     deltas |-> Deviation(drawn[i])]

\* "always 0 if filled 0 times, and 1 if filled once, and more than 1
\* otherwise", and never more than the number of fills: the counts() of a
\* weighted mean (hist.py 1070-1074), after any merging, scaling and copying.
CountsEffective ==
  \A i \in Cells :
    LET counts == WMeanCounts(wmean[i])
        n == drawn[i].n
    IN /\ n <= 1 => counts = Whole(n)
       /\ n > 1 => Above(counts, Whole(1)) /\ ~Above(counts, Whole(n))

\* Where all weights are 1, a histogram of weighted means reports the counts,
\* values and variances that a histogram of means does, undefined where that
\* is (hist.py 1034-1053, 1083-1091; view.py 212-238).
UnitWeightsAgree ==
  \A i \in Cells :
    (drawn[i].w = drawn[i].n /\ drawn[i].w2 = drawn[i].n) =>
      /\ WMeanCounts(wmean[i]) = mean[i].count
      /\ wmean[i].value = mean[i].value
      /\ WMeanVariances(wmean[i]) = MeanVariances(mean[i])

\* A weighted sum is the sum of the weights and of their squares, whether it
\* is worked on as an accumulator or as an element of a WeightedSumView
\* (weighted_sum.hpp 43-69, view.py 13-55 and 105-195).
ViewsAgree ==
  \A i \in Cells :
    wsum[i] = [value |-> weighed[i].w, variance |-> weighed[i].w2]
=============================================================================
