--------------------------- MODULE MCNumPyInterface ---------------------------
(***************************************************************************)
(* Instances of NumPyInterface for TLC: every form of the arguments of a   *)
(* fill with two axes, and calls of histogram, histogram2d and histogramdd *)
(* with values at, next to and between edges that are positive, negative   *)
(* and zero.                                                               *)
(***************************************************************************)
EXTENDS NumPyInterface

CONSTANTS MaxLen, MaxThreads, MaxData

Lengths == 0 .. MaxLen

\* Any form in every slot, and now and then a missing argument.
AnyForm == Lengths \cup {Scalar}
AnyArgs == (AnyForm \X AnyForm) \cup {<<n>> : n \in AnyForm}
MCRequests ==
  [rank : {2}, args : AnyArgs, weight : AnyForm \cup {Absent},
   sample : {Absent, MaxLen}, threads : 0 .. MaxThreads, mean : BOOLEAN]

MCArrays == {<<0, 4, 8>>, <<-8, -4>>, <<-4, 0>>, <<4>>, <<4, 3>>}

MCBins == {Count(1), Count(2), Mine, Listed(<<0, 4, 8>>), Listed(<<-8, -4>>)}
MCRange == {<<>>, <<0, 8>>, <<-8, -4>>, <<4, 4>>, <<8, 0>>}

Places == {-9, -8, -5, -4, -3, 0, 1, 4, 7, 8, 9, 10}
Data(places, n) == UNION {[1 .. k -> places] : k \in 0 .. n}
Weighted == {<<>>, <<2, 3>>}

MCCalls ==
  {Histogram(a, bins, range, weights, threads) :
     a \in Data(Places, MaxData), bins \in MCBins, range \in MCRange,
     weights \in Weighted, threads \in {1, 2}}
    \cup
  {Histogram2d(x, y, bins, NoRange(2), <<>>, 2) :
     x \in Data({-4, 8, 9}, 2), y \in Data({3, 4, 9}, 2),
     bins \in {SameBins(2, 2), <<Mine, Mine>>, <<Mine, Count(2)>>}}
    \cup
  {HistogramDD(<<<<0, 8>>, <<4, 9>>>>, <<Mine, Count(2), Mine>>, NoRange(n), <<>>, 1) :
     n \in 1 .. 3}
    \cup
  {HistogramDD(<<<<0, 8>>>>, SameBins(2, n), NoRange(n), <<>>, 1) : n \in 1 .. 2}
=============================================================================
