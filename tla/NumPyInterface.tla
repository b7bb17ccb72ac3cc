---------------------------- MODULE NumPyInterface ----------------------------
(***************************************************************************)
(* numpy.py: histogramdd and its relatives make axes from what NumPy calls *)
(* bins and range, fill a new Histogram through them (FillArguments), and  *)
(* return its counts with edges.                                           *)
(*                                                                         *)
(* The last bin of NumPy includes its upper edge.  Axes from a number of   *)
(* bins are of a C++ class made for that; from an array of edges, the last *)
(* one is moved up to the next double, and back in the edges that are      *)
(* returned.  Doubles are integers here, neighbours of each other where    *)
(* they differ by 1, and their arithmetic is exact.                        *)
(***************************************************************************)
EXTENDS FillArguments, Rationals, FiniteSetsExt, Functions

CONSTANTS
  Calls,       \* what histogramdd is called with
  Arrays,      \* arrays of edges that the caller may hold
  MaxCalls     \* bound on the number of calls

\* A call has an axis at least.  Numbers are given to an axis as the number of
\* its bins or as their edges.
Call ==
  [a : Seq(Seq(Int)), bins : Seq([count : Nat, edges : Seq(Int)]) \ {<<>>},
   range : Seq((Int \X Int) \cup {<<>>}) \ {<<>>}, weights : Seq(Int),
   threads : Nat]

ASSUME CallsAssumption ==
  /\ Calls \subseteq Call
  /\ Arrays \subseteq Seq(Int)

\* The bins of an axis: a number of them, a list of edges, or the caller's
\* array of edges.
Count(n) == [count |-> n, edges |-> <<>>]
Listed(edges) == [count |-> 0, edges |-> edges]
Mine == Listed(<<>>)

\* A range of an axis is <<>> for None, or <<start, stop>>; weights are <<>>
\* for None.
HistogramDD(a, bins, range, weights, threads) ==
  [a |-> a, bins |-> bins, range |-> range, weights |-> weights,
   threads |-> threads]

Histogram2d(x, y, bins, range, weights, threads) ==
  HistogramDD(<<x, y>>, bins, range, weights, threads)

Histogram(a, bins, range, weights, threads) ==
  HistogramDD(<<a>>, <<bins>>, <<range>>, weights, threads)

\* bins=n is the same for all of the axes, and so is range=None.
SameBins(n, rank) == [k \in 1 .. rank |-> Count(n)]
NoRange(rank) == [k \in 1 .. rank |-> <<>>]

VARIABLES
  call,        \* the call, or <<>> for fill itself
  calls,
  mine,        \* the caller's array
  given,       \* history: the edges of each axis as they were when it was made
  axes         \* the axes of the Histogram

numpy == <<call, calls, mine, given, axes>>
-----------------------------------------------------------------------------
(* Axes *)

\* The axis may descend, from a start above its stop.
RegularIndex(ax, v) ==
  LET up == IF ax.start < ax.stop THEN 1 ELSE -1
      x == up * (v - ax.start)
      width == up * (ax.stop - ax.start)
  IN IF x < 0 THEN -1
     ELSE IF x >= width THEN ax.size
     ELSE (x * ax.size) \div width

\* regular_numpy::index
NumPyIndex(ax, v) ==
  IF v <= ax.stop THEN Min({RegularIndex(ax, v), ax.size - 1})
  ELSE RegularIndex(ax, v)

VariableIndex(ax, v) == Cardinality({k \in DOMAIN ax.edges : ax.edges[k] <= v}) - 1

AxisIndex(ax, v) ==
  IF ax.edges = <<>> THEN NumPyIndex(ax, v) ELSE VariableIndex(ax, v)

\* Towards the least positive normal double; between zero and that one there
\* are denormal doubles.
TowardsLeast(x) == IF x > 1 THEN x - 1 ELSE x + 1

\* A variant that returns the edges of the axis.
NumPyEdgesOfAxis(ax) ==
  IF ax.edges = <<>>
  THEN [k \in 1 .. ax.size + 1 |->
          Ratio(ax.start * ax.size + (ax.stop - ax.start) * (k - 1), ax.size)]
  ELSE [k \in DOMAIN ax.edges |-> Whole(ax.edges[k])]

\* edges(ax, flow=false, numpy_upper=true)
NumPyEdges(ax) ==
  IF ax.edges = <<>>
  THEN [k \in 1 .. ax.size + 1 |->
          Ratio(ax.start * ax.size + (ax.stop - ax.start) * (k - 1), ax.size)]
  ELSE [k \in DOMAIN ax.edges |->
          Whole(IF k = ax.size + 1 THEN TowardsLeast(ax.edges[k]) ELSE ax.edges[k])]
-----------------------------------------------------------------------------
(* histogramdd *)

\* zip(bins, range) stops at the shorter of them.
Zipped(c) == 1 .. Min({Len(c.bins), Len(c.range)})

\* The caller's array is not copied: every axis made of it moves its last edge
\* up to the next double.
UsesOfMine(c, n) == Cardinality({k \in 1 .. n : c.bins[k] = Mine})
Moved(edges, by) ==
  [k \in DOMAIN edges |-> edges[k] + (IF k = Len(edges) THEN by ELSE 0)]

GivenTo(c, n) ==
  IF c.bins[n] = Mine THEN Moved(mine, UsesOfMine(c, n - 1)) ELSE c.bins[n].edges

\* A variant that leaves the last edge where it is.
EdgesUnmoved(edges) == edges
UpperMoved(edges) == Moved(edges, 1)

RangeOf(c, n) ==
  IF c.range[n] # <<>> THEN c.range[n]
  ELSE LET values == {c.a[n][k] : k \in DOMAIN c.a[n]} IN <<Min(values), Max(values)>>

AxisFrom(c, n) ==
  IF c.bins[n].count > 0
  THEN [start |-> RangeOf(c, n)[1], stop |-> RangeOf(c, n)[2],
        size |-> c.bins[n].count, edges |-> <<>>]
  ELSE LET edges == UpperMoved(GivenTo(c, n))
       IN [start |-> edges[1], stop |-> edges[Len(edges)],
           size |-> Len(edges) - 1, edges |-> edges]

\* np.min and np.max of no data raise, as do the C++ axes for an empty range
\* and for edges that do not ascend, and Python for data that are not there.
AxisRaises(c, n) ==
  IF c.bins[n].count > 0
  THEN \/ c.range[n] = <<>> /\ (n \notin DOMAIN c.a \/ c.a[n] = <<>>)
       \/ RangeOf(c, n)[1] = RangeOf(c, n)[2]
  ELSE LET edges == UpperMoved(GivenTo(c, n))
       IN \/ Len(edges) < 2
          \/ \E k \in 1 .. Len(edges) - 1 : edges[k] >= edges[k + 1]

FillRequest(c) ==
  [rank |-> Cardinality(Zipped(c)),
   args |-> [n \in DOMAIN c.a |-> Len(c.a[n])],
   weight |-> IF c.weights = <<>> THEN Absent ELSE Len(c.weights),
   sample |-> Absent, threads |-> c.threads, mean |-> FALSE]

\* The axes are made one after the other, the array changed with them; then
\* fill is called.
MakeAxes ==
  LET c == call
      failing == {n \in Zipped(c) : AxisRaises(c, n)}
      reached == IF failing = {} THEN Zipped(c) ELSE 1 .. Min(failing)
  IN /\ outcome = "called"
     /\ mine' = Moved(mine, UsesOfMine(c, Cardinality(reached)))
     /\ \/ /\ failing = {}
           /\ axes' = [n \in Zipped(c) |-> AxisFrom(c, n)]
           /\ given' = [n \in Zipped(c) |-> GivenTo(c, n)]
           /\ request' = FillRequest(c)
           /\ outcome' = "pending"
        \/ /\ failing # {}
           /\ outcome' = "raised"
           /\ UNCHANGED <<axes, given, request>>
     /\ UNCHANGED <<call, calls, counted>>

\* The caller makes the same call again, with the same array.
CallAgain ==
  /\ call # <<>> /\ outcome \in {"returned", "raised"}
  /\ calls < MaxCalls
  /\ calls' = calls + 1
  /\ outcome' = "called" /\ counted' = {}
  /\ given' = <<>> /\ axes' = <<>>
  /\ UNCHANGED <<request, call, mine>>

NumPyInit ==
  /\ calls = 1 /\ given = <<>> /\ axes = <<>>
  /\ \/ Init /\ call = <<>> /\ mine = <<>>
     \/ /\ call \in Calls /\ mine \in Arrays
        /\ request = FillRequest(call)
        /\ outcome = "called" /\ counted = {}

NumPyNext ==
  \/ Next /\ UNCHANGED numpy
  \/ MakeAxes
  \/ CallAgain

NumPySpec == NumPyInit /\ [][NumPyNext]_<<vars, numpy>>
-----------------------------------------------------------------------------
(* What is returned *)

InnerCells ==
  {cell \in [DOMAIN axes -> UNION {0 .. axes[n].size - 1 : n \in DOMAIN axes}] :
     \A n \in DOMAIN axes : cell[n] < axes[n].size}

WeightAt(k) == IF call.weights = <<>> THEN 1 ELSE call.weights[k + 1]

\* The cell that an entry is counted in, and hist.to_numpy()[0], where the
\* flow bins are cut off.
CellOf(entry) == [n \in DOMAIN axes |-> AxisIndex(axes[n], call.a[n][entry[n] + 1])]

Values(cell) ==
  SumFunction([ce \in {ce \in counted : CellOf(ce[2]) = cell} |-> WeightAt(ce[2][0])])
-----------------------------------------------------------------------------
(* Correctness *)

\* The edges that NumPy would go by: those of the caller, as they are when the
\* axis is made, or the ones that divide the range.
Wanted(n) ==
  IF axes[n].edges = <<>> THEN NumPyEdges(axes[n])
  ELSE [k \in DOMAIN given[n] |-> Whole(given[n][k])]

\* "All but the last (righthand-most) bin is half-open", says numpy.histogram.
InBin(edges, i, v) ==
  /\ ~Above(edges[i + 1], Whole(v))
  /\ Above(edges[i + 2], Whole(v)) \/ (i + 2 = Len(edges) /\ edges[i + 2] = Whole(v))

\* "max must be larger than min in range parameter", says numpy.histogram.
RangesAscend(c) ==
  \A n \in Zipped(c) : c.range[n] # <<>> => c.range[n][1] < c.range[n][2]

\* For data, weights and threads that fill takes and ranges that NumPy takes,
\* the counts are those of NumPy: each cell has the sum of the weights of
\* exactly those values that lie in it, upper edges of the last bins included,
\* below zero too, whether the values arrived in one section or in several,
\* and from a second call with the same array as from the first (numpy.py
\* 65-79).
CountsAsNumPy ==
  (call # <<>> /\ outcome = "returned" /\ ~Rejects(request) /\ RangesAscend(call)) =>
    \A cell \in InnerCells :
      LET inside == {k \in 0 .. Total(request) - 1 :
                       \A n \in DOMAIN axes : InBin(Wanted(n), cell[n], call.a[n][k + 1])}
      IN Values(cell) = SumFunction([k \in inside |-> WeightAt(k)])

\* The edges that are returned are the edges that were given, though the axis
\* has another upper edge, as long as that is positive (numpy.py 76 and
\* axis.hpp 222-225).
EdgesAsGiven ==
  (call # <<>> /\ outcome = "returned") =>
    \A n \in DOMAIN axes :
      LET wanted == Wanted(n)
      IN Above(wanted[Len(wanted)], Zero) => NumPyEdges(axes[n]) = wanted
=============================================================================
