------------------------------- MODULE Buffers -------------------------------
(***************************************************************************)
(* The memory of a histogram and the NumPy arrays that look into it:       *)
(* make_buffer of histogram.hpp, view() of register_histogram.hpp, and     *)
(* what the operations of a histogram do to the memory under views that a  *)
(* program still holds.  values() and to_numpy() hand out views as well.   *)
(*                                                                         *)
(* The storage is dense, or unlimited: small integers, which move to wider *)
(* memory when a count outgrows them, and to doubles for a weight or for a *)
(* view.  Where the cells are allocated and in which order is up to        *)
(* Boost.Histogram.                                                        *)
(***************************************************************************)
EXTENDS Integers, Sequences, FiniteSets, Functions, AxisTypes

CONSTANTS
  Shapes,        \* tuples of axes to begin with
  SmallLimit,    \* the highest count in small memory
  MaxCount,      \* bound on the content of a cell
  MaxSize,       \* bound on the size of an axis
  MaxViews       \* bound on the views taken

ASSUME ShapesAssumption == \A axs \in Shapes : IsAxes(axs)

ASSUME BoundsAssumption ==
  /\ SmallLimit \in Nat /\ MaxCount \in Nat /\ MaxSize \in Nat /\ MaxViews \in Nat

VARIABLES
  axes,
  storage,       \* "dense" or "unlimited"
  type,          \* of its elements: "small", "wide" or "double"
  memory,        \* the elements, by offset
  counted,       \* for every cell, what the program put there
  views          \* the arrays, "attached" those that look into the memory

vars == <<axes, storage, type, memory, counted, views>>
-----------------------------------------------------------------------------
(* The order of the cells in memory: the first axis runs fastest *)

\* The stride in each direction of elements laid out with these lengths, and
\* last the number of them all.
Strides(lengths) ==
  LET stride[i \in 1 .. Len(lengths) + 1] ==
        IF i = 1 THEN 1 ELSE stride[i - 1] * lengths[i - 1]
  IN stride

AxesExtent(axs) == [i \in DOMAIN axs |-> Extent(axs[i])]

Stride(axs, i) == Strides(AxesExtent(axs))[i]

Volume(axs) == Stride(axs, Len(axs) + 1)

Offset(axs, c) ==
  SumFunction([i \in DOMAIN axs |-> (c[i] - FirstBin(axs[i])) * Stride(axs, i)])

LaidOut(axs, f) ==
  [o \in 0 .. Volume(axs) - 1 |-> f[CHOOSE c \in Cells(axs) : Offset(axs, c) = o]]
-----------------------------------------------------------------------------
(* make_buffer_impl *)

\* Without flow bins the array starts one stride later on every axis that has
\* an underflow bin.
Start(axs, flow) ==
  SumFunction([i \in DOMAIN axs |->
                 Bit(~flow /\ HasUnderflow(axs[i])) * Stride(axs, i)])

Shape(axs, flow) == [i \in DOMAIN axs |-> IF flow THEN Extent(axs[i]) ELSE axs[i].size]

\* A variant whose strides leave the flow bins out with the flow.
BufferTight(axs, flow) ==
  [start |-> Start(axs, flow), shape |-> Shape(axs, flow),
   strides |-> [i \in DOMAIN axs |-> Strides(Shape(axs, flow))[i]]]

\* The strides count the flow bins always.
Buffer(axs, flow) ==
  [start |-> Start(axs, flow), shape |-> Shape(axs, flow),
   strides |-> [i \in DOMAIN axs |-> Stride(axs, i)]]

\* The positions in an array, and the element at a position.
Positions(a) ==
  {p \in [DOMAIN a.shape -> UNION {0 .. a.shape[i] - 1 : i \in DOMAIN a.shape}] :
     \A i \in DOMAIN p : p[i] < a.shape[i]}

Address(a, p) == a.start + SumFunction([i \in DOMAIN p |-> p[i] * a.strides[i]])

\* The cell that a position stands for.
CellOf(axs, flow, p) ==
  [i \in DOMAIN axs |-> p[i] + IF flow THEN FirstBin(axs[i]) ELSE 0]
-----------------------------------------------------------------------------
(* edges *)

\* The bins whose lower edges an array of edges lists, the last one to close
\* the last bin; the number of a category is its edge.
\* Where exactly an edge is, and the nudge of the uppermost inner one, is not
\* modelled.

\* A variant that starts with the first bin in range even with flow bins.
EdgesUnshifted(ax, flow) == [k \in 0 .. (IF flow THEN Extent(ax) ELSE ax.size) |-> k]

Edges(ax, flow) ==
  [k \in 0 .. (IF flow THEN Extent(ax) ELSE ax.size) |->
     IF flow THEN k + FirstBin(ax) ELSE k]

\* What to_numpy() puts behind the array.
AllEdges(axs, flow) == [i \in DOMAIN axs |-> Edges(axs[i], flow)]

\* The bins that the centers and the widths of an axis are those of.
Centers(ax) == [k \in 0 .. ax.size - 1 |-> k]

\* ax[k], which counts from the end below zero; empty where it raises
\* IndexError, here or for a bin that the axis does not have.
AxisItem(ax, k) ==
  LET i == IF k < 0 THEN k + ax.size ELSE k
  IN {i} \cap (FirstBin(ax) .. ax.size - 1)

\* h.axes: the sizes and, above, the extents, and one array for every axis, as
\* long as its values in the direction of the axis and 1 in all others, for
\* NumPy to broadcast.
AxesSize(axs) == [i \in DOMAIN axs |-> axs[i].size]

MeshGrid(arrays) ==
  [i \in DOMAIN arrays |->
     [shape |-> [j \in DOMAIN arrays |->
                   IF j = i THEN Cardinality(DOMAIN arrays[i]) ELSE 1],
      values |-> arrays[i]]]

AxesCenters(axs) == MeshGrid([i \in DOMAIN axs |-> Centers(axs[i])])
AxesEdges(axs) == MeshGrid(AllEdges(axs, FALSE))

\* The i-th of these arrays against an array of a shape, at a position.
Broadcasts(array, shape) ==
  \A j \in DOMAIN shape : array.shape[j] \in {1, shape[j]}
BroadcastAt(array, i, p) == array.values[IF array.shape[i] = 1 THEN 0 ELSE p[i]]
-----------------------------------------------------------------------------
(* Moving the cells to other memory leaves every array behind *)

LeftBehind(vs) == {[v EXCEPT !.attached = FALSE] : v \in vs}

\* double_converter: integers move, doubles stay.
ConvertToDouble ==
  /\ type' = "double"
  /\ views' = IF type = "double" THEN views ELSE LeftBehind(views)

\* view(), or values() as to_numpy() returns it with the edges.
NewView(flow) == [flow |-> flow, axes |-> axes, array |-> Buffer(axes, flow),
                  edges |-> AllEdges(axes, flow), attached |-> TRUE]

\* A variant of view() that hands out the integers of an unlimited storage.
ViewUnconverted(flow) ==
  /\ Cardinality(views) < MaxViews
  /\ views' = views \cup {NewView(flow)}
  /\ UNCHANGED <<axes, storage, type, memory, counted>>

View(flow) ==
  /\ Cardinality(views) < MaxViews
  /\ type' = "double"
  /\ views' = {NewView(flow)}
                \cup IF type = "double" THEN views ELSE LeftBehind(views)
  /\ UNCHANGED <<axes, storage, memory, counted>>
-----------------------------------------------------------------------------
(* Writing *)

\* Writing through a view that the program holds.
Write(v, p, n) ==
  /\ v.attached
  /\ memory' = [memory EXCEPT ![Address(v.array, p)] = n]
  /\ counted' = [counted EXCEPT ![CellOf(axes, v.flow, p)] = n]
  /\ UNCHANGED <<axes, storage, type, views>>

\* Adding 1 in place with an array of the shape of the bins, or of the extents
\* with the flow bins: through a view made for the purpose.
AddArray(flow) ==
  /\ \A c \in DOMAIN counted : counted[c] < MaxCount
  /\ LET a == Buffer(axes, flow)
         at == {Address(a, p) : p \in Positions(a)}
         cells == {CellOf(axes, flow, p) : p \in Positions(a)}
     IN /\ memory' = [o \in DOMAIN memory |-> memory[o] + Bit(o \in at)]
        /\ counted' = [c \in DOMAIN counted |-> counted[c] + Bit(c \in cells)]
  /\ ConvertToDouble
  /\ UNCHANGED <<axes, storage>>

Put(c, n) ==
  /\ memory' = [memory EXCEPT ![Offset(axes, c)] = n]
  /\ counted' = [counted EXCEPT ![c] = n]

\* A fill without weights: a count that small memory cannot hold moves the
\* cells.
Count(c) ==
  /\ counted[c] < MaxCount
  /\ Put(c, counted[c] + 1)
  /\ LET outgrown == type = "small" /\ counted[c] + 1 > SmallLimit
     IN /\ type' = IF outgrown THEN "wide" ELSE type
        /\ views' = IF outgrown THEN LeftBehind(views) ELSE views
  /\ UNCHANGED <<axes, storage>>

\* A fill with the weight 2.
CountWeighted(c) ==
  /\ counted[c] + 2 <= MaxCount
  /\ Put(c, counted[c] + 2)
  /\ ConvertToDouble
  /\ UNCHANGED <<axes, storage>>
-----------------------------------------------------------------------------
(* New memory *)

\* A fill that makes an axis grow by a bin at either end: every count moves to
\* its new place, in elements of any type that holds the counts.
Grow(i, front) ==
  /\ "growth" \in axes[i].options /\ axes[i].size < MaxSize
  /\ front => IsOrdered(axes[i])
  /\ LET grown == [axes EXCEPT ![i].size = @ + 1]
         new == IF front THEN 0 ELSE axes[i].size
         \* the cell as it was called
         former(c) == [c EXCEPT ![i] = @ - Bit(@ > new)]
     IN /\ axes' = grown
        /\ counted' = [c \in Cells(grown) |->
                         IF c[i] = new THEN 0 ELSE counted[former(c)]]
        /\ memory' = LaidOut(grown, counted')
  /\ type' \in IF storage = "dense" THEN {type}
               ELSE IF \A c \in DOMAIN counted : counted[c] <= SmallLimit
               THEN {"small", "wide", "double"} ELSE {"wide", "double"}
  /\ views' = LeftBehind(views)
  /\ UNCHANGED storage

\* Dense memory is cleared where it is, an unlimited storage starts again with
\* small memory.
Reset ==
  /\ counted' = [c \in DOMAIN counted |-> 0]
  /\ memory' = [o \in DOMAIN memory |-> 0]
  /\ IF storage = "dense" THEN UNCHANGED <<type, views>>
     ELSE type' = "small" /\ views' = LeftBehind(views)
  /\ UNCHANGED <<axes, storage>>
-----------------------------------------------------------------------------
(* Reading *)

\* What values(), or the histogram as an array, shows at its positions.
ValuesOf(v) == [p \in Positions(v.array) |-> memory[Address(v.array, p)]]

\* The cells that coverage::all or coverage::inner goes through.
Covered(axs, flow) ==
  {c \in Cells(axs) : flow \/ \A i \in DOMAIN axs : c[i] \in 0 .. axs[i].size - 1}

\* A variant that never counts the flow bins.
SumInner(flow) ==
  SumFunction([c \in Covered(axes, FALSE) |-> memory[Offset(axes, c)]])
Sum(flow) ==
  SumFunction([c \in Covered(axes, flow) |-> memory[Offset(axes, c)]])

Empty(flow) == \A c \in Covered(axes, flow) : memory[Offset(axes, c)] = 0

Size == Volume(axes)
-----------------------------------------------------------------------------
Init ==
  /\ axes \in Shapes
  /\ storage \in {"dense", "unlimited"}
  /\ type = IF storage = "dense" THEN "double" ELSE "small"
  /\ counted = [c \in Cells(axes) |-> 0]
  /\ memory = [o \in 0 .. Volume(axes) - 1 |-> 0]
  /\ views = {}

Next ==
  \/ \E flow \in BOOLEAN : View(flow)
  \/ \E v \in views : \E p \in Positions(v.array), n \in 0 .. MaxCount :
       Write(v, p, n)
  \/ \E flow \in BOOLEAN : AddArray(flow)
  \/ \E c \in Cells(axes) : Count(c)
  \/ \E c \in Cells(axes) : CountWeighted(c)
  \/ \E i \in DOMAIN axes, front \in BOOLEAN : Grow(i, front)
  \/ Reset

Spec == Init /\ [][Next]_vars
-----------------------------------------------------------------------------
(* Correctness *)

TypeOK ==
  /\ IsAxes(axes)
  /\ storage \in {"dense", "unlimited"}
  /\ type \in {"small", "wide", "double"}
  /\ counted \in [Cells(axes) -> Nat]
  /\ memory \in [0 .. Volume(axes) - 1 -> Nat]
  /\ \A v \in views :
       /\ IsAxes(v.axes) /\ v.flow \in BOOLEAN /\ v.attached \in BOOLEAN
       /\ v = [flow |-> v.flow, axes |-> v.axes,
               array |-> Buffer(v.axes, v.flow), edges |-> AllEdges(v.axes, v.flow),
               attached |-> v.attached]

\* Arrays look into doubles, and dense elements are doubles always: the reason
\* why nothing but new memory leaves an array behind.
DoublesInView ==
  /\ storage = "dense" => type = "double"
  /\ (\E v \in views : v.attached) => type = "double"

\* What an array shows at a position is the content of the bin of that
\* position, with and without flow bins, whatever flow bins the axes have,
\* and writing to it reaches that bin and no other; after any growth a new
\* array does so again (histogram.hpp 32-58).
ViewShowsBins ==
  \A v \in views :
    v.attached =>
      \A p \in Positions(v.array) :
        ValuesOf(v)[p] = counted[CellOf(v.axes, v.flow, p)]

\* The edges that to_numpy() returns with an array belong to it: one more than
\* its length on every axis, and the bin of a position lies between the edge of
\* that number and the next (axis.hpp 204-250), whatever flow bins the axis has.
EdgesFit ==
  \A v \in views :
    /\ \A i \in DOMAIN v.edges : DOMAIN v.edges[i] = 0 .. v.array.shape[i]
    /\ \A p \in Positions(v.array), i \in DOMAIN v.edges :
         LET bin == CellOf(v.axes, v.flow, p)[i]
         IN v.edges[i][p[i]] = bin /\ v.edges[i][p[i] + 1] = bin + 1

\* sum(), empty(), size and shape say of the cells, with the flow bins or
\* without, what an array says that the program holds, after anything that has
\* been counted or written since (hist.py 703-728); ax[k] is the bin at k, from
\* either end, and the centers and edges that h.axes gives for the axes together
\* broadcast against the array, the center of a cell and its edges where the
\* content of the cell is (axestuple.py 48-69).
QueriesMatchViews ==
  \A v \in views :
    v.attached =>
      LET values == ValuesOf(v)
          centers == AxesCenters(axes)
          edges == AxesEdges(axes)
      IN /\ Sum(v.flow) = SumFunction(values)
         /\ Empty(v.flow) <=> \A p \in DOMAIN values : values[p] = 0
         /\ v.flow => /\ v.array.shape = AxesExtent(axes)
                      /\ Size = Cardinality(DOMAIN values)
         /\ ~v.flow => /\ v.array.shape = AxesSize(axes)
                       /\ \A i \in DOMAIN axes :
                            /\ Broadcasts(centers[i], v.array.shape)
                            /\ \A p \in DOMAIN values :
                                 LET bin == CellOf(axes, FALSE, p)[i]
                                 IN /\ BroadcastAt(centers[i], i, p) = bin
                                    /\ edges[i].values[p[i]] = bin
                                    /\ edges[i].values[p[i] + 1] = bin + 1
                                    /\ AxisItem(axes[i], p[i]) = {bin}
                                    /\ AxisItem(axes[i], p[i] - axes[i].size) = {bin}

\* "avoid the view becoming invalid upon changes to the histogram"
\* (histogram.hpp 87-93): an array keeps looking into the memory of the
\* histogram whatever is counted and however large the counts become, as long
\* as no axis grows and the histogram is not reset.
ViewsStayValid ==
  [][ \/ axes' # axes
      \/ \A c \in DOMAIN counted' : counted'[c] = 0
      \/ \A v \in views : v.attached => v \in views' ]_vars
=============================================================================
