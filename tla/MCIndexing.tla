----------------------------- MODULE MCIndexing ------------------------------
(***************************************************************************)
(* Instances of Indexing: every kind of axis alone with many indices, some *)
(* pairs of axes with fewer, and three axes with the few items that move   *)
(* the numbers of the other axes.                                          *)
(***************************************************************************)
EXTENDS Indexing

Axis(family, options) == MakeAxis(family, options, 3)

\* Every axis that a constructor makes, with three bins.
AnyAxis == {Axis(f, o) : <<f, o>> \in {fo \in Families \X SUBSET Options :
                                         Accepts(fo[1], fo[2])}}

UOFlow == MakeAxis("regular", Flow, 2)
UFlow == MakeAxis("variable", {"underflow"}, 2)
NoFlow == MakeAxis("integer", {}, 2)
Circular == MakeAxis("regular", Flow \cup {"circular"}, 2)
Category == MakeAxis("category", {}, 2)
Growing == MakeAxis("category", {"growth"}, 2)

\* Axes without bins: one that waits for its first category, one that a slice
\* has left with its flow bins.
Unfilled == MakeAxis("category", {"growth"}, 0)
FlowOnly == MakeAxis("integer", Flow, 0)

MCShapes ==
  {<<ax>> : ax \in AnyAxis \cup {Unfilled, FlowOnly}}
    \cup {<<UOFlow, Category>>, <<Growing, UFlow>>, <<NoFlow, Circular>>}
    \cup {<<UOFlow, Unfilled>>}
    \cup {<<UFlow, NoFlow, Category>>}

At(n) == [kind |-> "int", n |-> n]
Call(base, n) == [kind |-> "call", base |-> base, n |-> n]
List(items) == [kind |-> "list", items |-> items]
Sum == [kind |-> "sum"]
Rebin(n) == [kind |-> "rebin", n |-> n]

Tuple(items) == [kind |-> "tuple", items |-> items]
Dict(d) == [kind |-> "dict", dict |-> d]

Starts(ax) == {None, Call("underflow", 0), Call("value", 1)}
                \cup {At(n) : n \in 0 .. ax.size}
Stops(ax) == {None, Call("overflow", 0), Call("overflow", 1)}
               \cup {At(n) : n \in 1 .. ax.size}

ManySlices(ax) ==
  {Slice(a, b, step) : a \in Starts(ax), b \in Stops(ax),
                       step \in {NoStep, SumStep, Rebin(2)}}

ManyItems(ax) ==
  ManySlices(ax)
    \cup {At(n) : n \in -ax.size .. ax.size}
    \cup {Call("underflow", 0), Call("overflow", 0), Call("overflow", -1)}
    \cup {Sum, Rebin(2), Ellipsis}
    \cup {List(<<At(2), At(0)>>), List(<<At(1), Call("overflow", 0)>>)}

SomeItems(ax) ==
  {At(1), Call("underflow", 0), Call("overflow", 0), All, Sum, Rebin(2),
   Slice(At(1), None, NoStep), Slice(At(1), None, SumStep),
   Slice(None, At(1), SumStep), List(<<At(1)>>)}

FewItems == {At(1), All, Sum, Slice(At(1), None, NoStep)}

Pairs(s) == {<<x, y>> : x \in SomeItems(s[1]), y \in SomeItems(s[2])}

Ellipsed ==
  {<<Ellipsis>>, <<At(1), Ellipsis>>, <<Ellipsis, At(1)>>,
   <<Sum, Ellipsis, At(0)>>, <<All, Ellipsis, All, Sum>>,
   <<Ellipsis, Ellipsis>>, <<All>>}

Dicts(rank) ==
  {[k \in {1} |-> Sum], [k \in {-1} |-> At(1)], [k \in {rank} |-> All],
   [k \in {0, -1} |-> IF k = 0 THEN At(1) ELSE Sum]}

MCReads(s) ==
  {Dict(d) : d \in IF Len(s) = 1 THEN {} ELSE Dicts(Len(s))}
    \cup {Tuple(items) : items \in
            CASE Len(s) = 1 -> {<<x>> : x \in ManyItems(s[1])}
              [] Len(s) = 2 -> Pairs(s) \cup Ellipsed
              [] OTHER -> [1 .. 3 -> FewItems] \cup Ellipsed}

WriteItems(ax) ==
  {Slice(a, b, NoStep) : a \in {None, At(0), At(1)},
                         b \in {None, At(1), At(ax.size)}}
    \cup {At(1), Call("underflow", 0), Call("overflow", 0)}

Write(items, shapes) == {[index |-> Tuple(items), shape |-> v] : v \in shapes}

FewWriteItems == {At(1), All, Slice(At(1), None, NoStep)}

\* Arrays of one dimension for each slice.
Arrays(items, longest) ==
  [1 .. Cardinality({i \in DOMAIN items : IsSlice(items[i])}) -> 1 .. longest]

ArrayWrites(s) ==
  UNION {Write(items, Arrays(items, s[1].size + 2)) :
           items \in CASE Len(s) = 1 -> {<<x>> : x \in WriteItems(s[1])}
                       [] Len(s) = 2 -> WriteItems(s[1]) \X WriteItems(s[2])
                       [] OTHER -> [1 .. 3 -> FewWriteItems]}
    \cup Write(<<Ellipsis>>, {<<2>>, <<2, 2>>, <<4, 3, 2>>})
    \cup Write(<<Sum>>, {<<3>>})
    \cup Write(<<Slice(None, Call("overflow", 0), NoStep)>>, {<<3>>})
    \cup Write(<<List(<<At(1)>>)>>, {<<1>>})

ScalarWrites(s) ==
  UNION {Write(<<x>>, {<<>>}) : x \in WriteItems(s[1])}

NoReads(s) == {}
OneAxis == {<<UOFlow>>, <<UFlow>>}
=============================================================================
