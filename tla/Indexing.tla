------------------------------ MODULE Indexing -------------------------------
(***************************************************************************)
(* h[...] and h[...] = array of hist.py 588-645 and 731-958.               *)
(*                                                                         *)
(* The content of a bin is the set of what has been added up in it: before *)
(* the call each bin holds Original of itself, so a bin that ends up in    *)
(* the wrong place, twice or nowhere is visible.  An index is a tuple or a *)
(* dict of items, a record with a kind:                                    *)
(*   none, int [n], call [base, n] (a locator: n bins from the given base),*)
(*   list [items], slice [start, stop, step], sum, rebin [n], ellipsis.    *)
(***************************************************************************)
EXTENDS Integers, Sequences, FiniteSets, AxisTypes

CONSTANTS
  Shapes,          \* the tuples of axes
  Reads(_),        \* the indices to read with, for a tuple of axes
  Writes(_)        \* the indices and value shapes to assign with

VARIABLES
  axes,            \* the axes of the histogram
  content,         \* a set for each of its cells
  call             \* the call that was made and what it returned

vars == <<axes, content, call>>

Original(c) == {<<FALSE, c>>}
Element(v) == {<<TRUE, v>>}

Untouched == [c \in Cells(axes) |-> Original(c)]

NoCall == [op |-> "none"]

Least(a, b) == IF a < b THEN a ELSE b
Greatest(a, b) == IF a < b THEN b ELSE a

\* The j-th element of a set of numbers, and the number of an element.
Nth(S, j) == CHOOSE x \in S : Cardinality({y \in S : y <= x}) = j
Number(S, x) == Cardinality({y \in S : y <= x})

Selected(seq, S) == [j \in 1 .. Cardinality(S) |-> seq[Nth(S, j)]]
-----------------------------------------------------------------------------
(* Normalising an index: _compute_commonindex *)

None == [kind |-> "none"]
Ellipsis == [kind |-> "ellipsis"]
Slice(a, b, step) == [kind |-> "slice", start |-> a, stop |-> b, step |-> step]
NoStep == [kind |-> "none"]
SumStep == [kind |-> "sum"]
All == Slice(None, None, NoStep)

\* What a program writes in brackets: limits of a slice that are numbers count
\* from the first bin; an ellipsis is an item of a tuple only.
Locators == [kind : {"call"}, base : {"underflow", "overflow", "value"}, n : Int]
Limits == {None} \cup [kind : {"int"}, n : Nat] \cup Locators
Rebins == [kind : {"rebin"}, n : Nat \ {0}]
SliceItems ==
  [kind : {"slice"}, start : Limits, stop : Limits, step : {NoStep, SumStep} \cup Rebins]
BinItems == [kind : {"int"}, n : Int] \cup Locators
ListItems == [kind : {"list"}, items : Seq(BinItems)]
AxisItems == SliceItems \cup BinItems \cup ListItems \cup {SumStep} \cup Rebins

IsIndex(index) ==
  \/ index.kind = "tuple" /\ index.items \in Seq(AxisItems \cup {Ellipsis})
  \/ /\ index.kind = "dict"
     /\ \A k \in DOMAIN index.dict : k \in Int /\ index.dict[k] \in AxisItems

IsSlice(item) == item.kind = "slice"
Sums(item) == IsSlice(item) /\ item.step.kind = "sum"
OpenSlice(item) == item.start = None /\ item.stop = None

\* The call of a locator: bh.underflow, bh.overflow (and len), bh.loc, bh.tag.at.
Called(item, ax) ==
  CASE item.base = "underflow" -> -1 + item.n
    [] item.base = "overflow" -> ax.size + item.n
    [] OTHER -> item.n

OutOfRange(item, ax) ==
  item.kind = "int" /\ (item.n >= ax.size \/ -item.n >= ax.size)

Integer(item, ax) ==
  IF item.kind = "call" THEN Called(item, ax) ELSE item.n % (ax.size)

\* A resolved item is a slice, [kind |-> "pick", bin] or [kind |-> "set", bins].
UhiIndex(item, ax) ==
  CASE item.kind = "sum" -> Slice(None, None, SumStep)
    [] item.kind = "rebin" -> Slice(None, None, item)
    [] item.kind \in {"int", "call"} ->
         [kind |-> "pick", bin |-> Integer(item, ax)]
    [] item.kind = "list" ->
         [kind |-> "set",
          bins |-> [j \in DOMAIN item.items |-> Integer(item.items[j], ax)]]
    [] OTHER -> item

Ellipses(items) == {j \in DOMAIN items : items[j] = Ellipsis}

ExpandEllipsis(items, rank) ==
  IF Ellipses(items) = {} THEN items
  ELSE LET e == CHOOSE j \in Ellipses(items) : TRUE
       IN SubSeq(items, 1, e - 1)
            \o [j \in 1 .. rank + 1 - Len(items) |-> All]
            \o SubSeq(items, e + 1, Len(items))

\* A dict gives items for some axes; a negative key counts from the last.
DictIndexes(dict, rank) ==
  [i \in 1 .. rank |->
     IF \E k \in DOMAIN dict : (k % rank) = i - 1
     THEN dict[CHOOSE k \in DOMAIN dict : (k % rank) = i - 1]
     ELSE All]

Items(index) ==
  IF index.kind = "dict" THEN DictIndexes(index.dict, Len(axes))
  ELSE ExpandEllipsis(index.items, Len(axes))

Indexes(index) ==
  [i \in DOMAIN axes |-> UhiIndex(Items(index)[i], axes[i])]

\* Where it raises IndexError.
BadIndex(index) ==
  \/ IF index.kind = "dict"
     THEN \E k \in DOMAIN index.dict : k \notin -Len(axes) .. Len(axes) - 1
     ELSE \/ Cardinality(Ellipses(index.items)) > 1
          \/ Ellipses(index.items) # {} /\ Len(index.items) > Len(axes) + 1
          \/ Len(ExpandEllipsis(index.items, Len(axes))) # Len(axes)
  \/ \E i \in DOMAIN axes :
       LET item == Items(index)[i]
       IN \/ OutOfRange(item, axes[i])
          \/ /\ item.kind = "list"
             /\ \E j \in DOMAIN item.items : OutOfRange(item.items[j], axes[i])

ASSUME IndexAssumption ==
  \A axs \in Shapes :
    /\ IsAxes(axs) /\ \A i \in DOMAIN axs : IsMade(axs[i])
    /\ \A index \in Reads(axs) : IsIndex(index)
    /\ \A w \in Writes(axs) : IsIndex(w.index) /\ w.shape \in Seq(Nat)

AxesWith(q, kind) == {i \in DOMAIN q : q[i].kind = kind}
-----------------------------------------------------------------------------
(* Reading, first: cropping, shrinking and rebinning *)

Limit(x, ax, default) ==
  CASE x.kind = "none" -> default
    [] x.kind = "call" -> Called(x, ax)
    [] OTHER -> x.n

\* _process_loc.  A category axis keeps its overflow bin only for an open
\* slice.
Start(ax, s) == Limit(s.start, ax, FirstBin(ax))
Stop(ax, s) ==
  Limit(s.stop, ax,
        ax.size + Bit(HasOverflow(ax) /\ (IsOrdered(ax) \/ OpenSlice(s))))

\* The reduce_command for an item, and what no command amounts to.
NoCommand(ax) == [begin |-> -1, end |-> ax.size + 1, merge |-> 1, crop |-> FALSE]

Command(ax, s) ==
  IF ~IsSlice(s) \/ s = All \/ (Sums(s) /\ OpenSlice(s)) THEN NoCommand(ax)
  ELSE [begin |-> Start(ax, s), end |-> Stop(ax, s),
        merge |-> IF s.step.kind = "rebin" THEN s.step.n ELSE 1,
        crop |-> Sums(s)]

\* algorithm::reduce of Boost.Histogram on one axis: the range is clipped and
\* cut to a multiple of merge; what lies outside goes to the flow bins, or
\* is dropped where there is none or the slice is cropped.
Begin(cmd) == Greatest(cmd.begin, 0)
End(ax, cmd) ==
  LET end == Least(cmd.end, ax.size)
  IN end - ((end - Begin(cmd)) % cmd.merge)
NewSize(ax, cmd) == (End(ax, cmd) - Begin(cmd)) \div cmd.merge

\* A variant in which no axis can be left without bins.
ReduceRefusesEmpty(ax, cmd) ==
  \/ NewSize(ax, cmd) < 1
  \/ cmd.merge > 1 /\ ax.family \in {"integer", "category"}
  \/ IsCircular(ax) /\ NewSize(ax, cmd) * cmd.merge # ax.size

\* A range is refused if it ends before it begins, before or after it is
\* clipped.  One that keeps no bin makes an axis of size 0, which only the
\* regular axes refuse to be.
ReduceRaises(ax, cmd) ==
  \/ cmd.begin >= cmd.end
  \/ NewSize(ax, cmd) < 0
  \/ NewSize(ax, cmd) = 0 /\ ax.family \in {"regular", "transformed"}
  \/ cmd.merge > 1 /\ ax.family \in {"integer", "category"}
  \/ IsCircular(ax) /\ NewSize(ax, cmd) * cmd.merge # ax.size

Target(ax, cmd, bin) ==
  LET i == bin - Begin(cmd)
  IN IF i < 0 THEN IF IsOrdered(ax) THEN -1 ELSE NewSize(ax, cmd)
     ELSE Least(i \div cmd.merge, NewSize(ax, cmd))

Survives(ax, cmd, target) ==
  /\ target = -1 => HasUnderflow(ax) /\ (cmd.crop => cmd.begin < 0)
  /\ target = NewSize(ax, cmd) =>
       HasOverflow(ax) /\ (cmd.crop => cmd.end > ax.size)

\* A histogram on the way is a record of its axes and cells.
Reduce(h, cmds) ==
  LET new == [i \in DOMAIN h.axes |->
                [h.axes[i] EXCEPT !.size = NewSize(h.axes[i], cmds[i])]]
      lands(c, t) == \A i \in DOMAIN cmds :
                       /\ Target(h.axes[i], cmds[i], c[i]) = t[i]
                       /\ Survives(h.axes[i], cmds[i], t[i])
  IN [axes |-> new,
      cells |-> [t \in Cells(new) |->
        UNION {h.cells[c] : c \in {c \in Cells(h.axes) : lands(c, t)}}]]
-----------------------------------------------------------------------------
(* Reading, second: picking bins and summing axes *)

\* Lists of categories; the overflow bin follows the chosen ones.
PickSets(h, q) ==
  LET new == [i \in DOMAIN q |->
                IF q[i].kind = "set"
                THEN [h.axes[i] EXCEPT !.size = Len(q[i].bins)]
                ELSE h.axes[i]]
      source(i, bin) == IF q[i].kind # "set" THEN bin
                        ELSE IF bin < Len(q[i].bins) THEN q[i].bins[bin + 1]
                        ELSE h.axes[i].size
  IN [axes |-> new,
      cells |-> [t \in Cells(new) |->
                   h.cells[[i \in DOMAIN q |-> source(i, t[i])]]]]

PickSetRaises(ax, bins) ==
  IsOrdered(ax) \/ \E j \in DOMAIN bins : bins[j] \notin 0 .. ax.size - 1

\* A picked bin is addressed by its position in the array with flow bins,
\* where NumPy counts a negative position from the end.
Position(ax, bin) == bin + Bit(HasUnderflow(ax))
BinAt(ax, position) ==
  (IF position < 0 THEN position + Extent(ax) ELSE position) + FirstBin(ax)
NoPosition(ax, bin) == Position(ax, bin) \notin -Extent(ax) .. Extent(ax) - 1

PickEach(h, q) ==
  LET picks == AxesWith(q, "pick")
      kept == DOMAIN q \ picks
      new == Selected(h.axes, kept)
      source(i, t) == IF i \in kept THEN t[Number(kept, i)]
                      ELSE BinAt(h.axes[i], Position(h.axes[i], q[i].bin))
  IN [axes |-> new,
      cells |-> [t \in Cells(new) |-> h.cells[[i \in DOMAIN q |-> source(i, t)]]]]

\* The summed axes, and their numbers once the picked axes are gone.
Integrations(q) == {i \in DOMAIN q : Sums(q[i])}
NotRenumbered(q) == Integrations(q)   \* a variant

Renumbered(q) ==
  {i - Cardinality({j \in AxesWith(q, "pick") : j <= i}) : i \in Integrations(q)}

\* algorithm::project
Project(h, integrations) ==
  LET kept == DOMAIN h.axes \ integrations
      new == Selected(h.axes, kept)
      from(c, t) == \A i \in kept : c[i] = t[Number(kept, i)]
  IN [axes |-> new,
      cells |-> [t \in Cells(new) |->
        UNION {h.cells[c] : c \in {c \in Cells(h.axes) : from(c, t)}}]]

AllPicked(q) == AxesWith(q, "pick") = DOMAIN q

ReadRaises(q) ==   \* past the normalisation
  \E i \in DOMAIN q :
    CASE q[i].kind = "pick" -> IF AllPicked(q) THEN q[i].bin \notin Bins(axes[i])
                               ELSE NoPosition(axes[i], q[i].bin)
      [] q[i].kind = "set" -> PickSetRaises(axes[i], q[i].bins)
      [] OTHER -> ReduceRaises(axes[i], Command(axes[i], q[i]))

Readable(index) == ~BadIndex(index) /\ ~ReadRaises(Indexes(index))

GetItem(index) ==
  LET q == Indexes(index)
      cmds == [i \in DOMAIN q |-> Command(axes[i], q[i])]
  IN /\ Readable(index)
     /\ call' = [op |-> "get", index |-> index,
                 result |-> IF AllPicked(q)
                   THEN [axes |-> <<>>,
                         cells |-> [t \in {<<>>} |->
                           content[[i \in DOMAIN q |-> q[i].bin]]]]
                   ELSE Project(PickEach(PickSets(
                          Reduce([axes |-> axes, cells |-> content], cmds),
                          q), q), Renumbered(q))]
     /\ UNCHANGED <<axes, content>>
-----------------------------------------------------------------------------
(* Assigning *)

SetStart(s) == IF s.start = None THEN 0 ELSE s.start.n
SetStop(ax, s) == IF s.stop = None THEN ax.size ELSE s.stop.n
RequestLen(ax, s) == SetStop(ax, s) - SetStart(s)
UseUnderflow(ax, s) == HasUnderflow(ax) /\ s.start = None
UseOverflow(ax, s) == HasOverflow(ax) /\ s.stop = None
ExpandedLen(ax, s) ==
  RequestLen(ax, s) + Bit(UseUnderflow(ax, s)) + Bit(UseOverflow(ax, s))

\* A variant that forgets the underflow bin when the start is given.
PositionsUnshifted(ax, s, len) ==
  IF len # RequestLen(ax, s) /\ len = ExpandedLen(ax, s)
  THEN [start |-> SetStart(s),
        stop |-> SetStop(ax, s) + Bit(HasUnderflow(ax)) + Bit(UseOverflow(ax, s))]
  ELSE [start |-> SetStart(s) + Bit(HasUnderflow(ax)),
        stop |-> SetStop(ax, s) + Bit(HasUnderflow(ax))]

\* A variant that shifts by the wrong flow bin.
PositionsSwapped(ax, s, len) ==
  LET u == Bit(HasOverflow(ax))
  IN [start |-> SetStart(s) + u, stop |-> SetStop(ax, s) + u]

\* The positions start .. stop - 1 of the array with flow bins that a slice
\* addresses, for a value with len elements along it.
Positions(ax, s, len) ==
  LET u == Bit(HasUnderflow(ax))
  IN IF len # RequestLen(ax, s) /\ len = ExpandedLen(ax, s)
     THEN [start |-> SetStart(s) + Bit(HasUnderflow(ax) /\ ~UseUnderflow(ax, s)),
           stop |-> SetStop(ax, s) + u + Bit(UseOverflow(ax, s))]
     ELSE [start |-> SetStart(s) + u, stop |-> SetStop(ax, s) + u]

\* A scalar: the limits of the slice are not looked at.
ScalarPositions(ax) ==
  [start |-> Bit(HasOverflow(ax)), stop |-> ax.size + Bit(HasUnderflow(ax))]

Slices(q) == AxesWith(q, "slice")

\* The slices as they reach NumPy, by axis.
Addressed(q, shape) ==
  [i \in Slices(q) |->
     IF shape = <<>> THEN ScalarPositions(axes[i])
     ELSE Positions(axes[i], q[i], shape[Number(Slices(q), i)])]

\* How many positions NumPy finds in a slice: it cuts it at the end.
Available(ax, p) == Greatest(Least(p.stop, Extent(ax)) - p.start, 0)

WriteRaises(q, shape) ==
  \/ AxesWith(q, "set") # {}
  \/ \E i \in Slices(q) : \/ q[i].step.kind # "none"
                          \/ q[i].start.kind = "call" \/ q[i].stop.kind = "call"
  \/ shape # <<>> /\ Len(shape) # Cardinality(Slices(q))
  \/ \E i \in AxesWith(q, "pick") : NoPosition(axes[i], q[i].bin)
  \/ /\ shape # <<>>
     /\ \E i \in Slices(q) :
          LET len == shape[Number(Slices(q), i)]
          IN len \notin {RequestLen(axes[i], q[i]), ExpandedLen(axes[i], q[i]), 1}

\* NumPy broadcasts a length of one and refuses other lengths that differ.
CannotBroadcast(q, shape) ==
  /\ shape # <<>>
  /\ \E i \in Slices(q) :
       shape[Number(Slices(q), i)] \notin
         {1, Available(axes[i], Addressed(q, shape)[i])}

\* view[tuple(indexes)] = value
Assigned(q, shape) ==
  LET p == Addressed(q, shape)
      hit(c) == \A i \in DOMAIN q :
                  IF i \in Slices(q)
                  THEN Position(axes[i], c[i]) \in p[i].start .. p[i].stop - 1
                  ELSE c[i] = BinAt(axes[i], Position(axes[i], q[i].bin))
      element(c) == [k \in DOMAIN shape |->
                       LET i == Nth(Slices(q), k)
                       IN IF shape[k] = 1 THEN 0
                          ELSE Position(axes[i], c[i]) - p[i].start]
  IN [c \in DOMAIN content |->
        IF hit(c) THEN Element(element(c)) ELSE content[c]]

Writable(index, shape) ==
  /\ ~BadIndex(index)
  /\ ~WriteRaises(Indexes(index), shape)
  /\ ~CannotBroadcast(Indexes(index), shape)

SetItem(index, shape) ==
  LET q == Indexes(index)
  IN /\ Writable(index, shape)
     /\ content' = Assigned(q, shape)
     /\ call' = [op |-> "set", index |-> index, shape |-> shape]
     /\ UNCHANGED axes

GetRaises(index) ==
  /\ ~Readable(index)
  /\ call' = [op |-> "get raised", index |-> index]
  /\ UNCHANGED <<axes, content>>

SetRaises(index, shape) ==
  /\ ~Writable(index, shape)
  /\ call' = [op |-> "set raised", index |-> index, shape |-> shape]
  /\ UNCHANGED <<axes, content>>
-----------------------------------------------------------------------------
Init ==
  /\ axes \in Shapes
  /\ content = Untouched
  /\ call = NoCall

Next ==
  /\ call.op = "none"
  /\ \/ \E index \in Reads(axes) : GetItem(index) \/ GetRaises(index)
     \/ \E w \in Writes(axes) :
          SetItem(w.index, w.shape) \/ SetRaises(w.index, w.shape)

Spec == Init /\ [][Next]_vars
-----------------------------------------------------------------------------
(* Correctness *)

\* The bins of an axis that the item of an index stands for, axis by axis,
\* where the code works on all of them in four passes; for an axis that
\* stays, those that end in its new bin t.
KeptBins(ax, s, t) ==
  LET a == Greatest(Limit(s.start, ax, 0), 0)
      b == Least(Limit(s.stop, ax, ax.size), ax.size)
      n == IF s.step.kind = "rebin" THEN s.step.n ELSE 1
      whole == a .. a + ((b - a) \div n) * n - 1
  IN {bin \in Bins(ax) :
        IF bin \in whole THEN (bin - a) \div n = t
        ELSE IF bin < a /\ IsOrdered(ax) THEN t = -1
        ELSE t = (b - a) \div n}

SummedBins(ax, s) ==
  {bin \in Bins(ax) :
     /\ s.start = None \/ bin >= Limit(s.start, ax, 0)
     /\ s.stop = None \/ bin < Limit(s.stop, ax, 0)
     /\ IsOrdered(ax) \/ OpenSlice(s) \/ bin < ax.size}

ChosenBins(ax, bins, t) ==
  {bin \in Bins(ax) : IF bin = ax.size THEN t = Len(bins)
                      ELSE t < Len(bins) /\ bins[t + 1] = bin}

\* An index that reads a histogram returns the bins it stands for: a slice
\* keeps its bins, merged by rebin, with what was cut in the flow bins if the
\* axis has them; sum adds up the bins in its limits and with an open end
\* the flow bin; a locator or a number is one bin, a list one bin for each
\* category (README.md 144-159; tests/test_histogram_indexing.py 187-216,
\* 402-419).  Picking a bin that the axis does not have is left out, and a sum
\* on a category axis up to beyond its overflow bin: see the README.
SelectionRight ==
  call.op = "get" =>
    LET q == Indexes(call.index)
        kept == {i \in DOMAIN q : q[i].kind # "pick" /\ ~Sums(q[i])}
        wanted(i, t) ==
          CASE q[i].kind = "pick" -> {q[i].bin}
            [] q[i].kind = "set" -> ChosenBins(axes[i], q[i].bins, t[Number(kept, i)])
            [] Sums(q[i]) -> SummedBins(axes[i], q[i])
            [] OTHER -> KeptBins(axes[i], q[i], t[Number(kept, i)])
    IN ((\A i \in AxesWith(q, "pick") : q[i].bin \in Bins(axes[i]))
        /\ \A i \in DOMAIN q : Sums(q[i]) /\ ~IsOrdered(axes[i]) =>
             Limit(q[i].stop, axes[i], axes[i].size) <= axes[i].size) =>
         /\ Len(call.result.axes) = Cardinality(kept)
         /\ \A t \in DOMAIN call.result.cells :
              call.result.cells[t] =
                UNION {content[c] : c \in {c \in Cells(axes) :
                         \A i \in DOMAIN q : c[i] \in wanted(i, t)}}

\* What no histogram could answer: a bin that the axis does not have, a list of
\* categories of an axis without them, limits with no bin between them, flow
\* bins included, a rebin of bins without a width, a cut through a circle, or a
\* regular axis without a bin.
Unanswerable(ax, r) ==
  LET inner == 0 .. ax.size - 1
      whole == SummedBins(ax, r) \cap inner
      n == IF r.step.kind = "rebin" THEN r.step.n ELSE 1
  IN CASE r.kind = "pick" -> r.bin \notin Bins(ax)
       [] r.kind = "set" ->
            IsOrdered(ax) \/ \E j \in DOMAIN r.bins : r.bins[j] \notin inner
       [] OTHER ->
            \/ SummedBins(ax, r) = {}
            \/ n > 1 /\ ax.family \in {"integer", "category"}
            \/ IsCircular(ax) /\ (whole # inner \/ ax.size % n # 0)
            \/ ax.family \in {"regular", "transformed"} /\ Cardinality(whole) < n

\* Reading is refused for nothing else: an axis of size 0 can be read, and a
\* slice may leave the flow bins alone or too few bins for a group
\* (tests/test_histogram_indexing.py 429, tests/test_histogram.py 1045-1061).
RangesAnswered ==
  (call.op = "get raised" /\ ~BadIndex(call.index)) =>
    LET q == Indexes(call.index)
    IN \E i \in DOMAIN q : Unanswerable(axes[i], q[i])

\* The bins of an axis that a value with len elements goes to.
WrittenBins(ax, s, len) ==
  IF len # RequestLen(ax, s) /\ len = ExpandedLen(ax, s)
  THEN {bin \in Bins(ax) : /\ s.start = None \/ bin >= SetStart(s)
                           /\ s.stop = None \/ bin < SetStop(ax, s)}
  ELSE SetStart(s) .. SetStop(ax, s) - 1

\* An array that is assigned goes, in order, to the bins of the slices, with
\* the flow bins at open ends where it has elements for them, and to no
\* other bin (the docstring of __setitem__, hist.py 856-877).
WritesAddressed ==
  (call.op = "set" /\ call.shape # <<>>) =>
    LET q == Indexes(call.index)
        bins(i) == IF q[i].kind = "pick" THEN {q[i].bin}
                   ELSE WrittenBins(axes[i], q[i],
                                    call.shape[Number(Slices(q), i)])
        element(c) == [k \in DOMAIN call.shape |->
                         IF call.shape[k] = 1 THEN 0
                         ELSE LET i == Nth(Slices(q), k)
                              IN Cardinality({b \in bins(i) : b < c[i]})]
    IN (\A i \in AxesWith(q, "pick") : q[i].bin \in Bins(axes[i])) =>
         \A c \in Cells(axes) :
           content[c] = IF \A i \in DOMAIN q : c[i] \in bins(i)
                        THEN Element(element(c)) ELSE Original(c)

\* An array with an element for every bin of each slice, with or without the
\* flow bins at the open ends, or with just one, is not refused ("h[a:] =
\* array # One larger", hist.py 868-873).
FittingAccepted ==
  (call.op = "set raised" /\ call.shape # <<>> /\ ~BadIndex(call.index)) =>
    LET q == Indexes(call.index)
        plain(i) == /\ q[i].step = NoStep
                    /\ {q[i].start.kind, q[i].stop.kind} \subseteq {"none", "int"}
                    /\ SetStart(q[i]) < SetStop(axes[i], q[i])
                    /\ SetStop(axes[i], q[i]) <= axes[i].size
        fits(i, len) == len \in {1, RequestLen(axes[i], q[i]),
                                 ExpandedLen(axes[i], q[i])}
    IN \/ AxesWith(q, "pick") \cup Slices(q) # DOMAIN q
       \/ \E i \in AxesWith(q, "pick") : q[i].bin \notin Bins(axes[i])
       \/ Len(call.shape) # Cardinality(Slices(q))
       \/ \E i \in Slices(q) :
            ~(plain(i) /\ fits(i, call.shape[Number(Slices(q), i)]))

\* "If set to a scalar, then treat it like broadcasting without flow bins"
\* (hist.py 925): a scalar goes to the bins of the slices and to no other.
ScalarFillsSlices ==
  (call.op = "set" /\ call.shape = <<>>) =>
    LET q == Indexes(call.index)
        hit(c) == \A i \in DOMAIN q :
                    IF IsSlice(q[i])
                    THEN c[i] \in SetStart(q[i]) .. SetStop(axes[i], q[i]) - 1
                    ELSE c[i] = q[i].bin
    IN \A c \in Cells(axes) :
         content[c] = IF hit(c) THEN Element(<<>>) ELSE Original(c)
=============================================================================
