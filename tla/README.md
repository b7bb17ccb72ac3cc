# boost-histogram in TLA+

Models, model checks and proofs for boost-histogram, the Python bindings of
Boost.Histogram. Paths are relative to `src/`; `hist.py`, `axis.py`, `view.py`
and `utils.py` are in `src/boost_histogram/_internal/`, the headers in
`include/bh_python/`. `tla/PROJECT.json` maps every definition to its lines and
lists the runs, mutants, findings, hazards and theorems.

## The system

A program holds Python `Histogram` objects. Each refers to a C++ histogram
(`_hist`), to Axis objects made from the C++ axes (`axes`), and keeps a flag
`_variance_known`. The C++ histogram is a tuple of axes and a storage of cells;
most of it is Boost.Histogram, whose sources are a git submodule and not part
of the tree (`extern/` is empty). This repository's own logic is what surrounds
it: the splitting of fills over threads, the translation of Python indices into
reduce commands and array positions, the bookkeeping of labels and of the flag,
the arrays that look into the storage, three accumulators, pickling, the choice of
a Python class for every C++ object, and functions that stand in for NumPy's.

| Component | State | Operations | Talks to |
|---|---|---|---|
| Filling (`hist.py` 392-493, `fill.hpp`) | the C++ histogram, one private copy per thread, a lock per call, `_variance_known` | `fill`, in one thread or several | copies, resets and `+=` of the C++ histogram, under the GIL; the C++ fill without it |
| Arguments of fill (`hist.py` 68-80, 425-460, `fill.hpp` 26-199) | none | conversion, broadcasting, `array_split` | Filling |
| Histogram objects (`hist.py` 158-390, 509-561, 684-701, `metadata.hpp`) | `_hist`, `axes`, `_variance_known`; the metadata dict each axis refers to | construct, convert, copy, pickle, arithmetic, labels, reset | shared C++ histograms and dicts |
| Indexing and assignment (`hist.py` 94-109, 588-645, 731-967, `axis.py` 140-230, `tag.py`) | none between calls | `h[...]`, `h[...] = x` | reduce and project of Boost.Histogram, NumPy indexing |
| Axis types (`axis.py`, `axis.hpp`, `register_axis.hpp`) | options, bins, flow bins | the constructors, `ax[k]`, printing | everything |
| Views and buffers (`histogram.hpp`, `register_histogram.hpp` 100-125, `axis.hpp` 204-250) | memory of the storage, arrays that refer to it | `view`, `values`, `to_numpy`, `edges`, `sum`, `empty`, `size`, `shape`, in-place arithmetic | filling, growth and reset move the memory |
| Accumulators (`accumulators/`, `register_accumulators.cpp`, `view.py`) | mean, weighted mean, weighted sum | fill, merge, scale; items of views read, assigned and computed with | cells of a storage |
| Pickling (`make_pickle.hpp`, `hist.py` 528-561) | position in a tuple | save, load, `__setstate__` of older formats | Histogram objects, casting |
| Casting and class families (`utils.py` 33-178) | the classes of the process, their sets of registered types and families | `register`, `cast` | every C++ object that becomes a Python one |
| NumPy interface (`numpy.py`, `regular_numpy.hpp`) | the caller's arrays of edges | `histogram`, `histogram2d`, `histogramdd` | axes, filling |
| Transforms (`axis_transform.py`) | none | constructors, `_produce` | axes, casting |
| Plottable protocol (`hist.py` 971-1093) | none | `kind`, `values`, `variances`, `counts` | views, the flag |
| AxesTuple (`axestuple.py`) | none | `size`, `extent`, `centers`, `edges`, labels | axes |
| Algorithms, storage bindings, enums, typing, deprecation | none of their own | | |

What is hard in it, and what would make each part correct:

* **Concurrency and failure.** `fill(threads=n)` merges private copies under a
  lock that belongs to one call, while C++ fills release the GIL. Nothing may
  be counted twice or lost, sections must appear whole, a section that fails
  must leave no trace and no held lock, and the call must end.
* **Growth.** Threads meet new categories in any order and merge in any order;
  categories must keep their bins.
* **Shared references.** Which Python and C++ objects share a label dict or a C++
  histogram after a long series of copies, conversions, sums and pickles; a
  cached flag that describes content which several operations change.
* **Index arithmetic.** Flow bins that are there or not, ends that are open or
  given, axes that disappear while others are still referred to by number.
* **Memory that moves** under arrays that a program still holds.
* **Numbers.** Merging accumulators in any order; values on the edges of bins.
* **A process full of classes.** Which class an object becomes depends on what other
  libraries have derived, registered, failed to register and lost.
* **Positions without names.** A pickle is a flat tuple; one slot too many or too few
  and everything after it is something else. Three generations of files differ in where
  labels and the flag are.

## Modules

| Module | Models | Extends |
|---|---|---|
| `GrowingAxis` | a category axis that grows and merges | |
| `ArraySplit` | `numpy.array_split` | |
| `FillSpec` | what `fill` promises: the entries of a call are added once each, all of them before it returns | |
| `ThreadedFill` | `Histogram.fill` with its threads | `GrowingAxis`; refines `FillSpec` |
| `FillArguments` | arguments, sections and errors of one fill | `ArraySplit` |
| `NumPyInterface` | `numpy.py` on top of a fill | `FillArguments`, `Rationals` |
| `HistogramObject` | Python Histograms, C++ histograms and label dicts | |
| `AxisTypes` | options and flow bins of every axis | |
| `Indexing` | `__getitem__` and `__setitem__` | `AxisTypes` |
| `Buffers` | memory, strides, views and queries | `AxisTypes` |
| `Rationals` | exact fractions with NaN | |
| `Accumulators` | the three accumulators, views of cells, counts and variances of means | `Rationals` |
| `ClassRegistry` | `register` and `cast` over the classes that exist | |
| `PartClasses` | axes, transforms and storages as Python objects | `ClassRegistry`, `AxisTypes` |
| `Archive` | the tuple that pickling writes and reads | |
| `Unpickling` | `__setstate__` on files of any generation | `PartClasses`, `Archive` |
| `MC...` | instances for TLC | the module of that name |
| `ArithmeticTheorems` | what is known of sums and fractions; induction | `Rationals` |
| `ThreadedFill_proofs` | theorems, those about `GrowingAxis` among them | `ThreadedFill` |
| `NumPyInterface_proofs` | theorems about `ArraySplit`, `FillArguments` and `NumPyInterface` | `NumPyInterface`, `ArithmeticTheorems` |
| `HistogramObject_proofs` | theorems | `HistogramObject` |
| `Indexing_proofs` | theorems | `Indexing` |
| `Buffers_proofs` | theorems | `Buffers`, `ArithmeticTheorems` |
| `Accumulators_proofs` | theorems | `Accumulators`, `ArithmeticTheorems` |
| `Unpickling_proofs` | theorems about `Archive`, `ClassRegistry`, `PartClasses` and `Unpickling` | `Unpickling`, `ArithmeticTheorems` |

### Filling

`ThreadedFill` has a program counter per call (`cpc`: idle, direct, start, join,
done, raised) and per thread (`wpc`: copy, reset, fill, acquire, merge,
release, unwind, done, dead). The caller notes the weight (`NoteWeight`, 416-425),
refuses mean storage (`EnterMean`), starts the threads one by one and joins them
(484-491). A thread (462-482) copies the histogram, resets the copy, fills it
entry by entry, takes `sum_lock`, adds the copy and releases the lock; with
atomic storage it fills the shared histogram itself. What keeps the GIL is one
step; the C++ inner loop, which releases it (`fill.hpp` 157, 179), is one step
per entry. A `Broken` section is one that C++ fill rejects, which it does
before it inserts anything. `Mergeable = FALSE`
makes `+=` raise while the lock is held. The content is how many times each
entry was counted; the category axis tells which bin it is in.

`FillSpec` is the abstract promise; `ImplementsFillSpec` maps `cpc` to its status
and leaves `counts` as they are.

`FillArguments` takes the same function from the other side: an argument is its
form (missing, scalar, array of a length), an entry is the positions its values
come from, a fill is one step, and the question is which element of one array
meets which of another.

### NumPy interface

`NumPyInterface` puts `histogramdd` around that fill: `MakeAxes` makes an axis for
each pair of bins and range, `FillDirect` or `FillSections` fills, `CallAgain` makes the same call
with the same arrays. Doubles are integers, and two of them are neighbours where they
differ by 1, so that `nextafter` is a step of 1. An axis made from a number of bins has
the index of `regular_numpy.hpp`; one made from edges has its last edge moved up, in
the array that the caller passed, which is why `mine` is a variable. `Values` puts the
entries that the fill counted into cells; `CountsAsNumPy` compares them with the
half-open bins of NumPy, whose last one is closed, and `EdgesAsGiven` the edges that
come back with those that were passed. `CountsAsNumPy` leaves out ranges that descend, which
NumPy refuses: here they make an axis (`regular_numpy.hpp` 36-38) whose last bin counts whatever
lies below its stop.

### Histogram objects

`HistogramObject` is a heap: `hist` says which C++ histogram a Python object
refers to, `metadata` which dict the axis of a C++ histogram refers to,
`axesDict` which dict the Axis object in `axes` refers to, and `label` what a dict
says. `program` is what the program does with them: which storages and operations
it uses and how many Histograms it holds at a time. `NewHist` is `_new_hist` (271-289), through which copies, projections,
slices and sums go; `Convert` is `Histogram(h)` (238-246), which shares the C++
histogram; `content` is a set of origins (entries, weights, assigned), which is
what the flag claims to know. `UserDict` belongs to an Axis the program made
and builds Histograms from.

### Indexing

A histogram is a tuple of axes and, for each cell, the set of what was added up
in it; an index is a tuple or dict of items. `GetItem` follows the code's order:
normalise (`Indexes`), make reduce commands (`Command`, `_process_loc`), `Reduce`
(Boost.Histogram's), pick lists of categories, pick single bins, and project with
the renumbered axes. `SetItem` computes array positions for each slice from the
length of the value. `SelectionRight` and `WritesAddressed` state axis by axis
which bins an index stands for, without passes, positions or renumbering.
`RangesAnswered` says that reading is refused for nothing but what `Unanswerable` names, so that
`SelectionRight` has all other calls to judge. A range may keep no bin (`h[3::sum]` on three bins,
`tests/test_histogram_indexing.py` 429) and an axis may have none (an empty `StrCategory`,
`tests/test_histogram.py` 1045-1061): `ReduceRaises` refuses these on regular axes alone, whose
constructor wants a bin. A range that begins beyond the end of the axis and ends still further
on is an error in the model; with a rebin on a variable axis Boost.Histogram reads past the edges
there, so no index of the runs does that.

### Views and buffers

`memory` is the storage by offset, `counted` what each cell should hold.
`Buffer` is `make_buffer_impl`: start, shape and strides. An array is `attached` as
long as the memory it points to is that of the histogram: conversion of an
unlimited storage, a count that outgrows small integers, growth and reset of
an unlimited storage move the memory and detach it. An array comes with the edges
that `to_numpy` returns beside it, as the bins they are the lower edges of.
`QueriesMatchViews` says that `sum()`, `empty()`, `size`, `shape`, `ax[k]` and the
centers, edges and sizes of `h.axes` speak of the same cells as the arrays.

### Accumulators

Numbers are exact fractions. `drawn` and `weighed` hold integer sums of w, w^2,
w x and w x^2, updated without division; the properties compare the accumulators
with the definitions in terms of those sums. A cell is copied through a view in each way
the code has: as a record, as numbers in one more dimension, which go through the
accumulator's constructor, or field by field (`AssignMean`, `AssignWSum`). Views of weighted
sums are also computed with: a number or another view added or subtracted in either order
(`SubtractFrom` is a number minus a view), scaled and summed.

### Casting

`classes` is a sequence, in the order of the class statements: parent, family, C++
bases, and the set `_types`, which a class may have or inherit. `Derive`,
`DeriveHidden` and `DeriveRegistered` are a class statement without a decorator, with
`@register()` and with `@register({...})`; the last may raise half way, which leaves a
class that exists without being bound to a name, until `Collect`. `Cast` walks the
subclasses furthest first, as `utils.py` 101-164 does. `PartClasses` starts with the
classes of boost_histogram and says which C++ axes, transforms and storages their
constructors make; `PartsComeBack` closes the circle from constructor to C++ object to
class to printed call, `OtherFamiliesUntouched` says whose business a class is.

### Pickling

`Archive` turns the recursion of `operator<<` and `operator>>` into a stack: `todo` holds
what is still to be saved or loaded, each with its place in the object, and each
overload is an action. A type is a tree of the kinds the overloads tell apart; the
classes of this repository are definitions, those of Boost.Histogram come from the
MC module. An axis in a histogram is a variant in two classes, each with its version
(`AxisVariant`). `saved` and `loaded` list what went through, place by place.

`Unpickling` adds `SetState`: the flag, the label and the axes that `__setstate__` makes of
a loaded histogram and a state of version 0, of a dict from before 0.11 (with or without
metadata) or of a later version, which is refused. The axes take their classes from
`PartClasses`, after libraries have had their way with them. `OpensEveryGeneration` has two
halves: `StateRead` (the flag and the labels that were saved) and `ClassesFound` (axes of
the classes they were made in, or derived from those).

## Runs

| Run | Question | Bounds |
|---|---|---|
| `overlap` | two user threads fill one histogram at once, two threads each | 5 entries in sections of 2, 1, 1, 1; 3 categories, one of them known; count, weight and atomic storage |
| `failures` | one call without threads and one in three, a section of unequal lengths, axes that cannot be merged, mean storage | 6 entries, sections 2, then 2, 1, 1 |
| `staleaxes` (violated) | does `self.axes` follow the axes? | as `failures`, with axes that merge |
| `sections` | do threads make a difference to which elements meet; do counts and edges agree with NumPy? | arrays to length 6, 0 to 5 threads (0 is `cpu_count()` = 4), 1 or 2 arguments; up to 2 values and 3 axes, 1 or 2 bins, 5 arrays of edges, each call made once and twice |
| `mismatch` (violated) | do unequal arrays raise? | two arrays to length 4, up to 3 threads |
| `objects` | does the flag ever claim too much; are labels linked and private? | one program with 3 Histograms, both kinds of storage and no conversions, one with 4 Histograms, 2 labels and conversions |
| `mixed` (violated) | does addition add? | 2 Histograms, both kinds of storage |
| `arrays` | does an index stand for the bins that come back or change, and is it refused only where nothing could be answered? | every axis a constructor makes, with 3 bins; two axes without bins alone, one of them in a pair; pairs with 2 bins and one triple |
| `scalar` (violated) | does a scalar go to the bins of the slice? | one axis of 2 bins |
| `exact` | are accumulators, merged or copied through views, those of all samples, and their counts and variances what is documented? | 2 accumulators of each kind, 5 operations, samples -1 and 2, weights 1 and 2, factors -1 and 3 |
| `views` | do arrays show the bins they should, with the right edges, agree with the queries, and stay attached? | up to 2 axes of 1 or 2 bins growing to 2, counts to 2 (1 in small memory), 2 arrays |
| `pickles` | does loading find every slot where saving put it, and does every generation open in the right classes? | every accumulator; histograms without axes, with each of 7 layouts of axes and with each pair, each of 6 storages in turn, in every state; around one of them, two libraries derive 2 classes from Regular, Double and each other |

Why these are enough: two calls of two threads are the least in which locks of
different calls meet, and three sections the least in which a thread can merge
while another waits and a third copies; the shared category is met by both calls,
so that both orders of growth occur. Lengths to 6 and 5 threads give every
relation of length and threads (shorter, equal, multiple, remainder). Three
Histograms are two operands and a result, four let a conversion stand beside them.
Three bins are the least for a slice that cuts on both sides (slices start anywhere up to the
end of the axis, where no bin is left), and three
axes the least in which a picked, a summed and a kept axis occur in any order.
Two means, one merged into the other and then into itself, reach every branch of
`+=`, and 5 operations allow fill, fill, merge, scale and a copy through a view. Two array
axes of different flow and a growing one reach every branch of
`make_buffer_impl`. An archive knows nothing of what it has passed but the position, so
that pairs of layouts, one after the other and before a storage, show a slip of any of
them; vectors have 0, 1 and 2 items, cells 1 and 2. Two classes are the least for one derived
from a hidden, registered or unbound one, and two libraries the least for one that is
none of the class's business. Values lie at an edge, next to it on both sides, and
between, for edges above, below and at zero; two calls are the least in which an array has
been changed already, and the same array twice in one call the other way to get there.

The symmetry of the Histograms is used in runs that check invariants only.

### What they found

* `staleaxes`: after a threaded fill that grew an axis, `self.axes` refers to the
  axes before it; `__iadd__` regenerates them (`hist.py` 324-325), `fill` does not.
* `mismatch`: with threads, arrays of unequal lengths are cut separately; a section
  whose lengths agree pairs elements of different positions and counts them, the
  others die in their thread, and `fill` returns.
* `mixed`: the C++ operator's NotImplemented for another storage is thrown away
  (`hist.py` 362), so `h += g` returns `h` unchanged.
* `scalar`: `h[1:2] = 0` writes all bins, and the flow flags are taken for the wrong
  ends (`hist.py` 925-927).

### Known behaviours that no property claims otherwise

They are in the models as the code has them; no document promises the contrary,
or the model's inputs leave them out where it says so.

* Assignment leaves `_variance_known` alone (958); a sum forgets it even where the
  C++ sum is right (388); after a conversion two objects share cells but not
  the flag, and a label set through the older of the two is not pickled.
  `VarianceHonest` and `LabelsLinked` therefore speak of programs that convert nothing.
* A pick of a flow bin that the axis does not have wraps around to the last bin
  when the index also has a slice (753, 956), and raises when it has none;
  `SelectionRight` and `WritesAddressed` exclude it.
* `h[-size]` is refused (602); a wrong length after a picked axis raises IndexError
  where ValueError is meant (947).
* On a category axis a slice with a start counts the bins below it as overflow, so
  that a sum whose stop lies beyond the overflow bin, as `bh.overflow + 1` does, adds them;
  `SelectionRight` excludes it.
* Growth, and `reset()` of an unlimited storage, leave arrays behind although the
  comment at `histogram.hpp` 87-93 speaks of a safe view; `ViewsStayValid`
  names the two exceptions.
* `variances()` of weighted means are cut off at a sum of weights of 1 where the
  documentation speaks of counts (`hist.py` 1013-1018, 1043), and are those of the mean
  where it says of the samples; `counts()` of weighted sums are the sums of weights, not
  the effective numbers of 1070-1074 (1093). `CountsEffective` and `UnitWeightsAgree`
  are about what holds of means, with whole weights.
* A threaded fill raises on a value for a dimension, which an unthreaded fill broadcasts
  (445) and the docstring allows ("one value or array per dimension", 405);
  `ThreadsMakeNoDifference` is about the fills that return.
* A first sample of weight 0 and weights that cancel put NaN in a weighted mean;
  `Weights` are positive.
* `histogramdd` moves the last edge in the caller's array (`numpy.py` 76), by one double
  for every axis and call that it is used for; `EdgesAsGiven` and `CountsAsNumPy` compare
  with the array as it was when the axis was made. Without data or range it raises, where
  NumPy has an answer, and so does constant data. An upper edge that is zero or negative
  comes back two doubles too high (`axis.hpp` 224), which `EdgesAsGiven` excludes.
* A slice of a NumPy-like axis keeps the stop of the whole one (`regular_numpy.hpp` 29);
  axes made by `numpy.py` are not sliced in the model.
* `ax[-size-1]` is the underflow bin (`axis.py` 242), as `AxisItem` has it.
* A dict from before 0.11 has no flag, and its variance counts as known whatever weights
  were in it (`hist.py` 541-553).
* `register` on a class that inherits `_types` adds to the set of its parent (`utils.py`
  69-76): after a type of its own on a class derived from Pow, `Pow()` raises; the
  instance lets libraries derive from Regular, Double and their own classes, so that this
  happens to sets of axes.
* A class whose registration raised is still found by `cast` until it is collected.
* One sample alone, written back through an array of arguments, has a variance of 0 / 0 and
  becomes NaN (`view.py` 47), so `AssignMean` copies in this way only what has more.

## Fairness

`FairSpec` of `ThreadedFill` has weak fairness on the steps of a running caller and
on those of each thread: the operating system and the GIL's switch interval run
every thread that can run. No fairness is needed on the lock: a call's threads
are finitely many and each takes it once. Nothing obliges a program to call
`fill`, so entering is not fair. `FillTerminates` and `ImplementsFillSpec` use it; all
other properties of it are safety. `UnpicklingSpec` has weak fairness on the steps of
`Archive`, as the `Spec` of `Archive` alone has: pickling is one sequential call, and
`UnpicklesAll` says that it returns. Classes may be derived for ever or not at all. No
other specification has fairness.

## Proofs

`ThreadedFill_proofs`, for any number of calls, threads and entries, any way of
cutting them, any storage and axes that grow, merge or fail to merge:

* `TypeCorrect`: `Spec => []TypeOK`.
* `CountedAtMostOnce`: `Spec => []NothingTwice`.
* `CompleteOnReturn`: `Spec => []ReturnedComplete`.
* `WholeSections`: `Spec => SectionsAppearWhole`.
* `BinsAreStable`: `Spec => BinsKept`.

`NothingTwice` is not inductive: a merge adds a private copy, so one has to know
what is in it. The invariant `FillInv` is a conjunction of `TypeOK`, `RestInv` (the
entries a thread has yet to insert are its own, all of them until it starts to
fill and none once it goes to merge), `CallInv` (which states of threads go with which state of their
call), `LocalInv` (once reset, a private copy holds exactly the entries inserted
since, and none of another thread) and `ContentInv` (an entry is in the histogram
once when its thread has merged it or, in place, inserted it, and not at all
otherwise). Every action preserves it, one lemma for each; the theorems follow.
They rest on `ConstantsAssumption` (the shape of the constants) and `CatAssumption`
(finitely many categories). `UsageAssumption`, that only atomic storage is filled
in place by two callers at once (`docs/usage/storage.rst` 65-66), is not
cited: entries are counted rightly in the model even then, because each insertion
is one step, which for other storages real memory does not grant.

The same module, about failures and the promise:

* `FailuresCountNothing`: `Spec => []DeadCountNothing`.
* `WeightsAreNoted`: `Spec => []WeightedEntriesSpoilVariance`.
* `QuietAtTheEnd`: `Spec => []QuietAfterReturn`.
* `KeepsThePromise`: if no section is broken and the axes merge, `Spec => Promise!SafeSpec`,
  the safety half of `ImplementsFillSpec`. Copies, resets, private fills and the lock are
  stutters; a merge is one `Work` with the entries of a section, an insertion in place one
  with a single entry.

They add `EndInv` to `FillInv`: `RaisedInv` (no thread of a call that raised runs),
`LockInv` (who holds a lock is inside the with block, and the other way round), `DeadInv`
(a rejected section has all its entries left) and `FlagInv` (the flag is off from the
moment a weighted call starts). `QuietAfterReturn` needs `LockInv` because a thread that
has ended could otherwise have left the lock behind, as one would without the `with`.

And about growth: `GrowingLeavesNoGap` and
`MergingLeavesNoGap` say that the bins of a category axis stay 0 to n - 1, each of one
category, for any two axes that are merged, by counting the categories ranked below a new one.
With them `CategoriesOfTheContent`, `Spec => []AxisMatchesContent`, for any interleaving. The
invariant `AxisInv` is `GapFree` (all axes are without gaps, private ones included) and
`KnownInv` (a private axis has what its thread inserted, and beyond that only what the
histogram has already, so that a merge adds no category without content). It rests
on `InitAxisAssumption`, that the axis has no gap to begin with.

`NumPyInterface_proofs`, for arrays of any lengths and any number of threads:

* `SectionsDisjoint` and `SectionsCover`: the sections of `numpy.array_split` partition an array.
* `SectionsMakeNoDifference`: `Spec => []ThreadsMakeNoDifference` for `fill` itself, and
  `NumPySectionsMakeNoDifference`, the same for the fills that `histogram`, `histogram2d` and
  `histogramdd` make: a threaded fill of arrays of one length counts the entries that the
  unthreaded one counts. `ArgumentsAssumption` says what a request is; a histogram without axes
  is left out, as nothing can be filled into it in sections.
* `EdgesComeBack`: `NumPySpec => []EdgesAsGiven`, for any calls and any integer arrays
  (`CallsAssumption`). It is not inductive, as a call moves the last edge in the array that the
  next call finds; `EdgesInv` says that each axis made from edges holds those it was given with
  the last one moved by one, and that `nextafter` is undone when they are read back.
* `CountsLikeNumPy`: `NumPySpec => []CountsAsNumPy`, for any data, weights, bins, ranges that
  ascend, number of axes, threads and calls. `EdgesInv` says besides that the edges of an axis
  ascend and that the axes are those of the call, and `SectionsInv` that every position was
  counted once, so that the two sums have the same terms (`SumRenamed`). What is left is a
  bin of one axis: `RegularBins`, where the quotient that `regular_numpy::index` computes, cut
  off below the stop, lies between fractions of the range, and `VariableBins`, where the edges
  at or below a value are counted (`EdgesBelow`), the last one moved.

`HistogramObject_proofs`, for any numbers of Histograms, C++ histograms, dicts and labels and any program:

* `TypeCorrect`: `Spec => []TypeOK`, in which the freshness of what is allocated is the argument.
* `NobodyElsesLabels`: `Spec => []LabelsPrivate`. Not inductive: a Histogram that refers to the
  dict of the program's own Axis shares it with the next one built from that Axis. `PrivateInv`
  adds that only Histograms that were `built` do.
* `LabelsReachTheAxis`: `Spec => []LabelsLinked` and `FlagNeverLies`: `Spec => []VarianceHonest`.
  Both properties speak of programs that convert nothing, and both rest on what
  holds for those alone: that no two Histograms share a C++ histogram (`OwnCore`), so that
  an operation on one leaves the axes and the content of the others as they were.

`Buffers_proofs`, for any number of axes with any flow bins, of any size:

* `AddressIsOffset`: start and strides of `make_buffer_impl` lead from a position in the array to the
  place of its bin in memory, with and without flow bins.
* `BuffersTyped`: `Spec => []TypeOK`.
* `ViewsShowBins`: `Spec => []ViewShowsBins`.
* `EdgesAlwaysFit`: `Spec => []EdgesFit`.
* `QueriesAlwaysMatch`: `Spec => []QueriesMatchViews`.
* `ViewsStay`: `Spec => ViewsStayValid`.

The invariant `BuffersInv` has two parts. `CellsInv`: every cell has its count at its own offset. That
a step keeps this needs that no two cells have the same offset and that the offsets are exactly
those of the memory; both are shown for mixed radix numbers, digit by digit, from the strides as the
loop multiplies them. `ViewsInv`: an attached array was made for the axes as they are and looks into
doubles (`DoublesInView`), which the conversion establishes and which is why neither counts nor
weights move the memory afterwards. `QueriesAlwaysMatch` also needs that a sum over cells is the sum
over the positions that a bijection takes to them, in any order.

`Indexing_proofs`, for any number of axes of any kind and size, any index and any shape:

* `IndicesSelect`: `Spec => []SelectionRight`.
* `RangesAreAnswered`: `Spec => []RangesAnswered`.
* `ArraysGoWhereAddressed`: `Spec => []WritesAddressed`.
* `FittingArraysAccepted`: `Spec => []FittingAccepted`.

A histogram is read or assigned once in a behaviour, so the invariant `Settled` says of the last call what
its property does, and the work is in the two handlers. Axis by axis: the items of an index are typed once it
is normalised (`IndexResolved`), a slice keeps the bins it stands for (`KeptGoes`,
with the quotients of a rebin), a sum adds up those in its limits (`SumGoes`), a list answers bin by
bin (`SetGoes`), a range that is refused is one of those that `Unanswerable` names
(`RefusedSlice`, `RefusedIndex`), and an array meets the bins of a slice in order (`SliceWritten`). Then together
(`PassesCompose`): a cell of the result comes from exactly the cells that every axis leads to it, because
an axis that is not picked has the number that `Renumbered` computes (`PlacesLeft`), and those that are
not summed either keep their order (`NumberOfNumbers`). `IndexAssumption` says what a program can write: axes
that a constructor makes, limits of slices that are None, locators or numbers from 0 on, an ellipsis only
as an item of a tuple. A negative number as the limit of a slice is outside it: `_process_loc` and
`__setitem__` take it as it is, not from the end.

`Accumulators_proofs`, for any finite number of accumulators, any whole samples, positive whole weights
and non-zero factors (`NumbersAssumption`), and any order of fills, merges, scalings and copies:

* `MeansAreExact`: `Spec => []MeanExact` and `WeightedMeansAreExact`: `Spec => []WeightedMeanExact`.
* `CountsAreEffective`: `Spec => []CountsEffective`.
* `UnitWeightsReportTheSame`: `Spec => []UnitWeightsAgree`.
* `ViewsWorkAsAccumulators`: `Spec => []ViewsAgree`.

`AccumulatorsInv` (theorem `AccumulatorsInvariant`) says of every accumulator that it is the one the sums of
its samples give, and of the sums that they can be those of samples with positive weights (`SumsOK`):
all zero or a positive weight, the sum of the squared weights below the square of the sum as soon
as there are two samples, and the square of the sum at most n times the sum of the squares. The
last is the inequality of Cauchy, and not inductive by itself: a merge keeps it because the mixed
terms of two sets of weights obey it too. Fractions are in lowest terms, which `ArithmeticTheorems`
shows to be unique, so that the incremental formulas of `mean.hpp` and `weighted_mean.hpp`
come down to equalities between products of integers.

`Unpickling_proofs`, for objects of any types, of any depth, and any process that opens them:

* `LoadsWhatWasSaved`: `UnpicklingSpec => []LoadedAsSaved`; `ArchiveInvariant` is the invariant for the
  `Spec` of `Archive` alone.
* `LoadingGoesOn`: whenever something remains to be loaded, the next slot is there, of
  the kind that is wanted, and no number of a case that the variant does not have.
* `PartsStand`: `UnpicklingSpec => []PartsComeBack`, after any number of class statements,
  registrations that succeed or fail, and collections.
* `FamiliesApart`: `UnpicklingSpec => OtherFamiliesUntouched`.
* `EveryGenerationOpens`: `UnpicklingSpec => []OpensEveryGeneration`, the flag, the labels and the
  classes of the axes.

`ArchiveInv` says that there is a sequence of the stacks that saving went through, one for each slot
it wrote, and that before slot k is loaded the stack of loading is the one saving had before
writing it, without the values. That is what is true of a format without names: the k-th slot
is read by whom it was written for. It rests on `PiecesAssumption`, that what is pickled
is built of `Pieces`, whose values fit their types.

`ClassInv` (theorem `UnpicklingClasses`) is the invariant about classes: they are a tree in the order of
their statements, every class derives from one that is bound, those of boost_histogram are as they
were made but for types added to the sets of those that have one, and those of libraries take nothing
but what libraries brought along. A class statement keeps it because `register` only ever adds to the
set that is inherited; a collection because a class that is not bound has no subclasses. What a cast
returns is then found in three steps. Who takes a C++ class of boost_histogram is who inherits from
the one class it was registered for or bound from (`TypedTakes`, `StorageTakes`). The walk over the
subclasses meets just those that exist below the root (`WalkMeets`), so `Cast` gives the first of the
family or else the last of the main family (`CastIs`), and the last is the class of boost_histogram itself,
at the end of its own branch (`LastIsClass`). For `OtherFamiliesUntouched`, a class that comes or goes
is a leaf of another family, and the first of a family stays the first when a leaf without any of it is
added to the walk or left out (`ComingGoing`). The round trip from constructor to printed call is an
argument about options (`AxisRoundTrip`). They rest on `NewTypesAssumption`, that the types of
libraries are finitely many and none of boost_histogram's own, and on `AxesAssumption`, that
programs have made the axes of the histograms that are opened.

`ArithmeticTheorems` carries these: sums over finite sets (by taking elements out, over
disjoint sets and along bijections), greatest common divisors and lowest terms, what each operator
of `Rationals` computes, and the induction they need. The induction theorems of the
library take an operator as a parameter, which none of the installed provers can instantiate; here
induction is stated for sets (`LeastNumber`: a set of natural numbers that is not empty has a least
one; the same for finite sets), so that it can be cited with the set of counterexamples. In this way
functions that recurse over numbers or finite sets can be reasoned about.

Only model-checked: liveness, which this prover does not reach (`FillTerminates`, the fair half of
`ImplementsFillSpec`, `UnpicklesAll`). Every invariant and every action property of the runs that pass is
stated by a theorem.

## What is taken from outside the tree

Boost.Histogram: `fill_n` checks lengths before it inserts; a category axis appends;
`+=` merges axes in the order described in `GrowingAxis`; `reduce` clips, merges and
moves what is cut to the flow bins; the first axis runs fastest in memory; an
unlimited storage starts with small integers; a class saves its members one by one,
a variant its number and then its value, inside a
class of its own and one of a proxy. NumPy: `array_split`, strides, slices
cut at the end of an array, negative positions. The map marks these external.

## Not modelled

* What transforms compute (functions on doubles), rounding, element formats and
  string forms, the pybind11 tables, typing, enums, deprecations: no state a model
  could tell apart.
* Of the NumPy interface: `density`, and bins given by a string, which NumPy turns into edges.
* Of the views: division by a view, and what NumPy does with the arrays itself (the
  reductions of `ArrayTuple` among it).
* Of AxesTuple: `value`, `bin` and `index`, which forward one by one to the axes.
* Of pickling: the generic form of `array_wrapper`, which no object here takes.
* `Sum`, the histograms and axes of Boost.Histogram themselves, beyond what is listed above.
* Abstracted: Boolean axes (integer axes without flow bins, except in `PartClasses`), and
  axes beyond one per Histogram in `HistogramObject`.

## Plan

1. Slices of NumPy-like axes in `NumPyInterface`, filled again: where the stop of the whole
   axis stays behind.
2. `value`, `bin` and `index` of AxesTuple over the axes of `NumPyInterface`.
