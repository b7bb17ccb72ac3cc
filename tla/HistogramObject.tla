--------------------------- MODULE HistogramObject ---------------------------
(***************************************************************************)
(* The Python Histogram objects of one program and what they share         *)
(* (hist.py 120-390, 509-561, 684-700, 853-967).                           *)
(*                                                                         *)
(* A Histogram holds a C++ histogram in _hist, Axis objects in axes, and   *)
(* _variance_known in its __dict__.  The label of an axis (its metadata,   *)
(* name, ...) is in a dict that the C++ axis and the Axis object both      *)
(* refer to; which objects refer to which dict decides who sees a label    *)
(* that is set later, and whether it is copied, pickled and compared.      *)
(*                                                                         *)
(* The content of a C++ histogram is abstracted to where it came from, and *)
(* its axes to one axis that does not grow.  Every operation runs under    *)
(* the GIL and is one step; threads are the subject of ThreadedFill.       *)
(***************************************************************************)
EXTENDS Integers, FiniteSets

CONSTANTS
  Handle,      \* the Python Histogram objects
  Core,        \* the C++ histograms
  Dict,        \* the dicts with axis metadata
  NoCore,      \* _hist of a Histogram that does not exist
  UserDict,    \* the dict of an Axis object that the program has created
  Label,       \* what a dict may say
  NoLabel,     \* the label of a new Axis
  Programs     \* what the program may be, see Program

Operations == {"fill", "weights", "setitem", "reset", "scale", "label",
               "add", "iadd", "copy", "pickle", "convert", "drop"}

\* The storages and operations that a program uses, and the most Histograms it
\* holds at a time.
Program == [kinds : SUBSET {"simple", "weight"}, uses : SUBSET Operations,
            most : Nat]

ASSUME HeapAssumption ==
  /\ NoCore \notin Core
  /\ UserDict \in Dict
  /\ NoLabel \in Label
  /\ Programs \subseteq Program
  /\ \A p \in Programs : p.kinds # {}

Origin == {"entries", "weights", "assigned"}

VARIABLES
  program,
  hist,        \* h._hist
  known,       \* h._variance_known
  axesDict,    \* h.axes[0].__dict__
  kind,        \* storage of each C++ histogram
  content,     \* where its cells came from
  metadata,    \* the metadata of its axis
  label,       \* what each dict says
  built        \* history: the Histograms built from the program's Axis

objects == <<hist, known, axesDict>>
cores == <<kind, content, metadata>>
vars == <<program, objects, cores, label, built>>

Kinds == program.kinds
Uses == program.uses

Exists(h) == hist[h] # NoCore
Holders(c) == {h \in Handle : hist[h] = c}
DictsOf(h) == {axesDict[h], metadata[hist[h]]}
DictsInUse == {UserDict} \cup UNION {DictsOf(h) : h \in {g \in Handle : Exists(g)}}

\* The allocator; there is always room when Core and Dict are large enough.
FreeHandles == {h \in Handle : ~Exists(h)}
FreeCores == {c \in Core : Holders(c) = {}}
FreeDicts == Dict \ DictsInUse
CanAllocate ==
  /\ Cardinality(Handle \ FreeHandles) < program.most
  /\ {} \notin {FreeHandles, FreeCores, FreeDicts}
FreshHandle == CHOOSE h \in FreeHandles : TRUE
FreshCore == CHOOSE c \in FreeCores : TRUE
FreshDict == CHOOSE d \in FreeDicts : TRUE

\* After a step that may have released a dict.  What nobody refers to is put
\* back to its initial value, so that garbage does not distinguish states.
ReleaseDicts ==
  label' = [d \in Dict |-> IF d \in DictsInUse' THEN label[d] ELSE NoLabel]

Init ==
  /\ program \in Programs
  /\ hist = [h \in Handle |-> NoCore]
  /\ known = [h \in Handle |-> TRUE]
  /\ axesDict = [h \in Handle |-> UserDict]
  /\ kind = [c \in Core |-> CHOOSE k \in Kinds : TRUE]
  /\ content = [c \in Core |-> {}]
  /\ metadata = [c \in Core |-> UserDict]
  /\ label = [d \in Dict |-> NoLabel]
  /\ built = {}
-----------------------------------------------------------------------------
(* Making Histograms *)

\* r becomes a Histogram on a new C++ histogram.
Allocate(r, k, origins, isKnown) ==
  /\ ~Exists(r) /\ CanAllocate
  /\ hist' = [hist EXCEPT ![r] = FreshCore]
  /\ known' = [known EXCEPT ![r] = isKnown]
  /\ kind' = [kind EXCEPT ![FreshCore] = k]
  /\ content' = [content EXCEPT ![FreshCore] = origins]

\* Both the C++ axis and the Axis object of r refer to d.
Link(r, d) ==
  /\ axesDict' = [axesDict EXCEPT ![r] = d]
  /\ metadata' = [metadata EXCEPT ![FreshCore] = d]

\* Histogram(ax, storage=...): the C++ axis is copied from ax with a
\* reference to the same dict, and so is the Axis object in axes.
New(r) ==
  /\ \E k \in Kinds : Allocate(r, k, {}, TRUE)
  /\ Link(r, UserDict)
  /\ built' = built \cup {r}
  /\ UNCHANGED label

\* Variant in which the copy goes on using the dict of the original.
NewHistSameDict(r, h, origins, isKnown) ==
  /\ Allocate(r, kind[hist[h]], origins, isKnown)
  /\ Link(r, metadata[hist[h]])
  /\ UNCHANGED <<label, built>>

\* Variant in which assigning ax.__dict__ does not reach the C++ axis.
NewHistPythonOnly(r, h, origins, isKnown) ==
  /\ Allocate(r, kind[hist[h]], origins, isKnown)
  /\ axesDict' = [axesDict EXCEPT ![r] = FreshDict]
  /\ metadata' = [metadata EXCEPT ![FreshCore] = metadata[hist[h]]]
  /\ label' = [label EXCEPT ![FreshDict] = label[metadata[hist[h]]]]
  /\ UNCHANGED built

\* h._new_hist(...): the copied C++ axis first shares its dict with the
\* original; assigning ax.__dict__ gives both sides a copy of it.
NewHist(r, h, origins, isKnown) ==
  /\ Allocate(r, kind[hist[h]], origins, isKnown)
  /\ Link(r, FreshDict)
  /\ label' = [label EXCEPT ![FreshDict] = label[metadata[hist[h]]]]
  /\ UNCHANGED built

\* copy, deepcopy, project, h[...] with a slice, and h + 0.
Copy(r, h) ==
  /\ Exists(h)
  /\ NewHist(r, h, content[hist[h]], known[h])

\* Pickling writes __dict__ and the C++ histogram with its metadata, not the
\* Axis objects; unpickling makes those anew.
Pickle(r, h) ==
  /\ Exists(h)
  /\ Allocate(r, kind[hist[h]], content[hist[h]], known[h])
  /\ Link(r, FreshDict)
  /\ label' = [label EXCEPT ![FreshDict] = label[metadata[hist[h]]]]
  /\ UNCHANGED built

\* Histogram(h): r takes over the C++ histogram of h and replaces the dict
\* of its axis by a copy; the Axis object of h keeps the old dict.
Convert(r, h) ==
  /\ Exists(h) /\ ~Exists(r) /\ CanAllocate
  /\ hist' = [hist EXCEPT ![r] = hist[h]]
  /\ known' = [known EXCEPT ![r] = known[h]]
  /\ axesDict' = [axesDict EXCEPT ![r] = FreshDict]
  /\ metadata' = [metadata EXCEPT ![hist[h]] = FreshDict]
  /\ label' = [label EXCEPT ![FreshDict] = label[metadata[hist[h]]]]
  /\ UNCHANGED <<kind, content, built>>

\* The last reference to h goes away, and its C++ histogram with it unless
\* another Histogram holds that.
Drop(h) ==
  /\ Exists(h)
  /\ hist' = [hist EXCEPT ![h] = NoCore]
  /\ known' = [known EXCEPT ![h] = TRUE]
  /\ axesDict' = [axesDict EXCEPT ![h] = UserDict]
  /\ IF Holders(hist[h]) = {h}
     THEN /\ kind' = [kind EXCEPT ![hist[h]] = CHOOSE k \in Kinds : TRUE]
          /\ content' = [content EXCEPT ![hist[h]] = {}]
          /\ metadata' = [metadata EXCEPT ![hist[h]] = UserDict]
     ELSE UNCHANGED cores
  /\ built' = built \ {h}
  /\ ReleaseDicts
-----------------------------------------------------------------------------
(* Using them *)

Into(h, origins) ==
  content' = [content EXCEPT ![hist[h]] = @ \cup origins]

\* h.fill(...): a weight spoils the variance of a simple storage first, and
\* then the C++ fill may raise.
Fill(h, origin) ==
  /\ Exists(h)
  /\ known' = [known EXCEPT ![h] =
                 @ /\ ~(origin = "weights" /\ kind[hist[h]] = "simple")]
  /\ Into(h, {origin}) \/ UNCHANGED content
  /\ UNCHANGED <<hist, axesDict, kind, metadata, label, built>>

\* h[...] = array writes through a view.
SetItem(h) ==
  /\ Exists(h)
  /\ Into(h, {"assigned"})
  /\ UNCHANGED <<objects, kind, metadata, label, built>>

Reset(h) ==
  /\ Exists(h)
  /\ content' = [content EXCEPT ![hist[h]] = {}]
  /\ UNCHANGED <<objects, kind, metadata, label, built>>

\* What multiplying by a number makes of a content.
Scaled(origins) == origins \cup (IF "entries" \in origins THEN {"weights"} ELSE {})

\* h *= x and h /= x, through a view.
Scale(h) ==
  /\ Exists(h)
  /\ content' = [content EXCEPT ![hist[h]] = Scaled(@)]
  /\ known' = [known EXCEPT ![h] = FALSE]
  /\ UNCHANGED <<hist, axesDict, kind, metadata, label, built>>

\* r = h * x: a shallow copy, scaled.
Mul(r, h) ==
  /\ Exists(h)
  /\ NewHist(r, h, Scaled(content[hist[h]]), FALSE)

\* Axes are equal only if their metadata are.
SameAxes(a, b) == label[metadata[hist[a]]] = label[metadata[hist[b]]]

\* Content of a after a += b.  With different storages the C++ operator
\* returns NotImplemented, which _compute_inplace_op discards.
Sum(a, b) ==
  content[hist[a]] \cup
    (IF kind[hist[a]] = kind[hist[b]] THEN content[hist[b]] ELSE {})

\* Addition proceeds, or raises without a trace.
CanAdd(a, b) ==
  Exists(a) /\ Exists(b) /\ (kind[hist[a]] = kind[hist[b]] => SameAxes(a, b))

\* Variant that takes the flag of the left operand for the sum.
AddKeepKnown(r, a, b) ==
  /\ CanAdd(a, b)
  /\ NewHist(r, a, Sum(a, b), known[a])

\* r = a + b: a shallow copy of a, then += b.
Add(r, a, b) ==
  /\ CanAdd(a, b)
  /\ NewHist(r, a, Sum(a, b), FALSE)

\* Variant that keeps what the C++ operator returned as the new _hist.
IAddAssign(a, b) ==
  /\ CanAdd(a, b)
  /\ hist' = [hist EXCEPT ![a] =
                IF kind[@] = kind[hist[b]] THEN @ ELSE NoCore]
  /\ content' = [content EXCEPT ![hist[a]] = Sum(a, b)]
  /\ known' = [known EXCEPT ![a] = FALSE]
  /\ axesDict' = [axesDict EXCEPT ![a] = metadata[hist[a]]]
  /\ UNCHANGED <<kind, metadata, label, built>>

\* a += b; the Axis object of a is made anew from the C++ axis.
IAdd(a, b) ==
  /\ CanAdd(a, b)
  /\ content' = [content EXCEPT ![hist[a]] = Sum(a, b)]
  /\ known' = [known EXCEPT ![a] = FALSE]
  /\ axesDict' = [axesDict EXCEPT ![a] = metadata[hist[a]]]
  /\ UNCHANGED <<hist, kind, metadata, built>>
  /\ ReleaseDicts

\* h.axes[0].metadata = x, .label = x, ...
SetLabel(h, x) ==
  /\ Exists(h)
  /\ label' = [label EXCEPT ![axesDict[h]] = x]
  /\ UNCHANGED <<objects, cores, built>>

\* The same on the Axis object the program has built h from.
SetAxisLabel(x) ==
  /\ label' = [label EXCEPT ![UserDict] = x]
  /\ UNCHANGED <<objects, cores, built>>
-----------------------------------------------------------------------------
Make(r) ==
  \/ New(r)
  \/ \E h \in Handle :
       \/ "copy" \in Uses /\ Copy(r, h)
       \/ "pickle" \in Uses /\ Pickle(r, h)
       \/ "convert" \in Uses /\ Convert(r, h)
       \/ "scale" \in Uses /\ Mul(r, h)
       \/ "add" \in Uses /\ \E g \in Handle : Add(r, h, g)

Use(h) ==
  \/ "fill" \in Uses /\ Fill(h, "entries")
  \/ "weights" \in Uses /\ Fill(h, "weights")
  \/ "setitem" \in Uses /\ SetItem(h)
  \/ "reset" \in Uses /\ Reset(h)
  \/ "scale" \in Uses /\ Scale(h)
  \/ "iadd" \in Uses /\ \E g \in Handle : IAdd(h, g)
  \/ "label" \in Uses /\ \E x \in Label : SetLabel(h, x)
  \/ "drop" \in Uses /\ Drop(h)

Next ==
  /\ UNCHANGED program
  /\ \/ \E h \in Handle : Use(h)
     \/ CanAllocate /\ Make(FreshHandle)
     \/ "label" \in Uses /\ \E x \in Label : SetAxisLabel(x)

Spec == Init /\ [][Next]_vars
-----------------------------------------------------------------------------
(* Correctness *)

\* Type invariant.
TypeOK ==
  /\ program \in Programs
  /\ hist \in [Handle -> Core \cup {NoCore}]
  /\ known \in [Handle -> BOOLEAN]
  /\ axesDict \in [Handle -> Dict]
  /\ kind \in [Core -> Kinds]
  /\ content \in [Core -> SUBSET Origin]
  /\ metadata \in [Core -> Dict]
  /\ label \in [Dict -> Label]
  /\ built \subseteq {h \in Handle : Exists(h)}

\* Two Histograms with different contents never share a dict, so that a label
\* set on one of them is never seen through the other, unless both were built
\* from the same Axis object; copies, sums, slices and unpickled Histograms
\* are independent of what they were made from (hist.py 271-289).
LabelsPrivate ==
  \A g, h \in Handle :
    (Exists(g) /\ Exists(h) /\ hist[g] # hist[h]
     /\ DictsOf(g) \cap DictsOf(h) # {}) => {g, h} \subseteq built

\* A label that the program sets through h.axes becomes part of the histogram
\* and is compared, copied and pickled with it, whatever h went through:
\* _new_hist, addition or unpickling (hist.py 263-289, 558-561), in a program
\* that converts no Histograms.
LabelsLinked ==
  "convert" \notin Uses => \A h \in Handle : Exists(h) => axesDict[h] = metadata[hist[h]]

\* "unless you fill an unweighed histogram with weights, which will cause
\* this to be return None" (docs/usage/histogram.rst 22): a Histogram with a
\* simple storage whose cells hold weights, its own or those of a Histogram
\* that was added or copied, does not claim to know its variance, in a program
\* that converts no Histograms.
VarianceHonest ==
  "convert" \notin Uses => \A h \in Handle :
    (Exists(h) /\ known[h] /\ kind[hist[h]] = "simple")
      => "weights" \notin content[hist[h]]

\* "Add two histograms ... (storages must match types currently)"
\* (docs/usage/histogram.rst 36): a += b that does not raise adds b.
AdditionAdds ==
  [][\A a, b \in Handle :
       IAdd(a, b) => content[hist[b]] \subseteq content'[hist[a]]]_vars
=============================================================================
