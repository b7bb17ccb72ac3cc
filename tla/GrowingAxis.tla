----------------------------- MODULE GrowingAxis -----------------------------
(***************************************************************************)
(* A category axis with growth=True (_internal/axis.py 616-730, backed by  *)
(* Boost.Histogram's category axis).  An axis is the function that maps    *)
(* every category to its bin, counted from 1; 0 stands for "no bin yet".   *)
(* The library appends an unknown category when it is filled, and          *)
(* histogram += merges two such axes by appending the right-hand side's    *)
(* unknown categories to the left-hand side's, in their order.             *)
(***************************************************************************)
EXTENDS Integers, FiniteSets

CONSTANT Cat            \* the categories that are ever filled

ASSUME CatAssumption == IsFiniteSet(Cat)

Axis == [Cat -> Nat]

\* The categories that have a bin, and the number of bins.
OnAxis(a) == {k \in Cat : a[k] # 0}
Size(a) == Cardinality(OnAxis(a))

\* The axis after a fill has met category k.
Grow(a, k) == IF a[k] # 0 THEN a ELSE [a EXCEPT ![k] = Size(a) + 1]

\* Variant in which the new categories keep the bins they have in b.
MergeAxesUnshifted(a, b) ==
  [k \in Cat |-> IF k \in OnAxis(b) \ OnAxis(a) THEN b[k] ELSE a[k]]

\* The axis of the histogram after a += b.
MergeAxes(a, b) ==
  LET new == OnAxis(b) \ OnAxis(a)
  IN  [k \in Cat |-> IF k \in new
                     THEN Size(a) + Cardinality({j \in new : b[j] <= b[k]})
                     ELSE a[k]]

\* Bins are numbered without gaps and no two categories share one.
WellFormed(a) ==
  /\ {a[k] : k \in OnAxis(a)} = 1 .. Size(a)
  /\ \A j, k \in OnAxis(a) : a[j] = a[k] => j = k

\* Every bin of a is the same bin of b: indices a user holds stay valid.
KeepsBins(a, b) == \A k \in OnAxis(a) : b[k] = a[k]
=============================================================================
