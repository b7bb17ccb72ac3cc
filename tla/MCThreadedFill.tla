--------------------------- MODULE MCThreadedFill ----------------------------
(***************************************************************************)
(* Instances of ThreadedFill for TLC: one call or two, cut into sections   *)
(* by array_split as hist.py 445 does.                                     *)
(***************************************************************************)
EXTENDS ThreadedFill, ArraySplit, TLC

CONSTANTS c1, c2, ka, kb, kc

BothCalls == {c1, c2}
Cats == {ka, kb, kc}

EmptyAxis == [k \in Cats |-> 0]
AxisWithC == [k \in Cats |-> IF k = kc THEN 1 ELSE 0]

\* Two calls of two threads each: entries 0..2 (2 + 1), then 3..4 (1 + 1).
TwoThreads == [c \in BothCalls |-> 2]
FiveEntries == 0 .. 4
FiveOwners ==
  [d \in FiveEntries |->
     IF d < 3 THEN <<c1, CHOOSE i \in 1 .. 2 : d \in Section(3, 2, i)>>
     ELSE <<c2, CHOOSE i \in 1 .. 2 : d - 3 \in Section(2, 2, i)>>]
FiveKeys == (0 :> ka) @@ (1 :> kb) @@ (2 :> kb) @@ (3 :> kc) @@ (4 :> ka)

\* An unthreaded call of two entries and one of four in three sections
\* (2 + 1 + 1).
OneThenThree == (c1 :> 1) @@ (c2 :> 3)
SixEntries == 0 .. 5
SixOwners ==
  [d \in SixEntries |->
     IF d < 2 THEN <<c1, 1>>
     ELSE <<c2, CHOOSE i \in 1 .. 3 : d - 2 \in Section(4, 3, i)>>]
SixKeys == (0 :> ka) @@ (1 :> kc) @@ (2 :> ka) @@ (3 :> kb) @@ (4 :> kb)
             @@ (5 :> kc)

\* Array arguments of lengths 4 and 3: the first section of the one is longer
\* than that of the other.
UnequalSecond == {<<c2, i>> : i \in {j \in 1 .. 3 :
                     SectionLen(4, 3, j) # SectionLen(3, 3, j)}}
NoneBroken == {}
SecondCall == {c2}

CountOrMean == {"count", "mean"}
AllButMean == {"count", "weight", "atomic"}
=============================================================================
