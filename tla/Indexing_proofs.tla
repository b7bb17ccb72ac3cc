--------------------------- MODULE Indexing_proofs ---------------------------
(***************************************************************************)
(* Theorems about Indexing, for any axes that a constructor makes and any  *)
(* indices.                                                                *)
(***************************************************************************)
EXTENDS Indexing, FiniteSetTheorems, FunctionTheorems, SequenceTheorems, TLAPS

-----------------------------------------------------------------------------
(* Numbers of the elements of a set *)

LEMMA BelowFinite ==
  ASSUME NEW S \in SUBSET Int, IsFiniteSet(S), NEW x
  PROVE  /\ IsFiniteSet({y \in S : y <= x})
         /\ Number(S, x) \in Nat
         /\ Number(S, x) <= Cardinality(S)
<1>1. {y \in S : y <= x} \in SUBSET S
  OBVIOUS
<1>2. IsFiniteSet({y \in S : y <= x}) /\ Cardinality({y \in S : y <= x}) <= Cardinality(S)
  BY <1>1, FS_Subset
<1>3. Cardinality({y \in S : y <= x}) \in Nat
  BY <1>2, FS_CardinalityType
<1> QED BY <1>2, <1>3 DEF Number

LEMMA NumberType ==
  ASSUME NEW S \in SUBSET Int, IsFiniteSet(S), NEW x
  PROVE  Number(S, x) \in Int
<1>1. Number(S, x) \in Nat
  BY BelowFinite
<1> QED BY <1>1

LEMMA NumberRange ==
  ASSUME NEW S \in SUBSET Int, IsFiniteSet(S), NEW x \in S
  PROVE  /\ Number(S, x) \in 1 .. Cardinality(S)
         /\ Cardinality(S) \in Nat
<1>1. x \in {y \in S : y <= x}
  OBVIOUS
<1>2. Cardinality({y \in S : y <= x}) # 0
  BY <1>1, BelowFinite, FS_EmptySet
<1>3. Cardinality(S) \in Nat
  BY FS_CardinalityType
<1> QED BY <1>2, <1>3, BelowFinite DEF Number

\* A later element has a greater number.
LEMMA NumberAscends ==
  ASSUME NEW S \in SUBSET Int, IsFiniteSet(S), NEW x \in S, NEW y \in S, x < y
  PROVE  Number(S, x) < Number(S, y)
<1> DEFINE B == {z \in S : z <= x}
           C == {z \in S : z <= y}
<1>1. B \in SUBSET C
  <2> SUFFICES ASSUME NEW z \in S, z <= x PROVE z <= y
    OBVIOUS
  <2>1. x \in Int /\ y \in Int /\ z \in Int
    OBVIOUS
  <2> QED BY <2>1
<1>2. y \in C /\ y \notin B
  OBVIOUS
<1>3. IsFiniteSet(B) /\ IsFiniteSet(C) /\ Cardinality(B) \in Nat /\ Cardinality(C) \in Nat
  BY BelowFinite, FS_CardinalityType
<1>4. Number(S, x) = Cardinality(B) /\ Number(S, y) = Cardinality(C)
  BY DEF Number
<1> HIDE DEF B, C
<1>5. Cardinality(B) <= Cardinality(C) /\ (Cardinality(C) = Cardinality(B) => C = B)
  BY <1>1, <1>3, FS_Subset
<1> QED BY <1>2, <1>3, <1>4, <1>5

LEMMA NumberOnce ==
  ASSUME NEW S \in SUBSET Int, IsFiniteSet(S), NEW x \in S, NEW y \in S,
         Number(S, x) = Number(S, y)
  PROVE  x = y
<1>1. Number(S, x) \in Int /\ Number(S, y) \in Int
  BY NumberType
<1>2. x \in Int /\ y \in Int
  OBVIOUS
<1>3. CASE x < y
  BY <1>1, <1>3, NumberAscends
<1>4. CASE y < x
  BY <1>1, <1>4, NumberAscends
<1> QED BY <1>2, <1>3, <1>4

\* Every number up to the size of the set is that of an element.
LEMMA NumberOnto ==
  ASSUME NEW S \in SUBSET Int, IsFiniteSet(S), NEW j \in 1 .. Cardinality(S)
  PROVE  \E x \in S : Number(S, x) = j
<1> DEFINE n == Cardinality(S)
           f == [x \in S |-> Number(S, x)]
<1>1. n \in Nat
  BY FS_CardinalityType
<1>2. f \in [S -> 1 .. n]
  BY NumberRange
<1>3. \A x, y \in S : f[x] = f[y] => x = y
  BY NumberOnce
<1>4. IsFiniteSet(1 .. n) /\ Cardinality(1 .. n) = n
  BY <1>1, FS_Interval
<1>5. f \in Injection(S, 1 .. n)
  <2> HIDE DEF f, n
  <2> QED BY <1>2, <1>3 DEF Injection, IsInjective
<1> HIDE DEF f
<1>6. f \in Surjection(S, 1 .. n)
  BY <1>4, <1>5, FS_Injection
<1>7. PICK x \in S : f[x] = j
  BY <1>6 DEF Surjection
<1> QED BY <1>7 DEF f

LEMMA NthIs ==
  ASSUME NEW S \in SUBSET Int, IsFiniteSet(S), NEW j \in 1 .. Cardinality(S)
  PROVE  Nth(S, j) \in S /\ Number(S, Nth(S, j)) = j
<1>1. \E x \in S : Cardinality({y \in S : y <= x}) = j
  BY NumberOnto DEF Number
<1> QED BY <1>1 DEF Number, Nth

LEMMA NthOfNumber ==
  ASSUME NEW S \in SUBSET Int, IsFiniteSet(S), NEW x \in S
  PROVE  Nth(S, Number(S, x)) = x
<1>1. PICK j \in 1 .. Cardinality(S) : j = Number(S, x)
  BY NumberRange
<1>2. Nth(S, j) \in S /\ Number(S, Nth(S, j)) = j
  BY NthIs
<1> QED BY <1>1, <1>2, NumberOnce

\* What is selected by a set of places stands at the numbers of the places.
LEMMA SelectedIs ==
  ASSUME NEW S \in SUBSET Int, IsFiniteSet(S), NEW seq
  PROVE  /\ DOMAIN Selected(seq, S) = 1 .. Cardinality(S)
         /\ Len(Selected(seq, S)) = Cardinality(S)
         /\ \A x \in S : Selected(seq, S)[Number(S, x)] = seq[x]
         /\ \A j \in 1 .. Cardinality(S) : Selected(seq, S)[j] = seq[Nth(S, j)]
<1>1. Cardinality(S) \in Nat
  BY FS_CardinalityType
<1>2. PICK n \in Nat : n = Cardinality(S)
  BY <1>1
<1>3. Selected(seq, S) = [j \in 1 .. n |-> seq[Nth(S, j)]]
  BY <1>2 DEF Selected
<1>4. Len(Selected(seq, S)) = n
  BY <1>3
<1>5. ASSUME NEW x \in S PROVE Selected(seq, S)[Number(S, x)] = seq[x]
  <2>1. Number(S, x) \in 1 .. n
    BY <1>2, NumberRange
  <2> QED BY <1>3, <2>1, NthOfNumber
<1> QED BY <1>2, <1>3, <1>4, <1>5

\* N holds the numbers in K of the elements of M: they are numbered in N as those
\* are in M.
Numbered(K, M, N) ==
  K \in SUBSET Int /\ IsFiniteSet(K) /\ M \in SUBSET K /\ N = {Number(K, i) : i \in M}

NumberedTwice(K, M, N) ==
  /\ K \in SUBSET Int /\ IsFiniteSet(K) /\ M \in SUBSET K
  /\ N \in SUBSET (1 .. Cardinality(K))
  /\ IsFiniteSet(N)
  /\ Cardinality(N) = Cardinality(M)
  /\ \A i \in M : Number(K, i) \in N /\ Number(N, Number(K, i)) = Number(M, i)
  /\ \A j \in N : \E i \in M : j = Number(K, i)

LEMMA NumberOfNumbers ==
  ASSUME NEW K, NEW M, NEW N, Numbered(K, M, N)
  PROVE  NumberedTwice(K, M, N)
<1>0. K \in SUBSET Int /\ IsFiniteSet(K) /\ M \in SUBSET K /\ N = {Number(K, i) : i \in M}
  BY DEF Numbered
<1>1. M \in SUBSET Int /\ IsFiniteSet(M)
  BY <1>0, FS_Subset
<1>2. \A T \in SUBSET M : /\ IsFiniteSet(T) /\ IsFiniteSet({Number(K, i) : i \in T})
                          /\ Cardinality({Number(K, i) : i \in T}) = Cardinality(T)
  <2> TAKE T \in SUBSET M
  <2> DEFINE U == {Number(K, i) : i \in T}
             f == [i \in T |-> Number(K, i)]
  <2>1. IsFiniteSet(T)
    BY <1>1, FS_Subset
  <2>2. f \in Surjection(T, U)
    BY DEF Surjection
  <2>3. \A x, y \in T : f[x] = f[y] => x = y
    BY <1>0, NumberOnce
  <2>4. f \in Injection(T, U)
    BY <2>3 DEF Injection, IsInjective
  <2>5. f \in Bijection(T, U)
    BY <2>2, <2>4 DEF Bijection
  <2> HIDE DEF f, U
  <2>6. ExistsBijection(T, U)
    BY <2>5 DEF ExistsBijection
  <2>7. IsFiniteSet(U) /\ Cardinality(U) = Cardinality(T)
    BY <2>1, <2>6, FS_Bijection
  <2> QED BY <2>1, <2>7 DEF U
<1>3. IsFiniteSet(N) /\ Cardinality(N) = Cardinality(M)
  BY <1>0, <1>2
<1>4. N \in SUBSET (1 .. Cardinality(K))
  BY <1>0, NumberRange
<1>5. ASSUME NEW i \in M PROVE Number(N, Number(K, i)) = Number(M, i)
  <2> DEFINE B == {y \in M : y <= i}
             C == {y \in N : y <= Number(K, i)}
  <2>1. ASSUME NEW y \in M PROVE Number(K, y) <= Number(K, i) <=> y <= i
    <3>1. y \in K /\ i \in K /\ y \in Int /\ i \in Int
      BY <1>0
    <3>2. Number(K, y) \in Int /\ Number(K, i) \in Int
      BY <1>0, NumberType
    <3>3. y < i => Number(K, y) < Number(K, i)
      BY <1>0, <3>1, NumberAscends
    <3>4. i < y => Number(K, i) < Number(K, y)
      BY <1>0, <3>1, NumberAscends
    <3> QED BY <3>1, <3>2, <3>3, <3>4
  <2>2. C = {Number(K, y) : y \in B}
    BY <1>0, <2>1
  <2>3. B \in SUBSET M
    OBVIOUS
  <2>4. Cardinality(C) = Cardinality(B)
    <3> HIDE DEF B, C
    <3> QED BY <1>2, <2>2, <2>3
  <2> QED BY <2>4 DEF Number
<1>6. \A i \in M : Number(K, i) \in N
  BY <1>0
<1>7. \A j \in N : \E i \in M : j = Number(K, i)
  BY <1>0
<1> QED BY <1>0, <1>3, <1>4, <1>5, <1>6, <1>7, Zenon DEF NumberedTwice

\* Without the places before it that are taken out, a place has the number it has
\* among the others.
LEMMA PlacesLeft ==
  ASSUME NEW n \in Nat, NEW P \in SUBSET (1 .. n), NEW i \in (1 .. n) \ P
  PROVE  i - Cardinality({j \in P : j <= i}) = Number((1 .. n) \ P, i)
<1> DEFINE A == {j \in P : j <= i}
           B == {j \in (1 .. n) \ P : j <= i}
<1>1. IsFiniteSet(1 .. n) /\ IsFiniteSet(1 .. i) /\ Cardinality(1 .. i) = i
  BY FS_Interval
<1>2. A \in SUBSET (1 .. i) /\ B = (1 .. i) \ A
  <2>1. \A j \in 1 .. n : j <= i <=> j \in 1 .. i
    OBVIOUS
  <2>2. \A j \in 1 .. i : j \in 1 .. n /\ j <= i
    OBVIOUS
  <2> QED BY <2>1, <2>2
<1>3. IsFiniteSet(A) /\ Cardinality(A) \in Nat
  BY <1>1, <1>2, FS_Subset, FS_CardinalityType
<1> HIDE DEF A, B
<1>4. Cardinality(B) = Cardinality(1 .. i) - Cardinality((1 .. i) \cap A)
  BY <1>1, <1>2, <1>3, FS_Difference
<1>5. (1 .. i) \cap A = A
  BY <1>2
<1>6. Cardinality(B) = i - Cardinality(A)
  BY <1>1, <1>4, <1>5
<1> QED BY <1>6 DEF A, B, Number

-----------------------------------------------------------------------------
(* Items, once an index is normalised *)

\* At most one item is an ellipsis.
LEMMA OneEllipsis ==
  ASSUME NEW items, NEW n \in Nat, DOMAIN items = 1 .. n,
         ~(Cardinality(Ellipses(items)) > 1),
         NEW e \in Ellipses(items), NEW j \in Ellipses(items)
  PROVE  e = j
<1> DEFINE E == Ellipses(items)
<1>1. E \in SUBSET (1 .. n)
  BY DEF Ellipses
<1>2. IsFiniteSet(E)
  BY <1>1, FS_Interval, FS_Subset
<1> HIDE DEF E
<1>3. Cardinality(E) \in Nat /\ ~(Cardinality(E) > 1)
  BY <1>2, FS_CardinalityType DEF E
<1>4. Cardinality(E) # 0
  BY <1>2, FS_EmptySet DEF E
<1>5. Cardinality(E) = 1
  BY <1>3, <1>4
<1>6. PICK x : E = {x}
  BY <1>2, <1>5, FS_Singleton
<1> QED BY <1>6 DEF E

\* A whole slice is an item.
LEMMA AllIsItem == All \in SliceItems /\ All \in AxisItems
BY DEF All, Slice, None, NoStep, SliceItems, Limits, AxisItems

\* An ellipsis is replaced by whole slices; the other items stay.
LEMMA ExpandedItems ==
  ASSUME NEW n \in Nat, NEW items \in Seq(AxisItems \cup {Ellipsis}),
         ~(Cardinality(Ellipses(items)) > 1),
         ~(Ellipses(items) # {} /\ Len(items) > n + 1),
         Len(ExpandEllipsis(items, n)) = n
  PROVE  ExpandEllipsis(items, n) \in Seq(AxisItems)
<1> DEFINE m == Len(items)
<1>0. m \in Nat /\ DOMAIN items = 1 .. m
  OBVIOUS
<1>1. \A j \in 1 .. m : j \notin Ellipses(items) => items[j] \in AxisItems
  BY <1>0 DEF Ellipses
<1>2. CASE Ellipses(items) = {}
  <2>1. ExpandEllipsis(items, n) = items
    BY <1>2 DEF ExpandEllipsis
  <2>2. \A j \in 1 .. m : items[j] \in AxisItems
    BY <1>1, <1>2
  <2> QED BY <1>0, <2>1, <2>2
<1>3. CASE Ellipses(items) # {}
  <2>1. PICK e \in Ellipses(items) : e = CHOOSE j \in Ellipses(items) : TRUE
    BY <1>3
  <2>2. e \in 1 .. m
    BY <1>0, <2>1 DEF Ellipses
  <2>3. \A j \in 1 .. m : j # e => items[j] \in AxisItems
    BY <1>0, <1>1, <2>1, OneEllipsis
  <2> DEFINE left == SubSeq(items, 1, e - 1)
             middle == [j \in 1 .. n + 1 - m |-> All]
             right == SubSeq(items, e + 1, m)
  <2>4. ExpandEllipsis(items, n) = left \o middle \o right
    BY <1>3, <2>1 DEF ExpandEllipsis
  <2>5. left \in Seq(AxisItems)
    <3>1. \A j \in 1 .. e - 1 : items[j] \in AxisItems
      BY <2>2, <2>3
    <3> QED BY <1>0, <2>2, <3>1
  <2>6. middle \in Seq(AxisItems)
    <3>1. PICK k \in Nat : k = n + 1 - m
      BY <1>0, <1>3
    <3>2. middle = [j \in 1 .. k |-> All]
      BY <3>1
    <3> QED BY <3>2, AllIsItem
  <2>7. right \in Seq(AxisItems)
    <3>1. \A j \in e + 1 .. m : items[j] \in AxisItems
      BY <2>2, <2>3
    <3> QED BY <1>0, <2>2, <3>1
  <2> HIDE DEF left, middle, right
  <2>8. left \o middle \o right \in Seq(AxisItems)
    BY <2>5, <2>6, <2>7
  <2> QED BY <2>4, <2>8
<1> QED BY <1>2, <1>3

\* There is an item for every axis.
LEMMA ItemsTyped ==
  ASSUME IsAxes(axes), NEW index, IsIndex(index), ~BadIndex(index), NEW i \in DOMAIN axes
  PROVE  Items(index)[i] \in AxisItems
<1> DEFINE n == Len(axes)
<1>1. n \in Nat /\ i \in 1 .. n
  BY DEF IsAxes
<1>2. CASE index.kind = "tuple"
  <2>1. index.items \in Seq(AxisItems \cup {Ellipsis})
    BY <1>2 DEF IsIndex
  <2>2. index.kind # "dict"
    BY <1>2
  <2>3. /\ ~(Cardinality(Ellipses(index.items)) > 1)
        /\ ~(Ellipses(index.items) # {} /\ Len(index.items) > n + 1)
        /\ Len(ExpandEllipsis(index.items, n)) = n
    BY <2>2 DEF BadIndex
  <2>4. ExpandEllipsis(index.items, n) \in Seq(AxisItems)
    BY <1>1, <2>1, <2>3, ExpandedItems
  <2>5. Items(index) = ExpandEllipsis(index.items, n)
    BY <2>2 DEF Items
  <2>6. PICK s \in Seq(AxisItems) : s = ExpandEllipsis(index.items, n)
    BY <2>4
  <2>7. Len(s) = n
    BY <2>3, <2>6
  <2>8. s[i] \in AxisItems
    BY <1>1, <2>7
  <2> QED BY <2>5, <2>6, <2>8
<1>3. CASE index.kind = "dict"
  <2> DEFINE d == index.dict
             named == \E k \in DOMAIN d : (k % n) = i - 1
  <2>1. Items(index) = DictIndexes(d, n)
    BY <1>3 DEF Items
  <2>2. Items(index)[i] = IF named THEN d[CHOOSE k \in DOMAIN d : (k % n) = i - 1] ELSE All
    BY <1>1, <2>1 DEF DictIndexes
  <2>3. \A k \in DOMAIN d : d[k] \in AxisItems
    BY <1>3 DEF IsIndex
  <2>4. CASE named
    BY <2>2, <2>3, <2>4
  <2>5. CASE ~named
    BY <2>2, <2>5, AllIsItem
  <2> QED BY <2>4, <2>5
<1> QED BY <1>2, <1>3 DEF IsIndex

\* An item that is resolved is a slice, a bin or a list of bins.
IsResolved(r) ==
  \/ r \in SliceItems
  \/ \E bin \in Int : r = [kind |-> "pick", bin |-> bin]
  \/ \E bins \in Seq(Int) : r = [kind |-> "set", bins |-> bins]

LEMMA IntegerType ==
  ASSUME NEW ax \in AxisRecords, NEW item \in BinItems, ~OutOfRange(item, ax)
  PROVE  Integer(item, ax) \in Int
<1>1. ax.size \in Nat
  BY DEF AxisRecords
<1>2. CASE item.kind = "call"
  BY <1>1, <1>2 DEF Integer, Called, BinItems, Locators
<1>3. CASE item.kind = "int"
  <2>1. item.n \in Int
    BY <1>3 DEF BinItems, Locators
  <2>2. ~(item.n >= ax.size \/ -item.n >= ax.size)
    BY <1>3 DEF OutOfRange
  <2>3. ax.size > 0
    BY <1>1, <2>1, <2>2
  <2>4. item.n % ax.size \in Int
    BY <1>1, <2>1, <2>3
  <2> QED BY <1>3, <2>4 DEF Integer
<1>4. item.kind \in {"int", "call"}
  BY DEF BinItems, Locators
<1> QED BY <1>2, <1>3, <1>4

LEMMA KindsOfItems ==
  ASSUME NEW item \in AxisItems
  PROVE  \/ item \in SliceItems /\ item.kind = "slice"
         \/ item \in BinItems /\ item.kind \in {"int", "call"}
         \/ item.kind = "list" /\ item.items \in Seq(BinItems)
         \/ item = SumStep /\ item.kind = "sum"
         \/ item \in Rebins /\ item.kind = "rebin"
<1>1. CASE item \in SliceItems
  BY <1>1 DEF SliceItems
<1>2. CASE item \in BinItems
  BY <1>2 DEF BinItems, Locators
<1>3. CASE item \in ListItems
  BY <1>3 DEF ListItems
<1>4. CASE item = SumStep
  BY <1>4 DEF SumStep
<1>5. CASE item \in Rebins
  BY <1>5 DEF Rebins
<1> QED BY <1>1, <1>2, <1>3, <1>4, <1>5 DEF AxisItems

LEMMA Resolved ==
  ASSUME NEW ax \in AxisRecords, NEW item \in AxisItems, ~OutOfRange(item, ax),
         item.kind = "list" => \A j \in DOMAIN item.items : ~OutOfRange(item.items[j], ax)
  PROVE  IsResolved(UhiIndex(item, ax))
<1>1. CASE item.kind = "slice" /\ item \in SliceItems
  BY <1>1 DEF UhiIndex, IsResolved
<1>2. CASE item.kind \in {"int", "call"} /\ item \in BinItems
  BY <1>2, IntegerType DEF UhiIndex, IsResolved
<1>3. CASE item.kind = "list" /\ item.items \in Seq(BinItems)
  <2> DEFINE bins == [j \in DOMAIN item.items |-> Integer(item.items[j], ax)]
  <2>1. PICK n \in Nat : DOMAIN item.items = 1 .. n
    BY <1>3
  <2>2. \A j \in 1 .. n : item.items[j] \in BinItems
    BY <1>3, <2>1
  <2>3. \A j \in 1 .. n : Integer(item.items[j], ax) \in Int
    BY <1>3, <2>1, <2>2, IntegerType
  <2>4. bins \in Seq(Int)
    BY <2>1, <2>3
  <2>5. UhiIndex(item, ax) = [kind |-> "set", bins |-> bins]
    BY <1>3 DEF UhiIndex
  <2> QED BY <2>4, <2>5 DEF IsResolved
<1>4. CASE item.kind = "sum" /\ item = SumStep
  <2>1. UhiIndex(item, ax) = Slice(None, None, SumStep)
    BY <1>4 DEF UhiIndex
  <2> QED BY <2>1 DEF IsResolved, Slice, SliceItems, Limits, None
<1>5. CASE item.kind = "rebin" /\ item \in Rebins
  <2>1. UhiIndex(item, ax) = Slice(None, None, item)
    BY <1>5 DEF UhiIndex
  <2> QED BY <1>5, <2>1 DEF IsResolved, Slice, SliceItems, Limits, None
<1> QED BY <1>1, <1>2, <1>3, <1>4, <1>5, KindsOfItems

\* Whatever index is not refused, each axis has what it asks of it.
LEMMA IndexResolved ==
  ASSUME IsAxes(axes), NEW index, IsIndex(index), ~BadIndex(index)
  PROVE  /\ DOMAIN Indexes(index) = DOMAIN axes
         /\ \A i \in DOMAIN axes : IsResolved(Indexes(index)[i])
<1>1. DOMAIN Indexes(index) = DOMAIN axes
  BY DEF Indexes
<1>2. ASSUME NEW i \in DOMAIN axes PROVE IsResolved(Indexes(index)[i])
  <2>1. PICK item \in AxisItems : item = Items(index)[i]
    BY ItemsTyped
  <2>2. axes[i] \in AxisRecords
    BY DEF IsAxes
  <2>3. /\ ~OutOfRange(item, axes[i])
        /\ item.kind = "list" => \A j \in DOMAIN item.items : ~OutOfRange(item.items[j], axes[i])
    BY <2>1 DEF BadIndex
  <2>4. IsResolved(UhiIndex(item, axes[i]))
    BY <2>2, <2>3, Resolved
  <2>5. Indexes(index)[i] = UhiIndex(Items(index)[i], axes[i])
    BY DEF Indexes
  <2> QED BY <2>1, <2>4, <2>5
<1> QED BY <1>1, <1>2

-----------------------------------------------------------------------------
(* Assigning *)

\* The bins of an axis in numbers.
LEMMA AxisNumbers ==
  ASSUME NEW ax \in AxisRecords
  PROVE  \E u, o \in {0, 1} :
           /\ u = Bit(HasUnderflow(ax)) /\ (u = 1 <=> HasUnderflow(ax))
           /\ o = Bit(HasOverflow(ax)) /\ (o = 1 <=> HasOverflow(ax))
           /\ ax.size \in Nat
           /\ FirstBin(ax) = -u
           /\ LastBin(ax) = ax.size - 1 + o
           /\ Bins(ax) = -u .. ax.size - 1 + o
           /\ Extent(ax) = ax.size + u + o
<1>1. PICK u \in {0, 1} : u = Bit(HasUnderflow(ax)) /\ (u = 1 <=> HasUnderflow(ax))
  BY DEF Bit
<1>2. PICK o \in {0, 1} : o = Bit(HasOverflow(ax)) /\ (o = 1 <=> HasOverflow(ax))
  BY DEF Bit
<1>3. PICK n \in Nat : n = ax.size
  BY DEF AxisRecords
<1>4. FirstBin(ax) = -u /\ LastBin(ax) = n - 1 + o
  BY <1>1, <1>2, <1>3 DEF FirstBin, LastBin
<1>5. Bins(ax) = -u .. n - 1 + o
  BY <1>4 DEF Bins
<1>6. Extent(ax) = n + u + o
  BY <1>3, <1>4 DEF Extent
<1> QED BY <1>1, <1>2, <1>3, <1>4, <1>5, <1>6

LEMMA LimitsOfAssignment ==
  ASSUME NEW ax \in AxisRecords, NEW s \in SliceItems,
         s.start.kind # "call", s.stop.kind # "call"
  PROVE  \E a, b \in Nat :
           /\ a = SetStart(s) /\ (s.start = None => a = 0)
           /\ b = SetStop(ax, s) /\ (s.stop = None => b = ax.size)
           /\ RequestLen(ax, s) = b - a
<1>1. s.start \in Limits /\ s.stop \in Limits
  BY DEF SliceItems
<1>2. s.start = None \/ s.start.n \in Nat
  BY <1>1 DEF Limits, Locators
<1>3. s.stop = None \/ s.stop.n \in Nat
  BY <1>1 DEF Limits, Locators
<1>4. PICK a \in Nat : a = SetStart(s) /\ (s.start = None => a = 0)
  BY <1>2 DEF SetStart
<1>5. PICK b \in Nat : b = SetStop(ax, s) /\ (s.stop = None => b = ax.size)
  BY <1>3 DEF SetStop, AxisRecords
<1> QED BY <1>4, <1>5 DEF RequestLen

\* The elements of an interval below one of them.
LEMMA BelowInInterval ==
  ASSUME NEW lo \in Int, NEW hi \in Int, NEW c \in lo .. hi
  PROVE  Cardinality({b \in lo .. hi : b < c}) = c - lo
<1>1. PICK d \in Int : d = c - 1 /\ lo <= d + 1
  OBVIOUS
<1>2. PICK B : B = {b \in lo .. hi : b < c}
  OBVIOUS
<1>3. B = lo .. d
  BY <1>1, <1>2
<1>4. Cardinality(lo .. d) = IF lo > d THEN 0 ELSE d - lo + 1
  BY FS_Interval
<1>5. Cardinality(B) = c - lo
  BY <1>1, <1>3, <1>4
<1> QED BY <1>2, <1>5

\* The bin b is among the bins W when its position is among those of p, and in the same place.
InItsPlace(ax, W, b, p) ==
  /\ Position(ax, b) \in p.start .. p.stop - 1 <=> b \in W
  /\ b \in W => Cardinality({x \in W : x < b}) = Position(ax, b) - p.start

\* The positions of a slice are those of the bins it writes to, from the first on.
LEMMA SliceWritten ==
  ASSUME NEW ax \in AxisRecords, NEW s \in SliceItems,
         s.start.kind # "call", s.stop.kind # "call",
         NEW len, NEW b \in Bins(ax), NEW p, p = Positions(ax, s, len)
  PROVE  InItsPlace(ax, WrittenBins(ax, s, len), b, p)
<1>1. PICK u, o \in {0, 1} :
        /\ u = Bit(HasUnderflow(ax)) /\ (u = 1 <=> HasUnderflow(ax))
        /\ o = Bit(HasOverflow(ax)) /\ (o = 1 <=> HasOverflow(ax))
        /\ ax.size \in Nat
        /\ FirstBin(ax) = -u
        /\ LastBin(ax) = ax.size - 1 + o
        /\ Bins(ax) = -u .. ax.size - 1 + o
        /\ Extent(ax) = ax.size + u + o
  BY AxisNumbers
<1>2. PICK n \in Nat : n = ax.size
  BY <1>1
<1>3. PICK start, stop \in Nat :
        /\ start = SetStart(s) /\ (s.start = None => start = 0)
        /\ stop = SetStop(ax, s) /\ (s.stop = None => stop = ax.size)
        /\ RequestLen(ax, s) = stop - start
  BY LimitsOfAssignment
<1>4. b \in -u .. n - 1 + o /\ Position(ax, b) = b + u
  BY <1>1, <1>2 DEF Position
<1> DEFINE W == WrittenBins(ax, s, len)
           expanded == len # RequestLen(ax, s) /\ len = ExpandedLen(ax, s)
           first == IF s.start = None THEN -u ELSE start
           last == IF s.stop = None THEN n - 1 + o ELSE stop - 1
           top == IF last < n - 1 + o THEN last ELSE n - 1 + o
<1>5. CASE expanded
  <2>1. p.start = first + u
    <3>1. p.start = start + Bit(HasUnderflow(ax) /\ ~UseUnderflow(ax, s))
      BY <1>3, <1>5 DEF Positions
    <3> QED BY <1>1, <1>3, <3>1 DEF UseUnderflow, Bit
  <2>2. p.stop - 1 = last + u
    <3>1. p.stop = stop + u + Bit(UseOverflow(ax, s))
      BY <1>1, <1>3, <1>5 DEF Positions
    <3>2. UseOverflow(ax, s) <=> o = 1 /\ s.stop = None
      BY <1>1 DEF UseOverflow
    <3>3. Bit(UseOverflow(ax, s)) = IF s.stop = None THEN o ELSE 0
      BY <3>2 DEF Bit
    <3> QED BY <1>2, <1>3, <3>1, <3>3
  <2>3. W = {x \in -u .. n - 1 + o : /\ s.start = None \/ x >= start
                                     /\ s.stop = None \/ x < stop}
    BY <1>1, <1>2, <1>3, <1>5 DEF WrittenBins
  <2>4. W = first .. top
    BY <1>2, <1>3, <2>3
  <2>5. first \in Int /\ last \in Int /\ top \in Int
    BY <1>2, <1>3
  <2>6. b + u \in first + u .. last + u <=> b \in first .. top
    BY <1>4, <2>5
  <2> HIDE DEF W, first, last, top
  <2>7. b \in W => Cardinality({x \in W : x < b}) = b - first
    BY <2>4, <2>5, BelowInInterval
  <2>8. b - first = b + u - (first + u)
    BY <1>4, <2>5
  <2>9. Position(ax, b) \in p.start .. p.stop - 1 <=> b \in W
    BY <1>4, <2>1, <2>2, <2>4, <2>6
  <2>10. Position(ax, b) - p.start = b - first
    BY <1>4, <2>1, <2>5, <2>8
  <2>11. b \in W => Cardinality({x \in W : x < b}) = Position(ax, b) - p.start
    BY <2>7, <2>10, Zenon
  <2> QED BY <2>9, <2>11, Zenon DEF W, InItsPlace
<1>6. CASE ~expanded
  <2>1. p.start = start + u /\ p.stop = stop + u
    BY <1>1, <1>3, <1>6 DEF Positions
  <2>2. W = start .. stop - 1
    BY <1>3, <1>6 DEF WrittenBins
  <2>3. b + u \in start + u .. stop + u - 1 <=> b \in start .. stop - 1
    BY <1>4
  <2> HIDE DEF W
  <2>4. b \in W => Cardinality({x \in W : x < b}) = b - start
    BY <2>2, BelowInInterval
  <2>5. b - start = b + u - (start + u)
    BY <1>4
  <2>6. Position(ax, b) \in p.start .. p.stop - 1 <=> b \in W
    BY <1>4, <2>1, <2>2, <2>3
  <2>7. Position(ax, b) - p.start = b - start
    BY <1>4, <2>1, <2>5
  <2>8. b \in W => Cardinality({x \in W : x < b}) = Position(ax, b) - p.start
    BY <2>4, <2>7, Zenon
  <2> QED BY <2>6, <2>8, Zenon DEF W, InItsPlace
<1> QED BY <1>5, <1>6

\* A bin that the axis has is picked.
LEMMA PickedBin ==
  ASSUME NEW ax \in AxisRecords, NEW b \in Bins(ax)
  PROVE  /\ ~NoPosition(ax, b)
         /\ BinAt(ax, Position(ax, b)) = b
<1>1. PICK u, o \in {0, 1} :
        /\ u = Bit(HasUnderflow(ax)) /\ (u = 1 <=> HasUnderflow(ax))
        /\ o = Bit(HasOverflow(ax)) /\ (o = 1 <=> HasOverflow(ax))
        /\ ax.size \in Nat
        /\ FirstBin(ax) = -u
        /\ LastBin(ax) = ax.size - 1 + o
        /\ Bins(ax) = -u .. ax.size - 1 + o
        /\ Extent(ax) = ax.size + u + o
  BY AxisNumbers
<1>2. PICK n \in Nat : n = ax.size
  BY <1>1
<1>3. b \in Int /\ b >= -u /\ b <= n - 1 + o
  BY <1>1, <1>2
<1>4. Position(ax, b) = b + u
  BY <1>1 DEF Position
<1>5. PICK m \in Nat : m = n + u + o
  <2>1. n \in Nat /\ u \in Nat /\ o \in Nat
    BY <1>1, <1>2
  <2> QED BY <2>1
<1>6. m = Extent(ax)
  BY <1>1, <1>2, <1>5
<1>7. PICK p \in Nat : p = Position(ax, b) /\ p = b + u /\ p \in -m .. m - 1
  <2>1. u \in Nat /\ o \in Nat
    BY <1>1
  <2> QED BY <1>2, <1>3, <1>4, <1>5, <2>1
<1>8. ~NoPosition(ax, b)
  BY <1>6, <1>7 DEF NoPosition
<1>9. BinAt(ax, p) = p + FirstBin(ax)
  BY <1>7 DEF BinAt
<1>10. BinAt(ax, p) = b
  BY <1>1, <1>3, <1>7, <1>9
<1> QED BY <1>7, <1>8, <1>10

\* A slice inside the axis has positions for all of its bins.
LEMMA FittingSlice ==
  ASSUME NEW ax \in AxisRecords, NEW s \in SliceItems,
         s.start.kind # "call", s.stop.kind # "call",
         SetStart(s) < SetStop(ax, s), SetStop(ax, s) <= ax.size,
         NEW len, len \in {RequestLen(ax, s), ExpandedLen(ax, s)}
  PROVE  Available(ax, Positions(ax, s, len)) = len
<1>1. PICK u, o \in {0, 1} :
        /\ u = Bit(HasUnderflow(ax)) /\ (u = 1 <=> HasUnderflow(ax))
        /\ o = Bit(HasOverflow(ax)) /\ (o = 1 <=> HasOverflow(ax))
        /\ ax.size \in Nat
        /\ FirstBin(ax) = -u
        /\ LastBin(ax) = ax.size - 1 + o
        /\ Bins(ax) = -u .. ax.size - 1 + o
        /\ Extent(ax) = ax.size + u + o
  BY AxisNumbers
<1>2. PICK n \in Nat : n = ax.size
  BY <1>1
<1>3. PICK start, stop \in Nat :
        /\ start = SetStart(s) /\ (s.start = None => start = 0)
        /\ stop = SetStop(ax, s) /\ (s.stop = None => stop = ax.size)
        /\ RequestLen(ax, s) = stop - start
  BY LimitsOfAssignment
<1>4. start < stop /\ stop <= n
  BY <1>2, <1>3
<1> DEFINE p == Positions(ax, s, len)
<1>5. Available(ax, p) = Greatest(Least(p.stop, n + u + o) - p.start, 0)
  BY <1>1, <1>2 DEF Available
<1>6. CASE len = RequestLen(ax, s)
  <2>1. p.start = start + u /\ p.stop = stop + u
    BY <1>1, <1>3, <1>6 DEF Positions
  <2> QED BY <1>3, <1>4, <1>5, <1>6, <2>1 DEF Greatest, Least
<1>7. CASE len # RequestLen(ax, s)
  <2>1. PICK x \in {0, 1} : /\ x = Bit(UseUnderflow(ax, s))
                            /\ x = 1 <=> u = 1 /\ s.start = None
    BY <1>1 DEF Bit, UseUnderflow
  <2>2. PICK y \in {0, 1} : /\ y = Bit(UseOverflow(ax, s))
                            /\ y = 1 <=> o = 1 /\ s.stop = None
    BY <1>1 DEF Bit, UseOverflow
  <2>3. len = stop - start + x + y
    BY <1>3, <1>7, <2>1, <2>2 DEF ExpandedLen
  <2>4. p.start = start + (u - x) /\ p.stop = stop + u + y
    <3>1. p.start = start + Bit(HasUnderflow(ax) /\ ~UseUnderflow(ax, s))
      BY <1>3, <1>7 DEF Positions
    <3>2. Bit(HasUnderflow(ax) /\ ~UseUnderflow(ax, s)) = u - x
      BY <1>1, <2>1 DEF UseUnderflow, Bit
    <3>3. p.stop = stop + u + y
      BY <1>1, <1>3, <1>7, <2>2 DEF Positions
    <3> QED BY <3>1, <3>2, <3>3
  <2>5. stop + u + y <= n + u + o
    BY <1>2, <1>3, <1>4, <2>2
  <2>6. x = 1 => start = 0
    BY <1>3, <2>1
  <2> HIDE DEF p
  <2>7. Least(p.stop, n + u + o) = stop + u + y
    BY <2>4, <2>5 DEF Least
  <2>8. Least(p.stop, n + u + o) - p.start = stop - start + x + y
    BY <2>4, <2>7
  <2>9. stop - start + x + y \in Nat
    BY <1>4
  <2>10. Available(ax, p) = len
    BY <1>5, <2>3, <2>8, <2>9 DEF Greatest
  <2> QED BY <2>10 DEF p
<1> QED BY <1>6, <1>7

\* What WritesAddressed says of an assignment that left the cells behind.
WroteRight(axs, q, shape, cells) ==
  LET bins(i) == IF q[i].kind = "pick" THEN {q[i].bin}
                 ELSE WrittenBins(axs[i], q[i], shape[Number(Slices(q), i)])
      element(c) == [k \in DOMAIN shape |->
                       IF shape[k] = 1 THEN 0
                       ELSE LET i == Nth(Slices(q), k)
                            IN Cardinality({b \in bins(i) : b < c[i]})]
  IN (\A i \in AxesWith(q, "pick") : q[i].bin \in Bins(axs[i])) =>
       \A c \in Cells(axs) :
         cells[c] = IF \A i \in DOMAIN q : c[i] \in bins(i)
                    THEN Element(element(c)) ELSE Original(c)

\* What FittingAccepted says of an assignment that was refused.
NotFitting(axs, q, shape) ==
  LET plain(i) == /\ q[i].step = NoStep
                  /\ {q[i].start.kind, q[i].stop.kind} \subseteq {"none", "int"}
                  /\ SetStart(q[i]) < SetStop(axs[i], q[i])
                  /\ SetStop(axs[i], q[i]) <= axs[i].size
      fits(i, len) == len \in {1, RequestLen(axs[i], q[i]), ExpandedLen(axs[i], q[i])}
  IN \/ AxesWith(q, "pick") \cup Slices(q) # DOMAIN q
     \/ \E i \in AxesWith(q, "pick") : q[i].bin \notin Bins(axs[i])
     \/ Len(shape) # Cardinality(Slices(q))
     \/ \E i \in Slices(q) : ~(plain(i) /\ fits(i, shape[Number(Slices(q), i)]))

\* The axes of a kind are those resolved so.
LEMMA ResolvedKinds ==
  ASSUME NEW q, \A i \in DOMAIN q : IsResolved(q[i]), NEW i \in DOMAIN q
  PROVE  /\ q[i].kind \in {"slice", "pick", "set"}
         /\ q[i].kind = "slice" => q[i] \in SliceItems
         /\ q[i].kind = "pick" => q[i].bin \in Int
         /\ q[i].kind = "set" => q[i].bins \in Seq(Int)
<1>1. CASE q[i] \in SliceItems
  BY <1>1 DEF SliceItems
<1>2. CASE \E bin \in Int : q[i] = [kind |-> "pick", bin |-> bin]
  BY <1>2
<1>3. CASE \E bins \in Seq(Int) : q[i] = [kind |-> "set", bins |-> bins]
  BY <1>3
<1> QED BY <1>1, <1>2, <1>3 DEF IsResolved

LEMMA SlicesFinite ==
  ASSUME NEW q, NEW n \in Nat, DOMAIN q = 1 .. n, NEW kind
  PROVE  AxesWith(q, kind) \in SUBSET Int /\ IsFiniteSet(AxesWith(q, kind))
<1>1. AxesWith(q, kind) \in SUBSET (1 .. n)
  BY DEF AxesWith
<1>2. IsFiniteSet(1 .. n) /\ 1 .. n \in SUBSET Int
  BY FS_Interval
<1> QED BY <1>1, <1>2, FS_Subset

\* What is assigned goes to the bins of the slices.
LEMMA AssignedRight ==
  ASSUME IsAxes(axes), content = Untouched,
         NEW q, DOMAIN q = DOMAIN axes, \A i \in DOMAIN q : IsResolved(q[i]),
         NEW shape \in Seq(Nat), shape # <<>>, ~WriteRaises(q, shape)
  PROVE  WroteRight(axes, q, shape, Assigned(q, shape))
<1> DEFINE S == Slices(q)
           bins(i) == IF q[i].kind = "pick" THEN {q[i].bin}
                      ELSE WrittenBins(axes[i], q[i], shape[Number(S, i)])
           element(c) == [k \in DOMAIN shape |->
                            IF shape[k] = 1 THEN 0
                            ELSE LET i == Nth(S, k)
                                 IN Cardinality({b \in bins(i) : b < c[i]})]
           p == Addressed(q, shape)
           hit(c) == \A i \in DOMAIN q :
                       IF i \in S
                       THEN Position(axes[i], c[i]) \in p[i].start .. p[i].stop - 1
                       ELSE c[i] = BinAt(axes[i], Position(axes[i], q[i].bin))
           placed(c) == [k \in DOMAIN shape |->
                           LET i == Nth(S, k)
                           IN IF shape[k] = 1 THEN 0 ELSE Position(axes[i], c[i]) - p[i].start]
<1> SUFFICES ASSUME \A i \in AxesWith(q, "pick") : q[i].bin \in Bins(axes[i]),
                    NEW c \in Cells(axes)
             PROVE  Assigned(q, shape)[c] = IF \A i \in DOMAIN q : c[i] \in bins(i)
                                            THEN Element(element(c)) ELSE Original(c)
  BY DEF WroteRight
<1>1. PICK n \in Nat : DOMAIN q = 1 .. n /\ DOMAIN axes = 1 .. n
  BY DEF IsAxes
<1>2. S \in SUBSET Int /\ IsFiniteSet(S)
  BY <1>1, SlicesFinite DEF Slices
<1>3. \A i \in DOMAIN q : axes[i] \in AxisRecords /\ c[i] \in Bins(axes[i])
  BY DEF IsAxes, Cells
<1>4. \A i \in S : /\ i \in DOMAIN q /\ q[i].kind = "slice" /\ q[i] \in SliceItems
                   /\ q[i].start.kind # "call" /\ q[i].stop.kind # "call"
  BY ResolvedKinds DEF WriteRaises, Slices, AxesWith
<1>5. \A i \in S : p[i] = Positions(axes[i], q[i], shape[Number(S, i)])
  BY DEF Addressed
<1>6. Cardinality(S) = Len(shape)
  BY DEF WriteRaises
<1>7. \A i \in DOMAIN q : i \notin S => q[i].kind = "pick" /\ q[i].bin \in Bins(axes[i])
  BY ResolvedKinds DEF WriteRaises, Slices, AxesWith
<1>8. Assigned(q, shape)[c] = IF hit(c) THEN Element(placed(c)) ELSE Original(c)
  <2>1. DOMAIN content = Cells(axes) /\ content[c] = Original(c)
    BY DEF Untouched
  <2> QED BY <2>1 DEF Assigned
<1>9. \A i \in S : InItsPlace(axes[i], bins(i), c[i], p[i])
  <2> TAKE i \in S
  <2>1. PICK len : len = shape[Number(S, i)]
    OBVIOUS
  <2>2. bins(i) = WrittenBins(axes[i], q[i], len)
    BY <1>4, <2>1
  <2>3. p[i] = Positions(axes[i], q[i], len)
    BY <1>5, <2>1
  <2> HIDE DEF bins, p, S
  <2>4. InItsPlace(axes[i], WrittenBins(axes[i], q[i], len), c[i], p[i])
    BY <1>3, <1>4, <2>3, SliceWritten
  <2> QED BY <2>2, <2>4
<1>10. \A i \in DOMAIN q : i \notin S =>
         (c[i] = BinAt(axes[i], Position(axes[i], q[i].bin)) <=> c[i] \in bins(i))
  BY <1>3, <1>7, PickedBin
<1>11. hit(c) <=> \A i \in DOMAIN q : c[i] \in bins(i)
  <2> HIDE DEF bins, p
  <2> QED BY <1>9, <1>10, Zenon DEF InItsPlace
<1>12. ASSUME \A i \in DOMAIN q : c[i] \in bins(i) PROVE placed(c) = element(c)
  <2>1. ASSUME NEW k \in DOMAIN shape
        PROVE  Position(axes[Nth(S, k)], c[Nth(S, k)]) - p[Nth(S, k)].start
                 = Cardinality({b \in bins(Nth(S, k)) : b < c[Nth(S, k)]})
    <3>1. k \in 1 .. Cardinality(S)
      BY <1>6
    <3> HIDE DEF S
    <3>2. PICK i \in S : i = Nth(S, k)
      BY <1>2, <3>1, NthIs
    <3> HIDE DEF bins, p
    <3>3. Position(axes[i], c[i]) - p[i].start = Cardinality({b \in bins(i) : b < c[i]})
      BY <1>4, <1>9, <1>12, Zenon DEF InItsPlace
    <3> QED BY <3>2, <3>3
  <2> HIDE DEF bins, p, S
  <2> QED BY <2>1, Zenon
<1> HIDE DEF bins, hit, placed, element
<1> QED BY <1>8, <1>11, <1>12

\* What fits is not refused.
LEMMA FittingWritten ==
  ASSUME IsAxes(axes), NEW index, ~BadIndex(index),
         NEW q, q = Indexes(index), DOMAIN q = DOMAIN axes,
         \A i \in DOMAIN q : IsResolved(q[i]),
         NEW shape \in Seq(Nat), shape # <<>>, ~NotFitting(axes, q, shape)
  PROVE  Writable(index, shape)
<1> DEFINE S == Slices(q)
           len(i) == shape[Number(S, i)]
<1>1. /\ AxesWith(q, "pick") \cup S = DOMAIN q
      /\ \A i \in AxesWith(q, "pick") : q[i].bin \in Bins(axes[i])
      /\ Len(shape) = Cardinality(S)
      /\ \A i \in S :
           /\ q[i].step = NoStep
           /\ {q[i].start.kind, q[i].stop.kind} \subseteq {"none", "int"}
           /\ SetStart(q[i]) < SetStop(axes[i], q[i])
           /\ SetStop(axes[i], q[i]) <= axes[i].size
           /\ len(i) \in {1, RequestLen(axes[i], q[i]), ExpandedLen(axes[i], q[i])}
  BY DEF NotFitting
<1>2. \A i \in DOMAIN q : axes[i] \in AxisRecords
  BY DEF IsAxes
<1>3. \A i \in S : /\ i \in DOMAIN q /\ q[i] \in SliceItems
                   /\ q[i].start.kind # "call" /\ q[i].stop.kind # "call"
                   /\ q[i].step.kind = "none"
  <2> TAKE i \in S
  <2>1. i \in DOMAIN q /\ q[i].kind = "slice"
    BY DEF Slices, AxesWith
  <2>2. q[i] \in SliceItems
    BY <2>1, ResolvedKinds
  <2>3. q[i].step = NoStep /\ {q[i].start.kind, q[i].stop.kind} \subseteq {"none", "int"}
    BY <1>1
  <2>4. q[i].start.kind \in {"none", "int"} /\ q[i].stop.kind \in {"none", "int"}
    BY <2>3, Zenon
  <2>5. q[i].step.kind = "none"
    BY <2>3 DEF NoStep
  <2> QED BY <2>1, <2>2, <2>4, <2>5
<1>4. ~WriteRaises(q, shape)
  <2>1. AxesWith(q, "set") = {}
    BY <1>1 DEF AxesWith, Slices
  <2>2. \A i \in AxesWith(q, "pick") : ~NoPosition(axes[i], q[i].bin)
    BY <1>1, <1>2, PickedBin DEF AxesWith
  <2>3. \A i \in S : len(i) \in {RequestLen(axes[i], q[i]), ExpandedLen(axes[i], q[i]), 1}
    BY <1>1
  <2> QED BY <1>1, <1>3, <2>1, <2>2, <2>3 DEF WriteRaises
<1>5. ~CannotBroadcast(q, shape)
  <2>1. ASSUME NEW i \in S, len(i) # 1
        PROVE  len(i) = Available(axes[i], Addressed(q, shape)[i])
    <3>1. Addressed(q, shape)[i] = Positions(axes[i], q[i], len(i))
      BY DEF Addressed
    <3>2. len(i) \in {RequestLen(axes[i], q[i]), ExpandedLen(axes[i], q[i])}
      BY <1>1, <2>1
    <3> HIDE DEF len
    <3> QED BY <1>1, <1>2, <1>3, <3>1, <3>2, FittingSlice
  <2> QED BY <2>1 DEF CannotBroadcast
<1> QED BY <1>4, <1>5 DEF Writable

\* Indices mean the same as long as the axes are the same.
LEMMA SameIndexes ==
  ASSUME axes' = axes, NEW index
  PROVE  /\ Indexes(index)' = Indexes(index)
         /\ BadIndex(index)' <=> BadIndex(index)
BY Zenon DEF Indexes, BadIndex, Items

-----------------------------------------------------------------------------
(* Reading one axis *)

\* A command leads bin b to bin v of the axis that is left.
Leads(ax, cmd, b, v) == Target(ax, cmd, b) = v /\ Survives(ax, cmd, v)

\* The axis that a command leaves, and the one after the lists of categories.
Reduced(ax, r) == [ax EXCEPT !.size = NewSize(ax, Command(ax, r))]
Shrunk(ax, r) ==
  IF r.kind = "set" THEN [Reduced(ax, r) EXCEPT !.size = Len(r.bins)] ELSE Reduced(ax, r)

\* The bin of the reduced axis that bin v of the shrunk one comes from.
Source(ax, r, v) ==
  IF r.kind # "set" THEN v
  ELSE IF v < Len(r.bins) THEN r.bins[v + 1] ELSE Reduced(ax, r).size

\* The content of bin b goes to bin v.
Goes(ax, r, b, v) == Leads(ax, Command(ax, r), b, Source(ax, r, v))

\* What ReadRaises asks of an axis.
AxisReads(ax, r) ==
  CASE r.kind = "pick" -> r.bin \in Bins(ax)
    [] r.kind = "set" -> ~PickSetRaises(ax, r.bins)
    [] OTHER -> ~ReduceRaises(ax, Command(ax, r))

LEMMA CategoryOptions ==
  ASSUME NEW ax \in AxisRecords, IsMade(ax), ~IsOrdered(ax)
  PROVE  ~HasUnderflow(ax)
<1>1. PICK options : Accepts(ax.family, options) /\ ax = MakeAxis(ax.family, options, ax.size)
  BY DEF IsMade
<1>2. ax.options = Produced(ax.family, options)
  BY <1>1 DEF MakeAxis
<1>3. ax.family = "category"
  BY DEF IsOrdered
<1>4. "circular" \notin options
  BY <1>1, <1>3 DEF Accepts
<1>5. ax.options = IF "growth" \in options THEN {"growth"} ELSE {"overflow"}
  BY <1>2, <1>3, <1>4 DEF Produced
<1> QED BY <1>5 DEF HasUnderflow

LEMMA Resized ==
  ASSUME NEW ax \in AxisRecords, NEW n \in Nat, NEW new, new = [ax EXCEPT !.size = n]
  PROVE  /\ new \in AxisRecords /\ new.size = n
         /\ HasUnderflow(new) <=> HasUnderflow(ax)
         /\ HasOverflow(new) <=> HasOverflow(ax)
<1>1. new.size = n /\ new.options = ax.options
  BY DEF AxisRecords
<1>2. new \in AxisRecords
  BY DEF AxisRecords
<1> QED BY <1>1, <1>2 DEF HasUnderflow, HasOverflow

LEMMA SameSize ==
  ASSUME NEW ax \in AxisRecords
  PROVE  [ax EXCEPT !.size = ax.size] = ax
BY DEF AxisRecords

LEMMA ByOne ==
  ASSUME NEW x \in Int
  PROVE  x \div 1 = x /\ x % 1 = 0
OBVIOUS

\* Without a command every bin stays.
LEMMA BinsStay ==
  ASSUME NEW ax \in AxisRecords, IsMade(ax), NEW cmd, cmd = NoCommand(ax)
  PROVE  /\ NewSize(ax, cmd) = ax.size
         /\ \A b, v \in Bins(ax) : Leads(ax, cmd, b, v) <=> b = v
<1>1. PICK u, o \in {0, 1} :
        /\ u = Bit(HasUnderflow(ax)) /\ (u = 1 <=> HasUnderflow(ax))
        /\ o = Bit(HasOverflow(ax)) /\ (o = 1 <=> HasOverflow(ax))
        /\ ax.size \in Nat
        /\ FirstBin(ax) = -u
        /\ LastBin(ax) = ax.size - 1 + o
        /\ Bins(ax) = -u .. ax.size - 1 + o
        /\ Extent(ax) = ax.size + u + o
  BY AxisNumbers
<1>2. PICK n \in Nat : n = ax.size
  BY <1>1
<1>3. cmd.begin = -1 /\ cmd.end = n + 1 /\ cmd.merge = 1 /\ cmd.crop = FALSE
  BY <1>2 DEF NoCommand
<1>4. Begin(cmd) = 0
  BY <1>3 DEF Begin, Greatest
<1>5. Least(cmd.end, ax.size) = n
  BY <1>2, <1>3 DEF Least
<1>6. End(ax, cmd) = n
  BY <1>2, <1>3, <1>4, <1>5, ByOne DEF End
<1>7. NewSize(ax, cmd) = n
  BY <1>2, <1>3, <1>4, <1>6, ByOne DEF NewSize
<1>8. ASSUME NEW b \in Bins(ax), NEW v \in Bins(ax)
      PROVE  Leads(ax, cmd, b, v) <=> b = v
  <2>1. b \in -u .. n - 1 + o /\ v \in -u .. n - 1 + o /\ u \in {0, 1} /\ o \in {0, 1}
    BY <1>1, <1>2
  <2>2. v = -1 => HasUnderflow(ax)
    BY <1>1, <2>1
  <2>3. v = n => HasOverflow(ax)
    BY <1>1, <2>1
  <2>4. Survives(ax, cmd, v)
    BY <1>3, <1>7, <2>2, <2>3 DEF Survives
  <2>5. Target(ax, cmd, b) = b
    <3>1. CASE b < 0
      <4>1. b = -1 /\ u = 1
        BY <2>1, <3>1
      <4>2. IsOrdered(ax)
        BY <1>1, <4>1, CategoryOptions
      <4> QED BY <1>4, <4>1, <4>2 DEF Target
    <3>2. CASE b >= 0
      <4>1. b \in Nat /\ b <= n
        BY <2>1, <3>2
      <4>2. b - 0 = b /\ b \div 1 = b
        BY <4>1, ByOne
      <4> QED BY <1>3, <1>4, <1>7, <4>1, <4>2 DEF Target, Least
    <3> QED BY <2>1, <3>1, <3>2
  <2> QED BY <2>4, <2>5 DEF Leads
<1> QED BY <1>2, <1>7, <1>8

\* An axis of which one bin is picked keeps its bins.
LEMMA PickGoes ==
  ASSUME NEW ax \in AxisRecords, IsMade(ax), NEW r, r.kind = "pick"
  PROVE  /\ Shrunk(ax, r) = ax
         /\ \A b, v \in Bins(ax) : Goes(ax, r, b, v) <=> b = v
<1>1. Command(ax, r) = NoCommand(ax)
  BY DEF Command, IsSlice
<1>2. Reduced(ax, r) = ax
  BY <1>1, BinsStay, SameSize DEF Reduced
<1>3. Shrunk(ax, r) = ax
  BY <1>2 DEF Shrunk
<1>4. ASSUME NEW b \in Bins(ax), NEW v \in Bins(ax) PROVE Goes(ax, r, b, v) <=> b = v
  <2>1. Source(ax, r, v) = v
    BY DEF Source
  <2>2. Leads(ax, NoCommand(ax), b, v) <=> b = v
    BY BinsStay
  <2> QED BY <1>1, <2>1, <2>2 DEF Goes
<1> QED BY <1>3, <1>4

\* A list of categories is answered bin by bin, the overflow bin behind them.
LEMMA SetGoes ==
  ASSUME NEW ax \in AxisRecords, IsMade(ax), NEW r, r.kind = "set", r.bins \in Seq(Int),
         AxisReads(ax, r), NEW v \in Bins(Shrunk(ax, r))
  PROVE  /\ Source(ax, r, v) \in Bins(Reduced(ax, r))
         /\ \A b \in Bins(ax) : Goes(ax, r, b, v) <=> b \in ChosenBins(ax, r.bins, v)
<1>1. Command(ax, r) = NoCommand(ax)
  BY DEF Command, IsSlice
<1>2. Reduced(ax, r) = ax
  BY <1>1, BinsStay, SameSize DEF Reduced
<1>3. PICK m \in Nat : m = Len(r.bins) /\ DOMAIN r.bins = 1 .. m
  OBVIOUS
<1>4. ~IsOrdered(ax) /\ \A j \in 1 .. m : r.bins[j] \in 0 .. ax.size - 1
  BY <1>3 DEF AxisReads, PickSetRaises
<1>5. ~HasUnderflow(ax)
  BY <1>4, CategoryOptions
<1>6. PICK new : new = [ax EXCEPT !.size = m]
  OBVIOUS
<1>7. Shrunk(ax, r) = new
  BY <1>2, <1>3, <1>6 DEF Shrunk
<1>8. /\ new \in AxisRecords /\ new.size = m
      /\ HasUnderflow(new) <=> HasUnderflow(ax)
      /\ HasOverflow(new) <=> HasOverflow(ax)
  BY <1>6, Resized
<1>9. PICK o \in {0, 1} : o = 1 <=> HasOverflow(ax)
  OBVIOUS
<1>10. PICK n \in Nat : n = ax.size
  BY DEF AxisRecords
<1>11. Bins(ax) = 0 .. n - 1 + o
  BY <1>5, <1>9, <1>10 DEF Bins, FirstBin, LastBin, Bit
<1>12. Bins(new) = 0 .. m - 1 + o
  BY <1>5, <1>8, <1>9 DEF Bins, FirstBin, LastBin, Bit
<1>13. v \in 0 .. m - 1 + o /\ o \in {0, 1}
  BY <1>7, <1>9, <1>12
<1>14. Source(ax, r, v) = IF v < m THEN r.bins[v + 1] ELSE n
  BY <1>2, <1>3, <1>10 DEF Source
<1>15. CASE v < m
  <2>1. v + 1 \in 1 .. m
    BY <1>13, <1>15
  <2>2. PICK x \in 0 .. n - 1 : x = r.bins[v + 1]
    BY <1>4, <1>10, <2>1
  <2>3. x \in Bins(ax)
    BY <1>9, <1>11, <2>2
  <2>4. Source(ax, r, v) = x
    BY <1>14, <1>15, <2>2
  <2>5. ASSUME NEW b \in Bins(ax) PROVE Goes(ax, r, b, v) <=> b \in ChosenBins(ax, r.bins, v)
    <3>1. Goes(ax, r, b, v) <=> b = x
      BY <1>1, <2>3, <2>4, BinsStay DEF Goes
    <3>2. b \in ChosenBins(ax, r.bins, v) <=> IF b = n THEN v = m ELSE v < m /\ r.bins[v + 1] = b
      BY <1>3, <1>10 DEF ChosenBins
    <3>3. v # m /\ x # n
      BY <1>13, <1>15, <2>2
    <3> QED BY <1>15, <2>2, <3>1, <3>2, <3>3
  <2> QED BY <1>2, <2>3, <2>4, <2>5
<1>16. CASE ~(v < m)
  <2>1. v = m /\ o = 1
    BY <1>13, <1>16
  <2>2. n \in Bins(ax)
    BY <1>11, <2>1
  <2>3. Source(ax, r, v) = n
    BY <1>14, <1>16
  <2>4. ASSUME NEW b \in Bins(ax) PROVE Goes(ax, r, b, v) <=> b \in ChosenBins(ax, r.bins, v)
    <3>1. Goes(ax, r, b, v) <=> b = n
      BY <1>1, <2>2, <2>3, BinsStay DEF Goes
    <3>2. b \in ChosenBins(ax, r.bins, v) <=> IF b = n THEN v = m ELSE v < m /\ r.bins[v + 1] = b
      BY <1>3, <1>10 DEF ChosenBins
    <3> QED BY <1>16, <2>1, <3>1, <3>2
  <2> QED BY <1>2, <2>2, <2>3, <2>4
<1> QED BY <1>15, <1>16

LEMMA NamedDivision ==
  ASSUME NEW n \in Int, NEW t \in Int, t > 0,
         NEW q \in Int, q = n \div t, NEW m \in Int, m = n % t
  PROVE  n = t * q + m
OBVIOUS

\* Quotient and remainder are given names: the provers know what they are only
\* of names.
LEMMA Division ==
  ASSUME NEW n \in Int, NEW t \in Nat \ {0}
  PROVE  \E q, m \in Int : /\ q = n \div t /\ m = n % t
                          /\ n = t * q + m /\ 0 <= m /\ m < t
<1>1. PICK q \in Int : q = n \div t
  OBVIOUS
<1>2. PICK m \in Int : m = n % t /\ m \in 0 .. t - 1
  OBVIOUS
<1>3. n = t * q + m
  BY <1>1, <1>2, NamedDivision
<1>4. 0 <= m /\ m < t
  BY <1>2
<1> QED BY <1>1, <1>2, <1>3, <1>4, Zenon

LEMMA Step ==
  ASSUME NEW t \in Nat \ {0}, NEW k \in Int, NEW q \in Int, k < q
  PROVE  t * k + t <= t * q
<1>1. PICK d \in Nat : q = k + 1 + d
  <2>1. q - k - 1 \in Nat /\ q = k + 1 + (q - k - 1)
    OBVIOUS
  <2> QED BY <2>1
<1>2. t * q = t * k + t + t * d
  BY <1>1
<1>3. t * d \in Nat /\ t * k \in Int
  OBVIOUS
<1> QED BY <1>2, <1>3

\* A number is divided into a quotient below q just if it is below q times the divisor.
LEMMA QuotientBelow ==
  ASSUME NEW t \in Nat \ {0}, NEW i \in Int, NEW q \in Int
  PROVE  i \div t < q <=> i < t * q
<1>1. PICK k \in Int, m \in Int : k = i \div t /\ i = t * k + m /\ 0 <= m /\ m < t
  BY Division
<1>2. PICK a \in Int, b \in Int : a = t * k /\ b = t * q
  OBVIOUS
<1>3. k < q => a + t <= b
  BY <1>2, Step
<1>4. q < k => b + t <= a
  BY <1>2, Step
<1>5. q = k => a = b
  BY <1>2
<1>6. i = a + m
  BY <1>1, <1>2
<1>7. k < q <=> i < b
  BY <1>1, <1>2, <1>3, <1>4, <1>5, <1>6
<1> QED BY <1>1, <1>2, <1>7, Zenon

LEMMA QuotientOfProduct ==
  ASSUME NEW t \in Nat \ {0}, NEW q \in Int
  PROVE  (t * q) \div t = q
<1>1. PICK i \in Int : i = t * q
  OBVIOUS
<1>2. PICK k \in Int, m \in Int : k = i \div t /\ i = t * k + m /\ 0 <= m /\ m < t
  BY Division
<1>3. PICK a \in Int : a = t * k
  OBVIOUS
<1>4. k < q => a + t <= i
  BY <1>1, <1>3, Step
<1>5. q < k => i + t <= a
  BY <1>1, <1>3, Step
<1>6. i = a + m
  BY <1>2, <1>3
<1>7. k = q
  BY <1>2, <1>3, <1>4, <1>5, <1>6
<1> QED BY <1>1, <1>2, <1>7

\* A command in numbers: the first bin, the end, and how many bins are left.
InNumbers(ax, cmd, a, e, n, q) ==
  /\ a = Begin(cmd) /\ e = Least(cmd.end, ax.size) /\ n = cmd.merge
  /\ q = (e - a) \div n /\ q = NewSize(ax, cmd)

LEMMA CommandNumbers ==
  ASSUME NEW ax \in AxisRecords, NEW cmd,
         cmd.begin \in Int, cmd.end \in Int, cmd.merge \in Nat \ {0}
  PROVE  \E a \in Nat, e \in Int, n \in Nat \ {0}, q \in Int : InNumbers(ax, cmd, a, e, n, q)
<1>1. ax.size \in Nat
  BY DEF AxisRecords
<1>2. PICK a \in Nat : a = Begin(cmd)
  BY DEF Begin, Greatest
<1>3. PICK e \in Int : e = Least(cmd.end, ax.size)
  BY <1>1 DEF Least
<1>4. PICK n \in Nat \ {0} : n = cmd.merge
  OBVIOUS
<1>5. PICK d \in Int : d = e - a
  OBVIOUS
<1>6. PICK q \in Int, m \in Int : q = d \div n /\ m = d % n /\ d = n * q + m
  BY Division
<1>7. PICK f \in Int : f = n * q
  OBVIOUS
<1>8. End(ax, cmd) - Begin(cmd) = f
  <2>1. End(ax, cmd) = e - m
    BY <1>2, <1>3, <1>4, <1>5, <1>6 DEF End
  <2>2. d = f + m
    BY <1>6, <1>7
  <2>3. a \in Int /\ e \in Int /\ f \in Int /\ m \in Int
    BY <1>2, <1>3, <1>6, <1>7
  <2>4. (e - m) - a = f
    BY <1>5, <2>2, <2>3
  <2> QED BY <1>2, <2>1, <2>4
<1>9. NewSize(ax, cmd) = q
  BY <1>4, <1>7, <1>8, QuotientOfProduct DEF NewSize
<1> QED BY <1>2, <1>3, <1>4, <1>5, <1>6, <1>9 DEF InNumbers

\* Where the bins go.
LEMMA TargetInNumbers ==
  ASSUME NEW ax \in AxisRecords, NEW cmd, NEW a \in Nat, NEW e \in Int,
         NEW n \in Nat \ {0}, NEW q \in Nat, InNumbers(ax, cmd, a, e, n, q), NEW b \in Int
  PROVE  /\ b < a => Target(ax, cmd, b) = IF IsOrdered(ax) THEN -1 ELSE q
         /\ b >= a /\ b - a < n * q => /\ Target(ax, cmd, b) = (b - a) \div n
                                       /\ (b - a) \div n \in 0 .. q - 1
         /\ b >= a /\ ~(b - a < n * q) => Target(ax, cmd, b) = q
<1>1. a = Begin(cmd) /\ n = cmd.merge /\ q = NewSize(ax, cmd)
  BY DEF InNumbers
<1>2. PICK i \in Int : i = b - a
  OBVIOUS
<1>3. PICK k \in Int, m \in Int : k = i \div n /\ i = n * k + m /\ 0 <= m /\ m < n
  BY Division
<1>4. k < q <=> i < n * q
  BY <1>3, QuotientBelow
<1>5. i >= 0 => k >= 0
  <2>1. k < 0 <=> i < n * 0
    BY <1>3, QuotientBelow
  <2>2. n * 0 = 0
    OBVIOUS
  <2> QED BY <2>1, <2>2
<1>6. Target(ax, cmd, b) = IF i < 0 THEN IF IsOrdered(ax) THEN -1 ELSE q
                           ELSE Least(k, q)
  BY <1>1, <1>2, <1>3 DEF Target
<1>7. CASE b < a
  <2>1. i < 0
    BY <1>2, <1>7
  <2> QED BY <1>6, <1>7, <2>1
<1>8. CASE b >= a /\ i < n * q
  <2>1. i >= 0 /\ k \in 0 .. q - 1
    BY <1>2, <1>4, <1>5, <1>8
  <2>2. Target(ax, cmd, b) = k
    BY <1>6, <2>1 DEF Least
  <2> QED BY <1>2, <1>3, <1>8, <2>1, <2>2
<1>9. CASE b >= a /\ ~(i < n * q)
  <2>1. i >= 0 /\ ~(k < q)
    BY <1>2, <1>4, <1>9
  <2>2. Target(ax, cmd, b) = q
    BY <1>6, <2>1 DEF Least
  <2> QED BY <1>2, <1>9, <2>2
<1> QED BY <1>2, <1>7, <1>8, <1>9

LEMMA LimitType ==
  ASSUME NEW ax \in AxisRecords, NEW x \in Limits, NEW default \in Int
  PROVE  Limit(x, ax, default) \in Int
<1>1. ax.size \in Int
  BY DEF AxisRecords
<1>2. CASE x = None
  BY <1>2 DEF None, Limit
<1>3. CASE x \in [kind : {"int"}, n : Nat]
  BY <1>3 DEF Limit
<1>4. CASE x \in Locators
  <2>1. Called(x, ax) \in Int
    BY <1>1, <1>4 DEF Locators, Called
  <2> QED BY <1>4, <2>1 DEF Locators, Limit
<1> QED BY <1>2, <1>3, <1>4 DEF Limits

LEMMA StepOfSlice ==
  ASSUME NEW s \in SliceItems
  PROVE  /\ s.kind = "slice" /\ s.start \in Limits /\ s.stop \in Limits
         /\ s.step.kind \in {"none", "sum", "rebin"}
         /\ s.step.kind = "rebin" => s.step.n \in Nat \ {0}
<1>1. s.step \in {NoStep, SumStep} \cup Rebins
  BY DEF SliceItems
<1> QED BY <1>1 DEF SliceItems, NoStep, SumStep, Rebins

LEMMA SliceOfAll == All.start = None /\ All.stop = None /\ All.step = NoStep /\ ~Sums(All)
BY DEF All, Slice, Sums, NoStep

\* The command of a slice that keeps its bins.
LEMMA KeptCommand ==
  ASSUME NEW ax \in AxisRecords, NEW s \in SliceItems, ~Sums(s),
         NEW cmd, cmd = Command(ax, s)
  PROVE  /\ cmd.begin \in Int /\ cmd.end \in Int /\ cmd.merge \in Nat \ {0}
         /\ cmd.crop = FALSE
         /\ cmd.merge = IF s.step.kind = "rebin" THEN s.step.n ELSE 1
         /\ Begin(cmd) = Greatest(Limit(s.start, ax, 0), 0)
         /\ Least(cmd.end, ax.size) = Least(Limit(s.stop, ax, ax.size), ax.size)
<1>1. PICK n \in Nat : n = ax.size
  BY DEF AxisRecords
<1>2. PICK u, o \in {0, 1} :
        /\ u = Bit(HasUnderflow(ax)) /\ (u = 1 <=> HasUnderflow(ax))
        /\ o = Bit(HasOverflow(ax)) /\ (o = 1 <=> HasOverflow(ax))
        /\ ax.size \in Nat
        /\ FirstBin(ax) = -u
        /\ LastBin(ax) = ax.size - 1 + o
        /\ Bins(ax) = -u .. ax.size - 1 + o
        /\ Extent(ax) = ax.size + u + o
  BY AxisNumbers
<1>3. CASE s = All
  <2>1. cmd = NoCommand(ax)
    BY <1>3 DEF Command
  <2>2. cmd.begin = -1 /\ cmd.end = n + 1 /\ cmd.merge = 1 /\ cmd.crop = FALSE
    BY <1>1, <2>1 DEF NoCommand
  <2>3. s.start = None /\ s.stop = None /\ s.step = NoStep
    BY <1>3, SliceOfAll
  <2>4. Limit(s.start, ax, 0) = 0 /\ Limit(s.stop, ax, ax.size) = n
    BY <1>1, <2>3 DEF Limit, None
  <2>5. s.step.kind # "rebin"
    BY <2>3 DEF NoStep
  <2>6. Begin(cmd) = 0 /\ Greatest(0, 0) = 0
    BY <2>2 DEF Begin, Greatest
  <2>7. Least(n + 1, n) = n /\ Least(n, n) = n
    BY DEF Least
  <2> QED BY <1>1, <2>2, <2>4, <2>5, <2>6, <2>7
<1>4. CASE s # All
  <2>1. IsSlice(s)
    BY StepOfSlice DEF IsSlice
  <2>2. cmd = [begin |-> Start(ax, s), end |-> Stop(ax, s),
               merge |-> IF s.step.kind = "rebin" THEN s.step.n ELSE 1,
               crop |-> Sums(s)]
    BY <1>4, <2>1 DEF Command
  <2>3. /\ cmd.begin = Start(ax, s) /\ cmd.end = Stop(ax, s)
        /\ cmd.merge = IF s.step.kind = "rebin" THEN s.step.n ELSE 1
    BY <2>2
  <2>4. Sums(s) = FALSE
    BY Zenon DEF Sums
  <2>5. cmd.crop = Sums(s)
    BY <2>2
  <2>6. cmd.merge \in Nat \ {0}
    BY <2>3, StepOfSlice
  <2>7. s.start \in Limits /\ s.stop \in Limits
    BY StepOfSlice
  <2>8. PICK w \in {0, 1} : w = Bit(HasOverflow(ax) /\ (IsOrdered(ax) \/ OpenSlice(s)))
    BY DEF Bit
  <2>9. cmd.begin = Limit(s.start, ax, -u) /\ cmd.end = Limit(s.stop, ax, n + w)
    BY <1>1, <1>2, <2>3, <2>8 DEF Start, Stop
  <2>10. cmd.begin \in Int /\ cmd.end \in Int
    <3>1. -u \in Int /\ n + w \in Int
      BY <1>1, <1>2, <2>8
    <3> QED BY <2>7, <2>9, <3>1, LimitType
  <2>11. Begin(cmd) = Greatest(Limit(s.start, ax, 0), 0)
    <3>1. CASE s.start.kind = "none"
      <4>1. cmd.begin = -u /\ Limit(s.start, ax, 0) = 0
        BY <2>9, <3>1 DEF Limit
      <4> QED BY <1>2, <4>1 DEF Begin, Greatest
    <3>2. CASE s.start.kind # "none"
      <4>1. cmd.begin = Limit(s.start, ax, 0)
        BY <2>9, <3>2 DEF Limit
      <4> QED BY <4>1 DEF Begin
    <3> QED BY <3>1, <3>2
  <2>12. Least(cmd.end, ax.size) = Least(Limit(s.stop, ax, ax.size), ax.size)
    <3>1. CASE s.stop.kind = "none"
      <4>1. cmd.end = n + w /\ Limit(s.stop, ax, n) = n
        BY <2>9, <3>1 DEF Limit
      <4>2. Least(n + w, n) = n /\ Least(n, n) = n
        BY <2>8 DEF Least
      <4> QED BY <1>1, <4>1, <4>2
    <3>2. CASE s.stop.kind # "none"
      <4>1. cmd.end = Limit(s.stop, ax, ax.size)
        BY <2>9, <3>2 DEF Limit
      <4> QED BY <4>1
    <3> QED BY <3>1, <3>2
  <2> QED BY <2>3, <2>4, <2>5, <2>6, <2>10, <2>11, <2>12
<1> QED BY <1>3, <1>4

\* A slice keeps its bins, merged, and what it cuts off in the flow bins.
LEMMA KeptGoes ==
  ASSUME NEW ax \in AxisRecords, NEW s \in SliceItems, ~Sums(s), AxisReads(ax, s),
         NEW v \in Bins(Shrunk(ax, s)), NEW b \in Bins(ax)
  PROVE  Goes(ax, s, b, v) <=> b \in KeptBins(ax, s, v)
<1>1. PICK u, o \in {0, 1} :
        /\ u = Bit(HasUnderflow(ax)) /\ (u = 1 <=> HasUnderflow(ax))
        /\ o = Bit(HasOverflow(ax)) /\ (o = 1 <=> HasOverflow(ax))
        /\ ax.size \in Nat
        /\ FirstBin(ax) = -u
        /\ LastBin(ax) = ax.size - 1 + o
        /\ Bins(ax) = -u .. ax.size - 1 + o
        /\ Extent(ax) = ax.size + u + o
  BY AxisNumbers
<1>2. PICK cmd : cmd = Command(ax, s)
  OBVIOUS
<1>3. /\ cmd.begin \in Int /\ cmd.end \in Int /\ cmd.merge \in Nat \ {0}
      /\ cmd.crop = FALSE
      /\ cmd.merge = IF s.step.kind = "rebin" THEN s.step.n ELSE 1
      /\ Begin(cmd) = Greatest(Limit(s.start, ax, 0), 0)
      /\ Least(cmd.end, ax.size) = Least(Limit(s.stop, ax, ax.size), ax.size)
  BY <1>2, KeptCommand
<1>4. PICK a \in Nat, e \in Int, n \in Nat \ {0}, q \in Int : InNumbers(ax, cmd, a, e, n, q)
  BY <1>3, CommandNumbers
<1>5. /\ a = Greatest(Limit(s.start, ax, 0), 0)
      /\ e = Least(Limit(s.stop, ax, ax.size), ax.size)
      /\ n = IF s.step.kind = "rebin" THEN s.step.n ELSE 1
      /\ q = (e - a) \div n /\ q = NewSize(ax, cmd)
  BY <1>3, <1>4 DEF InNumbers
<1>6. q \in Nat
  <2>1. s.kind = "slice"
    BY StepOfSlice
  <2>2. ~(NewSize(ax, cmd) < 0)
    BY <1>2, <2>1 DEF AxisReads, ReduceRaises
  <2> QED BY <1>4, <1>5, <2>2
<1>7. PICK new : new = [ax EXCEPT !.size = q]
  OBVIOUS
<1>8. Shrunk(ax, s) = new
  BY <1>2, <1>5, <1>7, StepOfSlice DEF Shrunk, Reduced
<1>9. /\ new \in AxisRecords /\ new.size = q
      /\ HasUnderflow(new) <=> HasUnderflow(ax)
      /\ HasOverflow(new) <=> HasOverflow(ax)
  BY <1>6, <1>7, Resized
<1>10. v \in -u .. q - 1 + o
  <2>1. Bins(new) = -u .. q - 1 + o
    BY <1>1, <1>9 DEF Bins, FirstBin, LastBin, Bit
  <2> QED BY <1>8, <2>1
<1>11. Survives(ax, cmd, v)
  <2>1. v = -1 => u = 1
    BY <1>1, <1>6, <1>10
  <2>2. v = q => o = 1
    BY <1>1, <1>6, <1>10
  <2> QED BY <1>1, <1>3, <1>5, <2>1, <2>2 DEF Survives
<1>12. Goes(ax, s, b, v) <=> Target(ax, cmd, b) = v
  BY <1>2, <1>11, StepOfSlice DEF Goes, Leads, Source
<1>13. b \in Int
  BY <1>1
<1>14. /\ b < a => Target(ax, cmd, b) = IF IsOrdered(ax) THEN -1 ELSE q
       /\ b >= a /\ b - a < n * q => /\ Target(ax, cmd, b) = (b - a) \div n
                                     /\ (b - a) \div n \in 0 .. q - 1
       /\ b >= a /\ ~(b - a < n * q) => Target(ax, cmd, b) = q
  BY <1>4, <1>6, <1>13, TargetInNumbers
<1>15. b \in KeptBins(ax, s, v) <=>
         IF b \in a .. a + q * n - 1 THEN (b - a) \div n = v
         ELSE IF b < a /\ IsOrdered(ax) THEN v = -1 ELSE v = q
  BY <1>5 DEF KeptBins
<1>16. PICK f \in Int : f = n * q /\ f = q * n
  BY <1>4
<1>17. b \in a .. a + q * n - 1 <=> b >= a /\ b - a < n * q
  <2>1. b \in a .. a + f - 1 <=> b >= a /\ b - a < f
    BY <1>4, <1>13, <1>16
  <2> QED BY <1>16, <2>1, Zenon
<1>18. CASE b < a
  <2>1. ~(b >= a)
    BY <1>4, <1>13, <1>18
  <2>2. b \in KeptBins(ax, s, v) <=> v = IF IsOrdered(ax) THEN -1 ELSE q
    BY <1>15, <1>17, <1>18, <2>1, Zenon
  <2> QED BY <1>12, <1>14, <1>18, <2>2, Zenon
<1>19. CASE b >= a /\ b - a < n * q
  <2>1. b \in KeptBins(ax, s, v) <=> (b - a) \div n = v
    BY <1>15, <1>17, <1>19, Zenon
  <2> QED BY <1>12, <1>14, <1>19, <2>1, Zenon
<1>20. CASE b >= a /\ ~(b - a < n * q)
  <2>1. ~(b < a)
    BY <1>4, <1>13, <1>20
  <2>2. b \in KeptBins(ax, s, v) <=> v = q
    BY <1>15, <1>17, <1>20, <2>1, Zenon
  <2> QED BY <1>12, <1>14, <1>20, <2>2, Zenon
<1>21. b < a \/ b >= a
  BY <1>4, <1>13
<1> QED BY <1>18, <1>19, <1>20, <1>21, Zenon

\* The command of a sum with limits, and the bins it stands for.
LEMMA SummedCommand ==
  ASSUME NEW ax \in AxisRecords, NEW s \in SliceItems, Sums(s), ~OpenSlice(s),
         ~IsOrdered(ax) => Limit(s.stop, ax, ax.size) <= ax.size,
         NEW cmd, cmd = Command(ax, s)
  PROVE  /\ cmd.begin \in Int /\ cmd.end \in Int /\ cmd.merge = 1 /\ cmd.crop = TRUE
         /\ ~IsOrdered(ax) => cmd.end <= ax.size
         /\ \A b \in Bins(ax) : b \in SummedBins(ax, s) <=> cmd.begin <= b /\ b < cmd.end
<1>1. PICK n \in Nat : n = ax.size
  BY DEF AxisRecords
<1>2. PICK u, o \in {0, 1} :
        /\ u = Bit(HasUnderflow(ax)) /\ (u = 1 <=> HasUnderflow(ax))
        /\ o = Bit(HasOverflow(ax)) /\ (o = 1 <=> HasOverflow(ax))
        /\ ax.size \in Nat
        /\ FirstBin(ax) = -u
        /\ LastBin(ax) = ax.size - 1 + o
        /\ Bins(ax) = -u .. ax.size - 1 + o
        /\ Extent(ax) = ax.size + u + o
  BY AxisNumbers
<1>3. s.step.kind = "sum" /\ IsSlice(s) /\ s # All
  BY SliceOfAll DEF Sums
<1>4. cmd = [begin |-> Start(ax, s), end |-> Stop(ax, s),
             merge |-> IF s.step.kind = "rebin" THEN s.step.n ELSE 1,
             crop |-> Sums(s)]
  BY <1>3 DEF Command
<1>5. cmd.begin = Start(ax, s) /\ cmd.end = Stop(ax, s) /\ cmd.merge = 1
  BY <1>3, <1>4
<1>6. cmd.crop = TRUE
  <2>1. cmd.crop = Sums(s)
    BY <1>4
  <2>2. Sums(s) = TRUE
    BY <1>3, Zenon DEF Sums
  <2> QED BY <2>1, <2>2
<1>7. s.start \in Limits /\ s.stop \in Limits
  BY StepOfSlice
<1>8. PICK w \in {0, 1} : /\ w = Bit(HasOverflow(ax) /\ (IsOrdered(ax) \/ OpenSlice(s)))
                          /\ IsOrdered(ax) => w = o
                          /\ ~IsOrdered(ax) => w = 0
  BY <1>2 DEF Bit
<1>9. cmd.begin = Limit(s.start, ax, -u) /\ cmd.end = Limit(s.stop, ax, n + w)
  BY <1>1, <1>2, <1>5, <1>8 DEF Start, Stop
<1>10. cmd.begin \in Int /\ cmd.end \in Int
  <2>1. -u \in Int /\ n + w \in Int
    BY <1>1, <1>2, <1>8
  <2> QED BY <1>7, <1>9, <2>1, LimitType
<1>11. \A x \in Limits : x = None <=> x.kind = "none"
  BY DEF Limits, None, Locators
<1>12. /\ s.start = None => cmd.begin = -u
       /\ s.start # None => cmd.begin = Limit(s.start, ax, 0)
  BY <1>7, <1>9, <1>11 DEF Limit
<1>13. /\ s.stop = None => cmd.end = n + w /\ Limit(s.stop, ax, ax.size) = n
       /\ s.stop # None => cmd.end = Limit(s.stop, ax, 0) /\ cmd.end = Limit(s.stop, ax, ax.size)
  BY <1>1, <1>7, <1>9, <1>11 DEF Limit
<1>14. ~IsOrdered(ax) => cmd.end <= n
  BY <1>1, <1>8, <1>13
<1>15. ASSUME NEW b \in Bins(ax)
       PROVE  b \in SummedBins(ax, s) <=> cmd.begin <= b /\ b < cmd.end
  <2>1. b \in -u .. n - 1 + o
    BY <1>1, <1>2
  <2>2. b \in SummedBins(ax, s) <=>
          /\ s.start = None \/ b >= Limit(s.start, ax, 0)
          /\ s.stop = None \/ b < Limit(s.stop, ax, 0)
          /\ IsOrdered(ax) \/ b < n
    BY <1>1 DEF SummedBins
  <2>3. s.start = None \/ b >= Limit(s.start, ax, 0) <=> cmd.begin <= b
    BY <1>2, <1>10, <1>12, <2>1
  <2>4. (s.stop = None \/ b < Limit(s.stop, ax, 0)) /\ (IsOrdered(ax) \/ b < n) <=> b < cmd.end
    <3>1. CASE s.stop = None
      BY <1>2, <1>8, <1>13, <2>1, <3>1
    <3>2. CASE s.stop # None
      <4>1. PICK x \in Int : x = cmd.end /\ x = Limit(s.stop, ax, 0)
        BY <1>10, <1>13, <3>2
      <4>2. ~IsOrdered(ax) /\ b < x => b < n
        BY <1>1, <1>2, <1>14, <2>1, <4>1
      <4> QED BY <3>2, <4>1, <4>2
    <3> QED BY <3>1, <3>2
  <2> QED BY <2>2, <2>3, <2>4
<1> QED BY <1>1, <1>5, <1>6, <1>10, <1>14, <1>15

\* A sum adds up the bins in its limits.
LEMMA SumGoes ==
  ASSUME NEW ax \in AxisRecords, IsMade(ax), NEW s \in SliceItems, Sums(s), AxisReads(ax, s),
         ~IsOrdered(ax) => Limit(s.stop, ax, ax.size) <= ax.size, NEW b \in Bins(ax)
  PROVE  (\E v \in Bins(Shrunk(ax, s)) : Goes(ax, s, b, v)) <=> b \in SummedBins(ax, s)
<1>1. PICK u, o \in {0, 1} :
        /\ u = Bit(HasUnderflow(ax)) /\ (u = 1 <=> HasUnderflow(ax))
        /\ o = Bit(HasOverflow(ax)) /\ (o = 1 <=> HasOverflow(ax))
        /\ ax.size \in Nat
        /\ FirstBin(ax) = -u
        /\ LastBin(ax) = ax.size - 1 + o
        /\ Bins(ax) = -u .. ax.size - 1 + o
        /\ Extent(ax) = ax.size + u + o
  BY AxisNumbers
<1>2. s.kind = "slice"
  BY StepOfSlice
<1>3. CASE OpenSlice(s)
  <2>1. Command(ax, s) = NoCommand(ax)
    BY <1>3 DEF Command
  <2>2. Shrunk(ax, s) = ax
    BY <1>2, <2>1, BinsStay, SameSize DEF Reduced, Shrunk
  <2>3. \A v \in Bins(ax) : Goes(ax, s, b, v) <=> b = v
    BY <1>2, <2>1, BinsStay DEF Goes, Source
  <2>4. b \in SummedBins(ax, s)
    BY <1>3 DEF SummedBins, OpenSlice
  <2> QED BY <2>2, <2>3, <2>4
<1>4. CASE ~OpenSlice(s)
  <2>1. PICK cmd : cmd = Command(ax, s)
    OBVIOUS
  <2>2. /\ cmd.begin \in Int /\ cmd.end \in Int /\ cmd.merge = 1 /\ cmd.crop = TRUE
        /\ ~IsOrdered(ax) => cmd.end <= ax.size
        /\ b \in SummedBins(ax, s) <=> cmd.begin <= b /\ b < cmd.end
    BY <1>4, <2>1, SummedCommand
  <2>3. PICK a \in Nat, e \in Int, n \in Nat \ {0}, q \in Int : InNumbers(ax, cmd, a, e, n, q)
    BY <2>2, CommandNumbers
  <2>4. PICK m \in Nat : m = ax.size
    BY <1>1
  <2>5. PICK begin \in Int, end \in Int : begin = cmd.begin /\ end = cmd.end
    BY <2>2
  <2>6. /\ a = IF begin < 0 THEN 0 ELSE begin
        /\ e = IF end < m THEN end ELSE m
        /\ n = 1
    BY <2>2, <2>3, <2>4, <2>5 DEF InNumbers, Begin, Greatest, Least
  <2>7. q = e - a /\ q = NewSize(ax, cmd)
    BY <2>3, <2>6, ByOne DEF InNumbers
  <2>8. q \in Nat
    <3>1. ~(NewSize(ax, cmd) < 0)
      BY <1>2, <2>1 DEF AxisReads, ReduceRaises
    <3> QED BY <2>3, <2>7, <3>1
  <2>9. PICK new : new = [ax EXCEPT !.size = q]
    OBVIOUS
  <2>10. Shrunk(ax, s) = new
    BY <1>2, <2>1, <2>7, <2>9 DEF Shrunk, Reduced
  <2>11. Bins(new) = -u .. q - 1 + o
    <3>1. /\ new \in AxisRecords /\ new.size = q
          /\ HasUnderflow(new) <=> HasUnderflow(ax)
          /\ HasOverflow(new) <=> HasOverflow(ax)
      BY <2>8, <2>9, Resized
    <3> QED BY <1>1, <3>1 DEF Bins, FirstBin, LastBin, Bit
  <2>12. \A v \in Int : Goes(ax, s, b, v) <=> Target(ax, cmd, b) = v /\ Survives(ax, cmd, v)
    BY <1>2, <2>1 DEF Goes, Leads, Source
  <2>13. \A v \in Int : Survives(ax, cmd, v) <=> /\ v = -1 => u = 1 /\ begin < 0
                                                 /\ v = q => o = 1 /\ end > m
    BY <1>1, <2>2, <2>4, <2>5, <2>7 DEF Survives
  <2>14. b \in -u .. m - 1 + o /\ u \in {0, 1} /\ o \in {0, 1}
    BY <1>1, <2>4
  <2>15. /\ b < a => Target(ax, cmd, b) = IF IsOrdered(ax) THEN -1 ELSE q
         /\ b >= a /\ b - a < q => Target(ax, cmd, b) = b - a
         /\ b >= a /\ ~(b - a < q) => Target(ax, cmd, b) = q
    <3>1. /\ b < a => Target(ax, cmd, b) = IF IsOrdered(ax) THEN -1 ELSE q
          /\ b >= a /\ b - a < n * q => /\ Target(ax, cmd, b) = (b - a) \div n
                                        /\ (b - a) \div n \in 0 .. q - 1
          /\ b >= a /\ ~(b - a < n * q) => Target(ax, cmd, b) = q
      BY <2>3, <2>8, <2>14, TargetInNumbers
    <3>2. n * q = q /\ (b - a) \div n = b - a
      BY <2>3, <2>6, <2>8, <2>14, ByOne
    <3> QED BY <3>1, <3>2
  <2>16. b \in SummedBins(ax, s) <=> begin <= b /\ b < end
    BY <2>2, <2>5
  <2>17. ~IsOrdered(ax) => end <= m /\ u = 0
    BY <1>1, <2>2, <2>4, <2>5, CategoryOptions
  <2>18. CASE b < a /\ IsOrdered(ax)
    <3>1. Target(ax, cmd, b) = -1
      BY <2>15, <2>18
    <3>2. (\E v \in Bins(new) : Goes(ax, s, b, v)) <=> u = 1 /\ begin < 0
      BY <2>8, <2>11, <2>12, <2>13, <2>14, <3>1
    <3>3. u = 1 /\ begin < 0 <=> begin <= b /\ b < end
      BY <2>3, <2>5, <2>6, <2>7, <2>8, <2>14, <2>18
    <3> QED BY <2>10, <2>16, <3>2, <3>3
  <2>19. CASE b < a /\ ~IsOrdered(ax)
    <3>1. Target(ax, cmd, b) = q
      BY <2>15, <2>19
    <3>2. ~(end > m)
      BY <2>4, <2>5, <2>17, <2>19
    <3>3. ~\E v \in Bins(new) : Goes(ax, s, b, v)
      BY <2>8, <2>11, <2>12, <2>13, <3>1, <3>2
    <3>4. ~(begin <= b /\ b < end)
      BY <2>3, <2>5, <2>6, <2>14, <2>17, <2>19
    <3> QED BY <2>10, <2>16, <3>3, <3>4
  <2>20. CASE b >= a /\ b - a < q
    <3>1. PICK v \in Int : v = b - a
      BY <2>3, <2>14
    <3>2. Target(ax, cmd, b) = v
      BY <2>15, <2>20, <3>1
    <3>3. v \in Bins(new) /\ v # -1 /\ v # q
      BY <2>3, <2>8, <2>11, <2>14, <2>20, <3>1
    <3>4. Goes(ax, s, b, v)
      BY <2>12, <2>13, <3>1, <3>2, <3>3
    <3>5. begin <= b /\ b < end
      BY <2>3, <2>4, <2>5, <2>6, <2>7, <2>14, <2>20
    <3> QED BY <2>10, <2>16, <3>3, <3>4, <3>5
  <2>21. CASE b >= a /\ ~(b - a < q)
    <3>1. Target(ax, cmd, b) = q
      BY <2>15, <2>21
    <3>2. (\E v \in Bins(new) : Goes(ax, s, b, v)) <=> o = 1 /\ end > m
      BY <2>8, <2>11, <2>12, <2>13, <2>14, <3>1
    <3>3. o = 1 /\ end > m <=> begin <= b /\ b < end
      BY <2>3, <2>4, <2>5, <2>6, <2>7, <2>14, <2>21
    <3> QED BY <2>10, <2>16, <3>2, <3>3
  <2>22. b < a \/ b >= a
    BY <2>3, <2>14
  <2> QED BY <2>18, <2>19, <2>20, <2>21, <2>22
<1> QED BY <1>3, <1>4

-----------------------------------------------------------------------------
(* Reading all axes *)

LEMMA CellOf ==
  ASSUME NEW axs, NEW c \in Cells(axs)
  PROVE  c = [i \in DOMAIN axs |-> c[i]] /\ \A i \in DOMAIN axs : c[i] \in Bins(axs[i])
BY DEF Cells

LEMMA IsCell ==
  ASSUME NEW axs, NEW c, c = [i \in DOMAIN axs |-> c[i]],
         \A i \in DOMAIN axs : c[i] \in Bins(axs[i])
  PROVE  c \in Cells(axs)
<1>1. c \in [DOMAIN axs -> UNION {Bins(axs[i]) : i \in DOMAIN axs}]
  OBVIOUS
<1> QED BY <1>1 DEF Cells

\* What remains of the axes once they are cropped, rebinned and cut to lists of
\* categories, and what ends in one of their cells.
ShrunkAxes(axs, q) == [i \in DOMAIN axs |-> Shrunk(axs[i], q[i])]
Landed(axs, q, cells, u) ==
  UNION {cells[c] : c \in {c \in Cells(axs) :
                             \A i \in DOMAIN axs : Goes(axs[i], q[i], c[i], u[i])}}

\* What Reduce and PickSets make of f.
IsReduced(f, q, h) ==
  /\ h.axes = [i \in DOMAIN f.axes |-> Reduced(f.axes[i], q[i])]
  /\ \A t \in Cells(h.axes) :
       h.cells[t] = UNION {f.cells[c] : c \in {c \in Cells(f.axes) :
         \A i \in DOMAIN f.axes :
           Leads(f.axes[i], Command(f.axes[i], q[i]), c[i], t[i])}}

IsShrunk(f, q, h) ==
  /\ h.axes = ShrunkAxes(f.axes, q)
  /\ \A u \in Cells(ShrunkAxes(f.axes, q)) : h.cells[u] = Landed(f.axes, q, f.cells, u)

LEMMA ReducedCells ==
  ASSUME NEW g, NEW q, DOMAIN q = DOMAIN g.axes,
         NEW cmds, cmds = [i \in DOMAIN q |-> Command(g.axes[i], q[i])],
         NEW h, h = Reduce(g, cmds)
  PROVE  IsReduced(g, q, h)
<1> DEFINE new == [i \in DOMAIN g.axes |->
                     [g.axes[i] EXCEPT !.size = NewSize(g.axes[i], cmds[i])]]
           lands(c, t) == \A i \in DOMAIN cmds :
                            /\ Target(g.axes[i], cmds[i], c[i]) = t[i]
                            /\ Survives(g.axes[i], cmds[i], t[i])
           all == [t \in Cells(new) |->
                     UNION {g.cells[c] : c \in {c \in Cells(g.axes) : lands(c, t)}}]
<1>1. h = [axes |-> new, cells |-> all]
  BY Zenon DEF Reduce
<1>2. h.axes = new /\ h.cells = all
  <2> HIDE DEF new, all
  <2> QED BY <1>1
<1>3. \A i \in DOMAIN g.axes : cmds[i] = Command(g.axes[i], q[i])
  OBVIOUS
<1>4. new = [i \in DOMAIN g.axes |-> Reduced(g.axes[i], q[i])]
  BY <1>3 DEF Reduced
<1>5. \A c, t : lands(c, t) <=>
        \A i \in DOMAIN g.axes : Leads(g.axes[i], Command(g.axes[i], q[i]), c[i], t[i])
  BY <1>3 DEF Leads
<1>6. ASSUME NEW t \in Cells(new)
      PROVE  h.cells[t] = UNION {g.cells[c] : c \in {c \in Cells(g.axes) :
                \A i \in DOMAIN g.axes :
                  Leads(g.axes[i], Command(g.axes[i], q[i]), c[i], t[i])}}
  <2>1. h.cells[t] = UNION {g.cells[c] : c \in {c \in Cells(g.axes) : lands(c, t)}}
    BY <1>2
  <2>2. {c \in Cells(g.axes) : lands(c, t)} = {c \in Cells(g.axes) :
                \A i \in DOMAIN g.axes :
                  Leads(g.axes[i], Command(g.axes[i], q[i]), c[i], t[i])}
    BY <1>5
  <2> QED BY <2>1, <2>2
<1> HIDE DEF new
<1> QED BY <1>2, <1>4, <1>6 DEF IsReduced

LEMMA ShrunkCells ==
  ASSUME NEW f, NEW q, DOMAIN q = DOMAIN f.axes,
         \A i \in DOMAIN f.axes : \A v \in Bins(Shrunk(f.axes[i], q[i])) :
           Source(f.axes[i], q[i], v) \in Bins(Reduced(f.axes[i], q[i])),
         NEW g, IsReduced(f, q, g), NEW h, h = PickSets(g, q)
  PROVE  IsShrunk(f, q, h)
<1>2. /\ g.axes = [i \in DOMAIN f.axes |-> Reduced(f.axes[i], q[i])]
      /\ \A t \in Cells(g.axes) :
           g.cells[t] = UNION {f.cells[c] : c \in {c \in Cells(f.axes) :
             \A i \in DOMAIN f.axes :
               Leads(f.axes[i], Command(f.axes[i], q[i]), c[i], t[i])}}
  BY DEF IsReduced
<1> DEFINE new == [i \in DOMAIN q |->
                     IF q[i].kind = "set"
                     THEN [g.axes[i] EXCEPT !.size = Len(q[i].bins)]
                     ELSE g.axes[i]]
           source(i, bin) == IF q[i].kind # "set" THEN bin
                             ELSE IF bin < Len(q[i].bins) THEN q[i].bins[bin + 1]
                             ELSE g.axes[i].size
           all == [t \in Cells(new) |-> g.cells[[i \in DOMAIN q |-> source(i, t[i])]]]
<1>3. h = [axes |-> new, cells |-> all]
  BY Zenon DEF PickSets
<1>4. h.axes = new /\ h.cells = all
  <2> HIDE DEF new, all
  <2> QED BY <1>3
<1>5. \A i \in DOMAIN f.axes : g.axes[i] = Reduced(f.axes[i], q[i])
  BY <1>2
<1>6. new = ShrunkAxes(f.axes, q)
  BY <1>5 DEF ShrunkAxes, Shrunk
<1>7. \A i \in DOMAIN f.axes : \A bin : source(i, bin) = Source(f.axes[i], q[i], bin)
  BY <1>5 DEF Source
<1>8. ASSUME NEW u \in Cells(ShrunkAxes(f.axes, q))
      PROVE  h.cells[u] = Landed(f.axes, q, f.cells, u)
  <2>1. PICK t : t = [i \in DOMAIN f.axes |-> Source(f.axes[i], q[i], u[i])]
    OBVIOUS
  <2>2. h.cells[u] = g.cells[t]
    <3>1. h.cells[u] = g.cells[[i \in DOMAIN q |-> source(i, u[i])]]
      BY <1>4, <1>6
    <3>2. [i \in DOMAIN q |-> source(i, u[i])] = t
      BY <1>7, <2>1
    <3> QED BY <3>1, <3>2
  <2>3. DOMAIN ShrunkAxes(f.axes, q) = DOMAIN f.axes
    BY DEF ShrunkAxes
  <2>4. \A i \in DOMAIN f.axes : u[i] \in Bins(Shrunk(f.axes[i], q[i]))
    <3>1. \A i \in DOMAIN f.axes : u[i] \in Bins(ShrunkAxes(f.axes, q)[i])
      BY <2>3, CellOf
    <3>2. \A i \in DOMAIN f.axes : ShrunkAxes(f.axes, q)[i] = Shrunk(f.axes[i], q[i])
      BY DEF ShrunkAxes
    <3> QED BY <3>1, <3>2
  <2>5. t \in Cells(g.axes)
    <3>1. DOMAIN g.axes = DOMAIN f.axes
      BY <1>2
    <3>2. \A i \in DOMAIN g.axes : t[i] \in Bins(g.axes[i])
      BY <1>5, <2>1, <2>4, <3>1
    <3>3. t = [i \in DOMAIN g.axes |-> t[i]]
      BY <2>1, <3>1
    <3> QED BY <3>2, <3>3, IsCell
  <2>6. g.cells[t] = UNION {f.cells[c] : c \in {c \in Cells(f.axes) :
             \A i \in DOMAIN f.axes :
               Leads(f.axes[i], Command(f.axes[i], q[i]), c[i], t[i])}}
    BY <1>2, <2>5
  <2>7. \A i \in DOMAIN f.axes : \A b :
          Leads(f.axes[i], Command(f.axes[i], q[i]), b, t[i]) <=> Goes(f.axes[i], q[i], b, u[i])
    BY <2>1 DEF Goes
  <2>8. {c \in Cells(f.axes) : \A i \in DOMAIN f.axes :
               Leads(f.axes[i], Command(f.axes[i], q[i]), c[i], t[i])}
          = {c \in Cells(f.axes) : \A i \in DOMAIN f.axes : Goes(f.axes[i], q[i], c[i], u[i])}
    BY <2>7
  <2> QED BY <2>2, <2>6, <2>8 DEF Landed
<1> HIDE DEF new
<1> QED BY <1>4, <1>6, <1>8 DEF IsShrunk

\* The cells of selected axes are selected cells.
LEMMA SelectedCell ==
  ASSUME NEW axs, NEW n \in Nat, DOMAIN axs = 1 .. n, NEW K \in SUBSET (1 .. n)
  PROVE  /\ \A w \in Cells(axs) : Selected(w, K) \in Cells(Selected(axs, K))
         /\ \A c \in Cells(Selected(axs, K)) : \A i \in K : c[Number(K, i)] \in Bins(axs[i])
<1>1. K \in SUBSET Int /\ IsFiniteSet(K)
  <2>1. IsFiniteSet(1 .. n)
    BY FS_Interval
  <2>2. IsFiniteSet(K)
    BY <2>1, FS_Subset
  <2>3. K \in SUBSET Int
    OBVIOUS
  <2> QED BY <2>2, <2>3
<1>2. DOMAIN Selected(axs, K) = 1 .. Cardinality(K)
  BY <1>1, SelectedIs
<1>3. ASSUME NEW w \in Cells(axs) PROVE Selected(w, K) \in Cells(Selected(axs, K))
  <2>1. \A j \in 1 .. Cardinality(K) :
          Selected(w, K)[j] = w[Nth(K, j)] /\ Selected(axs, K)[j] = axs[Nth(K, j)]
    BY <1>1, SelectedIs
  <2>2. \A j \in 1 .. Cardinality(K) : Nth(K, j) \in DOMAIN axs
    BY <1>1, NthIs
  <2>3. \A i \in DOMAIN axs : w[i] \in Bins(axs[i])
    BY <1>3, CellOf
  <2>4. \A j \in 1 .. Cardinality(K) : Selected(w, K)[j] \in Bins(Selected(axs, K)[j])
    BY <2>1, <2>2, <2>3
  <2>5. Selected(w, K) = [j \in 1 .. Cardinality(K) |-> Selected(w, K)[j]]
    BY DEF Selected
  <2> QED BY <1>2, <2>4, <2>5, IsCell
<1>4. ASSUME NEW c \in Cells(Selected(axs, K)), NEW i \in K
      PROVE  c[Number(K, i)] \in Bins(axs[i])
  <2>1. Number(K, i) \in 1 .. Cardinality(K)
    BY <1>1, NumberRange
  <2>2. Selected(axs, K)[Number(K, i)] = axs[i]
    BY <1>1, SelectedIs
  <2>3. c[Number(K, i)] \in Bins(Selected(axs, K)[Number(K, i)])
    BY <1>2, <2>1, CellOf
  <2> QED BY <2>2, <2>3
<1> QED BY <1>3, <1>4

\* What PickEach and Project make of g.
IsPicked(g, q, K, h) ==
  /\ h.axes = Selected(g.axes, K)
  /\ \A c \in Cells(h.axes) :
       h.cells[c] =
         g.cells[[i \in DOMAIN q |-> IF i \in K THEN c[Number(K, i)] ELSE q[i].bin]]

IsProjected(g, L, h) ==
  /\ h.axes = Selected(g.axes, L)
  /\ DOMAIN h.cells = Cells(h.axes)
  /\ \A t \in Cells(h.axes) :
       h.cells[t] = UNION {g.cells[c] : c \in {c \in Cells(g.axes) :
                             \A j \in L : c[j] = t[Number(L, j)]}}

LEMMA PickedCells ==
  ASSUME NEW g, NEW q, NEW K, K = DOMAIN q \ AxesWith(q, "pick"),
         \A i \in DOMAIN q \ K : BinAt(g.axes[i], Position(g.axes[i], q[i].bin)) = q[i].bin,
         NEW h, h = PickEach(g, q)
  PROVE  IsPicked(g, q, K, h)
<1> DEFINE new == Selected(g.axes, K)
           source(i, t) == IF i \in K THEN t[Number(K, i)]
                           ELSE BinAt(g.axes[i], Position(g.axes[i], q[i].bin))
           all == [t \in Cells(new) |-> g.cells[[i \in DOMAIN q |-> source(i, t)]]]
<1>1. h = [axes |-> new, cells |-> all]
  BY Zenon DEF PickEach
<1>2. h.axes = new /\ h.cells = all
  <2> HIDE DEF new, all
  <2> QED BY <1>1
<1>3. ASSUME NEW c \in Cells(new)
      PROVE  h.cells[c] =
               g.cells[[i \in DOMAIN q |-> IF i \in K THEN c[Number(K, i)] ELSE q[i].bin]]
  <2>1. h.cells[c] = g.cells[[i \in DOMAIN q |-> source(i, c)]]
    BY <1>2
  <2>2. [i \in DOMAIN q |-> source(i, c)] =
          [i \in DOMAIN q |-> IF i \in K THEN c[Number(K, i)] ELSE q[i].bin]
    OBVIOUS
  <2> QED BY <2>1, <2>2
<1> QED BY <1>2, <1>3 DEF IsPicked

LEMMA ProjectedCells ==
  ASSUME NEW g, NEW R, NEW L, L = DOMAIN g.axes \ R, NEW h, h = Project(g, R)
  PROVE  IsProjected(g, L, h)
<1> DEFINE new == Selected(g.axes, L)
           from(c, t) == \A i \in L : c[i] = t[Number(L, i)]
           all == [t \in Cells(new) |->
                     UNION {g.cells[c] : c \in {c \in Cells(g.axes) : from(c, t)}}]
<1>1. h = [axes |-> new, cells |-> all]
  BY Zenon DEF Project
<1>2. h.axes = new /\ h.cells = all
  <2> HIDE DEF new, all
  <2> QED BY <1>1
<1>3. h.axes = Selected(g.axes, L)
  BY <1>2
<1>4. DOMAIN h.cells = Cells(h.axes)
  BY <1>2
<1>5. \A t \in Cells(h.axes) :
        h.cells[t] = UNION {g.cells[c] : c \in {c \in Cells(g.axes) :
                              \A j \in L : c[j] = t[Number(L, j)]}}
  BY <1>2
<1> HIDE DEF new, all
<1> QED BY <1>3, <1>4, <1>5 DEF IsProjected

\* What an index asks of an axis is what its bins go by.
Answers(ax, r) ==
  /\ \A v \in Bins(Shrunk(ax, r)) : Source(ax, r, v) \in Bins(Reduced(ax, r))
  /\ r.kind = "pick" => /\ Shrunk(ax, r) = ax /\ r.bin \in Bins(ax)
                        /\ \A b \in Bins(ax) : Goes(ax, r, b, r.bin) <=> b = r.bin
  /\ Sums(r) => \A b \in Bins(ax) :
       (\E v \in Bins(Shrunk(ax, r)) : Goes(ax, r, b, v)) <=> b \in SummedBins(ax, r)
  /\ r.kind = "set" => \A v \in Bins(Shrunk(ax, r)) : \A b \in Bins(ax) :
       Goes(ax, r, b, v) <=> b \in ChosenBins(ax, r.bins, v)
  /\ r.kind = "slice" /\ ~Sums(r) => \A v \in Bins(Shrunk(ax, r)) : \A b \in Bins(ax) :
       Goes(ax, r, b, v) <=> b \in KeptBins(ax, r, v)

LEMMA AxisAnswers ==
  ASSUME NEW ax \in AxisRecords, IsMade(ax), NEW r, IsResolved(r), AxisReads(ax, r),
         Sums(r) /\ ~IsOrdered(ax) => Limit(r.stop, ax, ax.size) <= ax.size
  PROVE  Answers(ax, r)
<1>1. CASE r \in SliceItems
  <2>1. r.kind = "slice"
    BY <1>1, StepOfSlice
  <2>2. \A v \in Bins(Shrunk(ax, r)) : Source(ax, r, v) \in Bins(Reduced(ax, r))
    BY <2>1 DEF Source, Shrunk
  <2>3. Sums(r) => \A b \in Bins(ax) :
          (\E v \in Bins(Shrunk(ax, r)) : Goes(ax, r, b, v)) <=> b \in SummedBins(ax, r)
    BY <1>1, SumGoes
  <2>4. ~Sums(r) => \A v \in Bins(Shrunk(ax, r)) : \A b \in Bins(ax) :
          Goes(ax, r, b, v) <=> b \in KeptBins(ax, r, v)
    BY <1>1, KeptGoes
  <2> QED BY <2>1, <2>2, <2>3, <2>4 DEF Answers
<1>2. CASE \E bin \in Int : r = [kind |-> "pick", bin |-> bin]
  <2>1. r.kind = "pick"
    BY <1>2
  <2>2. r.bin \in Bins(ax)
    BY <2>1 DEF AxisReads
  <2>3. Shrunk(ax, r) = ax /\ \A b, v \in Bins(ax) : Goes(ax, r, b, v) <=> b = v
    BY <2>1, PickGoes
  <2>4. \A v \in Bins(Shrunk(ax, r)) : Source(ax, r, v) \in Bins(Reduced(ax, r))
    BY <2>1 DEF Source, Shrunk
  <2>5. ~Sums(r)
    BY <2>1 DEF Sums, IsSlice
  <2> QED BY <2>1, <2>2, <2>3, <2>4, <2>5 DEF Answers
<1>3. CASE \E bins \in Seq(Int) : r = [kind |-> "set", bins |-> bins]
  <2>1. r.kind = "set" /\ r.bins \in Seq(Int)
    BY <1>3
  <2>2. ~Sums(r)
    BY <2>1 DEF Sums, IsSlice
  <2>3. \A v \in Bins(Shrunk(ax, r)) :
          /\ Source(ax, r, v) \in Bins(Reduced(ax, r))
          /\ \A b \in Bins(ax) : Goes(ax, r, b, v) <=> b \in ChosenBins(ax, r.bins, v)
    BY <2>1, SetGoes
  <2> QED BY <2>1, <2>2, <2>3 DEF Answers
<1> QED BY <1>1, <1>2, <1>3 DEF IsResolved

\* What SelectionRight says of the result of an index that is resolved to q.
Wanted(axs, q, kept, i, t) ==
  CASE q[i].kind = "pick" -> {q[i].bin}
    [] q[i].kind = "set" -> ChosenBins(axs[i], q[i].bins, t[Number(kept, i)])
    [] Sums(q[i]) -> SummedBins(axs[i], q[i])
    [] OTHER -> KeptBins(axs[i], q[i], t[Number(kept, i)])

Kept(q) == {i \in DOMAIN q : q[i].kind # "pick" /\ ~Sums(q[i])}

IsSelection(axs, q, cells, result) ==
  /\ Len(result.axes) = Cardinality(Kept(q))
  /\ \A t \in DOMAIN result.cells :
       result.cells[t] =
         UNION {cells[c] : c \in {c \in Cells(axs) :
                  \A i \in DOMAIN q : c[i] \in Wanted(axs, q, Kept(q), i, t)}}

\* The axes that are summed, numbered among those that are not picked.
LEMMA SummedNumbers ==
  ASSUME NEW q, NEW n \in Nat, DOMAIN q = 1 .. n,
         NEW K, K = DOMAIN q \ AxesWith(q, "pick")
  PROVE  Numbered(K, Kept(q), (1 .. Cardinality(K)) \ Renumbered(q))
<1> DEFINE P == AxesWith(q, "pick")
<1>1. P \in SUBSET (1 .. n) /\ K = (1 .. n) \ P
  BY DEF AxesWith
<1>2. IsFiniteSet(1 .. n)
  BY FS_Interval
<1>3. K \in SUBSET Int
  BY <1>1
<1>4. IsFiniteSet(K)
  BY <1>1, <1>2, FS_Subset
<1>5. Kept(q) \in SUBSET K /\ Integrations(q) \in SUBSET K
      /\ Kept(q) = K \ Integrations(q)
  BY DEF Kept, AxesWith, Integrations, Sums, IsSlice
<1>6. \A i \in Integrations(q) : i - Cardinality({j \in P : j <= i}) = Number(K, i)
  <2> TAKE i \in Integrations(q)
  <2>1. i \in (1 .. n) \ P
    BY <1>1, <1>5
  <2> HIDE DEF P
  <2> QED BY <1>1, <2>1, PlacesLeft
<1>7. Renumbered(q) = {Number(K, i) : i \in Integrations(q)}
  BY <1>6 DEF Renumbered
<1>8. \A i \in K : Number(K, i) \in 1 .. Cardinality(K)
  BY <1>3, <1>4, NumberRange
<1>9. \A j \in 1 .. Cardinality(K) : \E i \in K : Number(K, i) = j
  BY <1>3, <1>4, NumberOnto
<1>10. \A i, j \in K : Number(K, i) = Number(K, j) => i = j
  BY <1>3, <1>4, NumberOnce
<1>11. {Number(K, i) : i \in Kept(q)} = (1 .. Cardinality(K)) \ Renumbered(q)
  <2> HIDE DEF P
  <2>1. ASSUME NEW i \in Kept(q)
        PROVE  Number(K, i) \in (1 .. Cardinality(K)) \ Renumbered(q)
    <3>1. \A j \in Integrations(q) : Number(K, i) # Number(K, j)
      BY <1>5, <1>10
    <3> QED BY <1>5, <1>7, <1>8, <3>1
  <2>2. ASSUME NEW j \in (1 .. Cardinality(K)) \ Renumbered(q)
        PROVE  \E i \in Kept(q) : j = Number(K, i)
    <3>1. PICK i \in K : Number(K, i) = j
      BY <1>9
    <3>2. i \notin Integrations(q)
      BY <1>7, <3>1
    <3> QED BY <1>5, <3>1, <3>2
  <2> QED BY <2>1, <2>2
<1> QED BY <1>3, <1>4, <1>5, <1>11 DEF Numbered

\* The four passes together: each cell of the result holds what the index
\* asks for.
LEMMA PassesCompose ==
  ASSUME NEW axs, NEW n \in Nat, DOMAIN axs = 1 .. n,
         NEW q, DOMAIN q = DOMAIN axs, NEW cells,
         \A i \in DOMAIN axs : q[i].kind \in {"pick", "set", "slice"},
         \A i \in DOMAIN axs : Answers(axs[i], q[i]),
         NEW S, S = ShrunkAxes(axs, q), NEW M, M = Kept(q),
         NEW h, h.axes = S, \A u \in Cells(S) : h.cells[u] = Landed(axs, q, cells, u),
         NEW K, K = DOMAIN q \ AxesWith(q, "pick"), NEW p, IsPicked(h, q, K, p),
         NEW L, Numbered(K, M, L), NEW r, IsProjected(p, L, r)
  PROVE  IsSelection(axs, q, cells, r)
<1> DEFINE U(c) == [i \in DOMAIN q |-> IF i \in K THEN c[Number(K, i)] ELSE q[i].bin]
<1>1. DOMAIN S = 1 .. n /\ \A i \in 1 .. n : S[i] = Shrunk(axs[i], q[i])
  BY DEF ShrunkAxes
<1>2. K \in SUBSET (1 .. n)
  OBVIOUS
<1>3. /\ K \in SUBSET Int /\ IsFiniteSet(K) /\ M \in SUBSET K
      /\ L \in SUBSET (1 .. Cardinality(K))
      /\ IsFiniteSet(L)
      /\ Cardinality(L) = Cardinality(M)
      /\ \A i \in M : Number(K, i) \in L /\ Number(L, Number(K, i)) = Number(M, i)
      /\ \A j \in L : \E i \in M : j = Number(K, i)
  <2>1. NumberedTwice(K, M, L)
    BY NumberOfNumbers, Zenon
  <2> QED BY <2>1 DEF NumberedTwice
<1>5. p.axes = Selected(S, K) /\ r.axes = Selected(p.axes, L)
      /\ DOMAIN r.cells = Cells(r.axes)
  BY DEF IsPicked, IsProjected
<1>6. DOMAIN p.axes = 1 .. Cardinality(K) /\ Cardinality(K) \in Nat
      /\ \A i \in K : p.axes[Number(K, i)] = S[i]
  <2>1. Cardinality(K) \in Nat
    BY <1>3, FS_CardinalityType
  <2>2. DOMAIN p.axes = 1 .. Cardinality(K)
    BY <1>3, <1>5, SelectedIs
  <2>3. \A i \in K : p.axes[Number(K, i)] = S[i]
    BY <1>3, <1>5, SelectedIs
  <2> QED BY <2>1, <2>2, <2>3
<1>7. Len(r.axes) = Cardinality(M)
  <2>1. L \in SUBSET Int
    BY <1>3
  <2>2. Len(Selected(p.axes, L)) = Cardinality(L)
    BY <1>3, <2>1, SelectedIs
  <2> QED BY <1>3, <1>5, <2>2
<1>8. ASSUME NEW c \in Cells(p.axes)
      PROVE  /\ U(c) \in Cells(S)
             /\ p.cells[c] = Landed(axs, q, cells, U(c))
  <2>1. \A i \in K : c[Number(K, i)] \in Bins(S[i])
    BY <1>1, <1>2, <1>5, SelectedCell
  <2>2. ASSUME NEW i \in DOMAIN S PROVE U(c)[i] \in Bins(S[i])
    <3>1. CASE i \in K
      BY <1>1, <2>1, <3>1
    <3>2. CASE i \notin K
      <4>1. q[i].kind = "pick" /\ i \in DOMAIN axs
        BY <1>1, <3>2 DEF AxesWith
      <4>2. S[i] = axs[i] /\ q[i].bin \in Bins(axs[i])
        BY <1>1, <4>1 DEF Answers
      <4>3. U(c)[i] = q[i].bin
        BY <1>1, <3>2
      <4> QED BY <4>2, <4>3
    <3> QED BY <3>1, <3>2
  <2>3. U(c) = [i \in DOMAIN S |-> U(c)[i]]
    BY <1>1
  <2>4. U(c) \in Cells(S)
    <3> HIDE DEF U
    <3> QED BY <2>2, <2>3, IsCell
  <2>5. p.cells[c] = h.cells[U(c)]
    BY DEF IsPicked
  <2> QED BY <2>4, <2>5
<1>9. ASSUME NEW t \in Cells(r.axes), NEW i \in M
      PROVE  t[Number(M, i)] \in Bins(S[i])
  <2>1. \A j \in L : t[Number(L, j)] \in Bins(p.axes[j])
    BY <1>3, <1>5, <1>6, SelectedCell
  <2>2. Number(K, i) \in L /\ Number(L, Number(K, i)) = Number(M, i)
    BY <1>3
  <2>3. p.axes[Number(K, i)] = S[i]
    BY <1>3, <1>6
  <2> QED BY <2>1, <2>2, <2>3
<1> DEFINE matches(c, t) == \A j \in L : c[j] = t[Number(L, j)]
           lands(b, c) == \A i \in DOMAIN axs : Goes(axs[i], q[i], b[i], U(c)[i])
           asked(b, t) == \A i \in DOMAIN q : b[i] \in Wanted(axs, q, M, i, t)
<1>10. ASSUME NEW t \in Cells(r.axes), NEW b \in Cells(axs), NEW c \in Cells(p.axes),
              matches(c, t), lands(b, c)
       PROVE  asked(b, t)
  <2> SUFFICES ASSUME NEW i \in DOMAIN axs PROVE b[i] \in Wanted(axs, q, M, i, t)
    OBVIOUS
  <2>1. b[i] \in Bins(axs[i]) /\ Goes(axs[i], q[i], b[i], U(c)[i])
    BY <1>10, CellOf
  <2>2. U(c)[i] \in Bins(Shrunk(axs[i], q[i]))
    <3>1. \A j \in DOMAIN S : U(c)[j] \in Bins(S[j])
      <4> HIDE DEF U
      <4> QED BY <1>8, CellOf
    <3> QED BY <1>1, <3>1
  <2>3. i \in M => U(c)[i] = t[Number(M, i)]
    <3> HAVE i \in M
    <3>1. i \in K /\ Number(K, i) \in L /\ Number(L, Number(K, i)) = Number(M, i)
      BY <1>3
    <3>2. c[Number(K, i)] = t[Number(L, Number(K, i))]
      BY <1>10, <3>1
    <3> QED BY <3>1, <3>2
  <2>4. CASE q[i].kind = "pick"
    <3>1. U(c)[i] = q[i].bin
      BY <2>4 DEF AxesWith
    <3>2. b[i] = q[i].bin
      BY <2>1, <2>4, <3>1 DEF Answers
    <3> QED BY <2>4, <3>2 DEF Wanted, Sums, IsSlice
  <2>5. CASE q[i].kind = "set"
    <3>1. i \in M
      BY <2>5 DEF Kept, Sums, IsSlice
    <3>2. b[i] \in ChosenBins(axs[i], q[i].bins, U(c)[i])
      BY <2>1, <2>2, <2>5 DEF Answers
    <3> QED BY <2>3, <2>5, <3>1, <3>2 DEF Wanted, Sums, IsSlice
  <2>6. CASE q[i].kind = "slice" /\ Sums(q[i])
    <3>1. b[i] \in SummedBins(axs[i], q[i])
      BY <2>1, <2>2, <2>6 DEF Answers
    <3> QED BY <2>6, <3>1 DEF Wanted, Sums, IsSlice
  <2>7. CASE q[i].kind = "slice" /\ ~Sums(q[i])
    <3>1. i \in M
      BY <2>7 DEF Kept
    <3>2. b[i] \in KeptBins(axs[i], q[i], U(c)[i])
      BY <2>1, <2>2, <2>7 DEF Answers
    <3> QED BY <2>3, <2>7, <3>1, <3>2 DEF Wanted, Sums, IsSlice
  <2> QED BY <2>4, <2>5, <2>6, <2>7
<1>11. ASSUME NEW t \in Cells(r.axes), NEW b \in Cells(axs), asked(b, t)
       PROVE  \E c \in Cells(p.axes) : matches(c, t) /\ lands(b, c)
  <2> DEFINE place(i) == IF i \in M THEN t[Number(M, i)]
                         ELSE IF i \in K
                         THEN CHOOSE v \in Bins(S[i]) : Goes(axs[i], q[i], b[i], v)
                         ELSE q[i].bin
  <2>1. ASSUME NEW i \in DOMAIN axs
        PROVE  place(i) \in Bins(S[i]) /\ Goes(axs[i], q[i], b[i], place(i))
    <3>1. b[i] \in Bins(axs[i]) /\ b[i] \in Wanted(axs, q, M, i, t)
      BY <1>11, CellOf
    <3>2. S[i] = Shrunk(axs[i], q[i])
      BY <1>1
    <3>3. CASE q[i].kind = "pick"
      <4>1. i \notin K /\ i \notin M
        BY <1>3, <3>3 DEF AxesWith
      <4>2. b[i] = q[i].bin
        BY <3>1, <3>3 DEF Wanted, Sums, IsSlice
      <4>3. q[i].bin \in Bins(S[i]) /\ Goes(axs[i], q[i], b[i], q[i].bin)
        BY <3>1, <3>2, <3>3, <4>2 DEF Answers
      <4> QED BY <4>1, <4>3
    <3>4. CASE q[i].kind = "set"
      <4>1. i \in M
        BY <3>4 DEF Kept, Sums, IsSlice
      <4>2. t[Number(M, i)] \in Bins(S[i])
        BY <1>9, <4>1
      <4>3. b[i] \in ChosenBins(axs[i], q[i].bins, t[Number(M, i)])
        BY <3>1, <3>4 DEF Wanted, Sums, IsSlice
      <4>4. Goes(axs[i], q[i], b[i], t[Number(M, i)])
        BY <3>1, <3>2, <3>4, <4>2, <4>3 DEF Answers
      <4> QED BY <4>1, <4>2, <4>4
    <3>5. CASE q[i].kind = "slice" /\ Sums(q[i])
      <4>1. i \in K /\ i \notin M
        BY <3>5 DEF AxesWith, Kept
      <4>2. b[i] \in SummedBins(axs[i], q[i])
        BY <3>1, <3>5 DEF Wanted, Sums, IsSlice
      <4>3. \E v \in Bins(S[i]) : Goes(axs[i], q[i], b[i], v)
        BY <3>1, <3>2, <3>5, <4>2 DEF Answers
      <4> QED BY <4>1, <4>3
    <3>6. CASE q[i].kind = "slice" /\ ~Sums(q[i])
      <4>1. i \in M
        BY <3>6 DEF Kept
      <4>2. t[Number(M, i)] \in Bins(S[i])
        BY <1>9, <4>1
      <4>3. b[i] \in KeptBins(axs[i], q[i], t[Number(M, i)])
        BY <3>1, <3>6 DEF Wanted, Sums, IsSlice
      <4>4. Goes(axs[i], q[i], b[i], t[Number(M, i)])
        BY <3>1, <3>2, <3>6, <4>2, <4>3 DEF Answers
      <4> QED BY <4>1, <4>2, <4>4
    <3> QED BY <3>3, <3>4, <3>5, <3>6
  <2>2. PICK w : w = [i \in 1 .. n |-> place(i)]
    OBVIOUS
  <2>3. \A i \in 1 .. n : w[i] = place(i)
    BY <2>2
  <2>4. w \in Cells(S)
    <3>1. \A i \in DOMAIN S : w[i] \in Bins(S[i])
      BY <1>1, <2>1, <2>3
    <3>2. w = [i \in DOMAIN S |-> w[i]]
      BY <1>1, <2>2, <2>3
    <3> QED BY <3>1, <3>2, IsCell
  <2>5. PICK c : c = Selected(w, K)
    OBVIOUS
  <2>6. c \in Cells(p.axes)
    BY <1>1, <1>2, <1>5, <2>4, <2>5, SelectedCell
  <2>7. \A i \in K : c[Number(K, i)] = w[i]
    BY <1>3, <2>5, SelectedIs
  <2>8. matches(c, t)
    <3> SUFFICES ASSUME NEW j \in L PROVE c[j] = t[Number(L, j)]
      OBVIOUS
    <3>1. PICK i \in M : j = Number(K, i)
      BY <1>3
    <3>2. i \in K /\ i \in 1 .. n
      BY <1>2, <1>3, <3>1
    <3>3. c[j] = t[Number(M, i)]
      BY <2>3, <2>7, <3>1, <3>2
    <3> QED BY <1>3, <3>1, <3>3
  <2>9. \A i \in DOMAIN axs : U(c)[i] = place(i)
    <3> TAKE i \in DOMAIN axs
    <3>1. CASE i \in K
      BY <2>3, <2>7, <3>1
    <3>2. CASE i \notin K
      BY <1>3, <3>2
    <3> QED BY <3>1, <3>2
  <2>10. lands(b, c)
    BY <2>1, <2>9
  <2> QED BY <2>6, <2>8, <2>10
<1>12. ASSUME NEW t \in Cells(r.axes)
       PROVE  r.cells[t] = UNION {cells[b] : b \in {b \in Cells(axs) : asked(b, t)}}
  <2>1. r.cells[t] = UNION {p.cells[c] : c \in {c \in Cells(p.axes) : matches(c, t)}}
    BY DEF IsProjected
  <2>2. ASSUME NEW x
        PROVE  x \in r.cells[t] <=> \E b \in Cells(axs) : asked(b, t) /\ x \in cells[b]
    <3>1. x \in r.cells[t] <=> \E c \in Cells(p.axes) : matches(c, t) /\ x \in p.cells[c]
      BY <2>1
    <3>2. \A c \in Cells(p.axes) :
            x \in p.cells[c] <=> \E b \in Cells(axs) : lands(b, c) /\ x \in cells[b]
      <4> TAKE c \in Cells(p.axes)
      <4>1. PICK u : u = U(c)
        OBVIOUS
      <4>2. p.cells[c] = Landed(axs, q, cells, u)
        BY <1>8, <4>1
      <4>3. \A b : lands(b, c) <=> \A i \in DOMAIN axs : Goes(axs[i], q[i], b[i], u[i])
        BY <4>1
      <4> HIDE DEF lands
      <4> QED BY <4>2, <4>3 DEF Landed
    <3> HIDE DEF matches, lands, asked
    <3> QED BY <1>10, <1>11, <3>1, <3>2
  <2> HIDE DEF asked
  <2> QED BY <2>2
<1>13. \A t \in DOMAIN r.cells :
         r.cells[t] = UNION {cells[c] : c \in {c \in Cells(axs) :
                               \A i \in DOMAIN q : c[i] \in Wanted(axs, q, Kept(q), i, t)}}
  <2> TAKE t \in DOMAIN r.cells
  <2>1. \A b : asked(b, t) <=> \A i \in DOMAIN q : b[i] \in Wanted(axs, q, Kept(q), i, t)
    OBVIOUS
  <2>2. r.cells[t] = UNION {cells[b] : b \in {b \in Cells(axs) : asked(b, t)}}
    BY <1>5, <1>12
  <2> HIDE DEF asked
  <2> QED BY <2>1, <2>2
<1> QED BY <1>7, <1>13, Zenon DEF IsSelection

\* What an index asks, where it asks for bins that the axes have, and for no sum
\* beyond the overflow bin of a category axis.
SelectedRight(axs, q, cells, result) ==
  ((\A i \in AxesWith(q, "pick") : q[i].bin \in Bins(axs[i]))
   /\ \A i \in DOMAIN q : Sums(q[i]) /\ ~IsOrdered(axs[i]) =>
        Limit(q[i].stop, axs[i], axs[i].size) <= axs[i].size) =>
  IsSelection(axs, q, cells, result)

\* When every axis is picked, the answer is the one cell.
LEMMA AllPickedRight ==
  ASSUME NEW axs, NEW q, DOMAIN q = DOMAIN axs, NEW cells, AllPicked(q),
         \A i \in AxesWith(q, "pick") : q[i].bin \in Bins(axs[i]),
         NEW r, r = [axes |-> <<>>,
                     cells |-> [t \in {<<>>} |-> cells[[i \in DOMAIN q |-> q[i].bin]]]]
  PROVE  IsSelection(axs, q, cells, r)
<1>1. r.axes = <<>> /\ r.cells = [t \in {<<>>} |-> cells[[i \in DOMAIN q |-> q[i].bin]]]
  OBVIOUS
<1>2. \A i \in DOMAIN q : q[i].kind = "pick"
  BY DEF AllPicked, AxesWith
<1>3. Kept(q) = {}
  BY <1>2 DEF Kept
<1>4. Len(r.axes) = Cardinality(Kept(q))
  BY <1>1, <1>3, FS_EmptySet
<1>5. PICK w : w = [i \in DOMAIN q |-> q[i].bin]
  OBVIOUS
<1>6. w \in Cells(axs)
  <2>1. \A i \in DOMAIN axs : w[i] \in Bins(axs[i])
    BY <1>2, <1>5 DEF AxesWith
  <2>2. w = [i \in DOMAIN axs |-> w[i]]
    BY <1>5
  <2> QED BY <2>1, <2>2, IsCell
<1>7. ASSUME NEW t \in DOMAIN r.cells
      PROVE  r.cells[t] = UNION {cells[c] : c \in {c \in Cells(axs) :
                            \A i \in DOMAIN q : c[i] \in Wanted(axs, q, Kept(q), i, t)}}
  <2>1. r.cells[t] = cells[w]
    BY <1>1, <1>5
  <2>2. \A i \in DOMAIN q : Wanted(axs, q, Kept(q), i, t) = {q[i].bin}
    BY <1>2 DEF Wanted, Sums, IsSlice
  <2>3. ASSUME NEW c \in Cells(axs)
        PROVE  (\A i \in DOMAIN q : c[i] \in Wanted(axs, q, Kept(q), i, t)) <=> c = w
    <3>1. c = [i \in DOMAIN axs |-> c[i]]
      BY CellOf
    <3>2. (\A i \in DOMAIN q : c[i] = q[i].bin) <=> c = w
      BY <1>5, <3>1
    <3> QED BY <2>2, <3>2
  <2>4. {c \in Cells(axs) : \A i \in DOMAIN q : c[i] \in Wanted(axs, q, Kept(q), i, t)} = {w}
    BY <1>6, <2>3
  <2> QED BY <2>1, <2>4
<1> QED BY <1>4, <1>7 DEF IsSelection

\* What GetItem returns is what the index asks for.
LEMMA ReadRight ==
  ASSUME IsAxes(axes), \A i \in DOMAIN axes : IsMade(axes[i]),
         NEW q, DOMAIN q = DOMAIN axes, \A i \in DOMAIN q : IsResolved(q[i]),
         ~ReadRaises(q), ~AllPicked(q),
         NEW f, f.axes = axes, f.cells = content,
         NEW cmds, cmds = [i \in DOMAIN q |-> Command(axes[i], q[i])],
         NEW r, r = Project(PickEach(PickSets(Reduce(f, cmds), q), q), Renumbered(q)),
         \A i \in AxesWith(q, "pick") : q[i].bin \in Bins(axes[i]),
         \A i \in DOMAIN q : Sums(q[i]) /\ ~IsOrdered(axes[i]) =>
           Limit(q[i].stop, axes[i], axes[i].size) <= axes[i].size
  PROVE  IsSelection(axes, q, content, r)
<1>1. PICK n \in Nat : n = Len(axes) /\ DOMAIN axes = 1 .. n
  BY DEF IsAxes
<1>2. \A i \in DOMAIN axes : axes[i] \in AxisRecords
  BY DEF IsAxes
<1>3. \A i \in DOMAIN q : q[i].kind \in {"slice", "pick", "set"}
  BY ResolvedKinds
<1>4. ASSUME NEW i \in DOMAIN axes PROVE AxisReads(axes[i], q[i])
  <2>1. CASE q[i].kind = "pick"
    BY <2>1 DEF AxisReads, AxesWith
  <2>2. CASE q[i].kind = "set"
    BY <2>2 DEF AxisReads, ReadRaises
  <2>3. CASE q[i].kind = "slice"
    BY <2>3 DEF AxisReads, ReadRaises
  <2> QED BY <1>3, <2>1, <2>2, <2>3
<1>5. \A i \in DOMAIN axes : Answers(axes[i], q[i])
  <2> TAKE i \in DOMAIN axes
  <2>1. PICK ax \in AxisRecords : ax = axes[i]
    BY <1>2
  <2> QED BY <1>4, <2>1, AxisAnswers
<1>6. PICK g : g = Reduce(f, cmds)
  OBVIOUS
<1>7. PICK h : h = PickSets(g, q)
  OBVIOUS
<1>8. PICK K : K = DOMAIN q \ AxesWith(q, "pick")
  OBVIOUS
<1>9. PICK p : p = PickEach(h, q)
  OBVIOUS
<1>10. IsReduced(f, q, g)
  BY <1>6, ReducedCells
<1>11. IsShrunk(f, q, h)
  <2>1. \A i \in DOMAIN f.axes : \A v \in Bins(Shrunk(f.axes[i], q[i])) :
          Source(f.axes[i], q[i], v) \in Bins(Reduced(f.axes[i], q[i]))
    BY <1>5 DEF Answers
  <2> QED BY <1>7, <1>10, <2>1, ShrunkCells
<1>12. h.axes = ShrunkAxes(axes, q)
  BY <1>11 DEF IsShrunk
<1>13. IsPicked(h, q, K, p)
  <2>1. ASSUME NEW i \in DOMAIN q \ K
        PROVE  BinAt(h.axes[i], Position(h.axes[i], q[i].bin)) = q[i].bin
    <3>1. i \in DOMAIN axes /\ q[i].kind = "pick"
      BY <1>8 DEF AxesWith
    <3>2. Shrunk(axes[i], q[i]) = axes[i] /\ q[i].bin \in Bins(axes[i])
      BY <1>5, <3>1 DEF Answers
    <3>3. h.axes[i] = axes[i]
      BY <1>12, <3>1, <3>2 DEF ShrunkAxes
    <3>4. axes[i] \in AxisRecords
      BY <1>2, <3>1
    <3>5. BinAt(axes[i], Position(axes[i], q[i].bin)) = q[i].bin
      BY <3>2, <3>4, PickedBin
    <3> QED BY <3>3, <3>5
  <2> QED BY <1>8, <1>9, <2>1, PickedCells
<1>14. PICK M : M = Kept(q)
  OBVIOUS
<1>15. PICK L : L = (1 .. Cardinality(K)) \ Renumbered(q)
  OBVIOUS
<1>16. DOMAIN q = 1 .. n
  BY <1>1
<1>17. Numbered(K, M, L)
  BY <1>8, <1>14, <1>15, <1>16, SummedNumbers
<1>18. DOMAIN p.axes = 1 .. Cardinality(K)
  <2>1. p.axes = Selected(h.axes, K)
    BY <1>13 DEF IsPicked
  <2>2. K \in SUBSET Int /\ IsFiniteSet(K)
    BY <1>17 DEF Numbered
  <2> QED BY <2>1, <2>2, SelectedIs
<1>19. IsProjected(p, L, r)
  <2>1. r = Project(p, Renumbered(q))
    BY <1>6, <1>7, <1>9, Zenon
  <2>2. PICK R : R = Renumbered(q)
    OBVIOUS
  <2>3. L = DOMAIN p.axes \ R
    BY <1>15, <1>18, <2>2
  <2> QED BY <2>1, <2>2, <2>3, ProjectedCells
<1>20. PICK S : S = ShrunkAxes(axes, q)
  OBVIOUS
<1>21. h.axes = S /\ \A u \in Cells(S) : h.cells[u] = Landed(axes, q, content, u)
  BY <1>11, <1>20 DEF IsShrunk
<1> QED BY <1>1, <1>3, <1>5, <1>8, <1>13, <1>14, <1>17, <1>19, <1>20, <1>21, PassesCompose

\* GetItem, whether or not every axis is picked.
LEMMA AnswerRight ==
  ASSUME IsAxes(axes), \A i \in DOMAIN axes : IsMade(axes[i]),
         NEW q, DOMAIN q = DOMAIN axes, \A i \in DOMAIN q : IsResolved(q[i]), ~ReadRaises(q),
         NEW cmds, cmds = [i \in DOMAIN q |-> Command(axes[i], q[i])],
         NEW f, f.axes = axes, f.cells = content,
         NEW r,
         r = IF AllPicked(q)
             THEN [axes |-> <<>>,
                   cells |-> [t \in {<<>>} |-> content[[i \in DOMAIN q |-> q[i].bin]]]]
             ELSE Project(PickEach(PickSets(Reduce(f, cmds), q), q), Renumbered(q))
  PROVE  SelectedRight(axes, q, content, r)
<1> SUFFICES ASSUME \A i \in AxesWith(q, "pick") : q[i].bin \in Bins(axes[i]),
                    \A i \in DOMAIN q : Sums(q[i]) /\ ~IsOrdered(axes[i]) =>
                      Limit(q[i].stop, axes[i], axes[i].size) <= axes[i].size
             PROVE  IsSelection(axes, q, content, r)
  BY DEF SelectedRight
<1>1. CASE AllPicked(q)
  <2>1. r = [axes |-> <<>>,
             cells |-> [t \in {<<>>} |-> content[[i \in DOMAIN q |-> q[i].bin]]]]
    BY <1>1
  <2> QED BY <1>1, <2>1, AllPickedRight
<1>2. CASE ~AllPicked(q)
  <2>1. r = Project(PickEach(PickSets(Reduce(f, cmds), q), q), Renumbered(q))
    BY <1>2
  <2> QED BY <1>2, <2>1, ReadRight
<1> QED BY <1>1, <1>2

-----------------------------------------------------------------------------
(* What is not read *)

\* A command of a slice stands for the bins between its limits.
LEMMA RangeBins ==
  ASSUME NEW ax \in AxisRecords, NEW s \in SliceItems, s # All, ~(Sums(s) /\ OpenSlice(s)),
         NEW cmd, cmd = Command(ax, s)
  PROVE  /\ cmd.begin \in Int /\ cmd.end \in Int /\ cmd.merge \in Nat \ {0}
         /\ cmd.merge = IF s.step.kind = "rebin" THEN s.step.n ELSE 1
         /\ \A b \in Bins(ax) : b \in SummedBins(ax, s) <=>
              /\ cmd.begin <= b /\ b < cmd.end
              /\ IsOrdered(ax) \/ OpenSlice(s) \/ b < ax.size
<1>1. PICK n \in Nat : n = ax.size
  BY DEF AxisRecords
<1>2. PICK u, o \in {0, 1} :
        /\ u = Bit(HasUnderflow(ax)) /\ (u = 1 <=> HasUnderflow(ax))
        /\ o = Bit(HasOverflow(ax)) /\ (o = 1 <=> HasOverflow(ax))
        /\ ax.size \in Nat
        /\ FirstBin(ax) = -u
        /\ LastBin(ax) = ax.size - 1 + o
        /\ Bins(ax) = -u .. ax.size - 1 + o
        /\ Extent(ax) = ax.size + u + o
  BY AxisNumbers
<1>3. cmd = [begin |-> Start(ax, s), end |-> Stop(ax, s),
             merge |-> IF s.step.kind = "rebin" THEN s.step.n ELSE 1,
             crop |-> Sums(s)]
  BY StepOfSlice DEF Command, IsSlice
<1>4. /\ cmd.begin = Start(ax, s) /\ cmd.end = Stop(ax, s)
      /\ cmd.merge = IF s.step.kind = "rebin" THEN s.step.n ELSE 1
  BY <1>3
<1>5. cmd.merge \in Nat \ {0}
  BY <1>4, StepOfSlice
<1>6. s.start \in Limits /\ s.stop \in Limits
  BY StepOfSlice
<1>7. PICK ordered \in BOOLEAN : ordered <=> IsOrdered(ax) \/ OpenSlice(s)
  OBVIOUS
<1>8. PICK w \in {0, 1} : /\ w = Bit(HasOverflow(ax) /\ (IsOrdered(ax) \/ OpenSlice(s)))
                          /\ ordered => w = o
                          /\ ~ordered => w = 0
  BY <1>2, <1>7 DEF Bit
<1>9. cmd.begin = Limit(s.start, ax, -u) /\ cmd.end = Limit(s.stop, ax, n + w)
  BY <1>1, <1>2, <1>4, <1>8 DEF Start, Stop
<1>10. cmd.begin \in Int /\ cmd.end \in Int
  <2>1. -u \in Int /\ n + w \in Int
    BY <1>1, <1>2, <1>8
  <2> QED BY <1>6, <1>9, <2>1, LimitType
<1>11. \A x \in Limits : x = None <=> x.kind = "none"
  BY DEF Limits, None, Locators
<1>12. /\ s.start = None => cmd.begin = -u
       /\ s.start # None => cmd.begin = Limit(s.start, ax, 0)
  BY <1>6, <1>9, <1>11 DEF Limit
<1>13. /\ s.stop = None => cmd.end = n + w
       /\ s.stop # None => cmd.end = Limit(s.stop, ax, 0)
  BY <1>1, <1>6, <1>9, <1>11 DEF Limit
<1>14. ASSUME NEW b \in Bins(ax)
       PROVE  b \in SummedBins(ax, s) <=>
                cmd.begin <= b /\ b < cmd.end /\ (ordered \/ b < n)
  <2>1. b \in -u .. n - 1 + o
    BY <1>1, <1>2
  <2>2. b \in SummedBins(ax, s) <=>
          /\ s.start = None \/ b >= Limit(s.start, ax, 0)
          /\ s.stop = None \/ b < Limit(s.stop, ax, 0)
          /\ ordered \/ b < n
    BY <1>1, <1>7 DEF SummedBins
  <2>3. s.start = None \/ b >= Limit(s.start, ax, 0) <=> cmd.begin <= b
    BY <1>2, <1>10, <1>12, <2>1
  <2>4. CASE s.stop = None
    <3>1. ordered \/ b < n => b < n + w
      BY <1>2, <1>8, <2>1
    <3> QED BY <1>13, <2>2, <2>3, <2>4, <3>1
  <2>5. CASE s.stop # None
    BY <1>10, <1>13, <2>2, <2>3, <2>5
  <2> QED BY <2>4, <2>5
<1> QED BY <1>1, <1>4, <1>5, <1>7, <1>10, <1>14

\* An axis without a command is never refused.
LEMMA UncutReads ==
  ASSUME NEW ax \in AxisRecords, IsMade(ax), NEW cmd, cmd = NoCommand(ax)
  PROVE  ~ReduceRaises(ax, cmd)
<1>1. PICK n \in Nat : n = ax.size
  BY DEF AxisRecords
<1>2. cmd.begin = -1 /\ cmd.end = n + 1 /\ cmd.merge = 1
  BY <1>1 DEF NoCommand
<1>3. NewSize(ax, cmd) = n
  BY <1>1, BinsStay
<1>4. ax.family \in {"regular", "transformed"} => n > 0
  BY <1>1 DEF IsMade
<1>5. n * 1 = n /\ ~(-1 >= n + 1)
  BY <1>1
<1> QED BY <1>1, <1>2, <1>3, <1>4, <1>5 DEF ReduceRaises

\* A slice that the code refuses cannot be answered.
LEMMA RefusedSlice ==
  ASSUME NEW ax \in AxisRecords, IsMade(ax), NEW s \in SliceItems,
         NEW cmd, cmd = Command(ax, s), ReduceRaises(ax, cmd)
  PROVE  Unanswerable(ax, s)
<1>1. s # All /\ ~(Sums(s) /\ OpenSlice(s))
  <2>1. cmd # NoCommand(ax)
    BY UncutReads
  <2> QED BY <2>1 DEF Command
<1>2. /\ cmd.begin \in Int /\ cmd.end \in Int /\ cmd.merge \in Nat \ {0}
      /\ cmd.merge = IF s.step.kind = "rebin" THEN s.step.n ELSE 1
      /\ \A b \in Bins(ax) : b \in SummedBins(ax, s) <=>
           /\ cmd.begin <= b /\ b < cmd.end
           /\ IsOrdered(ax) \/ OpenSlice(s) \/ b < ax.size
  BY <1>1, RangeBins
<1>3. PICK u, o \in {0, 1} :
        /\ u = Bit(HasUnderflow(ax)) /\ (u = 1 <=> HasUnderflow(ax))
        /\ o = Bit(HasOverflow(ax)) /\ (o = 1 <=> HasOverflow(ax))
        /\ ax.size \in Nat
        /\ FirstBin(ax) = -u
        /\ LastBin(ax) = ax.size - 1 + o
        /\ Bins(ax) = -u .. ax.size - 1 + o
        /\ Extent(ax) = ax.size + u + o
  BY AxisNumbers
<1>4. PICK m \in Nat : m = ax.size
  BY <1>3
<1>5. PICK a \in Nat, e \in Int, n \in Nat \ {0}, q \in Int : InNumbers(ax, cmd, a, e, n, q)
  BY <1>2, CommandNumbers
<1>6. PICK begin, end \in Int : begin = cmd.begin /\ end = cmd.end
  BY <1>2
<1>7. /\ a = IF begin < 0 THEN 0 ELSE begin
      /\ e = IF end < m THEN end ELSE m
      /\ n = cmd.merge /\ q = NewSize(ax, cmd) /\ q = (e - a) \div n
  BY <1>4, <1>5, <1>6 DEF InNumbers, Begin, Greatest, Least
<1>8. PICK d \in Int : d = e - a
  BY <1>5
<1>9. PICK p \in Int : p = n * q
  BY <1>5
<1>10. PICK rest \in Int : d = p + rest /\ 0 <= rest /\ rest < n
  <2>1. PICK k, r \in Int : k = d \div n /\ r = d % n /\ d = n * k + r /\ 0 <= r /\ r < n
    BY <1>5, <1>8, Division
  <2>2. k = q
    BY <1>7, <1>8, <2>1
  <2> QED BY <1>9, <2>1, <2>2
<1>11. PICK S : S = SummedBins(ax, s)
  OBVIOUS
<1>12. PICK whole : whole = S \cap (0 .. m - 1)
  OBVIOUS
<1>13. Unanswerable(ax, s) <=>
         \/ S = {}
         \/ n > 1 /\ ax.family \in {"integer", "category"}
         \/ IsCircular(ax) /\ (whole # 0 .. m - 1 \/ m % n # 0)
         \/ ax.family \in {"regular", "transformed"} /\ Cardinality(whole) < n
  BY <1>2, <1>4, <1>7, <1>11, <1>12, StepOfSlice DEF Unanswerable
<1>14. Bins(ax) = -u .. m - 1 + o /\ u \in {0, 1} /\ o \in {0, 1}
  BY <1>3, <1>4
<1>15. \A b \in Bins(ax) : b \in Int /\ -1 <= b /\ b <= m
  <2> SUFFICES ASSUME NEW b \in -u .. m - 1 + o PROVE b \in Int /\ -1 <= b /\ b <= m
    BY <1>14
  <2>1. -u \in Int /\ m - 1 + o \in Int
    BY <1>14
  <2>2. b \in Int /\ -u <= b /\ b <= m - 1 + o
    BY <2>1
  <2> QED BY <1>14, <2>2
<1>16. S \subseteq Bins(ax) /\ \A b \in S : b \in Int /\ -1 <= b /\ b <= m /\ begin <= b /\ b < end
  <2>1. S \subseteq Bins(ax)
    BY <1>11 DEF SummedBins
  <2> QED BY <1>2, <1>6, <1>11, <1>15, <2>1
<1>17. \A b \in 0 .. m - 1 : b \in whole <=> a <= b /\ b < e
  <2> SUFFICES ASSUME NEW b \in 0 .. m - 1 PROVE b \in whole <=> a <= b /\ b < e
    OBVIOUS
  <2>1. b \in Bins(ax)
    <3>1. -u <= b /\ b <= m - 1 + o /\ -u \in Int /\ m - 1 + o \in Int
      BY <1>14
    <3> QED BY <1>14, <3>1
  <2>2. b < ax.size
    BY <1>4
  <2>3. b \in whole <=> begin <= b /\ b < end
    BY <1>2, <1>6, <1>11, <1>12, <2>1, <2>2
  <2> QED BY <1>7, <2>3
<1>18. CASE begin >= end
  <2>1. S = {}
    BY <1>16, <1>18
  <2> QED BY <1>13, <2>1
<1>19. CASE q < 0
  <2>1. d < 0
    <3>1. d \div n < 0 <=> d < n * 0
      BY <1>5, <1>8, QuotientBelow
    <3> QED BY <1>5, <1>7, <1>8, <1>19, <3>1
  <2>2. e < a
    BY <1>5, <1>8, <2>1
  <2>3. S = {}
    <3> SUFFICES ASSUME NEW b \in S PROVE FALSE
      OBVIOUS
    <3> QED BY <1>4, <1>5, <1>6, <1>7, <1>16, <2>2
  <2> QED BY <1>13, <2>3
<1>20. CASE q = 0 /\ ax.family \in {"regular", "transformed"}
  <2>1. d < n
    BY <1>5, <1>9, <1>10, <1>20
  <2>2. whole \subseteq a .. e - 1
    BY <1>5, <1>12, <1>17
  <2>3. /\ IsFiniteSet(a .. e - 1)
        /\ Cardinality(a .. e - 1) = IF a > e - 1 THEN 0 ELSE e - 1 - a + 1
    BY <1>5, FS_Interval
  <2>4. Cardinality(a .. e - 1) < n
    BY <1>5, <1>8, <2>1, <2>3
  <2>5. Cardinality(whole) <= Cardinality(a .. e - 1) /\ IsFiniteSet(whole)
    BY <2>2, <2>3, FS_Subset
  <2>6. Cardinality(whole) \in Nat /\ Cardinality(a .. e - 1) \in Nat
    BY <2>3, <2>5, FS_CardinalityType
  <2>7. Cardinality(whole) < n
    BY <1>5, <2>4, <2>5, <2>6
  <2> QED BY <1>13, <1>20, <2>7
<1>21. CASE n > 1 /\ ax.family \in {"integer", "category"}
  BY <1>13, <1>21
<1>22. CASE IsCircular(ax) /\ p # m /\ q >= 0
  <2>1. PICK k, r \in Int : k = m \div n /\ r = m % n /\ m = n * k + r /\ 0 <= r /\ r < n
    <3>1. m \in Int /\ n \in Nat \ {0}
      BY <1>4, <1>5
    <3> QED BY <3>1, Division, Zenon
  <2> SUFFICES ASSUME whole = 0 .. m - 1, m % n = 0 PROVE FALSE
    BY <1>13, <1>22
  <2>2. p >= 0
    BY <1>5, <1>9, <1>22
  <2>3. d >= 0
    BY <1>10, <2>2
  <2>4. CASE m = 0
    <3>1. d = 0
      BY <1>5, <1>7, <1>8, <2>3, <2>4
    <3> QED BY <1>10, <1>22, <2>2, <2>4, <3>1
  <2>5. CASE m > 0
    <3>1. 0 \in whole /\ m - 1 \in whole
      BY <1>4, <2>5
    <3>2. a = 0 /\ e = m
      BY <1>4, <1>5, <1>6, <1>7, <1>17, <2>5, <3>1
    <3>3. d = m
      BY <1>4, <1>8, <3>2
    <3>4. q = k
      BY <1>7, <1>8, <2>1, <3>3
    <3> QED BY <1>9, <1>22, <2>1, <3>4
  <2> QED BY <1>4, <2>4, <2>5
<1>23. \/ begin >= end
       \/ q < 0
       \/ q = 0 /\ ax.family \in {"regular", "transformed"}
       \/ n > 1 /\ ax.family \in {"integer", "category"}
       \/ IsCircular(ax) /\ q * n # m
  BY <1>4, <1>6, <1>7 DEF ReduceRaises
<1>24. q * n = p
  BY <1>5, <1>9
<1>25. q < 0 \/ q >= 0
  BY <1>5
<1> QED BY <1>18, <1>19, <1>20, <1>21, <1>22, <1>23, <1>24, <1>25

\* What is asked of an axis and not read cannot be answered.
LEMMA RefusedItem ==
  ASSUME NEW ax \in AxisRecords, IsMade(ax), NEW r, IsResolved(r), ~AxisReads(ax, r)
  PROVE  Unanswerable(ax, r)
<1>1. CASE r \in SliceItems
  <2>1. r.kind = "slice"
    BY <1>1, StepOfSlice
  <2>2. ReduceRaises(ax, Command(ax, r))
    BY <2>1 DEF AxisReads
  <2> QED BY <1>1, <2>2, RefusedSlice
<1>2. CASE r.kind = "pick"
  BY <1>2 DEF AxisReads, Unanswerable
<1>3. CASE r.kind = "set"
  BY <1>3 DEF AxisReads, PickSetRaises, Unanswerable
<1> QED BY <1>1, <1>2, <1>3 DEF IsResolved

\* An index that is refused has an item that cannot be answered.
LEMMA RefusedIndex ==
  ASSUME IsAxes(axes), \A i \in DOMAIN axes : IsMade(axes[i]),
         NEW q, DOMAIN q = DOMAIN axes, \A i \in DOMAIN q : IsResolved(q[i]), ReadRaises(q)
  PROVE  \E i \in DOMAIN q : Unanswerable(axes[i], q[i])
<1>1. PICK i \in DOMAIN q :
        CASE q[i].kind = "pick" -> IF AllPicked(q) THEN q[i].bin \notin Bins(axes[i])
                                   ELSE NoPosition(axes[i], q[i].bin)
          [] q[i].kind = "set" -> PickSetRaises(axes[i], q[i].bins)
          [] OTHER -> ReduceRaises(axes[i], Command(axes[i], q[i]))
  BY DEF ReadRaises
<1>2. axes[i] \in AxisRecords /\ IsMade(axes[i]) /\ IsResolved(q[i])
  BY DEF IsAxes
<1>3. q[i].kind = "pick" => q[i].bin \notin Bins(axes[i])
  BY <1>1, <1>2, PickedBin
<1>4. ~AxisReads(axes[i], q[i])
  BY <1>1, <1>3 DEF AxisReads
<1> QED BY <1>2, <1>4, RefusedItem

-----------------------------------------------------------------------------
(* The steps *)

\* What holds of the last call and of the cells that it left.
Answered(index) ==
  call.index = index /\ SelectedRight(axes, Indexes(index), content, call.result)

Written(w) ==
  /\ call.index = w.index /\ call.shape = w.shape
  /\ w.shape # <<>> => WroteRight(axes, Indexes(w.index), w.shape, content)

Refused(w) ==
  /\ call.index = w.index /\ call.shape = w.shape
  /\ w.shape # <<>> /\ ~BadIndex(w.index) => NotFitting(axes, Indexes(w.index), w.shape)

Unread(index) ==
  /\ call.index = index
  /\ ~BadIndex(index) =>
       \E i \in DOMAIN Indexes(index) : Unanswerable(axes[i], Indexes(index)[i])

Settled ==
  /\ axes \in Shapes
  /\ call.op = "none" => content = Untouched
  /\ call.op = "get" => \E index \in Reads(axes) : Answered(index)
  /\ call.op = "get raised" => \E index \in Reads(axes) : Unread(index)
  /\ call.op = "set" => \E w \in Writes(axes) : Written(w)
  /\ call.op = "set raised" => \E w \in Writes(axes) : Refused(w)

LEMMA ShapesMade ==
  ASSUME axes \in Shapes
  PROVE  /\ IsAxes(axes) /\ \A i \in DOMAIN axes : IsMade(axes[i])
         /\ \A index \in Reads(axes) : IsIndex(index)
         /\ \A w \in Writes(axes) : IsIndex(w.index) /\ w.shape \in Seq(Nat)
BY IndexAssumption

LEMMA InitSettled == Init => Settled
BY DEF Init, Settled, NoCall

LEMMA GetSettles ==
  ASSUME Settled, call.op = "none", NEW index \in Reads(axes), GetItem(index)
  PROVE  Settled'
<1>1. axes \in Shapes /\ axes' = axes /\ content' = content
  BY DEF Settled, GetItem
<1>2. /\ IsAxes(axes) /\ \A i \in DOMAIN axes : IsMade(axes[i])
      /\ IsIndex(index)
  BY <1>1, ShapesMade
<1>3. PICK q : q = Indexes(index)
  OBVIOUS
<1>4. ~BadIndex(index) /\ ~ReadRaises(q)
  BY <1>3 DEF GetItem, Readable
<1>5. DOMAIN q = DOMAIN axes /\ \A i \in DOMAIN q : IsResolved(q[i])
  BY <1>2, <1>3, <1>4, IndexResolved
<1>6. PICK cmds : cmds = [i \in DOMAIN q |-> Command(axes[i], q[i])]
  OBVIOUS
<1>7. PICK f : f = [axes |-> axes, cells |-> content]
  OBVIOUS
<1>8. PICK r :
        r = IF AllPicked(q)
            THEN [axes |-> <<>>,
                  cells |-> [t \in {<<>>} |-> content[[i \in DOMAIN q |-> q[i].bin]]]]
            ELSE Project(PickEach(PickSets(Reduce(f, cmds), q), q), Renumbered(q))
  OBVIOUS
<1>9. call' = [op |-> "get", index |-> index, result |-> r]
  BY <1>3, <1>6, <1>7, <1>8, Zenon DEF GetItem
<1>10. f.axes = axes /\ f.cells = content
  BY <1>7
<1>11. SelectedRight(axes, q, content, r)
  BY <1>2, <1>4, <1>5, <1>6, <1>8, <1>10, AnswerRight
<1>12. call'.op = "get" /\ call'.index = index /\ call'.result = r
  BY <1>9
<1>13. Indexes(index)' = q
  BY <1>1, <1>3, SameIndexes
<1>14. SelectedRight(axes', Indexes(index)', content', call'.result)
  BY <1>1, <1>11, <1>12, <1>13
<1>15. Answered(index)'
  BY <1>12, <1>14 DEF Answered
<1> QED BY <1>1, <1>12, <1>15 DEF Settled

LEMMA SetSettles ==
  ASSUME Settled, call.op = "none", NEW w \in Writes(axes), SetItem(w.index, w.shape)
  PROVE  Settled'
<1>1. axes \in Shapes /\ axes' = axes /\ content = Untouched
  BY DEF Settled, SetItem
<1>2. IsAxes(axes) /\ IsIndex(w.index) /\ w.shape \in Seq(Nat)
  BY <1>1, ShapesMade
<1>3. PICK q : q = Indexes(w.index)
  OBVIOUS
<1>4. PICK shape : shape = w.shape
  OBVIOUS
<1>5. ~BadIndex(w.index) /\ ~WriteRaises(q, shape) /\ content' = Assigned(q, shape)
      /\ call' = [op |-> "set", index |-> w.index, shape |-> shape]
  BY <1>3, <1>4, Zenon DEF SetItem, Writable
<1>6. DOMAIN q = DOMAIN axes /\ \A i \in DOMAIN q : IsResolved(q[i])
  BY <1>2, <1>3, <1>5, IndexResolved
<1>7. shape # <<>> => WroteRight(axes, q, shape, content')
  BY <1>1, <1>2, <1>4, <1>5, <1>6, AssignedRight
<1>8. call'.op = "set" /\ call'.index = w.index /\ call'.shape = w.shape
  BY <1>4, <1>5
<1>9. Indexes(w.index)' = q
  BY <1>1, <1>3, SameIndexes
<1>10. w.shape # <<>> => WroteRight(axes', Indexes(w.index)', w.shape, content')
  BY <1>1, <1>4, <1>7, <1>9
<1>11. Written(w)'
  BY <1>8, <1>10 DEF Written
<1> QED BY <1>1, <1>8, <1>11 DEF Settled

LEMMA SetRaisesSettles ==
  ASSUME Settled, call.op = "none", NEW w \in Writes(axes), SetRaises(w.index, w.shape)
  PROVE  Settled'
<1>1. axes \in Shapes /\ axes' = axes
  BY DEF Settled, SetRaises
<1>2. IsAxes(axes) /\ IsIndex(w.index) /\ w.shape \in Seq(Nat)
  BY <1>1, ShapesMade
<1>3. PICK q : q = Indexes(w.index)
  OBVIOUS
<1>4. PICK index, shape : index = w.index /\ shape = w.shape
  OBVIOUS
<1>5. ~Writable(index, shape) /\ call' = [op |-> "set raised", index |-> index, shape |-> shape]
  BY <1>4 DEF SetRaises
<1>6. ASSUME shape # <<>>, ~BadIndex(index) PROVE NotFitting(axes, q, shape)
  <2>1. DOMAIN q = DOMAIN axes /\ \A i \in DOMAIN q : IsResolved(q[i])
    BY <1>2, <1>3, <1>4, <1>6, IndexResolved
  <2>2. q = Indexes(index) /\ shape \in Seq(Nat)
    BY <1>2, <1>3, <1>4
  <2> QED BY <1>2, <1>5, <1>6, <2>1, <2>2, FittingWritten
<1>7. call'.op = "set raised" /\ call'.index = w.index /\ call'.shape = w.shape
  BY <1>4, <1>5
<1>8. Indexes(w.index)' = q /\ (BadIndex(w.index)' <=> BadIndex(w.index))
  BY <1>1, <1>3, SameIndexes
<1>9. w.shape # <<>> /\ ~BadIndex(w.index)' => NotFitting(axes', Indexes(w.index)', w.shape)
  BY <1>1, <1>4, <1>6, <1>8
<1>10. Refused(w)'
  BY <1>7, <1>9 DEF Refused
<1> QED BY <1>1, <1>7, <1>10 DEF Settled

LEMMA GetRaisesSettles ==
  ASSUME Settled, NEW index \in Reads(axes), GetRaises(index)
  PROVE  Settled'
<1>1. axes \in Shapes /\ axes' = axes
  BY DEF Settled, GetRaises
<1>2. /\ IsAxes(axes) /\ \A i \in DOMAIN axes : IsMade(axes[i])
      /\ IsIndex(index)
  BY <1>1, ShapesMade
<1>3. PICK q : q = Indexes(index)
  OBVIOUS
<1>4. ~Readable(index) /\ call' = [op |-> "get raised", index |-> index]
  BY DEF GetRaises
<1>5. ASSUME ~BadIndex(index) PROVE \E i \in DOMAIN q : Unanswerable(axes[i], q[i])
  <2>1. DOMAIN q = DOMAIN axes /\ \A i \in DOMAIN q : IsResolved(q[i])
    BY <1>2, <1>3, <1>5, IndexResolved
  <2>2. ReadRaises(q)
    BY <1>3, <1>4, <1>5 DEF Readable
  <2> QED BY <1>2, <2>1, <2>2, RefusedIndex
<1>6. call'.op = "get raised" /\ call'.index = index
  BY <1>4
<1>7. Indexes(index)' = q /\ (BadIndex(index)' <=> BadIndex(index))
  BY <1>1, <1>3, SameIndexes
<1>8. Unread(index)'
  BY <1>1, <1>5, <1>6, <1>7 DEF Unread
<1> QED BY <1>1, <1>6, <1>8 DEF Settled

LEMMA StutterSettles ==
  ASSUME Settled, UNCHANGED vars
  PROVE  Settled'
<1>1. axes' = axes /\ content' = content /\ call' = call
  BY DEF vars
<1>2. \A index : Indexes(index)' = Indexes(index) /\ (BadIndex(index)' <=> BadIndex(index))
  BY <1>1, SameIndexes
<1>3. \A index : Answered(index) => Answered(index)'
  BY <1>1, <1>2 DEF Answered
<1>4. \A index : Unread(index) => Unread(index)'
  BY <1>1, <1>2 DEF Unread
<1>5. \A w : Written(w) => Written(w)'
  BY <1>1, <1>2 DEF Written
<1>6. \A w : Refused(w) => Refused(w)'
  BY <1>1, <1>2 DEF Refused
<1>7. Untouched' = Untouched
  BY <1>1 DEF Untouched
<1> QED BY <1>1, <1>3, <1>4, <1>5, <1>6, <1>7 DEF Settled

LEMMA NextSettles == Settled /\ [Next]_vars => Settled'
<1> SUFFICES ASSUME Settled, [Next]_vars PROVE Settled'
  OBVIOUS
<1>1. CASE Next
  <2>1. call.op = "none"
    BY <1>1 DEF Next
  <2>2. ASSUME NEW index \in Reads(axes), GetItem(index) PROVE Settled'
    BY <2>1, <2>2, GetSettles
  <2>3. ASSUME NEW index \in Reads(axes), GetRaises(index) PROVE Settled'
    BY <2>3, GetRaisesSettles
  <2>4. ASSUME NEW w \in Writes(axes), SetItem(w.index, w.shape) PROVE Settled'
    BY <2>1, <2>4, SetSettles
  <2>5. ASSUME NEW w \in Writes(axes), SetRaises(w.index, w.shape) PROVE Settled'
    BY <2>1, <2>5, SetRaisesSettles
  <2> QED BY <1>1, <2>2, <2>3, <2>4, <2>5 DEF Next
<1>2. CASE UNCHANGED vars
  BY <1>2, StutterSettles
<1> QED BY <1>1, <1>2

-----------------------------------------------------------------------------
(* The theorems *)

LEMMA SettledSelection == Settled => SelectionRight
<1> SUFFICES ASSUME Settled, call.op = "get" PROVE SelectionRight
  BY DEF SelectionRight
<1>1. PICK index \in Reads(axes) : Answered(index)
  BY DEF Settled
<1>2. SelectedRight(axes, Indexes(call.index), content, call.result)
  BY <1>1 DEF Answered
<1> QED BY <1>2, Zenon DEF SelectionRight, SelectedRight, IsSelection, Kept, Wanted

LEMMA SettledRanges == Settled => RangesAnswered
<1> SUFFICES ASSUME Settled, call.op = "get raised", ~BadIndex(call.index)
             PROVE  RangesAnswered
  BY DEF RangesAnswered
<1>1. PICK index \in Reads(axes) : Unread(index)
  BY DEF Settled
<1>2. \E i \in DOMAIN Indexes(call.index) : Unanswerable(axes[i], Indexes(call.index)[i])
  BY <1>1 DEF Unread
<1> QED BY <1>2 DEF RangesAnswered

LEMMA SettledWrites == Settled => WritesAddressed
<1> SUFFICES ASSUME Settled, call.op = "set", call.shape # <<>> PROVE WritesAddressed
  BY DEF WritesAddressed
<1>1. PICK w \in Writes(axes) : Written(w)
  BY DEF Settled
<1>2. WroteRight(axes, Indexes(call.index), call.shape, content)
  BY <1>1 DEF Written
<1> QED BY <1>2, Zenon DEF WritesAddressed, WroteRight

LEMMA SettledFitting == Settled => FittingAccepted
<1> SUFFICES ASSUME Settled, call.op = "set raised", call.shape # <<>>, ~BadIndex(call.index)
             PROVE  FittingAccepted
  BY DEF FittingAccepted
<1>1. PICK w \in Writes(axes) : Refused(w)
  BY DEF Settled
<1>2. NotFitting(axes, Indexes(call.index), call.shape)
  <2>1. call.index = w.index /\ call.shape = w.shape
    BY <1>1 DEF Refused
  <2>2. ~BadIndex(w.index)
    BY <2>1
  <2> QED BY <1>1, <2>1, <2>2 DEF Refused
<1> QED BY <1>2, Zenon DEF FittingAccepted, NotFitting

\* An index returns the bins that it stands for, axis by axis, each in its cell,
\* though the code crops, lists, picks and sums in four passes over all axes.
THEOREM IndicesSelect == Spec => []SelectionRight
<1>1. Spec => []Settled
  BY InitSettled, NextSettles, PTL DEF Spec
<1> QED BY <1>1, SettledSelection, PTL

\* Reading is refused only for an item that no histogram could answer: empty
\* ranges of all but regular axes and axes of size 0 are read.
THEOREM RangesAreAnswered == Spec => []RangesAnswered
<1>1. Spec => []Settled
  BY InitSettled, NextSettles, PTL DEF Spec
<1> QED BY <1>1, SettledRanges, PTL

\* An array that is assigned goes, in order, to the bins of the slices and to no
\* other bin, with and without the flow bins.
THEOREM ArraysGoWhereAddressed == Spec => []WritesAddressed
<1>1. Spec => []Settled
  BY InitSettled, NextSettles, PTL DEF Spec
<1> QED BY <1>1, SettledWrites, PTL

\* An array with an element for every bin of each slice is not refused.
THEOREM FittingArraysAccepted == Spec => []FittingAccepted
<1>1. Spec => []Settled
  BY InitSettled, NextSettles, PTL DEF Spec
<1> QED BY <1>1, SettledFitting, PTL
=============================================================================
