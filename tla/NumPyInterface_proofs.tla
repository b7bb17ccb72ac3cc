------------------------ MODULE NumPyInterface_proofs ------------------------
(***************************************************************************)
(* Cutting the arguments of a fill into sections makes no difference to    *)
(* what is counted, for any arguments, lengths and number of threads; the  *)
(* sections of ArraySplit, NumPy's array_split, partition any array; and   *)
(* histogramdd returns the counts of NumPy and the edges that it was given.*)
(***************************************************************************)
EXTENDS NumPyInterface, ArithmeticTheorems, FiniteSetTheorems, TLAPS

-----------------------------------------------------------------------------
(* Division *)

LEMMA NamedDivision ==
  ASSUME NEW n \in Int, NEW t \in Int, t > 0,
         NEW q \in Int, q = n \div t, NEW m \in Int, m = n % t
  PROVE  n = t * q + m
OBVIOUS

\* Quotient and remainder are given names: the provers know what they are only
\* of names.
LEMMA Division ==
  ASSUME NEW n \in Nat, NEW t \in Nat \ {0}
  PROVE  \E q, m \in Nat : /\ q = n \div t /\ m = n % t
                          /\ n = t * q + m /\ m < t
<1>1. n \div t \in Int /\ n \div t >= 0
  OBVIOUS
<1>2. n % t \in Int /\ n % t \in 0 .. t - 1
  OBVIOUS
<1>3. PICK q \in Int : q = n \div t
  BY <1>1
<1>4. PICK m \in Int : m = n % t
  BY <1>2
<1>5. n = t * q + m
  BY <1>3, <1>4, NamedDivision
<1>6. q \in Nat /\ m \in Nat /\ m < t
  BY <1>1, <1>2, <1>3, <1>4
<1> QED BY <1>3, <1>4, <1>5, <1>6

LEMMA Monotone ==
  ASSUME NEW q \in Nat, NEW i \in Nat, NEW j \in Nat, i <= j
  PROVE  i * q \in Nat /\ i * q <= j * q
OBVIOUS

LEMMA OneMore ==
  ASSUME NEW q \in Nat, NEW i \in Int
  PROVE  (i + 1) * q = i * q + q /\ i * q \in Int
OBVIOUS

-----------------------------------------------------------------------------
(* Sections *)

\* Where section i + 1 starts: the sections before it, in units of q elements,
\* and one more element for each of the first m.
Lesser(a, b) == IF a <= b THEN a ELSE b
Start(q, m, i) == i * q + Lesser(i, m)

LEMMA Starts ==
  ASSUME NEW n \in Nat, NEW t \in Nat \ {0}, NEW i \in 1 .. t
  PROVE  /\ SectionStart(n, t, i) = Start(n \div t, n % t, i - 1)
         /\ SectionStart(n, t, i) + SectionLen(n, t, i) = Start(n \div t, n % t, i)
         /\ SectionLen(n, t, i) \in Nat
<1> DEFINE q == n \div t
           m == n % t
<1>1. q \in Nat /\ m \in Nat
  <2>1. PICK d, r \in Nat : d = n \div t /\ r = n % t
    BY Division
  <2> QED BY <2>1
<1>2. i * q = (i - 1) * q + q /\ (i - 1) * q \in Int
  <2>1. i - 1 \in Int /\ (i - 1) + 1 = i
    OBVIOUS
  <2> QED BY <1>1, <2>1, OneMore
<1>3. /\ SectionStart(n, t, i) = (i - 1) * q + (IF i - 1 <= m THEN i - 1 ELSE m)
      /\ SectionLen(n, t, i) = q + (IF i <= m THEN 1 ELSE 0)
  BY DEF SectionStart, SectionLen
<1>4. Start(q, m, i) = i * q + Lesser(i, m)
      /\ Start(q, m, i - 1) = (i - 1) * q + Lesser(i - 1, m)
  BY DEF Start
<1> HIDE DEF q, m
<1>5. SectionLen(n, t, i) \in Nat
  BY <1>1, <1>3
<1>6. SectionStart(n, t, i) = Start(q, m, i - 1)
  BY <1>3, <1>4 DEF Lesser
<1>7. Lesser(i, m) = Lesser(i - 1, m) + (IF i <= m THEN 1 ELSE 0) /\ Lesser(i, m) \in Nat
      /\ Lesser(i - 1, m) \in Nat
  BY <1>1 DEF Lesser
<1>8. SectionStart(n, t, i) + SectionLen(n, t, i) = Start(q, m, i)
  BY <1>1, <1>2, <1>3, <1>4, <1>6, <1>7
<1> QED BY <1>5, <1>6, <1>8 DEF q, m

LEMMA StartsAscend ==
  ASSUME NEW q \in Nat, NEW m \in Nat, NEW i \in Nat, NEW j \in Nat, i <= j
  PROVE  /\ Start(q, m, i) \in Nat /\ Start(q, m, i) <= Start(q, m, j)
<1>1. i * q \in Nat /\ j * q \in Nat /\ i * q <= j * q
  BY Monotone
<1>2. Lesser(i, m) \in Nat /\ Lesser(j, m) \in Nat /\ Lesser(i, m) <= Lesser(j, m)
  BY DEF Lesser
<1> QED BY <1>1, <1>2 DEF Start

LEMMA Cuts ==
  ASSUME NEW n \in Nat, NEW t \in Nat \ {0}
  PROVE  \E q, m \in Nat :
           /\ n = t * q + m /\ m < t
           /\ \A i \in 1 .. t :
                Section(n, t, i) = Start(q, m, i - 1) .. Start(q, m, i) - 1
<1>1. PICK q, m \in Nat : q = n \div t /\ m = n % t /\ n = t * q + m /\ m < t
  BY Division
<1>2. ASSUME NEW i \in 1 .. t
      PROVE  Section(n, t, i) = Start(q, m, i - 1) .. Start(q, m, i) - 1
  <2>1. SectionStart(n, t, i) = Start(q, m, i - 1)
    BY <1>1, Starts
  <2>2. SectionStart(n, t, i) + SectionLen(n, t, i) = Start(q, m, i)
    BY <1>1, Starts
  <2>3. SectionLen(n, t, i) \in Nat /\ Start(q, m, i - 1) \in Nat
    <3>1. i - 1 \in Nat /\ i - 1 <= i - 1
      OBVIOUS
    <3> QED BY <3>1, Starts, StartsAscend
  <2>4. SectionStart(n, t, i) + SectionLen(n, t, i) - 1 = Start(q, m, i) - 1
    BY <2>1, <2>2, <2>3
  <2> QED BY <2>1, <2>4 DEF Section
<1> QED BY <1>1, <1>2

\* No two sections share an element, and none reaches beyond the array.
THEOREM SectionsDisjoint ==
  ASSUME NEW n \in Nat, NEW t \in Nat \ {0}
  PROVE  /\ \A i \in 1 .. t : Section(n, t, i) \subseteq 0 .. n - 1
         /\ \A i, j \in 1 .. t : i # j => Section(n, t, i) \cap Section(n, t, j) = {}
<1>1. PICK q, m \in Nat :
        /\ n = t * q + m /\ m < t
        /\ \A i \in 1 .. t :
             Section(n, t, i) = Start(q, m, i - 1) .. Start(q, m, i) - 1
  BY Cuts
<1>2. Start(q, m, t) = n
  <2>1. Lesser(t, m) = m
    BY <1>1 DEF Lesser
  <2> QED BY <1>1, <2>1 DEF Start
<1>3. ASSUME NEW i \in 1 .. t, NEW j \in 1 .. t, i < j
      PROVE  Section(n, t, i) \cap Section(n, t, j) = {}
  <2>1. /\ i - 1 \in Nat /\ i \in Nat /\ j - 1 \in Nat /\ j \in Nat /\ i <= j - 1
        /\ i - 1 <= i /\ j - 1 <= j /\ j <= j
    BY <1>3
  <2>2. /\ Start(q, m, i) <= Start(q, m, j - 1)
        /\ Start(q, m, i) \in Nat /\ Start(q, m, i - 1) \in Nat
        /\ Start(q, m, j) \in Nat /\ Start(q, m, j - 1) \in Nat
    BY <2>1, StartsAscend
  <2> QED BY <1>1, <2>2
<1>4. ASSUME NEW i \in 1 .. t PROVE Section(n, t, i) \subseteq 0 .. n - 1
  <2>1. i - 1 \in Nat /\ i \in Nat /\ i <= t /\ t \in Nat /\ i - 1 <= i
    OBVIOUS
  <2>2. Start(q, m, i - 1) \in Nat /\ Start(q, m, i) \in Nat
    BY <2>1, StartsAscend
  <2>3. Start(q, m, i) <= n
    BY <1>2, <2>1, StartsAscend
  <2> QED BY <1>1, <2>2, <2>3
<1>5. ASSUME NEW i \in 1 .. t, NEW j \in 1 .. t, i # j
      PROVE  Section(n, t, i) \cap Section(n, t, j) = {}
  <2>1. i < j \/ j < i
    BY <1>5
  <2>2. CASE i < j
    BY <1>3, <2>2
  <2>3. CASE j < i
    BY <1>3, <2>3
  <2> QED BY <2>1, <2>2, <2>3
<1> QED BY <1>4, <1>5

\* The number of times that k fits into a number.
LEMMA Fits ==
  ASSUME NEW a \in Nat, NEW k \in Nat \ {0}
  PROVE  \E c \in Nat : c * k <= a /\ a < (c + 1) * k
<1>1. PICK c, d \in Nat : a = k * c + d /\ d < k
  BY Division
<1>2. c * k = k * c /\ (c + 1) * k = c * k + k /\ c * k \in Nat
  BY OneMore, Monotone
<1> QED BY <1>1, <1>2

LEMMA FewerFit ==
  ASSUME NEW a \in Nat, NEW k \in Nat, NEW c \in Nat, NEW l \in Nat,
         c * k <= a, a < l * k
  PROVE  c < l
<1>1. l <= c => l * k <= c * k
  BY Monotone
<1>2. c * k \in Nat /\ l * k \in Nat
  BY Monotone
<1> QED BY <1>1, <1>2

\* Every element is in a section.
THEOREM SectionsCover ==
  ASSUME NEW n \in Nat, NEW t \in Nat \ {0}, NEW p \in 0 .. n - 1
  PROVE  \E i \in 1 .. t : p \in Section(n, t, i)
<1>1. PICK q, m \in Nat :
        /\ n = t * q + m /\ m < t
        /\ \A i \in 1 .. t :
             Section(n, t, i) = Start(q, m, i - 1) .. Start(q, m, i) - 1
  BY Cuts
<1>2. p \in Nat /\ p < n
  OBVIOUS
<1>3. ASSUME NEW i \in Nat, i + 1 <= t, Start(q, m, i) <= p, p < Start(q, m, i + 1)
      PROVE  \E j \in 1 .. t : p \in Section(n, t, j)
  <2>1. i + 1 \in 1 .. t /\ (i + 1) - 1 = i
    BY <1>3
  <2>2. Section(n, t, i + 1) = Start(q, m, i) .. Start(q, m, i + 1) - 1
    BY <1>1, <2>1
  <2>3. Start(q, m, i) \in Nat /\ Start(q, m, i + 1) \in Nat
    <3>1. i + 1 \in Nat /\ i <= i /\ i + 1 <= i + 1
      OBVIOUS
    <3> QED BY <3>1, StartsAscend
  <2> QED BY <1>2, <1>3, <2>1, <2>2, <2>3
<1>4. m * (q + 1) \in Nat
  BY Monotone
<1>5. CASE p < m * (q + 1)
  <2>0. q + 1 \in Nat /\ q + 1 \in Nat \ {0}
    OBVIOUS
  <2>1. PICK c \in Nat : c * (q + 1) <= p /\ p < (c + 1) * (q + 1)
    BY <1>2, <2>0, Fits
  <2>2. c < m
    BY <1>2, <1>5, <2>0, <2>1, FewerFit
  <2>3. c * (q + 1) = c * q + c /\ (c + 1) * (q + 1) = (c + 1) * q + (c + 1)
    OBVIOUS
  <2>4. Lesser(c, m) = c /\ Lesser(c + 1, m) = c + 1
    BY <2>2 DEF Lesser
  <2>5. Start(q, m, c) <= p /\ p < Start(q, m, c + 1)
    BY <2>1, <2>3, <2>4 DEF Start
  <2>6. c + 1 <= t
    BY <1>1, <2>2
  <2> QED BY <1>3, <2>5, <2>6
<1>6. CASE m * (q + 1) <= p
  <2>1. PICK r \in Nat : p = m * (q + 1) + r
    <3>1. p - m * (q + 1) \in Nat /\ p = m * (q + 1) + (p - m * (q + 1))
      BY <1>2, <1>4, <1>6
    <3> QED BY <3>1
  <2>2. PICK s \in Nat : t = m + s
    <3>1. t - m \in Nat /\ t = m + (t - m)
      BY <1>1
    <3> QED BY <3>1
  <2>3. t * q = m * q + s * q /\ m * (q + 1) = m * q + m /\ m * q \in Nat /\ s * q \in Nat
    BY <2>2
  <2>4. r < s * q
    BY <1>1, <1>2, <2>1, <2>3
  <2>5. q # 0
    BY <2>4
  <2>6. PICK c \in Nat : c * q <= r /\ r < (c + 1) * q
    BY <2>5, Fits
  <2>7. c < s
    BY <2>4, <2>6, FewerFit
  <2>8. Lesser(m + c, m) = m /\ Lesser(m + c + 1, m) = m
    BY DEF Lesser
  <2>9. (m + c) * q = m * q + c * q /\ (m + c + 1) * q = m * q + (c + 1) * q
    OBVIOUS
  <2>10. c * q \in Nat /\ (c + 1) * q \in Nat
    BY Monotone
  <2>11. Start(q, m, m + c) <= p /\ p < Start(q, m, m + c + 1)
    BY <2>1, <2>3, <2>6, <2>8, <2>9, <2>10 DEF Start
  <2>12. m + c \in Nat /\ m + c + 1 <= t
    BY <2>2, <2>7
  <2> QED BY <1>3, <2>11, <2>12
<1> QED BY <1>2, <1>4, <1>5, <1>6
-----------------------------------------------------------------------------
(* Bins *)

LEMMA Scaled ==
  ASSUME NEW x \in Int, NEW y \in Int, NEW d \in Nat \ {0}
  PROVE  x > y <=> x * d > y * d
<1>1. (x - y) * d = x * d - y * d
  OBVIOUS
<1>2. ASSUME x > y PROVE x * d > y * d
  <2>1. PICK z \in Nat \ {0} : z = x - y
    BY <1>2
  <2>2. z * d > 0
    BY SMT
  <2>3. x * d \in Int /\ y * d \in Int
    OBVIOUS
  <2> QED BY <1>1, <2>1, <2>2, <2>3
<1>3. ASSUME x <= y PROVE x * d <= y * d
  <2>1. PICK z \in Nat : z = y - x
    BY <1>3
  <2>2. z * d >= 0 /\ z * d = y * d - x * d
    BY <2>1
  <2>3. x * d \in Int /\ y * d \in Int
    OBVIOUS
  <2> QED BY <2>2, <2>3
<1>4. x * d \in Int /\ y * d \in Int
  OBVIOUS
<1> QED BY <1>2, <1>3, <1>4

\* How a fraction compares with a whole number.
LEMMA AboveWhole ==
  ASSUME NEW n \in Int, NEW d \in Nat \ {0}, NEW v \in Int
  PROVE  /\ Above(Ratio(n, d), Whole(v)) <=> n > v * d
         /\ Ratio(n, d) = Whole(v) <=> n = v * d
<1>0. d \in Int \ {0}
  OBVIOUS
<1>1. PICK a \in Int, b \in Nat \ {0} : Ratio(n, d) = <<a, b>> /\ a * d = n * b
  BY <1>0, RatioParts
<1>2. Above(Ratio(n, d), Whole(v)) <=> a > v * b
  BY <1>1 DEF Above, Whole
<1>3. PICK vb \in Int : vb = v * b
  OBVIOUS
<1>4. PICK vd \in Int : vd = v * d
  OBVIOUS
<1>5. a > vb <=> a * d > vb * d
  BY Scaled
<1>6. n > vd <=> n * b > vd * b
  BY Scaled
<1>7. vb * d = vd * b
  BY <1>3, <1>4
<1>8. Above(Ratio(n, d), Whole(v)) <=> n > v * d
  BY <1>1, <1>2, <1>3, <1>4, <1>5, <1>6, <1>7
<1>9. ASSUME Ratio(n, d) = Whole(v) PROVE n = v * d
  <2>1. Ratio(n, d) = Ratio(v, 1) /\ 1 \in Int \ {0} /\ d \in Int \ {0}
    BY <1>9, WholeRatio
  <2>2. n * 1 = v * d
    BY <2>1, RatioSame
  <2> QED BY <2>2
<1>10. ASSUME n = v * d PROVE Ratio(n, d) = Whole(v)
  <2>1. n * 1 = v * d /\ 1 \in Int \ {0} /\ d \in Int \ {0}
    BY <1>10
  <2> QED BY <2>1, RatioEqual, WholeRatio
<1> QED BY <1>8, <1>9, <1>10

\* Where the quotient of a division lies between multiples of the divisor.
LEMMA DivisionBetween ==
  ASSUME NEW n \in Nat, NEW t \in Nat \ {0}, NEW i \in Nat
  PROVE  n \div t = i <=> t * i <= n /\ n < t * (i + 1)
<1>1. PICK q \in Nat, m \in Nat : q = n \div t /\ n = t * q + m /\ m < t
  BY Division
<1>2. t * (i + 1) = t * i + t /\ t * i \in Nat /\ t * q \in Nat /\ t * (q + 1) = t * q + t
  OBVIOUS
<1>3. ASSUME i < q PROVE ~(n < t * (i + 1))
  <2>1. PICK r \in Nat : q = i + 1 + r
    <3>1. q - (i + 1) \in Nat /\ q = i + 1 + (q - (i + 1))
      BY <1>3
    <3> QED BY <3>1
  <2>2. t * q = t * (i + 1) + t * r /\ t * r \in Nat /\ t * (i + 1) \in Nat
    BY <2>1
  <2> QED BY <1>1, <1>2, <2>2
<1>4. ASSUME q < i PROVE ~(t * i <= n)
  <2>1. PICK r \in Nat : i = q + 1 + r
    <3>1. i - (q + 1) \in Nat /\ i = q + 1 + (i - (q + 1))
      BY <1>4
    <3> QED BY <3>1
  <2>2. t * i = t * (q + 1) + t * r /\ t * r \in Nat
    BY <2>1
  <2> QED BY <1>1, <1>2, <2>2
<1> QED BY <1>1, <1>2, <1>3, <1>4

LEMMA LesserOf ==
  ASSUME NEW x \in Int, NEW y \in Int
  PROVE  Min({x, y}) = IF x <= y THEN x ELSE y
<1>1. \E m \in {x, y} : \A z \in {x, y} : m <= z
  OBVIOUS
<1>2. Min({x, y}) \in {x, y} /\ \A z \in {x, y} : Min({x, y}) <= z
  BY <1>1 DEF Min
<1> QED BY <1>2

\* The bin of a value x beyond the start, of size bins over a width.
RegularOf(x, width, size) ==
  IF x < 0 THEN -1 ELSE IF x >= width THEN size ELSE (x * size) \div width
NumPyOf(x, width, size) ==
  IF x <= width THEN Min({RegularOf(x, width, size), size - 1})
  ELSE RegularOf(x, width, size)

LEMMA IndexBetween ==
  ASSUME NEW x \in Int, NEW width \in Nat \ {0}, NEW size \in Nat \ {0},
         NEW i \in 0 .. size - 1
  PROVE  NumPyOf(x, width, size) = i <=>
           /\ width * i <= x * size
           /\ width * (i + 1) > x * size \/ (i + 1 = size /\ width * size = x * size)
<1> DEFINE regular == RegularOf(x, width, size)
           index == NumPyOf(x, width, size)
<1>r. /\ regular = IF x < 0 THEN -1 ELSE IF x >= width THEN size ELSE (x * size) \div width
      /\ index = IF x <= width THEN Min({regular, size - 1}) ELSE regular
  BY DEF RegularOf, NumPyOf
<1> SUFFICES index = i <=>
               /\ width * i <= x * size
               /\ width * (i + 1) > x * size \/ (i + 1 = size /\ width * size = x * size)
  OBVIOUS
<1> HIDE DEF regular, index
<1>1. size - 1 \in Nat /\ i \in Nat /\ i + 1 <= size
  OBVIOUS
<1>2. width * i \in Nat /\ width * (i + 1) \in Nat /\ width * size \in Nat /\ x * size \in Int
  BY <1>1
<1>3. width * (i + 1) <= width * size
  <2>1. i + 1 \in Nat /\ size \in Nat /\ width \in Nat
    BY <1>1
  <2>2. (i + 1) * width <= size * width
    BY <1>1, <2>1, Monotone
  <2> QED BY <2>1, <2>2
<1>4. CASE x < 0
  <2>1. x * size < 0
    <3>1. 0 * size > x * size
      BY <1>4, Scaled
    <3> QED BY <1>2, <3>1
  <2>2. Min({-1, size - 1}) = -1
    BY <1>1, LesserOf
  <2>3. index = -1
    BY <1>4, <1>r, <2>2
  <2> QED BY <1>1, <1>2, <2>1, <2>3
<1>5. CASE x >= 0 /\ x < width
  <2>1. regular = (x * size) \div width
    BY <1>5, <1>r
  <2>2. x * size \in Nat /\ x * size < width * size
    <3>1. width * size > x * size
      BY <1>5, Scaled
    <3>2. x * size \in Nat
      BY <1>5
    <3> QED BY <1>2, <3>1, <3>2
  <2>3. PICK q \in Nat, m \in Nat : q = (x * size) \div width /\ x * size = width * q + m
    BY <2>2, Division
  <2>4. q < size
    <3>1. width * q <= x * size
      BY <2>3
    <3>2. q * width <= x * size /\ x * size < size * width
      BY <2>2, <3>1
    <3> QED BY <2>2, <3>2, FewerFit
  <2>5. Min({q, size - 1}) = q
    BY <1>1, <2>4, LesserOf
  <2>6. index = (x * size) \div width
    BY <1>5, <1>r, <2>1, <2>3, <2>5
  <2>7. index = i <=> width * i <= x * size /\ x * size < width * (i + 1)
    BY <1>1, <2>2, <2>6, DivisionBetween
  <2> QED BY <1>2, <2>2, <2>7
<1>6. CASE x = width
  <2>1. Min({size, size - 1}) = size - 1
    BY <1>1, LesserOf
  <2>r. regular = size
    <3>1. ~(x < 0) /\ x >= width
      BY <1>6
    <3> QED BY <1>r, <3>1, Zenon
  <2>2. index = size - 1
    <3>1. x <= width
      BY <1>6
    <3> QED BY <1>r, <2>1, <2>r, <3>1, Zenon
  <2>3. i + 1 < size => width * (i + 1) <= width * size
    BY <1>3
  <2>4. width * i <= width * size
    <3>1. width * (i + 1) = width * i + width
      BY <1>1
    <3> QED BY <1>2, <1>3, <3>1
    <2>5. index = i <=> i + 1 = size
    BY <1>1, <2>2
  <2> QED BY <1>2, <1>3, <1>6, <2>4, <2>5
<1>7. CASE x > width
  <2>1. x * size > width * size
    BY <1>7, Scaled
  <2>2. index = size
    BY <1>7, <1>r
  <2> QED BY <1>1, <1>2, <1>3, <2>1, <2>2
<1> QED BY <1>4, <1>5, <1>6, <1>7

\* A value is in the bin of the axis that NumPy would put it in.
LEMMA RegularBins ==
  ASSUME NEW ax, ax.edges = <<>>, ax.start \in Int, ax.stop \in Int, ax.start < ax.stop,
         ax.size \in Nat \ {0}, NEW v \in Int, NEW i \in 0 .. ax.size - 1
  PROVE  AxisIndex(ax, v) = i <=> InBin(NumPyEdges(ax), i, v)
<1> DEFINE E == NumPyEdges(ax)
<1>1. PICK s \in Int, width \in Nat \ {0}, size \in Nat \ {0}, x \in Int :
        /\ s = ax.start /\ width = ax.stop - ax.start /\ size = ax.size
        /\ x = v - ax.start
  <2>1. ax.stop - ax.start \in Nat \ {0} /\ v - ax.start \in Int
    OBVIOUS
  <2> QED BY <2>1
<1>2. AxisIndex(ax, v) = i <=>
        /\ width * i <= x * size
        /\ width * (i + 1) > x * size \/ (i + 1 = size /\ width * size = x * size)
  <2>1. RegularIndex(ax, v) = RegularOf(x, width, size)
    BY <1>1 DEF RegularIndex, RegularOf
  <2>2. v <= ax.stop <=> x <= width
    BY <1>1
  <2>3. AxisIndex(ax, v) = NumPyOf(x, width, size)
    BY <1>1, <2>1, <2>2 DEF AxisIndex, NumPyIndex, NumPyOf
  <2>4. i \in 0 .. size - 1
    BY <1>1
  <2> QED BY <2>3, <2>4, IndexBetween
<1>3. DOMAIN E = 1 .. size + 1 /\ Len(E) = size + 1
  <2>1. E = [k \in 1 .. size + 1 |->
               Ratio(ax.start * ax.size + (ax.stop - ax.start) * (k - 1), ax.size)]
    BY <1>1 DEF NumPyEdges
  <2> HIDE DEF E
  <2> QED BY <2>1
<1>4. ASSUME NEW j \in 0 .. size
      PROVE  /\ Above(E[j + 1], Whole(v)) <=> width * j > x * size
             /\ E[j + 1] = Whole(v) <=> width * j = x * size
  <2>1. j + 1 \in 1 .. size + 1 /\ (j + 1) - 1 = j
    OBVIOUS
  <2>2. E[j + 1] = Ratio(s * size + width * ((j + 1) - 1), size)
    BY <1>1, <2>1 DEF NumPyEdges
  <2>3. PICK a \in Int, b \in Int, c \in Int :
          a = s * size /\ b = width * j /\ c = x * size
    OBVIOUS
  <2>4. v * size = a + c
    <3>1. v = s + x
      BY <1>1
    <3>2. (s + x) * size = s * size + x * size
      OBVIOUS
    <3> QED BY <2>3, <3>1, <3>2
  <2>5. E[j + 1] = Ratio(a + b, size)
    BY <2>1, <2>2, <2>3
  <2> HIDE DEF E
  <2>6. a + b \in Int
    OBVIOUS
  <2>7. /\ Above(E[j + 1], Whole(v)) <=> a + b > v * size
        /\ E[j + 1] = Whole(v) <=> a + b = v * size
    BY <2>5, <2>6, AboveWhole
  <2>8. (a + b > v * size <=> b > c) /\ (a + b = v * size <=> b = c)
    BY <2>4
  <2>9. (width * j > x * size <=> b > c) /\ (width * j = x * size <=> b = c)
    BY <2>3
  <2> QED BY <2>7, <2>8, <2>9, Zenon
<1> HIDE DEF E
<1>5. /\ i \in 0 .. size /\ i + 1 \in 0 .. size /\ i + 2 = (i + 1) + 1
      /\ i + 2 = Len(E) <=> i + 1 = size
  BY <1>1, <1>3
<1>6. InBin(E, i, v) <=>
        /\ ~(width * i > x * size)
        /\ width * (i + 1) > x * size \/ (i + 1 = size /\ width * (i + 1) = x * size)
  BY <1>4, <1>5, Zenon DEF InBin
<1>7. width * i \in Int /\ x * size \in Int
  BY <1>5
<1> QED BY <1>2, <1>6, <1>7 DEF E

\* How many edges of an ascending list are at or below a value tells between
\* which two of them the value lies.
Ascends(e) == \A k \in 1 .. Len(e) - 1 : e[k] < e[k + 1]

LEMMA EdgesBelow ==
  ASSUME NEW e \in Seq(Int), Ascends(e), NEW v \in Int,
         NEW i \in Nat, i + 2 <= Len(e)
  PROVE  Cardinality({k \in DOMAIN e : e[k] <= v}) - 1 = i <=> e[i + 1] <= v /\ v < e[i + 2]
<1> DEFINE B == {k \in DOMAIN e : e[k] <= v}
           L == Len(e)
           T == {n \in Nat : n + 1 \notin B}
<1>1. L \in Nat /\ DOMAIN e = 1 .. L /\ \A k \in 1 .. L : e[k] \in Int
  OBVIOUS
<1>2. B \subseteq 1 .. L /\ \A k \in 1 .. L : k \in B <=> e[k] <= v
  BY <1>1
<1> HIDE DEF B, L
<1>3. \A k \in 1 .. L - 1 : k + 1 \in B => k \in B
  <2> SUFFICES ASSUME NEW k \in 1 .. L - 1, k + 1 \in B PROVE k \in B
    OBVIOUS
  <2>1. k \in 1 .. L /\ k + 1 \in 1 .. L
    BY <1>1
  <2>2. e[k] < e[k + 1] /\ e[k] \in Int /\ e[k + 1] \in Int
    BY <1>1, <2>1 DEF Ascends, L
  <2>3. e[k + 1] <= v
    BY <1>2, <2>1
  <2> QED BY <1>2, <2>1, <2>2, <2>3
<1>4. PICK c \in T : \A n \in T : c <= n
  <2>1. L \in T
    BY <1>1, <1>2
  <2>2. T \in SUBSET Nat /\ T # {}
    BY <2>1
  <2> HIDE DEF T
  <2> QED BY <2>2, LeastNumber
<1>5. c \in Nat /\ c + 1 \notin B
  OBVIOUS
<1>6. \A k \in 1 .. c : k \in B
  <2> SUFFICES ASSUME NEW k \in 1 .. c, k \notin B PROVE FALSE
    OBVIOUS
  <2>1. k - 1 \in Nat /\ (k - 1) + 1 = k
    OBVIOUS
  <2>2. k - 1 \in T
    BY <2>1
  <2> HIDE DEF T
  <2>3. c <= k - 1
    BY <1>4, <2>2
  <2> QED BY <1>5, <2>3
<1>7. \A n \in Nat : c + 1 + n \notin B
  <2> DEFINE Out == {n \in Nat : c + 1 + n \notin B}
  <2>1. 0 \in Out
    BY <1>5
  <2>2. ASSUME NEW n \in Out \cap Nat PROVE n + 1 \in Out
    <3>1. c + 1 + n \notin B /\ n \in Nat /\ n + 1 \in Nat
      OBVIOUS
    <3>2. PICK m \in Nat : m = c + 1 + n
      BY <1>5
    <3>3. ASSUME m + 1 \in B PROVE FALSE
      <4>1. m \in 1 .. L - 1
        <5>1. m + 1 \in 1 .. L
          BY <1>2, <3>3
        <5> QED BY <1>1, <1>5, <3>2, <5>1
      <4>2. m \in B
        BY <1>3, <3>3, <4>1
      <4> QED BY <3>1, <3>2, <4>2
    <3>4. c + 1 + (n + 1) = m + 1
      BY <1>5, <3>2
    <3> QED BY <3>1, <3>3, <3>4
  <2> HIDE DEF Out
  <2>3. Nat \subseteq Out
    BY <2>1, <2>2, NumberInduction
  <2> QED BY <2>3 DEF Out
<1> HIDE DEF T
<1>8. B = 1 .. c
  <2>1. ASSUME NEW k \in B PROVE k \in 1 .. c
    <3>1. k \in 1 .. L
      BY <1>2
    <3>2. ASSUME k > c PROVE FALSE
      <4>1. PICK n \in Nat : c + 1 + n = k
        <5>1. k - (c + 1) \in Nat /\ c + 1 + (k - (c + 1)) = k
          BY <1>1, <1>5, <3>1, <3>2
        <5> QED BY <5>1
      <4> QED BY <1>7, <4>1
    <3> QED BY <1>1, <1>5, <3>1, <3>2
  <2> QED BY <1>6, <2>1
<1>9. Cardinality(B) = c
  BY <1>5, <1>8, FS_Interval
<1>10. i + 1 \in 1 .. L /\ i + 2 \in 1 .. L
  BY <1>1 DEF L
<1>11. e[i + 1] <= v /\ v < e[i + 2] <=> i + 1 \in B /\ i + 2 \notin B
  BY <1>1, <1>2, <1>10
<1>12. i + 1 \in B /\ i + 2 \notin B <=> c - 1 = i
  BY <1>5, <1>8
<1> QED BY <1>9, <1>11, <1>12 DEF B

LEMMA MovedType ==
  ASSUME NEW g \in Seq(Int), NEW by \in Int
  PROVE  /\ Moved(g, by) \in Seq(Int)
         /\ Len(Moved(g, by)) = Len(g)
         /\ DOMAIN Moved(g, by) = DOMAIN g
BY DEF Moved

LEMMA VariableBins ==
  ASSUME NEW g \in Seq(Int), Len(g) > 1, NEW ax, ax.edges = UpperMoved(g),
         ax.size = Len(g) - 1, Ascends(UpperMoved(g)),
         NEW v \in Int, NEW i \in 0 .. ax.size - 1
  PROVE  AxisIndex(ax, v) = i <=> InBin([k \in DOMAIN g |-> Whole(g[k])], i, v)
<1> DEFINE E == [k \in DOMAIN g |-> Whole(g[k])]
           e == UpperMoved(g)
           L == Len(g)
<1>1. /\ L \in Nat /\ DOMAIN g = 1 .. L /\ \A k \in 1 .. L : g[k] \in Int
      /\ e \in Seq(Int) /\ Len(e) = L /\ DOMAIN e = 1 .. L
  BY MovedType DEF UpperMoved
<1>2. \A k \in 1 .. L : e[k] = IF k = L THEN g[k] + 1 ELSE g[k]
  BY <1>1 DEF UpperMoved, Moved
<1>3. Len(E) = L /\ \A k \in 1 .. L : E[k] = Whole(g[k])
  BY <1>1
<1>4. i \in Nat /\ i + 2 <= L /\ i + 1 \in 1 .. L /\ i + 2 \in 1 .. L /\ i + 1 # L
  <2>1. ax.size = L - 1 /\ L \in Nat
    BY <1>1
  <2> HIDE DEF L
  <2>2. i \in 0 .. (L - 1) - 1
    BY <2>1
  <2> QED BY <2>1, <2>2
<1>5. \A k \in 1 .. L : /\ Above(E[k], Whole(v)) <=> g[k] > v
                        /\ E[k] = Whole(v) <=> g[k] = v
  <2> SUFFICES ASSUME NEW k \in 1 .. L
               PROVE  /\ Above(Whole(g[k]), Whole(v)) <=> g[k] > v
                      /\ Whole(g[k]) = Whole(v) <=> g[k] = v
    BY <1>3
  <2> QED BY <1>1 DEF Above, Whole
<1>6. ax.edges = e /\ e # <<>>
  BY <1>1
<1>7. Ascends(e)
  OBVIOUS
<1>8. L > 1
  OBVIOUS
<1> SUFFICES AxisIndex(ax, v) = i <=> InBin(E, i, v)
  OBVIOUS
<1> HIDE DEF E, e, L
<1>9. AxisIndex(ax, v) = i <=> e[i + 1] <= v /\ v < e[i + 2]
  <2>1. AxisIndex(ax, v) = Cardinality({k \in DOMAIN e : e[k] <= v}) - 1
    BY <1>6 DEF AxisIndex, VariableIndex
  <2>2. e \in Seq(Int) /\ i \in Nat /\ i + 2 <= Len(e)
    BY <1>1, <1>4
  <2>3. Cardinality({k \in DOMAIN e : e[k] <= v}) - 1 = i <=> e[i + 1] <= v /\ v < e[i + 2]
    BY <1>7, <2>2, EdgesBelow
  <2> QED BY <2>1, <2>3, Zenon
<1>10. InBin(E, i, v) <=> ~(g[i + 1] > v) /\ (g[i + 2] > v \/ (i + 2 = L /\ g[i + 2] = v))
  BY <1>3, <1>4, <1>5, Zenon DEF InBin
<1>11. /\ e[i + 1] = g[i + 1] /\ g[i + 1] \in Int /\ g[i + 2] \in Int
       /\ e[i + 2] = IF i + 2 = L THEN g[i + 2] + 1 ELSE g[i + 2]
  BY <1>1, <1>2, <1>4
<1>12. e[i + 1] <= v /\ v < e[i + 2] <=>
         ~(g[i + 1] > v) /\ (g[i + 2] > v \/ (i + 2 = L /\ g[i + 2] = v))
  BY <1>11
<1> QED BY <1>9, <1>10, <1>12, Zenon

-----------------------------------------------------------------------------
(* The arguments of a fill *)

\* As many values as there are positions, when they all differ.
LEMMA CountOfValues ==
  ASSUME NEW n \in Nat, NEW f, NEW T,
         \A k \in 0 .. n - 1 : f[k] \in T,
         \A x \in T : \E k \in 0 .. n - 1 : f[k] = x,
         \A j, k \in 0 .. n - 1 : f[j] = f[k] => j = k
  PROVE  IsFiniteSet(T) /\ Cardinality(T) = n
<1> DEFINE S == 0 .. n - 1
           g == [k \in S |-> f[k]]
<1>1. IsFiniteSet(S) /\ Cardinality(S) = n
  BY FS_Interval
<1>2. g \in [S -> T] /\ \A k \in S : g[k] = f[k]
  OBVIOUS
<1> HIDE DEF S, g
<1>3. g \in Injection(S, T)
  BY <1>2 DEF Injection, IsInjective, S
<1>4. g \in Surjection(S, T)
  BY <1>2 DEF Surjection, S
<1>5. ExistsBijection(S, T)
  BY <1>3, <1>4 DEF Bijection, ExistsBijection
<1>6. IsFiniteSet(T)
  BY <1>1, <1>4, FS_Surjection
<1> QED BY <1>1, <1>5, <1>6, FS_Bijection

-----------------------------------------------------------------------------
(* Requests *)

LEMMA Forms ==
  ASSUME NEW r \in Request
  PROVE  /\ \A s \in Slots(r) : FormOf(r, s) \in Form
         /\ Len(r.args) \in Nat /\ DOMAIN r.args = 1 .. Len(r.args)
         /\ \A s \in 1 .. Len(r.args) :
              s \in Slots(r) /\ FormOf(r, s) = r.args[s]
         /\ 0 \in Slots(r) /\ -1 \in Slots(r)
         /\ FormOf(r, 0) = r.weight /\ FormOf(r, -1) = r.sample
BY DEF Request, Slots, FormOf

LEMMA TotalOf ==
  ASSUME NEW r \in Request, ~Rejects(r)
  PROVE  /\ Total(r) \in Nat
         /\ ArrayArgs(r) = {} => Total(r) = 1
         /\ \A s \in Slots(r) : IsArray(FormOf(r, s)) => FormOf(r, s) = Total(r)
<1>1. ASSUME ArrayArgs(r) # {} PROVE Total(r) \in Nat
  <2>1. PICK s \in ArrayArgs(r) : Total(r) = r.args[s]
    BY <1>1 DEF Total
  <2> QED BY <2>1, Forms DEF ArrayArgs, IsArray, Form, Scalar, Absent
<1> QED BY <1>1 DEF Rejects, Total

\* Entries of different positions differ, since some array tells them apart.
LEMMA EntriesDiffer ==
  ASSUME NEW r \in Request, ~Rejects(r), NEW j \in 0 .. Total(r) - 1,
         NEW k \in 0 .. Total(r) - 1, EntryAt(r, j) = EntryAt(r, k)
  PROVE  j = k
<1>1. CASE ArrayArgs(r) = {}
  BY <1>1, TotalOf
<1>2. CASE ArrayArgs(r) # {}
  <2>1. PICK s \in ArrayArgs(r) : TRUE
    BY <1>2
  <2>2. s \in Slots(r) /\ IsArray(FormOf(r, s))
    BY <2>1, Forms DEF ArrayArgs
  <2>3. EntryAt(r, j)[s] = j /\ EntryAt(r, k)[s] = k
    BY <2>2 DEF EntryAt
  <2> QED BY <2>3
<1> QED BY <1>1, <1>2

\* What ThreadsMakeNoDifference says of a set of counted entries, which is finite.
AsGiven(r, set) ==
  /\ IsFiniteSet(set)
  /\ {ce[2] : ce \in set} = Given(r) /\ Cardinality(set) = Total(r)

\* Any set that has every entry once, whichever section it came in.
LEMMA OnceEach ==
  ASSUME NEW r \in Request, ~Rejects(r), NEW sec, NEW set,
         \A p \in 0 .. Total(r) - 1 : <<sec[p], EntryAt(r, p)>> \in set,
         \A ce \in set : \E p \in 0 .. Total(r) - 1 : ce = <<sec[p], EntryAt(r, p)>>
  PROVE  AsGiven(r, set)
<1> DEFINE N == 0 .. Total(r) - 1
           f == [p \in N |-> <<sec[p], EntryAt(r, p)>>]
<1>1. \A p \in N : f[p] = <<sec[p], EntryAt(r, p)>> /\ f[p][2] = EntryAt(r, p)
  OBVIOUS
<1>2. \A j, k \in N : f[j] = f[k] => j = k
  <2> SUFFICES ASSUME NEW j \in N, NEW k \in N, f[j] = f[k] PROVE j = k
    OBVIOUS
  <2>1. EntryAt(r, j) = EntryAt(r, k)
    BY <1>1
  <2> QED BY <2>1, EntriesDiffer
<1> HIDE DEF f
<1>3. /\ \A p \in N : f[p] \in set
      /\ \A ce \in set : \E p \in N : f[p] = ce
  BY <1>1
<1>4. IsFiniteSet(set) /\ Cardinality(set) = Total(r)
  <2>1. PICK n \in Nat : n = Total(r)
    BY TotalOf
  <2>2. N = 0 .. n - 1
    BY <2>1
  <2> HIDE DEF N
  <2>3. /\ \A k \in 0 .. n - 1 : f[k] \in set
        /\ \A x \in set : \E k \in 0 .. n - 1 : f[k] = x
        /\ \A j, k \in 0 .. n - 1 : f[j] = f[k] => j = k
    BY <1>2, <1>3, <2>2
  <2>4. IsFiniteSet(set) /\ Cardinality(set) = n
    BY <2>3, CountOfValues
  <2> QED BY <2>1, <2>4
<1>5. {ce[2] : ce \in set} = Given(r)
  <2>1. Given(r) = {EntryAt(r, p) : p \in N}
    BY DEF Given
  <2> HIDE DEF N
  <2>2. \A ce \in set : \E p \in N : ce[2] = EntryAt(r, p)
    BY <1>1, <1>3
  <2>3. \A p \in N : \E ce \in set : ce[2] = EntryAt(r, p)
    BY <1>1, <1>3
  <2> QED BY <2>1, <2>2, <2>3
<1> QED BY <1>4, <1>5 DEF AsGiven

\* A fill in one thread.
LEMMA DirectAsGiven ==
  ASSUME NEW r \in Request, ~Rejects(r)
  PROVE  AsGiven(r, {<<1, e>> : e \in Given(r)})
<1> DEFINE N == 0 .. Total(r) - 1
           sec == [p \in N |-> 1]
           set == {<<1, e>> : e \in Given(r)}
<1>1. \A p \in N : <<sec[p], EntryAt(r, p)>> \in set
  BY DEF Given
<1>2. \A ce \in set : \E p \in N : ce = <<sec[p], EntryAt(r, p)>>
  BY DEF Given
<1> HIDE DEF sec, set
<1>3. AsGiven(r, set)
  BY <1>1, <1>2, OnceEach
<1> QED BY <1>3 DEF set

-----------------------------------------------------------------------------
(* Sections *)

LEMMA WorkersOf ==
  ASSUME NEW r \in Request
  PROVE  Workers(r) \in Nat \ {0}
BY ArgumentsAssumption DEF Workers, Request

\* What a thread is given: arrays are as long as the section, and everything
\* else is as it was.
LEMMA CutForms ==
  ASSUME NEW r \in Request, ~Rejects(r), ~CannotCut(r), NEW i \in 1 .. Workers(r)
  PROVE  LET R == SectionRequest(r, i)
             L == SectionLen(Total(r), Workers(r), i)
         IN  /\ L \in Nat
             /\ Len(R.args) = Len(r.args) /\ R.rank = r.rank /\ R.mean = r.mean
             /\ R.sample = Cut(r.sample, Workers(r), i)
             /\ \A s \in Slots(r) : FormOf(R, s) =
                  IF IsArray(FormOf(r, s)) THEN L ELSE FormOf(r, s)
<1> DEFINE R == SectionRequest(r, i)
           t == Workers(r)
           L == SectionLen(Total(r), t, i)
<1>1. L \in Nat
  BY WorkersOf, TotalOf, Starts
<1>2. R = [r EXCEPT !.args = [s \in DOMAIN r.args |-> Cut(r.args[s], t, i)],
                    !.weight = Cut(r.weight, t, i),
                    !.sample = Cut(r.sample, t, i)]
  BY DEF SectionRequest
<1>3. /\ R.args = [s \in 1 .. Len(r.args) |-> Cut(r.args[s], t, i)]
      /\ R.weight = Cut(r.weight, t, i) /\ R.sample = Cut(r.sample, t, i)
      /\ R.rank = r.rank /\ R.mean = r.mean
  BY <1>2, Forms DEF Request
<1> HIDE DEF R, t
<1>4. Len(R.args) = Len(r.args)
  BY <1>3, Forms
<1>5. ASSUME NEW s \in Slots(r)
      PROVE  FormOf(R, s) = IF IsArray(FormOf(r, s)) THEN L ELSE FormOf(r, s)
  <2>1. s = -1 \/ s = 0 \/ s \in 1 .. Len(r.args)
    BY Forms DEF Slots
  <2>2. FormOf(R, s) = Cut(FormOf(r, s), t, i)
    BY <1>3, <2>1 DEF FormOf
  <2> QED BY <2>2, TotalOf DEF Cut, t
<1> QED BY <1>1, <1>3, <1>4, <1>5 DEF R, t

LEMMA SectionTaken ==
  ASSUME NEW r \in Request, ~Rejects(r), ~CannotCut(r), NEW i \in 1 .. Workers(r)
  PROVE  /\ ~Rejects(SectionRequest(r, i))
         /\ Total(SectionRequest(r, i)) = SectionLen(Total(r), Workers(r), i)
<1> DEFINE R == SectionRequest(r, i)
           L == SectionLen(Total(r), Workers(r), i)
<1>1. /\ L \in Nat
      /\ Len(R.args) = Len(r.args) /\ R.rank = r.rank /\ R.mean = r.mean
      /\ R.sample = Cut(r.sample, Workers(r), i)
      /\ \A s \in Slots(r) : FormOf(R, s) =
           IF IsArray(FormOf(r, s)) THEN L ELSE FormOf(r, s)
  BY CutForms
<1> HIDE DEF R, L
<1>2. Slots(R) = Slots(r)
  BY <1>1 DEF Slots
<1>3. \A s \in Slots(r) : IsArray(FormOf(R, s)) <=> IsArray(FormOf(r, s))
  BY <1>1 DEF IsArray
<1>4. \A s \in 1 .. Len(r.args) : R.args[s] = FormOf(R, s) /\ s \in Slots(r)
  BY Forms DEF FormOf
<1>5. 1 \in 1 .. Len(r.args) /\ \A s \in 1 .. Len(r.args) : IsArray(FormOf(r, s))
  BY Forms DEF Rejects, CannotCut, Request
<1>6. ArrayArgs(R) = 1 .. Len(r.args)
  BY <1>1, <1>3, <1>4, <1>5 DEF ArrayArgs
<1>7. Total(R) = L
  <2>1. PICK s \in ArrayArgs(R) : Total(R) = R.args[s]
    BY <1>5, <1>6 DEF Total
  <2> QED BY <1>1, <1>4, <1>5, <1>6, <2>1
<1>8. r.mean = FALSE /\ r.sample = Absent /\ R.sample = Absent
  <2>1. r.mean = FALSE
    BY DEF CannotCut, Request
  <2>2. r.sample = Absent /\ ~IsArray(r.sample)
    BY <2>1 DEF Rejects, IsArray, Absent
  <2> QED BY <1>1, <2>1, <2>2 DEF Cut
<1>9. ~Rejects(R)
  BY <1>1, <1>2, <1>3, <1>7, <1>8 DEF Rejects
<1> QED BY <1>7, <1>9 DEF R, L

LEMMA SectionCounts ==
  ASSUME NEW r \in Request, ~Rejects(r), ~CannotCut(r), NEW i \in 1 .. Workers(r)
  PROVE  SectionCount(r, i) =
           {<<i, EntryAt(r, p)>> : p \in Section(Total(r), Workers(r), i)}
<1> DEFINE n == Total(r)
           t == Workers(r)
           start == SectionStart(n, t, i)
           L == SectionLen(n, t, i)
<1>1. SectionCount(r, i) = {<<i, SectionEntry(r, i, k)>> : k \in 0 .. L - 1}
  BY SectionTaken DEF SectionCount
<1>2. \A k \in Nat : SectionEntry(r, i, k) = EntryAt(r, start + k)
  <2> SUFFICES ASSUME NEW k \in Nat
               PROVE  \A s \in Slots(r) :
                        (IF IsArray(FormOf(r, s))
                         THEN SectionStart(FormOf(r, s), t, i) + k ELSE 0)
                        = IF IsArray(FormOf(r, s)) THEN start + k ELSE 0
    BY DEF SectionEntry, EntryAt
  <2> QED BY TotalOf
<1>3. n \in Nat /\ t \in Nat \ {0} /\ L \in Nat /\ start \in Nat
  <2>1. n \in Nat /\ t \in Nat \ {0}
    BY TotalOf, WorkersOf
  <2>2. PICK q, m \in Nat : q = n \div t /\ m = n % t
    BY <2>1, Division
  <2>3. i - 1 \in Nat /\ i - 1 <= i - 1
    BY <2>1
  <2>4. Start(q, m, i - 1) \in Nat
    BY <2>2, <2>3, StartsAscend
  <2>5. start = Start(q, m, i - 1)
    BY <2>1, <2>2, Starts
  <2> QED BY <2>1, <2>4, <2>5, Starts
<1> HIDE DEF n, t, start, L
<1>4. Section(n, t, i) = start .. start + L - 1
  BY DEF Section, start, L
<1>5. \A p \in Section(n, t, i) : \E k \in 0 .. L - 1 : p = start + k
  <2> SUFFICES ASSUME NEW p \in Section(n, t, i)
        PROVE p - start \in 0 .. L - 1 /\ p = start + (p - start)
    OBVIOUS
  <2> QED BY <1>3, <1>4
<1>6. \A k \in 0 .. L - 1 : k \in Nat /\ start + k \in Section(n, t, i)
  BY <1>3, <1>4
<1>7. {<<i, SectionEntry(r, i, k)>> : k \in 0 .. L - 1} =
      {<<i, EntryAt(r, p)>> : p \in Section(n, t, i)}
  BY <1>2, <1>5, <1>6
<1> QED BY <1>1, <1>7 DEF n, t

\* A fill in several threads.
LEMMA SectionsAsGiven ==
  ASSUME NEW r \in Request, ~Rejects(r), ~CannotCut(r)
  PROVE  AsGiven(r, UNION {SectionCount(r, i) : i \in 1 .. Workers(r)})
<1> DEFINE n == Total(r)
           t == Workers(r)
           N == 0 .. n - 1
           In(p) == CHOOSE i \in 1 .. t : p \in Section(n, t, i)
           sec == [p \in N |-> In(p)]
           set == UNION {SectionCount(r, i) : i \in 1 .. t}
<1>1. n \in Nat /\ t \in Nat \ {0}
  BY TotalOf, WorkersOf
<1>2. \A i \in 1 .. t : SectionCount(r, i) = {<<i, EntryAt(r, p)>> : p \in Section(n, t, i)}
  BY SectionCounts
<1> HIDE DEF n, t
<1>3. \A p \in N : In(p) \in 1 .. t /\ p \in Section(n, t, In(p))
  BY <1>1, SectionsCover
<1>4. \A p \in N : <<sec[p], EntryAt(r, p)>> \in set
  <2> SUFFICES ASSUME NEW p \in N PROVE <<In(p), EntryAt(r, p)>> \in SectionCount(r, In(p))
    BY <1>3
  <2> HIDE DEF In
  <2> QED BY <1>2, <1>3
<1>5. ASSUME NEW ce \in set PROVE \E p \in N : ce = <<sec[p], EntryAt(r, p)>>
  <2>1. PICK i \in 1 .. t : ce \in SectionCount(r, i)
    OBVIOUS
  <2>2. PICK p \in Section(n, t, i) : ce = <<i, EntryAt(r, p)>>
    BY <1>2, <2>1
  <2>3. p \in N
    BY <1>1, <2>2, SectionsDisjoint
  <2>4. In(p) = i
    <3>1. In(p) \in 1 .. t /\ p \in Section(n, t, In(p))
      BY <1>3, <2>3
    <3> HIDE DEF In
    <3> QED BY <1>1, <2>2, <3>1, SectionsDisjoint
  <2> QED BY <2>2, <2>3, <2>4
<1> HIDE DEF sec, set
<1>6. AsGiven(r, set)
  BY <1>4, <1>5, OnceEach DEF n
<1> QED BY <1>6 DEF set, t

SectionsInv ==
  /\ request \in Request
  /\ outcome = "returned" /\ ~Rejects(request) => AsGiven(request, counted)

LEMMA SectionsStep == SectionsInv /\ [Next]_vars => SectionsInv'
<1> SUFFICES ASSUME SectionsInv, [Next]_vars PROVE SectionsInv'
  OBVIOUS
<1>1. CASE Raise
  BY <1>1 DEF Raise, SectionsInv
<1>2. CASE FillDirect
  <2>1. AsGiven(request, counted') /\ request' = request
    BY <1>2, DirectAsGiven DEF FillDirect, SectionsInv
  <2> QED BY <2>1 DEF SectionsInv
<1>3. CASE FillSections
  <2>1. /\ request' = request
        /\ ~Rejects(request) => AsGiven(request, counted')
    BY <1>3, SectionsAsGiven DEF FillSections, SectionsInv
  <2> QED BY <2>1 DEF SectionsInv
<1>4. CASE UNCHANGED vars
  BY <1>4 DEF vars, SectionsInv
<1> QED BY <1>1, <1>2, <1>3, <1>4 DEF Next

\* Every entry is counted once, with the weight and sample of its own position,
\* in however many sections the arguments are cut.
THEOREM SectionsMakeNoDifference == Spec => []ThreadsMakeNoDifference
<1>1. Init => SectionsInv
  BY ArgumentsAssumption DEF Init, SectionsInv
<1>2. SectionsInv => ThreadsMakeNoDifference
  BY DEF SectionsInv, AsGiven, ThreadsMakeNoDifference
<1> QED BY <1>1, <1>2, SectionsStep, PTL DEF Spec

-----------------------------------------------------------------------------
(* The axes of a call *)

\* What is known of an axis that was made from the edges g: if not from a number
\* of bins, its edges are g with the last one moved, and they ascend.
Made(ax, g) ==
  /\ ax.size \in Nat \ {0}
  /\ IF ax.edges = <<>> THEN ax.start \in Int /\ ax.stop \in Int
     ELSE /\ g \in Seq(Int) /\ Len(g) > 1
          /\ ax.edges = UpperMoved(g) /\ Ascends(UpperMoved(g))
          /\ ax.size = Len(g) - 1

\* The axes are those of the call, and so are the arguments of the fill.
Served ==
  (call # <<>> /\ outcome \in {"pending", "returned"}) =>
    /\ request = FillRequest(call)
    /\ DOMAIN axes = Zipped(call)
    /\ RangesAscend(call) =>
         \A n \in DOMAIN axes : axes[n].edges = <<>> => axes[n].start < axes[n].stop

EdgesInv ==
  /\ call # <<>> => call \in Calls
  /\ outcome = "called" => call # <<>>
  /\ mine \in Seq(Int)
  /\ \A n \in DOMAIN axes : Made(axes[n], given[n])
  /\ Served

LEMMA Uses ==
  ASSUME NEW c, NEW n \in Int
  PROVE  UsesOfMine(c, n) \in Nat
<1>1. IsFiniteSet(1 .. n)
  BY FS_Interval
<1> QED BY <1>1, FS_Subset, FS_CardinalityType DEF UsesOfMine

LEMMA ZippedType ==
  ASSUME NEW c \in Call
  PROVE  \E m \in Nat \ {0} : /\ Zipped(c) = 1 .. m
                              /\ m <= Len(c.bins) /\ m <= Len(c.range)
<1> DEFINE S == {Len(c.bins), Len(c.range)}
<1>1. /\ c.bins \in Seq([count : Nat, edges : Seq(Int)]) /\ c.bins # <<>>
      /\ c.range \in Seq((Int \X Int) \cup {<<>>}) /\ c.range # <<>>
  BY DEF Call
<1>2. Len(c.bins) \in Nat \ {0} /\ Len(c.range) \in Nat \ {0}
  BY <1>1
<1>3. \E m \in S : \A x \in S : m <= x
  BY <1>2
<1>4. Min(S) \in S /\ \A x \in S : Min(S) <= x
  BY <1>3 DEF Min
<1> QED BY <1>2, <1>4 DEF Zipped

LEMMA BinsType ==
  ASSUME NEW c \in Call, NEW n \in Zipped(c)
  PROVE  c.bins[n] \in [count : Nat, edges : Seq(Int)]
<1> DEFINE Bins == [count : Nat, edges : Seq(Int)]
<1>1. n \in 1 .. Len(c.bins)
  BY ZippedType
<1>2. c.bins \in Seq(Bins)
  BY DEF Call
<1> HIDE DEF Bins
<1>3. c.bins[n] \in Bins
  BY <1>1, <1>2
<1> QED BY <1>3 DEF Bins

LEMMA GivenType ==
  ASSUME NEW c \in Call, NEW n \in Zipped(c), mine \in Seq(Int)
  PROVE  GivenTo(c, n) \in Seq(Int)
<1>1. n - 1 \in Int
  BY ZippedType
<1>2. Moved(mine, UsesOfMine(c, n - 1)) \in Seq(Int)
  BY <1>1, Uses, MovedType
<1> QED BY <1>2, BinsType DEF GivenTo

LEMMA ImageFinite ==
  ASSUME NEW S, IsFiniteSet(S), NEW f
  PROVE  IsFiniteSet({f[x] : x \in S})
<1> DEFINE T == {f[x] : x \in S}
           g == [x \in S |-> f[x]]
<1>1. g \in Surjection(S, T)
  BY DEF Surjection
<1> HIDE DEF g, T
<1>2. IsFiniteSet(T)
  BY <1>1, FS_Surjection
<1> QED BY <1>2 DEF T

\* The least and the greatest of some numbers.
LEMMA LeastOf ==
  ASSUME NEW V \in SUBSET Int, IsFiniteSet(V), V # {}
  PROVE  \E x \in V : \A y \in V : x <= y
<1> DEFINE Below(x) == {y \in V : y <= x}
           T == {Cardinality(Below(x)) : x \in V}
<1>1. \A x \in V : IsFiniteSet(Below(x)) /\ Cardinality(Below(x)) \in Nat
  BY FS_Subset, FS_CardinalityType
<1>2. T \in SUBSET Nat /\ T # {}
  BY <1>1
<1>3. PICK n \in T : \A m \in T : n <= m
  <2> HIDE DEF T
  <2> QED BY <1>2, LeastNumber
<1>4. PICK x \in V : n = Cardinality(Below(x))
  OBVIOUS
<1>5. ASSUME NEW y \in V PROVE x <= y
  <2> SUFFICES ASSUME y < x PROVE FALSE
    OBVIOUS
  <2>1. Below(y) \subseteq Below(x) /\ x \in Below(x) /\ x \notin Below(y)
    <3>1. \A z \in V : z \in Int
      OBVIOUS
    <3>2. \A z \in V : z <= y => z <= x
      BY <3>1
    <3>3. ~(x <= y) /\ x <= x
      BY <3>1
    <3> QED BY <3>2, <3>3
  <2>2. Cardinality(Below(x)) <= Cardinality(Below(y))
    BY <1>3, <1>4
  <2> HIDE DEF Below
  <2>3. Cardinality(Below(y)) < Cardinality(Below(x))
    BY <1>1, <2>1, FS_Subset
  <2>4. Cardinality(Below(x)) \in Nat /\ Cardinality(Below(y)) \in Nat
    BY <1>1
  <2> QED BY <2>2, <2>3, <2>4
<1> QED BY <1>5

LEMMA Extremes ==
  ASSUME NEW V \in SUBSET Int, IsFiniteSet(V), V # {}
  PROVE  Min(V) \in Int /\ Max(V) \in Int /\ Min(V) <= Max(V)
<1>1. Min(V) \in V /\ \A y \in V : Min(V) <= y
  <2>1. \E x \in V : \A y \in V : x <= y
    BY LeastOf
  <2> QED BY <2>1 DEF Min
<1>2. Max(V) \in V
  <2> DEFINE f == [x \in V |-> -x]
             W == {f[x] : x \in V}
  <2>1. IsFiniteSet(W)
    <3> HIDE DEF f
    <3> QED BY ImageFinite
  <2>2. W \in SUBSET Int /\ W # {}
    <3>1. \A x \in V : f[x] \in Int
      OBVIOUS
    <3> HIDE DEF f
    <3> QED BY <3>1
  <2>3. PICK w \in W : \A u \in W : w <= u
    <3> HIDE DEF W
    <3> QED BY <2>1, <2>2, LeastOf
  <2>4. PICK x \in V : w = -x
    OBVIOUS
  <2>5. \A y \in V : x >= y
    <3> SUFFICES ASSUME NEW y \in V PROVE x >= y
      OBVIOUS
    <3>1. w <= -y
      BY <2>3
    <3>2. x \in Int /\ y \in Int
      OBVIOUS
    <3> QED BY <2>4, <3>1, <3>2
  <2>6. \E z \in V : \A y \in V : z >= y
    BY <2>5
  <2> QED BY <2>6 DEF Max
<1> QED BY <1>1, <1>2

LEMMA RangeType ==
  ASSUME NEW c \in Call, NEW n \in Zipped(c), ~AxisRaises(c, n), c.bins[n].count > 0
  PROVE  /\ RangeOf(c, n)[1] \in Int /\ RangeOf(c, n)[2] \in Int
         /\ RangesAscend(c) => RangeOf(c, n)[1] < RangeOf(c, n)[2]
<1>1. RangeOf(c, n)[1] # RangeOf(c, n)[2]
  BY DEF AxisRaises
<1>2. CASE c.range[n] # <<>>
  <2> DEFINE Ranges == (Int \X Int) \cup {<<>>}
  <2>1. c.range \in Seq(Ranges) /\ n \in 1 .. Len(c.range)
    BY ZippedType DEF Call
  <2> HIDE DEF Ranges
  <2>2. c.range[n] \in Ranges
    BY <2>1
  <2>3. c.range[n] \in Int \X Int
    BY <1>2, <2>2 DEF Ranges
  <2> QED BY <1>2, <2>3 DEF RangeOf, RangesAscend
<1>3. CASE c.range[n] = <<>>
  <2> DEFINE values == {c.a[n][k] : k \in DOMAIN c.a[n]}
  <2>1. n \in DOMAIN c.a /\ c.a[n] # <<>>
    BY <1>3 DEF AxisRaises
  <2>2. c.a[n] \in Seq(Int)
    BY <2>1 DEF Call
  <2>3. values \in SUBSET Int
    BY <2>2
  <2>4. values # {}
    <3>1. 1 \in DOMAIN c.a[n]
      BY <2>1, <2>2
    <3> QED BY <3>1
  <2>5. IsFiniteSet(values)
    <3>1. IsFiniteSet(DOMAIN c.a[n])
      BY <2>2, FS_Interval
    <3> QED BY <3>1, ImageFinite
  <2>6. RangeOf(c, n) = <<Min(values), Max(values)>>
    BY <1>3 DEF RangeOf
  <2> HIDE DEF values
  <2>7. Min(values) \in Int /\ Max(values) \in Int /\ Min(values) <= Max(values)
    BY <2>3, <2>4, <2>5, Extremes
  <2> QED BY <1>1, <2>6, <2>7
<1> QED BY <1>2, <1>3

LEMMA AxisIsMade ==
  ASSUME NEW c \in Call, NEW n \in Zipped(c), mine \in Seq(Int), ~AxisRaises(c, n)
  PROVE  /\ Made(AxisFrom(c, n), GivenTo(c, n))
         /\ RangesAscend(c) /\ AxisFrom(c, n).edges = <<>> =>
              AxisFrom(c, n).start < AxisFrom(c, n).stop
<1>1. CASE c.bins[n].count > 0
  <2>1. /\ AxisFrom(c, n).edges = <<>> /\ AxisFrom(c, n).size = c.bins[n].count
        /\ AxisFrom(c, n).start = RangeOf(c, n)[1]
        /\ AxisFrom(c, n).stop = RangeOf(c, n)[2]
    BY <1>1 DEF AxisFrom
  <2>2. c.bins[n].count \in Nat
    BY BinsType
  <2> QED BY <1>1, <2>1, <2>2, RangeType DEF Made
<1>2. CASE ~(c.bins[n].count > 0)
  <2> DEFINE g == GivenTo(c, n)
             e == UpperMoved(g)
  <2>1. g \in Seq(Int)
    BY GivenType
  <2>2. /\ AxisFrom(c, n).edges = e
        /\ AxisFrom(c, n).size = Len(e) - 1
    BY <1>2 DEF AxisFrom
  <2>3. /\ ~(Len(e) < 2)
        /\ \A k \in 1 .. Len(e) - 1 : ~(e[k] >= e[k + 1])
    BY <1>2 DEF AxisRaises
  <2> HIDE DEF g
  <2>4. e \in Seq(Int) /\ Len(e) = Len(g)
    BY <2>1, MovedType DEF UpperMoved
  <2>5. Len(g) \in Nat
    BY <2>1
  <2> HIDE DEF e
  <2>6. Ascends(e)
    <3> SUFFICES ASSUME NEW k \in 1 .. Len(e) - 1 PROVE e[k] < e[k + 1]
      BY DEF Ascends
    <3>1. k \in 1 .. Len(e) /\ k + 1 \in 1 .. Len(e)
      BY <2>4, <2>5
    <3>2. e[k] \in Int /\ e[k + 1] \in Int
      BY <2>4, <3>1
    <3> QED BY <2>3, <3>2
  <2>7. e # <<>>
    BY <2>3, <2>4, <2>5
  <2>8. Len(e) - 1 \in Nat \ {0} /\ Len(g) > 1
    <3>1. PICK len \in Nat : len = Len(g)
      BY <2>5
    <3>2. ~(len < 2) /\ Len(e) = len
      BY <2>3, <2>4, <3>1
    <3> QED BY <3>1, <3>2
  <2> QED BY <2>1, <2>2, <2>4, <2>6, <2>7, <2>8 DEF Made, e, g
<1> QED BY <1>1, <1>2

LEMMA EdgesInvInit == NumPyInit => EdgesInv
<1> SUFFICES ASSUME NumPyInit PROVE EdgesInv
  OBVIOUS
<1>1. axes = <<>>
  BY DEF NumPyInit
<1>2. CASE Init /\ call = <<>> /\ mine = <<>>
  BY <1>1, <1>2 DEF EdgesInv, Init, Served
<1>3. CASE call \in Calls /\ mine \in Arrays /\ outcome = "called"
  <2>1. \A c \in Call : c # <<>>
    <3> SUFFICES ASSUME NEW c \in Call PROVE c # <<>>
      OBVIOUS
    <3>1. DOMAIN c # {}
      BY DEF Call
    <3> QED BY <3>1
  <2> QED BY <1>1, <1>3, <2>1, CallsAssumption DEF EdgesInv, Served
<1> QED BY <1>2, <1>3 DEF NumPyInit

LEMMA EdgesInvMake == EdgesInv /\ MakeAxes => EdgesInv'
<1> SUFFICES ASSUME EdgesInv, MakeAxes PROVE EdgesInv'
  OBVIOUS
<1> DEFINE failing == {n \in Zipped(call) : AxisRaises(call, n)}
           reached == IF failing = {} THEN Zipped(call) ELSE 1 .. Min(failing)
           last == Cardinality(reached)
<1>1. call \in Calls /\ call # <<>> /\ call \in Call /\ call' = call
  BY CallsAssumption DEF EdgesInv, MakeAxes
<1>2. mine' \in Seq(Int)
  <2>1. last \in Int
    <3>1. IsFiniteSet(Zipped(call))
      BY <1>1, ZippedType, FS_Interval
    <3>2. ASSUME failing # {} PROVE IsFiniteSet(reached)
      <4>1. PICK m \in Nat : Zipped(call) = 1 .. m
        BY <1>1, ZippedType
      <4>2. failing \subseteq 1 .. m
        BY <4>1
      <4> HIDE DEF failing
      <4>3. \E x \in failing : \A y \in failing : x <= y
        BY <3>2, <4>2, LeastNumber
      <4>4. Min(failing) \in failing
        BY <4>3 DEF Min
      <4>5. Min(failing) \in Int
        <5>1. \A x \in 1 .. m : x \in Int
          BY <4>1
        <5> QED BY <4>2, <4>4, <5>1, Zenon
      <4> QED BY <3>2, <4>5, FS_Interval
    <3>3. IsFiniteSet(reached)
      BY <3>1, <3>2
    <3> QED BY <3>3, FS_CardinalityType
  <2>2. mine' = Moved(mine, UsesOfMine(call, last))
    BY DEF MakeAxes
  <2>3. mine \in Seq(Int)
    BY DEF EdgesInv
  <2> HIDE DEF last
  <2> QED BY <2>1, <2>2, <2>3, Uses, MovedType
<1>3. ASSUME NEW n \in DOMAIN axes' PROVE Made(axes'[n], given'[n])
  <2>1. CASE failing = {} /\ axes' = [k \in Zipped(call) |-> AxisFrom(call, k)]
                          /\ given' = [k \in Zipped(call) |-> GivenTo(call, k)]
    <3>1. n \in Zipped(call) /\ ~AxisRaises(call, n)
      BY <1>3, <2>1
    <3>2. axes'[n] = AxisFrom(call, n) /\ given'[n] = GivenTo(call, n)
      BY <2>1, <3>1
    <3>3. mine \in Seq(Int)
      BY DEF EdgesInv
    <3> QED BY <1>1, <3>1, <3>2, <3>3, AxisIsMade
  <2>2. CASE UNCHANGED <<axes, given>>
    BY <1>3, <2>2 DEF EdgesInv
  <2> QED BY <2>1, <2>2 DEF MakeAxes
<1>4. outcome' # "called"
  BY DEF MakeAxes
<1>5. Served'
  <2> SUFFICES ASSUME outcome' = "pending" \/ outcome' = "returned" PROVE Served'
    BY DEF Served
  <2>1. /\ failing = {} /\ request' = FillRequest(call)
        /\ axes' = [k \in Zipped(call) |-> AxisFrom(call, k)]
    BY DEF MakeAxes
  <2>2. mine \in Seq(Int)
    BY DEF EdgesInv
  <2>3. ASSUME RangesAscend(call), NEW n \in Zipped(call), axes'[n].edges = <<>>
        PROVE  axes'[n].start < axes'[n].stop
    <3>1. axes'[n] = AxisFrom(call, n) /\ ~AxisRaises(call, n)
      BY <2>1
    <3> QED BY <1>1, <2>2, <2>3, <3>1, AxisIsMade
  <2>4. DOMAIN axes' = Zipped(call)
    BY <2>1
  <2> QED BY <1>1, <2>1, <2>3, <2>4 DEF Served
<1> QED BY <1>1, <1>2, <1>3, <1>4, <1>5 DEF EdgesInv

LEMMA EdgesInvNext == EdgesInv /\ [NumPyNext]_<<vars, numpy>> => EdgesInv'
<1> SUFFICES ASSUME EdgesInv, [NumPyNext]_<<vars, numpy>> PROVE EdgesInv'
  OBVIOUS
<1>1. CASE Next /\ UNCHANGED numpy
  <2>1. outcome' # "called" /\ outcome = "pending" /\ request' = request
    BY <1>1 DEF Next, Raise, FillDirect, FillSections
  <2>2. UNCHANGED <<call, axes, given, mine>>
    BY <1>1 DEF numpy
  <2> QED BY <2>1, <2>2 DEF EdgesInv, Served
<1>2. CASE MakeAxes
  BY <1>2, EdgesInvMake
<1>3. CASE CallAgain
  <2>1. DOMAIN axes' = {}
    BY <1>3 DEF CallAgain
  <2> QED BY <1>3, <2>1 DEF CallAgain, EdgesInv, Served
<1>4. CASE UNCHANGED <<vars, numpy>>
  BY <1>4 DEF EdgesInv, Served, vars, numpy
<1> QED BY <1>1, <1>2, <1>3, <1>4 DEF NumPyNext

LEMMA FillRequestType ==
  ASSUME NEW c \in Call
  PROVE  FillRequest(c) \in Request
<1> DEFINE r == FillRequest(c)
<1>1. c.a \in Seq(Seq(Int)) /\ c.weights \in Seq(Int) /\ c.threads \in Nat
  BY DEF Call
<1>2. \A n \in DOMAIN c.a : Len(c.a[n]) \in Nat /\ Len(c.a[n]) # Absent
  <2> SUFFICES ASSUME NEW n \in DOMAIN c.a
               PROVE  Len(c.a[n]) \in Nat /\ Len(c.a[n]) # Absent
    OBVIOUS
  <2>1. c.a[n] \in Seq(Int)
    BY <1>1
  <2> QED BY <2>1 DEF Absent
<1>3. [n \in DOMAIN c.a |-> Len(c.a[n])] \in Seq(Form \ {Absent})
  <2>1. PICK n \in Nat : DOMAIN c.a = 1 .. n
    BY <1>1
  <2> DEFINE lens == [k \in 1 .. n |-> Len(c.a[k])]
  <2>2. \A k \in 1 .. n : Len(c.a[k]) \in Form \ {Absent}
    BY <1>2, <2>1 DEF Form
  <2>3. lens \in [1 .. n -> Form \ {Absent}]
    BY <2>2
  <2>4. lens \in Seq(Form \ {Absent})
    <3> HIDE DEF lens
    <3> QED BY <2>1, <2>3
  <2> QED BY <2>1, <2>4
<1>4. Cardinality(Zipped(c)) \in Nat \ {0}
  <2>1. PICK m \in Nat \ {0} : Zipped(c) = 1 .. m
    BY ZippedType
  <2>2. Cardinality(1 .. m) = m
    BY <2>1, FS_Interval
  <2> QED BY <2>1, <2>2
<1>5. (IF c.weights = <<>> THEN Absent ELSE Len(c.weights)) \in Form
  BY <1>1 DEF Form
<1>6. Absent \in Form
  BY DEF Form
<1>7. FALSE \in BOOLEAN
  OBVIOUS
<1> QED BY <1>1, <1>3, <1>4, <1>5, <1>6, <1>7, Zenon DEF FillRequest, Request

LEMMA SectionsInvInit == NumPyInit => SectionsInv
<1> SUFFICES ASSUME NumPyInit PROVE request \in Request /\ outcome # "returned"
  BY DEF SectionsInv
<1>1. CASE Init
  BY <1>1, ArgumentsAssumption DEF Init
<1>2. CASE call \in Calls /\ request = FillRequest(call) /\ outcome = "called"
  BY <1>2, CallsAssumption, FillRequestType
<1> QED BY <1>1, <1>2 DEF NumPyInit

LEMMA SectionsInvNext ==
  EdgesInv /\ SectionsInv /\ [NumPyNext]_<<vars, numpy>> => SectionsInv'
<1> SUFFICES ASSUME EdgesInv, SectionsInv, [NumPyNext]_<<vars, numpy>>
             PROVE  SectionsInv'
  OBVIOUS
<1>1. CASE [Next]_vars
  BY <1>1, SectionsStep
<1>2. CASE MakeAxes
  <2>1. outcome' # "returned"
    BY <1>2 DEF MakeAxes
  <2>2. call \in Call
    BY <1>2, CallsAssumption DEF MakeAxes, EdgesInv
  <2>3. request' = request \/ request' = FillRequest(call)
    BY <1>2 DEF MakeAxes
  <2> QED BY <2>1, <2>2, <2>3, FillRequestType DEF SectionsInv
<1>3. CASE CallAgain
  BY <1>3 DEF CallAgain, SectionsInv
<1>4. CASE UNCHANGED <<vars, numpy>>
  <2>1. UNCHANGED vars
    BY <1>4
  <2> QED BY <2>1, <1>1
<1> QED BY <1>1, <1>2, <1>3, <1>4 DEF NumPyNext

\* The entries that a call of histogram, histogram2d or histogramdd counts are
\* those of the values it was given, each with its own weight, for any number
\* of threads, and for every one of several calls.
THEOREM NumPySectionsMakeNoDifference == NumPySpec => []ThreadsMakeNoDifference
<1>1. SectionsInv => ThreadsMakeNoDifference
  BY DEF SectionsInv, AsGiven, ThreadsMakeNoDifference
<1> QED BY <1>1, SectionsInvInit, SectionsInvNext, EdgesInvInit, EdgesInvNext, PTL
        DEF NumPySpec

-----------------------------------------------------------------------------
(* Edges *)

\* Moving an edge up and back gives the edge, if it is positive.
LEMMA MovedBack ==
  ASSUME NEW g \in Seq(Int), Len(g) > 0, NEW ax, ax.edges # <<>>,
         ax.edges = UpperMoved(g), ax.size = Len(g) - 1,
         g[Len(g)] > 0
  PROVE  NumPyEdges(ax) = [k \in DOMAIN g |-> Whole(g[k])]
<1> DEFINE E == ax.edges
           V(k) == IF k = ax.size + 1 THEN TowardsLeast(E[k]) ELSE E[k]
<1>1. DOMAIN E = DOMAIN g /\ DOMAIN g = 1 .. Len(g) /\ Len(g) \in Nat
  BY MovedType DEF UpperMoved
<1>2. ASSUME NEW k \in DOMAIN g PROVE V(k) = g[k]
  <2>1. E[k] = g[k] + (IF k = Len(g) THEN 1 ELSE 0)
    BY <1>2 DEF UpperMoved, Moved
  <2>2. g[k] \in Int
    OBVIOUS
  <2>3. CASE k = Len(g)
    <3>1. E[k] = g[k] + 1 /\ g[k] > 0 /\ k = ax.size + 1
      BY <1>1, <2>1, <2>3
    <3> HIDE DEF E
    <3>2. TowardsLeast(E[k]) = g[k]
      BY <2>2, <3>1 DEF TowardsLeast
    <3> QED BY <3>1, <3>2
  <2>4. CASE k # Len(g)
    BY <1>1, <1>2, <2>1, <2>2, <2>4
  <2> QED BY <2>3, <2>4
<1>3. NumPyEdges(ax) = [k \in DOMAIN E |-> Whole(V(k))]
  BY DEF NumPyEdges
<1> HIDE DEF E, V
<1> QED BY <1>1, <1>2, <1>3

\* What histogramdd returns for an array or a list of edges are those edges, if
\* the last is positive, though the axis has another last edge, and whatever
\* earlier calls have done to the array.
THEOREM EdgesComeBack == NumPySpec => []EdgesAsGiven
<1>1. EdgesInv => EdgesAsGiven
  <2> SUFFICES ASSUME EdgesInv, NEW n \in DOMAIN axes,
                      Above(Wanted(n)[Len(Wanted(n))], Zero)
               PROVE  NumPyEdges(axes[n]) = Wanted(n)
    BY DEF EdgesAsGiven
  <2>1. CASE axes[n].edges = <<>>
    BY <2>1 DEF Wanted
  <2>2. CASE axes[n].edges # <<>>
    <3> DEFINE g == given[n]
    <3>1. /\ g \in Seq(Int) /\ Len(g) > 0
          /\ axes[n].edges = UpperMoved(g) /\ axes[n].size = Len(g) - 1
      BY <2>2 DEF EdgesInv, Made
    <3>2. Wanted(n) = [k \in DOMAIN g |-> Whole(g[k])]
      BY <2>2 DEF Wanted
    <3> HIDE DEF g
    <3>3. Len(Wanted(n)) = Len(g) /\ Wanted(n)[Len(g)] = Whole(g[Len(g)])
      BY <3>1, <3>2
    <3>4. Above(Whole(g[Len(g)]), Zero)
      BY <3>3
    <3>5. g[Len(g)] \in Int
      BY <3>1
    <3>6. g[Len(g)] > 0
      BY <3>4, <3>5 DEF Above, Zero, Whole
    <3> QED BY <2>2, <3>1, <3>2, <3>6, MovedBack
  <2> QED BY <2>1, <2>2
<1> QED BY <1>1, EdgesInvInit, EdgesInvNext, PTL DEF NumPySpec

-----------------------------------------------------------------------------
(* Counts *)

\* A finished call of which fill and NumPy both take the arguments.
Finished ==
  /\ EdgesInv /\ SectionsInv
  /\ call # <<>> /\ outcome = "returned" /\ ~Rejects(request) /\ RangesAscend(call)

\* Every axis has an array of data, each as long as the others.
LEMMA FinishedData ==
  ASSUME Finished
  PROVE  /\ call \in Call /\ request \in Request /\ request = FillRequest(call)
         /\ Total(request) \in Nat
         /\ DOMAIN axes = DOMAIN call.a
         /\ \A n \in DOMAIN axes :
              /\ call.a[n] \in Seq(Int) /\ Len(call.a[n]) = Total(request)
              /\ \A k \in 0 .. Total(request) - 1 :
                   /\ EntryAt(request, k)[n] = k
                   /\ call.a[n][k + 1] \in Int
         /\ \A k \in 0 .. Total(request) - 1 :
              /\ WeightAt(EntryAt(request, k)[0]) = WeightAt(k)
              /\ WeightAt(k) \in Int
<1> DEFINE r == request
           N == Total(r)
<1>1. call \in Call /\ r \in Request /\ ~Rejects(r)
  BY CallsAssumption DEF Finished, EdgesInv, SectionsInv
<1>2. r = FillRequest(call) /\ DOMAIN axes = Zipped(call)
  BY DEF Finished, EdgesInv, Served
<1>3. /\ r.rank = Cardinality(Zipped(call))
      /\ r.args = [n \in DOMAIN call.a |-> Len(call.a[n])]
      /\ r.weight = IF call.weights = <<>> THEN Absent ELSE Len(call.weights)
  BY <1>2 DEF FillRequest
<1> HIDE DEF r, N
<1>4. N \in Nat
  BY <1>1, TotalOf DEF N
<1>5. /\ call.a \in Seq(Seq(Int)) /\ call.weights \in Seq(Int)
  BY <1>1 DEF Call
<1>6. DOMAIN axes = DOMAIN call.a
  <2>1. PICK m \in Nat \ {0} : Zipped(call) = 1 .. m
    BY <1>1, ZippedType
  <2>2. r.rank = m
    BY <1>3, <2>1, FS_Interval
  <2>3. Len(r.args) = m
    BY <1>1, <2>2 DEF Rejects
  <2>4. DOMAIN r.args = 1 .. m
    BY <1>1, <2>3, Forms
  <2> QED BY <1>2, <1>3, <2>1, <2>4
<1>7. ASSUME NEW n \in DOMAIN axes
      PROVE  /\ call.a[n] \in Seq(Int) /\ Len(call.a[n]) = N
             /\ \A k \in 0 .. N - 1 : EntryAt(r, k)[n] = k /\ call.a[n][k + 1] \in Int
  <2>1. call.a[n] \in Seq(Int)
    BY <1>5, <1>6
  <2>2. Len(call.a[n]) \in Nat
    BY <2>1
  <2>3. n \in 1 .. Len(r.args) /\ r.args[n] = Len(call.a[n])
    BY <1>1, <1>3, <1>6, Forms
  <2>4. n \in Slots(r) /\ FormOf(r, n) = Len(call.a[n])
    BY <1>1, <2>3, Forms
  <2>5. IsArray(FormOf(r, n))
    BY <2>2, <2>4 DEF IsArray
  <2>6. Len(call.a[n]) = N
    BY <1>1, <2>4, <2>5, TotalOf DEF N
  <2>7. ASSUME NEW k \in 0 .. N - 1
        PROVE  EntryAt(r, k)[n] = k /\ call.a[n][k + 1] \in Int
    <3>1. EntryAt(r, k)[n] = k
      BY <2>4, <2>5 DEF EntryAt
    <3>2. k + 1 \in 1 .. N
      BY <1>4
    <3>3. k + 1 \in DOMAIN call.a[n]
      BY <2>1, <2>6, <3>2
    <3> QED BY <2>1, <3>1, <3>3
  <2> QED BY <2>1, <2>6, <2>7
<1>8. ASSUME NEW k \in 0 .. N - 1
      PROVE  WeightAt(EntryAt(r, k)[0]) = WeightAt(k) /\ WeightAt(k) \in Int
  <2>1. CASE call.weights = <<>>
    BY <2>1 DEF WeightAt
  <2>2. CASE call.weights # <<>>
    <3>1. 0 \in Slots(r) /\ FormOf(r, 0) = Len(call.weights)
      BY <1>1, <1>3, <2>2, Forms
    <3>2. Len(call.weights) \in Nat
      BY <1>5
    <3>3. IsArray(FormOf(r, 0))
      BY <3>1, <3>2 DEF IsArray
    <3>4. Len(call.weights) = N
      BY <1>1, <3>1, <3>3, TotalOf DEF N
    <3>5. EntryAt(r, k)[0] = k
      BY <3>1, <3>3 DEF EntryAt
    <3>6. k + 1 \in 1 .. N
      BY <1>4
    <3>7. k + 1 \in DOMAIN call.weights
      BY <1>5, <3>4, <3>6
    <3>8. call.weights[k + 1] \in Int
      BY <1>5, <3>7
    <3> QED BY <2>2, <3>5, <3>8 DEF WeightAt
  <2> QED BY <2>1, <2>2
<1> QED BY <1>1, <1>2, <1>4, <1>6, <1>7, <1>8 DEF r, N

\* Every value is in the bins that NumPy would put it in.
LEMMA FinishedCells ==
  ASSUME Finished, NEW cell \in InnerCells, NEW k \in 0 .. Total(request) - 1
  PROVE  CellOf(EntryAt(request, k)) = cell <=>
           \A n \in DOMAIN axes : InBin(Wanted(n), cell[n], call.a[n][k + 1])
<1>1. /\ cell \in [DOMAIN axes -> UNION {0 .. axes[n].size - 1 : n \in DOMAIN axes}]
      /\ \A n \in DOMAIN axes : cell[n] < axes[n].size
  BY DEF InnerCells
<1>2. \A n \in DOMAIN axes : cell[n] \in Nat
  <2> SUFFICES ASSUME NEW n \in DOMAIN axes PROVE cell[n] \in Nat
    OBVIOUS
  <2>1. cell[n] \in UNION {0 .. axes[m].size - 1 : m \in DOMAIN axes}
    BY <1>1
  <2>2. PICK m \in DOMAIN axes : cell[n] \in 0 .. axes[m].size - 1
    BY <2>1
  <2>3. axes[m].size \in Nat
    BY DEF Finished, EdgesInv, Made
  <2> QED BY <2>2, <2>3
<1>3. \A n \in DOMAIN axes :
        EntryAt(request, k)[n] = k /\ call.a[n][k + 1] \in Int
  BY FinishedData
<1>4. ASSUME NEW n \in DOMAIN axes
      PROVE  AxisIndex(axes[n], call.a[n][k + 1]) = cell[n] <=>
               InBin(Wanted(n), cell[n], call.a[n][k + 1])
  <2>1. PICK ax : ax = axes[n]
    OBVIOUS
  <2>2. PICK v \in Int : v = call.a[n][k + 1]
    BY <1>3
  <2>3. Made(ax, given[n])
    BY <2>1 DEF Finished, EdgesInv
  <2>4. PICK i \in 0 .. ax.size - 1 : i = cell[n]
    <3>1. ax.size \in Nat /\ cell[n] < ax.size /\ cell[n] \in Nat
      BY <1>1, <1>2, <2>1, <2>3 DEF Made
    <3> QED BY <3>1
  <2>5. CASE ax.edges = <<>>
    <3>1. ax.start < ax.stop
      BY <2>1, <2>5 DEF Finished, EdgesInv, Served
    <3>2. Wanted(n) = NumPyEdges(ax)
      BY <2>1, <2>5 DEF Wanted
    <3>3. ax.start \in Int /\ ax.stop \in Int /\ ax.size \in Nat \ {0}
      BY <2>3, <2>5 DEF Made
    <3>4. AxisIndex(ax, v) = i <=> InBin(NumPyEdges(ax), i, v)
      BY <2>5, <3>1, <3>3, RegularBins
    <3> QED BY <2>1, <2>2, <2>4, <3>2, <3>4, Zenon
  <2>6. CASE ax.edges # <<>>
    <3>1. PICK g \in Seq(Int) : g = given[n]
      BY <2>3, <2>6 DEF Made
    <3>2. /\ Len(g) > 1 /\ ax.edges = UpperMoved(g) /\ Ascends(UpperMoved(g))
          /\ ax.size = Len(g) - 1
      BY <2>3, <2>6, <3>1 DEF Made
    <3>3. Wanted(n) = [j \in DOMAIN g |-> Whole(g[j])]
      BY <2>1, <2>6, <3>1 DEF Wanted
    <3>4. AxisIndex(ax, v) = i <=> InBin([j \in DOMAIN g |-> Whole(g[j])], i, v)
      BY <3>2, VariableBins
    <3> QED BY <2>1, <2>2, <2>4, <3>3, <3>4, Zenon
  <2> QED BY <2>5, <2>6
<1>5. CellOf(EntryAt(request, k)) =
        [n \in DOMAIN axes |-> AxisIndex(axes[n], call.a[n][k + 1])]
  BY <1>3 DEF CellOf
<1>6. CellOf(EntryAt(request, k)) = cell <=>
        \A n \in DOMAIN axes : AxisIndex(axes[n], call.a[n][k + 1]) = cell[n]
  <2>1. cell = [n \in DOMAIN axes |-> cell[n]]
    BY <1>1
  <2> QED BY <1>5, <2>1, Zenon
<1> QED BY <1>4, <1>6, Zenon

\* Every position has been counted once.
LEMMA FinishedPositions ==
  ASSUME Finished
  PROVE  \E at :
           /\ \A ce \in counted : /\ at[ce] \in 0 .. Total(request) - 1
                                  /\ ce[2] = EntryAt(request, at[ce])
           /\ \A ce, de \in counted : at[ce] = at[de] => ce = de
           /\ \A k \in 0 .. Total(request) - 1 : \E ce \in counted : at[ce] = k
<1> DEFINE K == 0 .. Total(request) - 1
           at == [ce \in counted |-> CHOOSE k \in K : ce[2] = EntryAt(request, k)]
<1>1. /\ IsFiniteSet(counted) /\ Cardinality(counted) = Total(request)
      /\ {ce[2] : ce \in counted} = {EntryAt(request, k) : k \in K}
      /\ request \in Request /\ ~Rejects(request)
  BY DEF Finished, SectionsInv, AsGiven, Given
<1>2. Total(request) \in Nat
  BY FinishedData
<1>3. ASSUME NEW ce \in counted PROVE at[ce] \in K /\ ce[2] = EntryAt(request, at[ce])
  <2>1. \E k \in K : ce[2] = EntryAt(request, k)
    BY <1>1
  <2> QED BY <2>1
<1>4. ASSUME NEW k \in K PROVE \E ce \in counted : at[ce] = k
  <2>1. PICK ce \in counted : ce[2] = EntryAt(request, k)
    BY <1>1
  <2>2. at[ce] \in K /\ EntryAt(request, at[ce]) = EntryAt(request, k)
    BY <1>3, <2>1
  <2> HIDE DEF at
  <2>3. at[ce] = k
    BY <1>1, <2>2, EntriesDiffer
  <2> QED BY <2>3
<1>5. \A ce, de \in counted : at[ce] = at[de] => ce = de
  <2>1. at \in Surjection(counted, K)
    <3>1. at \in [counted -> K]
      BY <1>3
    <3> HIDE DEF at
    <3> QED BY <1>4, <3>1 DEF Surjection
  <2>2. Cardinality(K) = Total(request)
    BY <1>2, FS_Interval
  <2> HIDE DEF at, K
  <2>3. at \in Injection(counted, K)
    BY <1>1, <2>1, <2>2, FS_Surjection
  <2> QED BY <2>3 DEF Injection, IsInjective
<1> HIDE DEF at
<1> QED BY <1>3, <1>4, <1>5

\* For any data, weights, number of threads, bins, ranges and array of edges,
\* used for several axes and in any number of calls, the counts of histogram,
\* histogram2d and histogramdd are those of NumPy.
THEOREM CountsLikeNumPy == NumPySpec => []CountsAsNumPy
<1>1. EdgesInv /\ SectionsInv => CountsAsNumPy
  <2> SUFFICES ASSUME Finished, NEW cell \in InnerCells
               PROVE  LET inside == {k \in 0 .. Total(request) - 1 :
                            \A n \in DOMAIN axes : InBin(Wanted(n), cell[n], call.a[n][k + 1])}
                      IN Values(cell) = SumFunction([k \in inside |-> WeightAt(k)])
    BY DEF CountsAsNumPy, Finished
  <2> DEFINE K == 0 .. Total(request) - 1
             In(k) == \A n \in DOMAIN axes : InBin(Wanted(n), cell[n], call.a[n][k + 1])
             inside == {k \in K : In(k)}
             cells == {ce \in counted : CellOf(ce[2]) = cell}
             f == [k \in inside |-> WeightAt(k)]
             g == [ce \in cells |-> WeightAt(ce[2][0])]
  <2>1. PICK at :
          /\ \A ce \in counted : at[ce] \in K /\ ce[2] = EntryAt(request, at[ce])
          /\ \A ce, de \in counted : at[ce] = at[de] => ce = de
          /\ \A k \in K : \E ce \in counted : at[ce] = k
    BY FinishedPositions
  <2>2. \A k \in K : CellOf(EntryAt(request, k)) = cell <=> In(k)
    BY FinishedCells
  <2>3. \A k \in K : WeightAt(EntryAt(request, k)[0]) = WeightAt(k) /\ WeightAt(k) \in Int
    BY FinishedData
  <2>4. IsFiniteSet(K)
    <3>1. Total(request) \in Nat
      BY FinishedData
    <3> QED BY <3>1, FS_Interval
  <2> HIDE DEF K, In
  <2>5. IsFiniteSet(inside)
    BY <2>4, FS_Subset
  <2>6. \A ce \in cells : at[ce] \in inside /\ ce \in counted
    BY <2>1, <2>2
  <2>7. /\ \A k \in inside : f[k] = WeightAt(k) /\ f[k] \in Int
        /\ \A ce \in cells : g[ce] = WeightAt(ce[2][0])
    BY <2>3
  <2>8. \A k \in inside : \E ce \in cells : at[ce] = k
    BY <2>1, <2>2
  <2>9. f = [k \in inside |-> f[k]] /\ g = [ce \in cells |-> g[ce]]
    OBVIOUS
  <2>10. inside \subseteq K
    OBVIOUS
  <2> HIDE DEF inside, cells, f, g
  <2>11. \A ce \in cells : at[ce] \in inside /\ g[ce] = f[at[ce]]
    <3> SUFFICES ASSUME NEW ce \in cells PROVE g[ce] = f[at[ce]]
      BY <2>6
    <3>1. at[ce] \in inside /\ at[ce] \in K /\ ce[2] = EntryAt(request, at[ce])
      BY <2>1, <2>6, <2>10
    <3> QED BY <2>3, <2>7, <3>1
  <2>12. \A ce, de \in cells : at[ce] = at[de] => ce = de
    BY <2>1, <2>6
  <2>13. SumOver(g, cells) = SumOver(f, inside)
    BY <2>5, <2>7, <2>8, <2>11, <2>12, SumRenamed
  <2>14. SumFunction(g) = SumFunction(f)
    BY <2>9, <2>13 DEF SumOver
  <2>15. Values(cell) = SumFunction(g)
    BY DEF Values, g, cells
  <2> QED BY <2>14, <2>15 DEF f, inside, K, In
<1> QED BY <1>1, SectionsInvInit, SectionsInvNext, EdgesInvInit, EdgesInvNext, PTL
        DEF NumPySpec
=============================================================================
