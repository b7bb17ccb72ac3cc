--------------------------- MODULE Buffers_proofs ----------------------------
(***************************************************************************)
(* Theorems about Buffers, for any axes and bounds: the memory holds every *)
(* cell in a place of its own, an array looks at the places of the bins it *)
(* shows, the edges and the queries of the histogram fit the array, and it *)
(* keeps looking into the memory until an axis grows or the histogram is   *)
(* reset.                                                                  *)
(***************************************************************************)
EXTENDS Buffers, ArithmeticTheorems, FunctionTheorems, SequenceTheorems, TLAPS

-----------------------------------------------------------------------------
(* Strides *)

\* The strides are those of the loop: one, and from there multiplied by each length.
LEMMA StridesLaw ==
  ASSUME NEW lengths \in Seq(Nat)
  PROVE  /\ Strides(lengths) \in [1 .. Len(lengths) + 1 -> Nat]
         /\ Strides(lengths)[1] = 1
         /\ \A i \in 1 .. Len(lengths) :
              Strides(lengths)[i + 1] = Strides(lengths)[i] * lengths[i]
<1> DEFINE n == Len(lengths)
           Law(s, k) ==
             /\ s \in [1 .. k + 1 -> Nat] /\ s[1] = 1
             /\ \A i \in 1 .. k : s[i + 1] = s[i] * lengths[i]
           R(s) == s = [i \in 1 .. n + 1 |-> IF i = 1 THEN 1 ELSE s[i - 1] * lengths[i - 1]]
           T == {k \in Nat : k <= n => \E s : Law(s, k)}
<1>1. n \in Nat /\ \A i \in 1 .. n : lengths[i] \in Nat
  OBVIOUS
<1> HIDE DEF n
<1>2. 0 \in T
  <2>1. Law([i \in 1 .. 1 |-> 1], 0)
    OBVIOUS
  <2> QED BY <2>1
<1>3. ASSUME NEW k \in T PROVE k + 1 \in T
  <2> SUFFICES ASSUME k + 1 <= n PROVE \E s : Law(s, k + 1)
    <3> HIDE DEF Law
    <3> QED OBVIOUS
  <2>1. PICK s : Law(s, k)
    BY <1>1
  <2> DEFINE next == [i \in 1 .. k + 2 |-> IF i = k + 2 THEN s[k + 1] * lengths[k + 1]
      ELSE s[i]]
  <2>2. k \in Nat /\ s[k + 1] \in Nat /\ lengths[k + 1] \in Nat
    BY <1>1, <2>1
  <2>3. s[k + 1] * lengths[k + 1] \in Nat
    BY <2>2
  <2>4. next \in [1 .. (k + 1) + 1 -> Nat]
    BY <2>1, <2>2, <2>3
  <2>5. next[1] = 1
    BY <2>1, <2>2
  <2>6. ASSUME NEW i \in 1 .. k + 1 PROVE next[i + 1] = next[i] * lengths[i]
    <3>1. CASE i = k + 1
      <4>1. next[i + 1] = s[k + 1] * lengths[k + 1] /\ next[i] = s[k + 1]
        BY <2>2, <3>1
      <4> QED BY <3>1, <4>1
    <3>2. CASE i # k + 1
      <4>1. i \in 1 .. k /\ next[i + 1] = s[i + 1] /\ next[i] = s[i]
        BY <2>2, <3>2
      <4> QED BY <2>1, <4>1
    <3> QED BY <3>1, <3>2
  <2> HIDE DEF next
  <2>7. Law(next, k + 1)
    BY <2>4, <2>5, <2>6
  <2> QED BY <2>7
<1>4. n \in T
  <2>1. Nat \subseteq T
    <3> HIDE DEF T
    <3> QED BY <1>2, <1>3, NumberInduction
  <2> QED BY <1>1, <2>1
<1>5. PICK s : Law(s, n)
  BY <1>1, <1>4
<1>6. R(s)
  <2> SUFFICES ASSUME NEW i \in 1 .. n + 1
        PROVE s[i] = IF i = 1 THEN 1 ELSE s[i - 1] * lengths[i - 1]
    BY <1>5
  <2>1. CASE i = 1
    BY <1>5, <2>1
  <2>2. CASE i # 1
    <3>1. i - 1 \in 1 .. n /\ (i - 1) + 1 = i
      BY <1>1, <2>2
    <3>2. s[(i - 1) + 1] = s[i - 1] * lengths[i - 1]
      BY <1>5, <3>1
    <3> QED BY <2>2, <3>1, <3>2
  <2> QED BY <2>1, <2>2
<1> DEFINE c == CHOOSE t : R(t)
<1>7. R(c)
  <2> HIDE DEF R
  <2> QED BY <1>6
<1>8. Strides(lengths) = c
  BY DEF Strides, n
<1> HIDE DEF c
<1>9. c = s
  <2> DEFINE Same == {k \in Nat : k + 1 <= n + 1 => c[k + 1] = s[k + 1]}
  <2>1. \A i \in 1 .. n + 1 : c[i] = IF i = 1 THEN 1 ELSE c[i - 1] * lengths[i - 1]
    BY <1>7
  <2>2. \A i \in 1 .. n + 1 : s[i] = IF i = 1 THEN 1 ELSE s[i - 1] * lengths[i - 1]
    BY <1>6
  <2>3. 0 \in Same
    BY <2>1, <2>2, <1>1
  <2>4. ASSUME NEW k \in Same PROVE k + 1 \in Same
    <3> SUFFICES ASSUME (k + 1) + 1 <= n + 1 PROVE c[(k + 1) + 1] = s[(k + 1) + 1]
      OBVIOUS
    <3>1. (k + 1) + 1 \in 1 .. n + 1 /\ (k + 1) + 1 # 1 /\ ((k + 1) + 1) - 1 = k + 1
      BY <1>1
    <3>2. c[k + 1] = s[k + 1]
      BY <1>1
    <3>3. c[(k + 1) + 1] = c[k + 1] * lengths[k + 1]
          /\ s[(k + 1) + 1] = s[k + 1] * lengths[k + 1]
      BY <2>1, <2>2, <3>1
    <3> QED BY <3>2, <3>3
  <2>5. Nat \subseteq Same
    <3> HIDE DEF Same
    <3> QED BY <2>3, <2>4, NumberInduction
  <2>6. ASSUME NEW i \in 1 .. n + 1 PROVE c[i] = s[i]
    <3>0. i - 1 \in Nat /\ (i - 1) + 1 = i /\ i <= n + 1
      BY <1>1
    <3>1. i - 1 \in Same
      <4> HIDE DEF Same
      <4> QED BY <2>5, <3>0
    <3>2. c[(i - 1) + 1] = s[(i - 1) + 1]
      BY <3>0, <3>1
    <3> QED BY <3>0, <3>2
  <2>7. c = [i \in 1 .. n + 1 |-> c[i]] /\ s = [i \in 1 .. n + 1 |-> s[i]]
    BY <1>5, <1>7
  <2> QED BY <2>6, <2>7
<1> QED BY <1>5, <1>8, <1>9 DEF n

-----------------------------------------------------------------------------
(* Numbers with digits: the place of a digit counts its stride *)

\* s[i] is the stride of the digit i, of which there are e[i].
StrideLaw(s, e, n) ==
  /\ e \in [1 .. n -> Nat] /\ s \in [1 .. n + 1 -> Nat] /\ s[1] = 1
  /\ \A i \in 1 .. n : s[i + 1] = s[i] * e[i]

\* The n digits of a number,
Digits(d, e, n) == \A i \in 1 .. n : d[i] \in 0 .. e[i] - 1

\* and the number that the first k of them make.
Partial(d, s, k) == SumFunction([i \in 1 .. k |-> d[i] * s[i]])

\* Quotient and remainder.
LEMMA Division ==
  ASSUME NEW x \in Nat, NEW a \in Nat, a > 0
  PROVE  \E q, r \in Nat : x = q * a + r /\ r < a
<1>1. x \div a \in Nat /\ x % a \in Nat /\ x % a < a /\ x = (x \div a) * a + (x % a)
  OBVIOUS
<1> QED BY <1>1

\* The quotient of a number below a * b by a is below b.
LEMMA QuotientBound ==
  ASSUME NEW q \in Nat, NEW a \in Nat, NEW r \in Nat, NEW b \in Nat, q * a + r < a * b
  PROVE  q < b
<1> SUFFICES ASSUME q >= b PROVE FALSE
  OBVIOUS
<1>1. PICK t \in Nat : q = b + t
  <2>1. q - b \in Nat /\ q = b + (q - b)
    OBVIOUS
  <2> QED BY <2>1
<1>2. q * a = a * b + t * a /\ t * a \in Nat
  BY <1>1
<1>3. q * a \in Nat /\ a * b \in Nat
  OBVIOUS
<1> QED BY <1>2, <1>3

\* The first k digits add up step by step.
LEMMA PartialStep ==
  ASSUME NEW n \in Nat, NEW s, NEW d, \A i \in 1 .. n : d[i] \in Int /\ s[i] \in Int
  PROVE  /\ Partial(d, s, 0) = 0
         /\ \A k \in 1 .. n : Partial(d, s, k) = d[k] * s[k] + Partial(d, s, k - 1)
         /\ \A k \in 0 .. n : Partial(d, s, k) \in Int
<1>1. Partial(d, s, 0) = 0
  <2>1. 1 .. 0 = {}
    OBVIOUS
  <2> DEFINE f == [i \in {} |-> d[i] * s[i]]
  <2>2. f = [i \in {} |-> f[i]]
    OBVIOUS
  <2>3. SumOver(f, {}) = 0
    BY SumEmpty
  <2> HIDE DEF f
  <2>4. SumFunction(f) = 0
    BY <2>2, <2>3 DEF SumOver
  <2> QED BY <2>1, <2>4 DEF Partial, f
<1> DEFINE f == [i \in 1 .. n |-> d[i] * s[i]]
<1>2. \A i \in 1 .. n : f[i] \in Int /\ f[i] = d[i] * s[i]
  OBVIOUS
<1>3. \A k \in 0 .. n : Partial(d, s, k) = SumOver(f, 1 .. k)
  <2> TAKE k \in 0 .. n
  <2>1. [i \in 1 .. k |-> d[i] * s[i]] = [i \in 1 .. k |-> f[i]]
    <3>1. \A i \in 1 .. k : i \in 1 .. n
      OBVIOUS
    <3> HIDE DEF f
    <3> QED BY <1>2, <3>1
  <2> QED BY <2>1 DEF Partial, SumOver
<1> HIDE DEF f
<1>4. ASSUME NEW k \in 1 .. n PROVE Partial(d, s, k) = d[k] * s[k] + Partial(d, s, k - 1)
  <2>1. IsFiniteSet(1 .. k) /\ (\A i \in 1 .. k : f[i] \in Int) /\ k \in 1 .. k
    BY <1>2, FS_Interval
  <2>2. SumOver(f, 1 .. k) = f[k] + SumOver(f, (1 .. k) \ {k})
    BY <2>1, SumOut
  <2>3. (1 .. k) \ {k} = 1 .. k - 1 /\ k \in 0 .. n /\ k - 1 \in 0 .. n
    OBVIOUS
  <2> QED BY <1>2, <1>3, <2>2, <2>3
<1>5. ASSUME NEW k \in 0 .. n PROVE Partial(d, s, k) \in Int
  <2>1. IsFiniteSet(1 .. k) /\ (\A i \in 1 .. k : f[i] \in Int)
    BY <1>2, FS_Interval
  <2> QED BY <1>3, <2>1, SumType
<1> QED BY <1>1, <1>4, <1>5

\* The first k digits of a number stay below the stride of the next.
LEMMA PlaceBound ==
  ASSUME NEW n \in Nat, NEW s, NEW e, NEW d, StrideLaw(s, e, n), Digits(d, e, n)
  PROVE  \A k \in 0 .. n : Partial(d, s, k) \in 0 .. s[k + 1] - 1
<1> DEFINE T == {k \in Nat : k <= n => Partial(d, s, k) \in 0 .. s[k + 1] - 1}
<1>1. \A i \in 1 .. n : d[i] \in Int /\ s[i] \in Int /\ s[i] \in Nat /\ e[i] \in Nat
  BY DEF StrideLaw, Digits
<1>2. 0 \in T
  <2>1. Partial(d, s, 0) = 0
    BY <1>1, PartialStep
  <2> QED BY <2>1 DEF StrideLaw
<1>3. ASSUME NEW k \in T PROVE k + 1 \in T
  <2> SUFFICES ASSUME k + 1 <= n PROVE Partial(d, s, k + 1) \in 0 .. s[(k + 1) + 1] - 1
    OBVIOUS
  <2>1. k + 1 \in 1 .. n /\ (k + 1) - 1 = k
    OBVIOUS
  <2>2. Partial(d, s, k) \in 0 .. s[k + 1] - 1
    OBVIOUS
  <2>3. Partial(d, s, k + 1) = d[k + 1] * s[k + 1] + Partial(d, s, k)
    <3>1. \A j \in 1 .. n : Partial(d, s, j) = d[j] * s[j] + Partial(d, s, j - 1)
      <4> HIDE DEF T
      <4>1. \A i \in 1 .. n : d[i] \in Int /\ s[i] \in Int
        BY <1>1
      <4> QED BY <4>1, PartialStep
    <3>2. Partial(d, s, k + 1) = d[k + 1] * s[k + 1] + Partial(d, s, (k + 1) - 1)
      <4> HIDE DEF T
      <4> QED BY <2>1, <3>1
    <3> QED BY <2>1, <3>2
  <2> HIDE DEF T
  <2>4. /\ s[(k + 1) + 1] = s[k + 1] * e[k + 1] /\ d[k + 1] \in 0 .. e[k + 1] - 1
        /\ s[k + 1] \in Nat /\ e[k + 1] \in Nat
    BY <1>1, <2>1 DEF StrideLaw, Digits
  <2>5. \A a, b, p, q \in Int : 0 <= b /\ b <= q - 1 /\ 0 <= p /\ p <= a - 1 =>
           /\ 0 <= b * a + p
           /\ b * a + p <= a * q - 1
    <3> TAKE a, b, p, q \in Int
    <3> HAVE 0 <= b /\ b <= q - 1 /\ 0 <= p /\ p <= a - 1
    <3>1. PICK t \in Nat : q = b + 1 + t
      <4>1. q - b - 1 \in Nat /\ q = b + 1 + (q - b - 1)
        OBVIOUS
      <4> QED BY <4>1
    <3>2. a * q = b * a + a + a * t
      BY <3>1
    <3>3. a * t >= 0 /\ b * a >= 0
      OBVIOUS
    <3> QED BY <3>2, <3>3
  <2> DEFINE a == s[k + 1]
             b == d[k + 1]
             p == Partial(d, s, k)
             q == e[k + 1]
  <2>6. /\ a \in Int /\ b \in Int /\ p \in Int /\ q \in Int
        /\ 0 <= b /\ b <= q - 1 /\ 0 <= p /\ p <= a - 1
        /\ Partial(d, s, k + 1) = b * a + p /\ s[(k + 1) + 1] = a * q
    BY <2>2, <2>3, <2>4
  <2> HIDE DEF a, b, p, q
  <2>7. 0 <= b * a + p /\ b * a + p <= a * q - 1 /\ b * a + p \in Int /\ a * q \in Int
    BY <2>5, <2>6
  <2> QED BY <2>6, <2>7
<1>4. Nat \subseteq T
  <2> HIDE DEF T
  <2> QED BY <1>2, <1>3, NumberInduction
<1> TAKE k \in 0 .. n
<1>5. k \in T
  <2> HIDE DEF T
  <2> QED BY <1>4
<1> QED BY <1>5

\* No two numbers have the same digits.
LEMMA PlaceUnique ==
  ASSUME NEW n \in Nat, NEW s, NEW e, NEW d, NEW c, StrideLaw(s, e, n),
         Digits(d, e, n), Digits(c, e, n), Partial(d, s, n) = Partial(c, s, n)
  PROVE  \A i \in 1 .. n : d[i] = c[i]
<1> DEFINE T == {k \in Nat : k <= n /\ Partial(d, s, k) = Partial(c, s, k)
                                => \A i \in 1 .. k : d[i] = c[i]}
<1>1. \A i \in 1 .. n : d[i] \in Int /\ c[i] \in Int /\ s[i] \in Int /\ s[i] \in Nat
  BY DEF StrideLaw, Digits
<1>2. 0 \in T
  OBVIOUS
<1>3. ASSUME NEW k \in T PROVE k + 1 \in T
  <2> SUFFICES ASSUME k + 1 <= n, Partial(d, s, k + 1) = Partial(c, s, k + 1)
               PROVE  \A i \in 1 .. k + 1 : d[i] = c[i]
    OBVIOUS
  <2>0. k \in Nat /\ k <= n
    OBVIOUS
  <2>1. k + 1 \in 1 .. n /\ (k + 1) - 1 = k /\ k \in 0 .. n
    BY <2>0
  <2>2. /\ Partial(d, s, k + 1) = d[k + 1] * s[k + 1] + Partial(d, s, k)
        /\ Partial(c, s, k + 1) = c[k + 1] * s[k + 1] + Partial(c, s, k)
    <3> HIDE DEF T
    <3>1. /\ Partial(d, s, k + 1) = d[k + 1] * s[k + 1] + Partial(d, s, (k + 1) - 1)
          /\ Partial(c, s, k + 1) = c[k + 1] * s[k + 1] + Partial(c, s, (k + 1) - 1)
      BY <1>1, <2>1, PartialStep
    <3> QED BY <2>1, <3>1
  <2>3. Partial(d, s, k) \in 0 .. s[k + 1] - 1 /\ Partial(c, s, k) \in 0 .. s[k + 1] - 1
    <3> HIDE DEF T
    <3> QED BY <2>1, PlaceBound
  <2>4. \A a, x, y, p, q \in Int :
          0 <= p /\ p <= a - 1 /\ 0 <= q /\ q <= a - 1 /\ x * a + p = y * a + q
             => x = y /\ p = q
    <3> TAKE a, x, y, p, q \in Int
    <3> HAVE 0 <= p /\ p <= a - 1 /\ 0 <= q /\ q <= a - 1 /\ x * a + p = y * a + q
    <3>1. ~(x < y)
      <4> SUFFICES ASSUME x < y PROVE FALSE
        OBVIOUS
      <4>1. PICK t \in Nat : y = x + 1 + t
        <5>1. y - x - 1 \in Nat /\ y = x + 1 + (y - x - 1)
          OBVIOUS
        <5> QED BY <5>1
      <4>2. y * a = x * a + a + t * a /\ t * a >= 0
        BY <4>1
      <4> QED BY <4>2
    <3>2. ~(y < x)
      <4> SUFFICES ASSUME y < x PROVE FALSE
        OBVIOUS
      <4>1. PICK t \in Nat : x = y + 1 + t
        <5>1. x - y - 1 \in Nat /\ x = y + 1 + (x - y - 1)
          OBVIOUS
        <5> QED BY <5>1
      <4>2. x * a = y * a + a + t * a /\ t * a >= 0
        BY <4>1
      <4> QED BY <4>2
    <3>3. x = y
      BY <3>1, <3>2
    <3> QED BY <3>3
  <2> DEFINE a == s[k + 1]
             x == d[k + 1]
             y == c[k + 1]
             p == Partial(d, s, k)
             q == Partial(c, s, k)
  <2>5. /\ a \in Int /\ x \in Int /\ y \in Int /\ p \in Int /\ q \in Int
        /\ 0 <= p /\ p <= a - 1 /\ 0 <= q /\ q <= a - 1 /\ x * a + p = y * a + q
    BY <1>1, <2>1, <2>2, <2>3
  <2>6. x = y /\ p = q
    <3> HIDE DEF a, x, y, p, q
    <3> QED BY <2>4, <2>5
  <2>7. \A i \in 1 .. k : d[i] = c[i]
    BY <2>0, <2>6
  <2> HIDE DEF T
  <2> QED BY <2>0, <2>6, <2>7
<1>4. Nat \subseteq T
  <2> HIDE DEF T
  <2> QED BY <1>2, <1>3, NumberInduction
<1>5. n \in T
  <2> HIDE DEF T
  <2> QED BY <1>4
<1> QED BY <1>5

\* Every number below the last stride has digits.
LEMMA PlaceAll ==
  ASSUME NEW n \in Nat, NEW s, NEW e, StrideLaw(s, e, n), NEW o \in 0 .. s[n + 1] - 1
  PROVE  \E d \in [1 .. n -> Nat] : Digits(d, e, n) /\ Partial(d, s, n) = o
<1> DEFINE Found(d, k, x) == d \in [1 .. k -> Nat] /\ Digits(d, e, k) /\ Partial(d, s, k) = x
           T == {k \in Nat : k <= n => \A x \in 0 .. s[k + 1] - 1 : \E d : Found(d, k, x)}
<1>1. \A i \in 1 .. n : s[i] \in Int /\ s[i] \in Nat /\ e[i] \in Nat
  BY DEF StrideLaw
<1>2. 0 \in T
  <2> DEFINE d == [i \in 1 .. 0 |-> 0]
  <2>1. Partial(d, s, 0) = 0
    <3>1. 0 \in Nat /\ \A i \in 1 .. 0 : d[i] \in Int /\ s[i] \in Int
      OBVIOUS
    <3> HIDE DEF d
    <3> QED BY <3>1, PartialStep
  <2>2. \A x \in 0 .. s[0 + 1] - 1 : x = 0
    BY DEF StrideLaw
  <2>3. Found(d, 0, 0)
    BY <2>1 DEF Digits
  <2> HIDE DEF Found
  <2> QED BY <2>2, <2>3
<1>3. ASSUME NEW k \in T PROVE k + 1 \in T
  <2> SUFFICES ASSUME k + 1 <= n, NEW x \in 0 .. s[(k + 1) + 1] - 1
               PROVE  \E d : Found(d, k + 1, x)
    <3> HIDE DEF Found
    <3> QED OBVIOUS
  <2>0. k \in Nat /\ k <= n /\ k + 1 \in 1 .. n /\ (k + 1) - 1 = k
    OBVIOUS
  <2>1. /\ s[(k + 1) + 1] = s[k + 1] * e[k + 1] /\ s[k + 1] \in Nat /\ e[k + 1] \in Nat
    BY <1>1, <2>0 DEF StrideLaw
  <2>2. s[k + 1] > 0
    <3>1. s[k + 1] # 0
      <4> SUFFICES ASSUME s[k + 1] = 0 PROVE FALSE
        OBVIOUS
      <4>1. s[(k + 1) + 1] = 0
        BY <2>1
      <4> QED BY <4>1
    <3> QED BY <2>1, <3>1
  <2> DEFINE a == s[k + 1]
             b == e[k + 1]
  <2>3. PICK q, r \in Nat : x = q * a + r /\ r < a
    <3>1. x \in Nat /\ a \in Nat /\ a > 0
      BY <2>1, <2>2
    <3> HIDE DEF a
    <3> QED BY <3>1, Division
  <2>4. q < b
    <3>1. a \in Nat /\ b \in Nat /\ q * a + r < a * b
      BY <2>1, <2>3
    <3> HIDE DEF a, b
    <3> QED BY <3>1, QuotientBound
  <2>5. PICK d : Found(d, k, r)
    <3>1. r \in 0 .. s[k + 1] - 1
      BY <2>1, <2>3
    <3> HIDE DEF Found
    <3> QED BY <2>0, <3>1
  <2> HIDE DEF T
  <2> DEFINE dd == [i \in 1 .. k + 1 |-> IF i = k + 1 THEN q ELSE d[i]]
  <2>6. dd \in [1 .. k + 1 -> Nat] /\ Digits(dd, e, k + 1) /\ dd[k + 1] = q
    <3>1. dd[k + 1] = q /\ \A i \in 1 .. k : dd[i] = d[i]
      BY <2>0
    <3>2. \A i \in 1 .. k + 1 : i = k + 1 \/ i \in 1 .. k
      BY <2>0
    <3>3. \A i \in 1 .. k : d[i] \in Nat /\ d[i] \in 0 .. e[i] - 1
      BY <2>5 DEF Digits
    <3>4. q \in Nat /\ q \in 0 .. e[k + 1] - 1
      BY <2>1, <2>4
    <3>5. dd = [i \in 1 .. k + 1 |-> dd[i]]
      OBVIOUS
    <3> HIDE DEF dd
    <3> QED BY <3>1, <3>2, <3>3, <3>4, <3>5 DEF Digits
  <2>7. Partial(dd, s, k) = Partial(d, s, k)
    <3>1. [i \in 1 .. k |-> dd[i] * s[i]] = [i \in 1 .. k |-> d[i] * s[i]]
      <4>1. \A i \in 1 .. k : dd[i] = d[i]
        BY <2>0
      <4> HIDE DEF dd
      <4> QED BY <4>1
    <3> QED BY <3>1 DEF Partial
  <2>8. Partial(dd, s, k + 1) = dd[k + 1] * s[k + 1] + Partial(dd, s, k)
    <3>1. k + 1 \in Nat /\ (\A i \in 1 .. k + 1 : dd[i] \in Int /\ s[i] \in Int)
          /\ k + 1 \in 1 .. k + 1
      <4>1. \A i \in 1 .. k + 1 : i \in 1 .. n
        BY <2>0
      <4> HIDE DEF dd
      <4> QED BY <1>1, <2>0, <2>6, <4>1
    <3>2. \A j \in 1 .. k + 1 : Partial(dd, s, j) = dd[j] * s[j] + Partial(dd, s, j - 1)
      <4> DEFINE m == k + 1
      <4>1. m \in Nat /\ \A i \in 1 .. m : dd[i] \in Int /\ s[i] \in Int
        BY <3>1
      <4>2. \A j \in 1 .. m : Partial(dd, s, j) = dd[j] * s[j] + Partial(dd, s, j - 1)
        <5> HIDE DEF m, dd
        <5> QED BY <4>1, PartialStep
      <4> QED BY <4>2
    <3> HIDE DEF dd
    <3>3. Partial(dd, s, k + 1) = dd[k + 1] * s[k + 1] + Partial(dd, s, (k + 1) - 1)
      BY <3>1, <3>2
    <3> QED BY <2>0, <3>3
  <2>9. Found(dd, k + 1, x)
    <3> HIDE DEF dd
    <3> QED BY <2>3, <2>5, <2>6, <2>7, <2>8
  <2> HIDE DEF Found
  <2> QED BY <2>9
<1>4. Nat \subseteq T
  <2> HIDE DEF T
  <2> QED BY <1>2, <1>3, NumberInduction
<1>5. n \in T
  <2> HIDE DEF T
  <2> QED BY <1>4
<1> QED BY <1>5

-----------------------------------------------------------------------------
(* Cells and their offsets *)

\* Arithmetic on terms that the solver takes for opaque.
LEMMA SameDifference ==
  ASSUME NEW x \in Int, NEW y \in Int, NEW z \in Int, x - z = y - z
  PROVE  x = y
OBVIOUS

LEMMA SubtractAdd ==
  ASSUME NEW x \in Int, NEW z \in Int
  PROVE  (x - z) + z = x
OBVIOUS

LEMMA AddSubtract ==
  ASSUME NEW x \in Int, NEW z \in Int
  PROVE  x + z \in Int /\ (x + z) - z = x
OBVIOUS

\* The bins of an axis are the integers from its first to its last bin, and the
\* number of a bin from the first is a digit.
LEMMA AxisBins ==
  ASSUME NEW ax \in AxisRecords
  PROVE  /\ FirstBin(ax) \in {-1, 0} /\ FirstBin(ax) \in Int /\ LastBin(ax) \in Int
            /\ Extent(ax) \in Nat
         /\ ax.size \in Nat /\ LastBin(ax) \in {ax.size - 1, ax.size}
         /\ FirstBin(ax) = -Bit(HasUnderflow(ax))
         /\ Bins(ax) \subseteq Int
         /\ \A b \in Int : b \in Bins(ax) <=> b - FirstBin(ax) \in 0 .. Extent(ax) - 1
<1>1. ax.size \in Nat
  BY DEF AxisRecords
<1>2. FirstBin(ax) \in {-1, 0} /\ FirstBin(ax) = -Bit(HasUnderflow(ax))
  <2>1. Bit(HasUnderflow(ax)) \in {0, 1}
    BY DEF HasUnderflow, Bit
  <2>2. FirstBin(ax) = -Bit(HasUnderflow(ax))
    BY Zenon DEF FirstBin
  <2> QED BY <2>1, <2>2
<1>3. LastBin(ax) \in {ax.size - 1, ax.size}
  BY <1>1 DEF LastBin, Bit, HasOverflow
<1>4. LastBin(ax) \in Int /\ FirstBin(ax) \in Int
  BY <1>1, <1>2, <1>3
<1>5. Extent(ax) \in Nat
  BY <1>1, <1>2, <1>3 DEF Extent
<1>6. Bins(ax) \subseteq Int
  BY <1>4 DEF Bins
<1>7. ASSUME NEW b \in Int PROVE b \in Bins(ax) <=> b - FirstBin(ax) \in 0 .. Extent(ax) - 1
  BY <1>4 DEF Bins, Extent
<1> QED BY <1>1, <1>2, <1>3, <1>4, <1>5, <1>6, <1>7

\* The strides of the cells of a tuple of axes.
CellStrides(axs) == Strides(AxesExtent(axs))

\* The number of axes.
Rank(axs) == Len(axs)

\* The strides of a tuple of axes are those of its extents.
LEMMA AxesLaw ==
  ASSUME NEW axs, IsAxes(axs)
  PROVE  /\ Rank(axs) \in Nat /\ DOMAIN axs = 1 .. Rank(axs)
         /\ \A i \in 1 .. Rank(axs) : axs[i] \in AxisRecords
         /\ StrideLaw(CellStrides(axs), AxesExtent(axs), Rank(axs))
         /\ Volume(axs) = CellStrides(axs)[Rank(axs) + 1] /\ Volume(axs) \in Nat
         /\ \A i \in 1 .. Rank(axs) : /\ Stride(axs, i) = CellStrides(axs)[i]
                                    /\ Stride(axs, i) \in Nat
                                    /\ AxesExtent(axs)[i] = Extent(axs[i])
<1> DEFINE n == Rank(axs)
           e == AxesExtent(axs)
<1>1. n \in Nat /\ DOMAIN axs = 1 .. n /\ axs \in [1 .. n -> AxisRecords]
  BY LenProperties DEF IsAxes, Rank
<1> HIDE DEF n
<1>2. \A i \in 1 .. n : axs[i] \in AxisRecords
  BY <1>1
<1>3. e \in [1 .. n -> Nat] /\ \A i \in 1 .. n : e[i] = Extent(axs[i])
  <2>1. \A i \in 1 .. n : Extent(axs[i]) \in Nat
    BY <1>2, AxisBins
  <2> QED BY <1>1, <2>1 DEF AxesExtent
<1> HIDE DEF e
<1>4. e \in Seq(Nat)
  BY <1>1, <1>3
<1>5. Len(e) = n
  BY <1>1, <1>3
<1>6. StrideLaw(Strides(e), e, n)
  BY <1>3, <1>4, <1>5, StridesLaw DEF StrideLaw
<1>7. \A i \in 1 .. n + 1 : Strides(e)[i] \in Nat
  BY <1>6 DEF StrideLaw
<1>8. n + 1 \in 1 .. n + 1 /\ \A i \in 1 .. n : i \in 1 .. n + 1
  BY <1>1
<1>9. CellStrides(axs) = Strides(e) /\ \A i : Stride(axs, i) = Strides(e)[i]
  BY DEF CellStrides, Stride, e
<1>10. Volume(axs) = Strides(e)[n + 1]
  BY <1>9 DEF Volume, n, Rank
<1> QED BY <1>1, <1>2, <1>3, <1>6, <1>7, <1>8, <1>9, <1>10 DEF e, n

Digit(axs, c) == [i \in 1 .. Rank(axs) |-> c[i] - FirstBin(axs[i])]

\* A cell has a bin of every axis, and so a digit for every axis.
LEMMA CellLaw ==
  ASSUME NEW axs, IsAxes(axs), NEW c \in Cells(axs)
  PROVE  /\ c = [i \in 1 .. Rank(axs) |-> c[i]]
         /\ \A i \in 1 .. Rank(axs) : c[i] \in Bins(axs[i]) /\ c[i] \in Int
         /\ Digits(Digit(axs, c), AxesExtent(axs), Rank(axs))
<1>1. DOMAIN axs = 1 .. Rank(axs) /\ \A i \in 1 .. Rank(axs) : axs[i] \in AxisRecords
  BY AxesLaw
<1>2. c = [i \in 1 .. Rank(axs) |-> c[i]] /\ \A i \in 1 .. Rank(axs) : c[i] \in Bins(axs[i])
  BY <1>1 DEF Cells
<1>3. \A i \in 1 .. Rank(axs) : c[i] \in Int
  BY <1>1, <1>2, AxisBins
<1>4. ASSUME NEW i \in 1 .. Rank(axs) PROVE Digit(axs, c)[i] \in 0 .. AxesExtent(axs)[i] - 1
  <2>1. Digit(axs, c)[i] = c[i] - FirstBin(axs[i]) /\ AxesExtent(axs)[i] = Extent(axs[i])
    BY AxesLaw DEF Digit
  <2>2. c[i] - FirstBin(axs[i]) \in 0 .. Extent(axs[i]) - 1
    BY <1>1, <1>2, <1>3, AxisBins
  <2> QED BY <2>1, <2>2
<1> QED BY <1>2, <1>3, <1>4 DEF Digits

\* One bin of every axis make a cell.
LEMMA IsCell ==
  ASSUME NEW axs, IsAxes(axs), NEW c, c = [i \in 1 .. Rank(axs) |-> c[i]],
         \A i \in 1 .. Rank(axs) : c[i] \in Bins(axs[i])
  PROVE  c \in Cells(axs)
<1>1. DOMAIN axs = 1 .. Rank(axs)
  BY AxesLaw
<1>2. c \in [1 .. Rank(axs) -> UNION {Bins(axs[i]) : i \in 1 .. Rank(axs)}]
  OBVIOUS
<1> QED BY <1>1, <1>2 DEF Cells

\* The offset of a cell is the number with its digits.
LEMMA OffsetIsPlace ==
  ASSUME NEW axs, IsAxes(axs), NEW c
  PROVE  Offset(axs, c) = Partial(Digit(axs, c), CellStrides(axs), Rank(axs))
<1>1. DOMAIN axs = 1 .. Rank(axs) /\
      \A i \in 1 .. Rank(axs) : Stride(axs, i) = CellStrides(axs)[i]
  BY AxesLaw
<1>2. \A i \in 1 .. Rank(axs) : Digit(axs, c)[i] = c[i] - FirstBin(axs[i])
  BY DEF Digit
<1>3. [i \in DOMAIN axs |-> (c[i] - FirstBin(axs[i])) * Stride(axs, i)]
        = [i \in 1 .. Rank(axs) |-> Digit(axs, c)[i] * CellStrides(axs)[i]]
  BY <1>1, <1>2
<1> QED BY <1>3 DEF Offset, Partial

\* Every cell has its place in memory,
LEMMA OffsetInMemory ==
  ASSUME NEW axs, IsAxes(axs), NEW c \in Cells(axs)
  PROVE  Offset(axs, c) \in 0 .. Volume(axs) - 1
<1>1. Rank(axs) \in Nat /\ StrideLaw(CellStrides(axs), AxesExtent(axs), Rank(axs))
      /\ Volume(axs) = CellStrides(axs)[Rank(axs) + 1]
  BY AxesLaw
<1>2. Digits(Digit(axs, c), AxesExtent(axs), Rank(axs))
  BY CellLaw
<1>3. \A k \in 0 .. Rank(axs) :
      Partial(Digit(axs, c), CellStrides(axs), k) \in 0 .. CellStrides(axs)[k + 1] - 1
  BY <1>1, <1>2, PlaceBound
<1>4. Rank(axs) \in 0 .. Rank(axs)
  <2>1. \A n \in Nat : n \in 0 .. n
    OBVIOUS
  <2> QED BY <1>1, <2>1
<1> QED BY <1>1, <1>3, <1>4, OffsetIsPlace

\* no two cells the same,
LEMMA OffsetUnique ==
  ASSUME NEW axs, IsAxes(axs), NEW c \in Cells(axs),
         NEW d \in Cells(axs), Offset(axs, c) = Offset(axs, d)
  PROVE  c = d
<1>1. Rank(axs) \in Nat /\ StrideLaw(CellStrides(axs), AxesExtent(axs), Rank(axs))
      /\ \A i \in 1 .. Rank(axs) : axs[i] \in AxisRecords
  BY AxesLaw
<1>2. Digits(Digit(axs, c), AxesExtent(axs), Rank(axs))
      /\ Digits(Digit(axs, d), AxesExtent(axs), Rank(axs))
  BY CellLaw
<1>3. Partial(Digit(axs, c), CellStrides(axs), Rank(axs))
      = Partial(Digit(axs, d), CellStrides(axs), Rank(axs))
  BY OffsetIsPlace
<1>4. \A i \in 1 .. Rank(axs) : Digit(axs, c)[i] = Digit(axs, d)[i]
  <2> DEFINE n == Rank(axs)
             s == CellStrides(axs)
             e == AxesExtent(axs)
             x == Digit(axs, c)
             y == Digit(axs, d)
  <2>1. /\ n \in Nat /\ StrideLaw(s, e, n) /\ Digits(x, e, n) /\ Digits(y, e, n)
        /\ Partial(x, s, n) = Partial(y, s, n)
    BY <1>1, <1>2, <1>3
  <2>2. \A i \in 1 .. n : x[i] = y[i]
    <3> HIDE DEF n, s, e, x, y
    <3> QED BY <2>1, PlaceUnique
  <2> QED BY <2>2
<1>5. ASSUME NEW i \in 1 .. Rank(axs) PROVE c[i] = d[i]
  <2>1. c[i] - FirstBin(axs[i]) = d[i] - FirstBin(axs[i])
    BY <1>4 DEF Digit
  <2>2. c[i] \in Int /\ d[i] \in Int
    BY CellLaw
  <2>3. FirstBin(axs[i]) \in Int
    BY <1>1, AxisBins
  <2> QED BY <2>1, <2>2, <2>3, SameDifference
<1>6. c = [i \in 1 .. Rank(axs) |-> c[i]] /\ d = [i \in 1 .. Rank(axs) |-> d[i]]
  BY CellLaw
<1> QED BY <1>5, <1>6

\* and no place is left over.
LEMMA OffsetAll ==
  ASSUME NEW axs, IsAxes(axs), NEW o \in 0 .. Volume(axs) - 1
  PROVE  \E c \in Cells(axs) : Offset(axs, c) = o
<1>1. Rank(axs) \in Nat /\ StrideLaw(CellStrides(axs), AxesExtent(axs), Rank(axs))
      /\ Volume(axs) = CellStrides(axs)[Rank(axs) + 1]
      /\ \A i \in 1 .. Rank(axs) : axs[i] \in AxisRecords
            /\ AxesExtent(axs)[i] = Extent(axs[i])
  BY AxesLaw
<1>2. PICK d \in [1 .. Rank(axs) -> Nat] :
        Digits(d, AxesExtent(axs), Rank(axs)) /\ Partial(d, CellStrides(axs), Rank(axs)) = o
  <2> DEFINE n == Rank(axs)
             s == CellStrides(axs)
             e == AxesExtent(axs)
  <2>1. n \in Nat /\ StrideLaw(s, e, n) /\ o \in 0 .. s[n + 1] - 1
    BY <1>1
  <2>2. \E d \in [1 .. n -> Nat] : Digits(d, e, n) /\ Partial(d, s, n) = o
    <3> HIDE DEF n, s, e
    <3> QED BY <2>1, PlaceAll
  <2> QED BY <2>2
<1> DEFINE c == [i \in 1 .. Rank(axs) |-> d[i] + FirstBin(axs[i])]
<1>3. ASSUME NEW i \in 1 .. Rank(axs)
      PROVE  c[i] \in Bins(axs[i]) /\ c[i] - FirstBin(axs[i]) = d[i]
  <2>1. d[i] \in 0 .. Extent(axs[i]) - 1 /\ d[i] \in Nat
    BY <1>1, <1>2 DEF Digits
  <2>2. FirstBin(axs[i]) \in Int /\ d[i] \in Int
    <3>1. FirstBin(axs[i]) \in Int
      BY <1>1, AxisBins
    <3>2. d[i] \in Nat
      BY <2>1
    <3>3. Nat \subseteq Int
      OBVIOUS
    <3> QED BY <3>1, <3>2, <3>3, Zenon
  <2>3. c[i] = d[i] + FirstBin(axs[i])
    OBVIOUS
  <2>4. c[i] \in Int /\ c[i] - FirstBin(axs[i]) = d[i]
    <3> HIDE DEF c
    <3>1. d[i] + FirstBin(axs[i]) \in Int /\ (d[i] + FirstBin(axs[i])) - FirstBin(axs[i])
          = d[i]
      BY <2>2, AddSubtract
    <3> QED BY <2>3, <3>1
  <2> HIDE DEF c
  <2> QED BY <1>1, <2>1, <2>4, AxisBins
<1>4. c \in Cells(axs)
  <2>1. c = [i \in 1 .. Rank(axs) |-> c[i]]
    OBVIOUS
  <2> HIDE DEF c
  <2> QED BY <1>3, <2>1, IsCell
<1>5. Digit(axs, c) = d
  <2>1. d = [i \in 1 .. Rank(axs) |-> d[i]]
    OBVIOUS
  <2> HIDE DEF c
  <2> QED BY <1>3, <2>1 DEF Digit
<1>6. Offset(axs, c) = o
  <2> HIDE DEF c
  <2> QED BY <1>2, <1>5, OffsetIsPlace
<1> HIDE DEF c
<1> QED BY <1>4, <1>6

\* There are as many cells as there are elements of memory.
LEMMA CellsFinite ==
  ASSUME NEW axs, IsAxes(axs)
  PROVE  IsFiniteSet(Cells(axs)) /\ Cardinality(Cells(axs)) = Volume(axs)
<1> DEFINE f == [c \in Cells(axs) |-> Offset(axs, c)]
           O == 0 .. Volume(axs) - 1
<1> DEFINE v == Volume(axs)
<1>1. v \in Nat
  BY AxesLaw
<1>2. IsFiniteSet(0 .. v - 1) /\ Cardinality(0 .. v - 1) = v
  <2> HIDE DEF v
  <2>1. 0 \in Int /\ v - 1 \in Int
    BY <1>1
  <2>2. IsFiniteSet(0 .. v - 1) /\ Cardinality(0 .. v - 1) = IF 0 > v - 1 THEN 0
        ELSE v - 1 - 0 + 1
    BY <2>1, FS_Interval
  <2> QED BY <1>1, <2>2
<1>3. f \in Bijection(Cells(axs), O)
  <2>1. f \in [Cells(axs) -> O]
    BY OffsetInMemory
  <2>2. \A c, d \in Cells(axs) : f[c] = f[d] => c = d
    BY OffsetUnique
  <2>3. \A o \in O : \E c \in Cells(axs) : f[c] = o
    BY OffsetAll
  <2> HIDE DEF f, O, v
  <2>4. IsInjective(f)
    BY <2>1, <2>2 DEF IsInjective
  <2> QED BY <2>1, <2>2, <2>3, <2>4 DEF Bijection, Injection, Surjection
<1>4. ExistsBijection(Cells(axs), O)
  BY <1>3 DEF ExistsBijection
<1> HIDE DEF f
<1>5. IsFiniteSet(Cells(axs)) /\ Cardinality(Cells(axs)) = Cardinality(O)
  <2>1. ExistsBijection(O, Cells(axs))
    BY <1>4, Fun_ExistsBijSymmetric
  <2> QED BY <1>2, <2>1, FS_Bijection
<1> QED BY <1>2, <1>5

\* Memory that is laid out holds for every cell what is put there.
LEMMA LaidOutAt ==
  ASSUME NEW axs, IsAxes(axs), NEW f
  PROVE  /\ DOMAIN LaidOut(axs, f) = 0 .. Volume(axs) - 1
         /\ \A c \in Cells(axs) : LaidOut(axs, f)[Offset(axs, c)] = f[c]
         /\ \A o \in 0 .. Volume(axs) - 1 : \E c \in Cells(axs) : LaidOut(axs, f)[o] = f[c]
<1>1. DOMAIN LaidOut(axs, f) = 0 .. Volume(axs) - 1
  BY DEF LaidOut
<1>2. ASSUME NEW c \in Cells(axs) PROVE LaidOut(axs, f)[Offset(axs, c)] = f[c]
  <2> DEFINE d == CHOOSE x \in Cells(axs) : Offset(axs, x) = Offset(axs, c)
  <2>1. LaidOut(axs, f)[Offset(axs, c)] = f[d]
    BY OffsetInMemory DEF LaidOut
  <2>2. d \in Cells(axs) /\ Offset(axs, d) = Offset(axs, c)
    OBVIOUS
  <2> HIDE DEF d
  <2>3. d = c
    BY <2>2, OffsetUnique
  <2> QED BY <2>1, <2>3
<1>3. ASSUME NEW o \in 0 .. Volume(axs) - 1
             PROVE \E c \in Cells(axs) : LaidOut(axs, f)[o] = f[c]
  <2>1. PICK c \in Cells(axs) : Offset(axs, c) = o
    BY OffsetAll
  <2>2. LaidOut(axs, f)[Offset(axs, c)] = f[c]
    BY <1>2
  <2> QED BY <2>1, <2>2
<1> QED BY <1>1, <1>2, <1>3

-----------------------------------------------------------------------------
(* Arrays and their positions *)

\* How many bins of an axis an array shows, the first of them, and the number of
\* those before it.
Length(ax, flow) == IF flow THEN Extent(ax) ELSE ax.size
FirstSeen(ax, flow) == IF flow THEN FirstBin(ax) ELSE 0
Skipped(ax, flow) == Bit(~flow /\ HasUnderflow(ax))

\* On one axis of an array the positions are the bins it shows, counted from the
\* first it shows.
LEMMA AxisPositions ==
  ASSUME NEW ax \in AxisRecords, NEW flow \in BOOLEAN
  PROVE  /\ Length(ax, flow) \in Nat /\ FirstSeen(ax, flow) \in Int
            /\ Skipped(ax, flow) \in Int
         /\ FirstSeen(ax, flow) - FirstBin(ax) = Skipped(ax, flow)
         /\ \A k \in 0 .. Length(ax, flow) - 1 :
              /\ k + FirstSeen(ax, flow) \in Bins(ax)
              /\ k + FirstSeen(ax, flow) \in Int
              /\ flow \/ k + FirstSeen(ax, flow) \in 0 .. ax.size - 1
         /\ \A b \in Bins(ax) :
              (flow \/ b \in 0 .. ax.size - 1) =>
                  b - FirstSeen(ax, flow) \in 0 .. Length(ax, flow) - 1
<1>1. /\ ax.size \in Nat /\ LastBin(ax) \in {ax.size - 1, ax.size}
      /\ FirstBin(ax) \in {-1, 0} /\ Extent(ax) \in Nat /\ Bins(ax) \subseteq Int
  BY AxisBins
<1>2. Extent(ax) = LastBin(ax) - FirstBin(ax) + 1 /\ Bins(ax) = FirstBin(ax) .. LastBin(ax)
  BY Zenon DEF Extent, Bins
<1>3. FirstBin(ax) = -Bit(HasUnderflow(ax))
  BY AxisBins
<1>4. CASE flow
  <2>1. Length(ax, flow) = Extent(ax) /\ FirstSeen(ax, flow) = FirstBin(ax)
    BY <1>4 DEF Length, FirstSeen
  <2>2. Skipped(ax, flow) = 0
    BY <1>4 DEF Skipped, Bit
  <2>3. \A k \in 0 .. Length(ax, flow) - 1 :
          k + FirstSeen(ax, flow) \in Bins(ax) /\ k + FirstSeen(ax, flow) \in Int
    <3> SUFFICES ASSUME NEW k \in 0 .. Extent(ax) - 1
                 PROVE  k + FirstBin(ax) \in Bins(ax) /\ k + FirstBin(ax) \in Int
      BY <2>1, Zenon
    <3>1. k \in Int /\ k >= 0 /\ k <= Extent(ax) - 1
      BY <1>1
    <3> QED BY <1>1, <1>2, <3>1
  <2>4. \A b \in Bins(ax) : b - FirstSeen(ax, flow) \in 0 .. Length(ax, flow) - 1
    <3> SUFFICES ASSUME NEW b \in Bins(ax) PROVE b - FirstBin(ax) \in 0 .. Extent(ax) - 1
      BY <2>1, Zenon
    <3> QED BY <1>1, <1>2
  <2>5. FirstSeen(ax, flow) \in Int /\ FirstSeen(ax, flow) - FirstBin(ax) = Skipped(ax, flow)
    BY <1>1, <2>1, <2>2
  <2>6. Length(ax, flow) \in Nat /\ Skipped(ax, flow) \in Int
    BY <1>1, <2>1, <2>2
  <2> QED BY <1>4, <2>3, <2>4, <2>5, <2>6, Zenon
<1>5. CASE ~flow
  <2>1. Length(ax, flow) = ax.size /\ FirstSeen(ax, flow) = 0
    BY <1>5 DEF Length, FirstSeen
  <2>2. Skipped(ax, flow) = Bit(HasUnderflow(ax)) /\ Bit(HasUnderflow(ax)) \in {0, 1}
    BY <1>5 DEF Skipped, Bit, HasUnderflow
  <2> QED BY <1>1, <1>2, <1>3, <1>5, <2>1, <2>2
<1> QED BY <1>4, <1>5

\* The position k of an axis is the bin k + FirstSeen, and back.
LEMMA PositionToBin ==
  ASSUME NEW ax \in AxisRecords, NEW flow \in BOOLEAN, NEW k \in 0 .. Length(ax, flow) - 1,
         NEW b, b = k + FirstSeen(ax, flow)
  PROVE  b \in Bins(ax) /\ b \in Int /\ (flow \/ b \in 0 .. ax.size - 1)
BY AxisPositions

LEMMA BinToPosition ==
  ASSUME NEW ax \in AxisRecords, NEW flow \in BOOLEAN, NEW b \in Bins(ax),
         flow \/ b \in 0 .. ax.size - 1
  PROVE  b - FirstSeen(ax, flow) \in 0 .. Length(ax, flow) - 1
BY AxisPositions

\* What make_buffer settles for every axis.
LEMMA BufferFields ==
  ASSUME NEW axs, IsAxes(axs), NEW flow \in BOOLEAN
  PROVE  /\ DOMAIN Buffer(axs, flow).shape = 1 .. Rank(axs)
         /\ \A i \in 1 .. Rank(axs) : /\ Buffer(axs, flow).shape[i] = Length(axs[i], flow)
                                    /\ Buffer(axs, flow).strides[i] = Stride(axs, i)
                                    /\ Length(axs[i], flow) \in Nat
         /\ Buffer(axs, flow).start = Start(axs, flow)
<1>1. DOMAIN axs = 1 .. Rank(axs) /\ \A i \in 1 .. Rank(axs) : axs[i] \in AxisRecords
  BY AxesLaw
<1>2. \A i \in 1 .. Rank(axs) : Length(axs[i], flow) \in Nat
  BY <1>1, AxisPositions
<1> QED BY <1>1, <1>2 DEF Buffer, Shape, Length

\* A position has a number below the length for every axis,
LEMMA PositionLaw ==
  ASSUME NEW axs, IsAxes(axs), NEW flow \in BOOLEAN, NEW p \in Positions(Buffer(axs, flow))
  PROVE  /\ p = [i \in 1 .. Rank(axs) |-> p[i]]
         /\ \A i \in 1 .. Rank(axs) : p[i] \in 0 .. Length(axs[i], flow) - 1 /\ p[i] \in Int
<1> DEFINE a == Buffer(axs, flow)
<1>1. /\ DOMAIN a.shape = 1 .. Rank(axs)
      /\ \A i \in 1 .. Rank(axs) : a.shape[i] = Length(axs[i], flow)
            /\ Length(axs[i], flow) \in Nat
  BY BufferFields
<1> HIDE DEF a
<1>2. /\ p \in [1 .. Rank(axs) -> UNION {0 .. a.shape[i] - 1 : i \in 1 .. Rank(axs)}]
      /\ \A i \in 1 .. Rank(axs) : p[i] < a.shape[i]
  BY <1>1 DEF Positions, a
<1>3. ASSUME NEW i \in 1 .. Rank(axs) PROVE p[i] \in Nat
  <2>1. PICK j \in 1 .. Rank(axs) : p[i] \in 0 .. a.shape[j] - 1
    BY <1>2
  <2> QED BY <2>1
<1>4. ASSUME NEW i \in 1 .. Rank(axs)
             PROVE p[i] \in 0 .. Length(axs[i], flow) - 1 /\ p[i] \in Int
  <2>1. \A k, m \in Nat : k < m => k \in 0 .. m - 1 /\ k \in Int
    OBVIOUS
  <2> QED BY <1>1, <1>2, <1>3, <2>1
<1> QED BY <1>2, <1>4

\* and any such numbers make a position.
LEMMA IsPosition ==
  ASSUME NEW axs, IsAxes(axs), NEW flow \in BOOLEAN,
         NEW p, p = [i \in 1 .. Rank(axs) |-> p[i]],
         \A i \in 1 .. Rank(axs) : p[i] \in 0 .. Length(axs[i], flow) - 1
  PROVE  p \in Positions(Buffer(axs, flow))
<1> DEFINE a == Buffer(axs, flow)
<1>1. /\ DOMAIN a.shape = 1 .. Rank(axs)
      /\ \A i \in 1 .. Rank(axs) : a.shape[i] = Length(axs[i], flow)
            /\ Length(axs[i], flow) \in Nat
  BY BufferFields
<1> HIDE DEF a
<1>2. \A i \in 1 .. Rank(axs) : p[i] \in 0 .. a.shape[i] - 1
  BY <1>1
<1>3. p \in [1 .. Rank(axs) -> UNION {0 .. a.shape[i] - 1 : i \in 1 .. Rank(axs)}]
  BY <1>2
<1>4. ASSUME NEW i \in 1 .. Rank(axs) PROVE p[i] < a.shape[i]
  <2>1. \A k : \A m \in Nat : k \in 0 .. m - 1 => k < m
    OBVIOUS
  <2> QED BY <1>1, <1>2, <2>1
<1> QED BY <1>1, <1>3, <1>4 DEF Positions, a

\* The cell of a position is one that the array shows,
LEMMA CellOfIsCell ==
  ASSUME NEW axs, IsAxes(axs), NEW flow \in BOOLEAN, NEW p \in Positions(Buffer(axs, flow))
  PROVE  /\ CellOf(axs, flow, p) \in Cells(axs)
         /\ CellOf(axs, flow, p) \in Covered(axs, flow)
         /\ \A i \in 1 .. Rank(axs) : CellOf(axs, flow, p)[i] = p[i] + FirstSeen(axs[i], flow)
<1> DEFINE c == CellOf(axs, flow, p)
<1>1. DOMAIN axs = 1 .. Rank(axs) /\ \A i \in 1 .. Rank(axs) : axs[i] \in AxisRecords
  BY AxesLaw
<1>2. c = [i \in 1 .. Rank(axs) |-> c[i]] /\
      \A i \in 1 .. Rank(axs) : c[i] = p[i] + FirstSeen(axs[i], flow)
  BY <1>1 DEF CellOf, FirstSeen
<1> HIDE DEF c
<1>3. ASSUME NEW i \in 1 .. Rank(axs)
      PROVE  c[i] \in Bins(axs[i]) /\ (flow \/ c[i] \in 0 .. axs[i].size - 1)
  <2>1. p[i] \in 0 .. Length(axs[i], flow) - 1
    BY PositionLaw
  <2>2. axs[i] \in AxisRecords /\ c[i] = p[i] + FirstSeen(axs[i], flow)
    BY <1>1, <1>2
  <2> QED BY <2>1, <2>2, PositionToBin
<1>4. c \in Cells(axs)
  BY <1>2, <1>3, IsCell
<1>5. c \in Covered(axs, flow)
  BY <1>1, <1>3, <1>4 DEF Covered
<1> QED BY <1>2, <1>4, <1>5 DEF c

\* two positions never stand for the same cell,
LEMMA CellOfUnique ==
  ASSUME NEW axs, IsAxes(axs), NEW flow \in BOOLEAN,
         NEW p \in Positions(Buffer(axs, flow)), NEW q \in Positions(Buffer(axs, flow)),
         CellOf(axs, flow, p) = CellOf(axs, flow, q)
  PROVE  p = q
<1>1. ASSUME NEW i \in 1 .. Rank(axs) PROVE p[i] = q[i]
  <2>1. p[i] + FirstSeen(axs[i], flow) = q[i] + FirstSeen(axs[i], flow)
    BY CellOfIsCell
  <2>2. p[i] \in Int /\ q[i] \in Int
    BY PositionLaw
  <2>3. FirstSeen(axs[i], flow) \in Int
    BY AxesLaw, AxisPositions
  <2>4. /\ (p[i] + FirstSeen(axs[i], flow)) - FirstSeen(axs[i], flow) = p[i]
        /\ (q[i] + FirstSeen(axs[i], flow)) - FirstSeen(axs[i], flow) = q[i]
    BY <2>2, <2>3, AddSubtract
  <2> QED BY <2>1, <2>4, Zenon
<1>2. p = [i \in 1 .. Rank(axs) |-> p[i]] /\ q = [i \in 1 .. Rank(axs) |-> q[i]]
  BY PositionLaw
<1> QED BY <1>1, <1>2

\* and every cell it shows has a position.
LEMMA CoveredSeen ==
  ASSUME NEW axs, IsAxes(axs), NEW flow \in BOOLEAN, NEW c \in Covered(axs, flow)
  PROVE  \E p \in Positions(Buffer(axs, flow)) : CellOf(axs, flow, p) = c
<1> DEFINE p == [i \in 1 .. Rank(axs) |-> c[i] - FirstSeen(axs[i], flow)]
<1>1. /\ DOMAIN axs = 1 .. Rank(axs) /\ \A i \in 1 .. Rank(axs) : axs[i] \in AxisRecords
      /\ c \in Cells(axs) /\ \A i \in 1 .. Rank(axs) : flow \/ c[i] \in 0 .. axs[i].size - 1
  BY AxesLaw DEF Covered
<1>2. c = [i \in 1 .. Rank(axs) |-> c[i]] /\ \A i \in 1 .. Rank(axs) : c[i] \in Bins(axs[i])
      /\ c[i] \in Int
  BY <1>1, CellLaw
<1>3. ASSUME NEW i \in 1 .. Rank(axs)
      PROVE  p[i] \in 0 .. Length(axs[i], flow) - 1 /\ p[i] + FirstSeen(axs[i], flow) = c[i]
  <2>1. p[i] = c[i] - FirstSeen(axs[i], flow)
    OBVIOUS
  <2> HIDE DEF p
  <2>2. p[i] \in 0 .. Length(axs[i], flow) - 1
    <3>1. axs[i] \in AxisRecords /\ c[i] \in Bins(axs[i])
          /\ (flow \/ c[i] \in 0 .. axs[i].size - 1)
      BY <1>1, <1>2
    <3>2. c[i] - FirstSeen(axs[i], flow) \in 0 .. Length(axs[i], flow) - 1
      BY <3>1, BinToPosition
    <3> QED BY <2>1, <3>2
  <2>3. FirstSeen(axs[i], flow) \in Int /\ c[i] \in Int
    BY <1>1, <1>2, AxisPositions
  <2>4. (c[i] - FirstSeen(axs[i], flow)) + FirstSeen(axs[i], flow) = c[i]
    BY <2>3, SubtractAdd
  <2> QED BY <2>1, <2>2, <2>4
<1>4. p \in Positions(Buffer(axs, flow))
  <2>1. p = [i \in 1 .. Rank(axs) |-> p[i]]
    OBVIOUS
  <2> HIDE DEF p
  <2> QED BY <1>3, <2>1, IsPosition
<1> HIDE DEF p
<1>5. CellOf(axs, flow, p) = c
  <2>1. CellOf(axs, flow, p) = [i \in 1 .. Rank(axs) |-> p[i] + FirstSeen(axs[i], flow)]
    BY <1>1 DEF CellOf, FirstSeen
  <2> QED BY <1>2, <1>3, <2>1
<1> QED BY <1>4, <1>5

\* Where the array looks is where the cell of the position is, with and without
\* flow bins, whatever flow bins the axes have (histogram.hpp 40-50).
THEOREM AddressIsOffset ==
  ASSUME NEW axs, IsAxes(axs), NEW flow \in BOOLEAN, NEW p \in Positions(Buffer(axs, flow))
  PROVE  Address(Buffer(axs, flow), p) = Offset(axs, CellOf(axs, flow, p))
<1> DEFINE n == Rank(axs)
           a == Buffer(axs, flow)
           c == CellOf(axs, flow, p)
           f == [i \in 1 .. n |-> Skipped(axs[i], flow) * Stride(axs, i)]
           g == [i \in 1 .. n |-> p[i] * Stride(axs, i)]
           h == [i \in 1 .. n |-> (c[i] - FirstBin(axs[i])) * Stride(axs, i)]
<1>1. /\ n \in Nat /\ DOMAIN axs = 1 .. n
      /\ \A i \in 1 .. n : axs[i] \in AxisRecords /\ Stride(axs, i) \in Nat
  BY AxesLaw
<1>2. p = [i \in 1 .. n |-> p[i]] /\ \A i \in 1 .. n : p[i] \in Int
  BY PositionLaw
<1>3. a.start = Start(axs, flow) /\ \A i \in 1 .. n : a.strides[i] = Stride(axs, i)
  BY BufferFields
<1>4. \A i \in 1 .. n : c[i] = p[i] + FirstSeen(axs[i], flow)
  BY CellOfIsCell
<1>5. Start(axs, flow) = SumOver(f, 1 .. n)
  <2>1. f = [i \in 1 .. n |-> f[i]]
        /\ f = [i \in DOMAIN axs |-> Bit(~flow /\ HasUnderflow(axs[i])) * Stride(axs, i)]
    BY <1>1 DEF Skipped
  <2> HIDE DEF f
  <2> QED BY <2>1 DEF Start, SumOver
<1>6. Address(a, p) = a.start + SumOver(g, 1 .. n)
  <2>1. g = [i \in 1 .. n |-> g[i]] /\ g = [i \in DOMAIN p |-> p[i] * a.strides[i]]
    <3> HIDE DEF a
    <3> QED BY <1>2, <1>3
  <2> HIDE DEF g, a
  <2> QED BY <2>1 DEF Address, SumOver
<1>7. Offset(axs, c) = SumOver(h, 1 .. n)
  <2>1. h = [i \in 1 .. n |-> h[i]]
        /\ h = [i \in DOMAIN axs |-> (c[i] - FirstBin(axs[i])) * Stride(axs, i)]
    BY <1>1
  <2> HIDE DEF h, c
  <2> QED BY <2>1 DEF Offset, SumOver
<1>8. ASSUME NEW i \in 1 .. n PROVE f[i] \in Int /\ g[i] \in Int /\ h[i] = f[i] + g[i]
  <2> DEFINE x == p[i]
             y == FirstSeen(axs[i], flow)
             z == FirstBin(axs[i])
             w == Skipped(axs[i], flow)
             s == Stride(axs, i)
  <2>1. x \in Int /\ y \in Int /\ z \in Int /\ w \in Int /\ s \in Nat /\ y - z = w
    BY <1>1, <1>2, AxisBins, AxisPositions
  <2>2. f[i] = w * s /\ g[i] = x * s /\ h[i] = ((x + y) - z) * s
    BY <1>4
  <2> HIDE DEF x, y, z, w, s, f, g, h
  <2>3. (x + y) - z = w + x
    BY <2>1
  <2>4. (w + x) * s = w * s + x * s /\ w * s \in Int /\ x * s \in Int
    BY <2>1
  <2> QED BY <2>2, <2>3, <2>4
<1>9. SumOver(h, 1 .. n) = SumOver(f, 1 .. n) + SumOver(g, 1 .. n)
  <2>1. IsFiniteSet(1 .. n)
    <3> HIDE DEF n
    <3> QED BY <1>1, FS_Interval
  <2> HIDE DEF f, g, h, n
  <2> QED BY <1>8, <2>1, SumAdd
<1> HIDE DEF f, g, h, n, a, c
<1> QED BY <1>3, <1>5, <1>6, <1>7, <1>9 DEF a, c

-----------------------------------------------------------------------------
(* The invariant *)

\* A view is what view() made, whether it still looks into the memory or not.
ViewOK(v) ==
  /\ IsAxes(v.axes) /\ v.flow \in BOOLEAN /\ v.attached \in BOOLEAN
  /\ v = [flow |-> v.flow, axes |-> v.axes,
          array |-> Buffer(v.axes, v.flow), edges |-> AllEdges(v.axes, v.flow),
          attached |-> v.attached]

\* Every element of the memory holds the content of its cell.
CellsInv ==
  /\ IsAxes(axes)
  /\ counted \in [Cells(axes) -> Nat]
  /\ memory \in [0 .. Volume(axes) - 1 -> Nat]
  /\ \A c \in Cells(axes) : memory[Offset(axes, c)] = counted[c]

\* What looks into the memory was made for the axes as they are.
ViewsInv ==
  /\ storage \in {"dense", "unlimited"}
  /\ type \in {"small", "wide", "double"}
  /\ DoublesInView
  /\ \A v \in views : ViewOK(v) /\ (v.attached => v.axes = axes)

BuffersInv == CellsInv /\ ViewsInv

\* The invariant includes the types.
LEMMA BuffersInvTyped == BuffersInv => TypeOK
BY DEF BuffersInv, CellsInv, ViewsInv, ViewOK, TypeOK

\* An array that is left behind is still the array it was, without the memory.
LEMMA LeftBehindIsDetached ==
  ASSUME NEW vs, \A v \in vs : ViewOK(v)
  PROVE  \A v \in LeftBehind(vs) : ViewOK(v) /\ v.attached = FALSE
<1> TAKE v \in LeftBehind(vs)
<1>1. PICK u \in vs : v = [u EXCEPT !.attached = FALSE]
  BY DEF LeftBehind
<1>2. u = [flow |-> u.flow, axes |-> u.axes, array |-> Buffer(u.axes, u.flow),
           edges |-> AllEdges(u.axes, u.flow), attached |-> u.attached]
  BY DEF ViewOK
<1>3. v = [flow |-> u.flow, axes |-> u.axes, array |-> Buffer(u.axes, u.flow),
           edges |-> AllEdges(u.axes, u.flow), attached |-> FALSE]
  <2>1. PICK off : off = FALSE
    OBVIOUS
  <2>2. v = [u EXCEPT !.attached = off]
    BY <1>1, <2>1
  <2>3. v = [flow |-> u.flow, axes |-> u.axes, array |-> Buffer(u.axes, u.flow),
             edges |-> AllEdges(u.axes, u.flow), attached |-> off]
    BY <1>2, <2>2
  <2> QED BY <2>1, <2>3
<1>4. v.flow = u.flow /\ v.axes = u.axes /\ v.attached = FALSE
  BY <1>3
<1>5. IsAxes(u.axes) /\ u.flow \in BOOLEAN
  BY DEF ViewOK
<1> QED BY <1>3, <1>4, <1>5 DEF ViewOK
-----------------------------------------------------------------------------
(* The cells *)

\* A cell is written at its offset, which is that of no other.
LEMMA PutKeepsCells ==
  ASSUME CellsInv, NEW c \in Cells(axes), NEW n \in Nat, axes' = axes,
         memory' = [memory EXCEPT ![Offset(axes, c)] = n],
         counted' = [counted EXCEPT ![c] = n]
  PROVE  CellsInv'
<1>1. IsAxes(axes) /\ counted \in [Cells(axes) -> Nat]
      /\ memory \in [0 .. Volume(axes) - 1 -> Nat]
  BY DEF CellsInv
<1>2. counted' \in [Cells(axes) -> Nat] /\ memory' \in [0 .. Volume(axes) - 1 -> Nat]
  BY <1>1
<1>3. ASSUME NEW d \in Cells(axes) PROVE memory'[Offset(axes, d)] = counted'[d]
  <2>1. Offset(axes, d) \in 0 .. Volume(axes) - 1
    BY <1>1, OffsetInMemory
  <2>2. CASE d = c
    BY <1>1, <2>1, <2>2
  <2>3. CASE d # c
    <3>1. Offset(axes, d) # Offset(axes, c)
      BY <1>1, <2>3, OffsetUnique
    <3>2. memory'[Offset(axes, d)] = memory[Offset(axes, d)] /\ counted'[d] = counted[d]
      BY <1>1, <2>1, <2>3, <3>1
    <3> QED BY <3>2 DEF CellsInv
  <2> QED BY <2>2, <2>3
<1> QED BY <1>1, <1>2, <1>3 DEF CellsInv

\* One more everywhere that an array looks is one more in every bin it shows.
LEMMA AddKeepsCells ==
  ASSUME CellsInv, NEW flow \in BOOLEAN, AddArray(flow)
  PROVE  CellsInv'
<1> DEFINE a == Buffer(axes, flow)
           at == {Address(a, p) : p \in Positions(a)}
           cells == {CellOf(axes, flow, p) : p \in Positions(a)}
<1>1. IsAxes(axes) /\ counted \in [Cells(axes) -> Nat]
      /\ memory \in [0 .. Volume(axes) - 1 -> Nat]
  BY DEF CellsInv
<1>2. /\ memory' = [o \in 0 .. Volume(axes) - 1 |-> memory[o] + Bit(o \in at)]
      /\ counted' = [c \in Cells(axes) |-> counted[c] + Bit(c \in cells)]
      /\ axes' = axes
  BY <1>1 DEF AddArray
<1>3. \A b : \A k \in Nat : k + Bit(b) \in Nat
  BY DEF Bit
<1>4. \A p \in Positions(a) : CellOf(axes, flow, p) \in Cells(axes)
                               /\ Address(a, p) = Offset(axes, CellOf(axes, flow, p))
  BY <1>1, CellOfIsCell, AddressIsOffset
<1>5. ASSUME NEW c \in Cells(axes)
      PROVE  Offset(axes, c) \in at <=> c \in cells
  <2>1. ASSUME c \in cells PROVE Offset(axes, c) \in at
    BY <1>4, <2>1
  <2>2. ASSUME Offset(axes, c) \in at PROVE c \in cells
    <3>1. PICK p \in Positions(a) : Offset(axes, c) = Address(a, p)
      BY <2>2
    <3>2. c = CellOf(axes, flow, p)
      BY <1>1, <1>4, <3>1, OffsetUnique
    <3> QED BY <3>2
  <2> QED BY <2>1, <2>2
<1> HIDE DEF at, cells, a
<1>6. counted' \in [Cells(axes) -> Nat] /\ memory' \in [0 .. Volume(axes) - 1 -> Nat]
  BY <1>1, <1>2, <1>3
<1>7. ASSUME NEW c \in Cells(axes) PROVE memory'[Offset(axes, c)] = counted'[c]
  <2>1. Offset(axes, c) \in 0 .. Volume(axes) - 1
    BY <1>1, OffsetInMemory
  <2>2. /\ memory'[Offset(axes, c)] = memory[Offset(axes, c)] + Bit(Offset(axes, c) \in at)
        /\ counted'[c] = counted[c] + Bit(c \in cells)
    BY <1>2, <2>1
  <2>3. Bit(Offset(axes, c) \in at) = Bit(c \in cells)
    BY <1>5 DEF Bit
  <2>4. memory[Offset(axes, c)] = counted[c]
    BY DEF CellsInv
  <2> QED BY <2>2, <2>3, <2>4
<1> QED BY <1>1, <1>2, <1>6, <1>7 DEF CellsInv

\* Writing at a position writes the cell of the position.
LEMMA WriteKeepsCells ==
  ASSUME CellsInv, ViewsInv, NEW v \in views, NEW p \in Positions(v.array),
         NEW n \in Nat, Write(v, p, n)
  PROVE  CellsInv'
<1>1. IsAxes(axes) /\ v.axes = axes /\ v.flow \in BOOLEAN
  BY DEF CellsInv, ViewsInv, ViewOK, Write
<1>2. v.array = Buffer(axes, v.flow)
  <2>1. ViewOK(v)
    BY DEF ViewsInv
  <2>2. v.array = Buffer(v.axes, v.flow)
    BY <2>1 DEF ViewOK
  <2> QED BY <1>1, <2>2
<1>3. p \in Positions(Buffer(axes, v.flow))
  BY <1>2
<1>4. CellOf(axes, v.flow, p) \in Cells(axes)
      /\ Address(v.array, p) = Offset(axes, CellOf(axes, v.flow, p))
  BY <1>1, <1>2, <1>3, CellOfIsCell, AddressIsOffset
<1> QED BY <1>4, PutKeepsCells DEF Write

\* A reset clears both sides.
LEMMA ResetKeepsCells ==
  ASSUME CellsInv, Reset
  PROVE  CellsInv'
<1>1. IsAxes(axes) /\ DOMAIN counted = Cells(axes) /\ DOMAIN memory = 0 .. Volume(axes) - 1
  BY DEF CellsInv
<1>2. counted' = [c \in Cells(axes) |-> 0] /\ memory' = [o \in 0 .. Volume(axes) - 1 |-> 0]
      /\ axes' = axes
  BY <1>1 DEF Reset
<1>3. \A c \in Cells(axes) : Offset(axes, c) \in 0 .. Volume(axes) - 1
  BY <1>1, OffsetInMemory
<1> QED BY <1>1, <1>2, <1>3 DEF CellsInv

\* All cells begin at 0.
LEMMA InitialCells == Init => CellsInv
<1> SUFFICES ASSUME Init PROVE CellsInv
  OBVIOUS
<1>1. IsAxes(axes)
  BY ShapesAssumption DEF Init
<1>2. \A c \in Cells(axes) : Offset(axes, c) \in 0 .. Volume(axes) - 1
  BY <1>1, OffsetInMemory
<1> QED BY <1>1, <1>2 DEF Init, CellsInv
-----------------------------------------------------------------------------
(* A fill that makes an axis grow *)

\* An axis that grows is another axis.
LEMMA GrownAxis ==
  ASSUME NEW ax \in AxisRecords, NEW big, big = [ax EXCEPT !.size = @ + 1]
  PROVE  /\ big \in AxisRecords /\ big.size = ax.size + 1 /\ big # ax
         /\ FirstBin(big) = FirstBin(ax) /\ LastBin(big) = LastBin(ax) + 1
<1>1. \A r \in AxisRecords : /\ r.size \in Nat
                             /\ [r EXCEPT !.size = r.size + 1] \in AxisRecords
                             /\ [r EXCEPT !.size = r.size + 1].size = r.size + 1
                             /\ [r EXCEPT !.size = r.size + 1].options = r.options
  BY DEF AxisRecords
<1>2. big \in AxisRecords /\ big.size = ax.size + 1 /\ big.options = ax.options
      /\ ax.size \in Nat
  BY <1>1
<1>3. big # ax
  <2>1. \A n \in Nat : n + 1 # n
    OBVIOUS
  <2> QED BY <1>2, <2>1
<1>4. FirstBin(big) = FirstBin(ax)
  BY <1>2 DEF FirstBin, HasUnderflow
<1>5. LastBin(big) = LastBin(ax) + 1
  <2>1. HasOverflow(big) = HasOverflow(ax) /\ Bit(HasOverflow(ax)) \in {0, 1}
    BY <1>2 DEF HasOverflow, Bit
  <2>2. Bit(HasOverflow(big)) = Bit(HasOverflow(ax))
    BY <2>1, Zenon
  <2> DEFINE k == Bit(HasOverflow(ax))
             m == Bit(HasOverflow(big))
  <2>3. LastBin(ax) = ax.size - 1 + k /\ LastBin(big) = big.size - 1 + m /\ k = m
        /\ k \in {0, 1}
    BY <2>1, <2>2, Zenon DEF LastBin
  <2> HIDE DEF k, m
  <2> QED BY <1>2, <2>3
<1> QED BY <1>2, <1>3, <1>4, <1>5

\* Only one axis grows.
LEMMA GrownAxes ==
  ASSUME NEW axs, IsAxes(axs), NEW i \in DOMAIN axs,
         NEW grown, grown = [axs EXCEPT ![i].size = @ + 1]
  PROVE  /\ IsAxes(grown) /\ grown # axs /\ DOMAIN grown = DOMAIN axs
         /\ grown[i] = [axs[i] EXCEPT !.size = @ + 1]
         /\ \A j \in DOMAIN axs : j # i => grown[j] = axs[j]
<1>1. /\ Len(axs) \in Nat /\ DOMAIN axs = 1 .. Len(axs)
      /\ axs \in [1 .. Len(axs) -> AxisRecords]
  BY LenProperties DEF IsAxes
<1> DEFINE ax == [axs[i] EXCEPT !.size = @ + 1]
<1>2. ax \in AxisRecords /\ ax # axs[i]
  BY <1>1, GrownAxis
<1>3. grown = [axs EXCEPT ![i] = ax]
  OBVIOUS
<1> HIDE DEF ax
<1>4. grown \in [1 .. Len(axs) -> AxisRecords]
  BY <1>1, <1>2, <1>3
<1>5. IsAxes(grown)
  BY <1>1, <1>4, SeqDef DEF IsAxes
<1>6. grown[i] = ax /\ DOMAIN grown = DOMAIN axs /\
      \A j \in DOMAIN axs : j # i => grown[j] = axs[j]
  BY <1>1, <1>3
<1> QED BY <1>2, <1>5, <1>6 DEF ax

\* The bin that a bin was before a bin came in front of it or behind it.
LEMMA FormerBin ==
  ASSUME NEW ax \in AxisRecords, NEW big, big = [ax EXCEPT !.size = @ + 1],
         NEW new \in {0, ax.size}, NEW b \in Bins(big), b # new
  PROVE  b - Bit(b > new) \in Bins(ax)
<1>1. /\ FirstBin(big) = FirstBin(ax) /\ LastBin(big) = LastBin(ax) + 1
  BY GrownAxis
<1>2. /\ FirstBin(ax) \in {-1, 0} /\ ax.size \in Nat /\ LastBin(ax) \in {ax.size - 1, ax.size}
  BY AxisBins
<1>3. b \in FirstBin(ax) .. LastBin(ax) + 1
  BY <1>1 DEF Bins
<1> DEFINE first == FirstBin(ax)
           last == LastBin(ax)
           n == ax.size
<1>4. /\ first \in {-1, 0} /\ n \in Nat /\ last \in {n - 1, n} /\ b \in first .. last + 1
      /\ new \in {0, n} /\ b # new
  BY <1>2, <1>3
<1>5. b - (IF b > new THEN 1 ELSE 0) \in first .. last
  <2> HIDE DEF first, last, n
  <2>1. CASE b > new
    BY <1>4, <2>1
  <2>2. CASE ~(b > new)
    BY <1>4, <2>2
  <2> QED BY <2>1, <2>2
<1> QED BY <1>5 DEF Bins, Bit

\* Every count is laid out again under its new cell.
LEMMA GrowKeepsCells ==
  ASSUME CellsInv, NEW i \in DOMAIN axes, NEW front \in BOOLEAN, Grow(i, front)
  PROVE  CellsInv' /\ axes' # axes
<1> DEFINE grown == [axes EXCEPT ![i].size = @ + 1]
           new == IF front THEN 0 ELSE axes[i].size
           former(c) == [c EXCEPT ![i] = @ - Bit(@ > new)]
<1>1. /\ axes' = grown
      /\ counted' = [c \in Cells(grown) |-> IF c[i] = new THEN 0 ELSE counted[former(c)]]
      /\ memory' = LaidOut(grown, counted')
  BY DEF Grow
<1>2. IsAxes(axes) /\ counted \in [Cells(axes) -> Nat]
  BY DEF CellsInv
<1>3. /\ IsAxes(grown) /\ grown # axes /\ DOMAIN grown = DOMAIN axes
      /\ grown[i] = [axes[i] EXCEPT !.size = @ + 1]
      /\ \A j \in DOMAIN axes : j # i => grown[j] = axes[j]
  BY <1>2, GrownAxes
<1> HIDE DEF grown
<1>4. ASSUME NEW c \in Cells(grown), c[i] # new PROVE former(c) \in Cells(axes)
  <2>1. /\ DOMAIN axes = 1 .. Rank(axes) /\ DOMAIN grown = 1 .. Rank(grown)
        /\ axes[i] \in AxisRecords
    BY <1>2, <1>3, AxesLaw
  <2>2. c = [j \in 1 .. Rank(axes) |-> c[j]] /\
        \A j \in 1 .. Rank(axes) : c[j] \in Bins(grown[j])
    <3>1. c = [j \in 1 .. Rank(grown) |-> c[j]] /\
          \A j \in 1 .. Rank(grown) : c[j] \in Bins(grown[j])
      BY <1>3, CellLaw
    <3>2. 1 .. Rank(grown) = 1 .. Rank(axes)
      BY <1>3, <2>1
    <3> QED BY <3>1, <3>2
  <2>3. new \in {0, axes[i].size}
    OBVIOUS
  <2> HIDE DEF new
  <2>4. c[i] - Bit(c[i] > new) \in Bins(axes[i])
    BY <1>3, <1>4, <2>1, <2>2, <2>3, FormerBin
  <2>5. former(c) = [j \in 1 .. Rank(axes) |-> former(c)[j]]
    BY <2>2
  <2>6. former(c)[i] = c[i] - Bit(c[i] > new) /\
        \A j \in 1 .. Rank(axes) : j # i => former(c)[j] = c[j]
    BY <2>1, <2>2
  <2> HIDE DEF former
  <2>7. \A j \in 1 .. Rank(axes) : former(c)[j] \in Bins(axes[j])
    BY <1>3, <2>1, <2>2, <2>4, <2>6
  <2> QED BY <1>2, <2>5, <2>7, IsCell
<1>5. counted' \in [Cells(grown) -> Nat]
  <2> HIDE DEF former, new
  <2> QED BY <1>1, <1>2, <1>4
<1>6. /\ DOMAIN memory' = 0 .. Volume(grown) - 1
      /\ \A c \in Cells(grown) : memory'[Offset(grown, c)] = counted'[c]
      /\ \A o \in 0 .. Volume(grown) - 1 : \E c \in Cells(grown) : memory'[o] = counted'[c]
  <2>1. PICK f : f = counted'
    OBVIOUS
  <2>2. /\ DOMAIN LaidOut(grown, f) = 0 .. Volume(grown) - 1
        /\ \A c \in Cells(grown) : LaidOut(grown, f)[Offset(grown, c)] = f[c]
        /\ \A o \in 0 .. Volume(grown) - 1 : \E c \in Cells(grown) :
              LaidOut(grown, f)[o] = f[c]
    BY <1>3, LaidOutAt
  <2>3. memory' = LaidOut(grown, f)
    BY <1>1, <2>1
  <2> QED BY <2>1, <2>2, <2>3
<1>7. memory' = [o \in 0 .. Volume(grown) - 1 |-> memory'[o]]
  BY <1>1 DEF LaidOut
<1>8. memory' \in [0 .. Volume(grown) - 1 -> Nat]
  BY <1>5, <1>6, <1>7
<1> QED BY <1>1, <1>3, <1>5, <1>6, <1>8 DEF CellsInv
-----------------------------------------------------------------------------
(* The views *)

\* Doubles stay where they are, all other elements leave the arrays behind.
LEMMA ConversionKeepsViews ==
  ASSUME ViewsInv, ConvertToDouble, UNCHANGED <<axes, storage>>
  PROVE  ViewsInv'
<1>1. CASE type = "double"
  BY <1>1 DEF ViewsInv, ViewOK, DoublesInView, ConvertToDouble
<1>2. CASE type # "double"
  <2>1. views' = LeftBehind(views) /\ type' = "double"
    BY <1>2 DEF ConvertToDouble
  <2>2. \A v \in views' : ViewOK(v) /\ v.attached = FALSE
    BY <2>1, LeftBehindIsDetached DEF ViewsInv
  <2> QED BY <2>1, <2>2 DEF ViewsInv, DoublesInView
<1> QED BY <1>1, <1>2

\* view() converts first and then hands out an array for the axes as they are.
LEMMA ViewKeepsViews ==
  ASSUME IsAxes(axes), ViewsInv, NEW flow \in BOOLEAN, View(flow)
  PROVE  ViewsInv'
<1>1. ViewOK(NewView(flow)) /\ NewView(flow).axes = axes
  <2>1. /\ NewView(flow).flow = flow /\ NewView(flow).axes = axes
        /\ NewView(flow).attached = TRUE
    BY DEF NewView
  <2>2. NewView(flow) = [flow |-> flow, axes |-> axes, array |-> Buffer(axes, flow),
                         edges |-> AllEdges(axes, flow), attached |-> TRUE]
    BY DEF NewView
  <2> QED BY <2>1, <2>2 DEF ViewOK
<1>2. /\ type' = "double" /\ UNCHANGED <<axes, storage>>
      /\ \A v \in views' : v \in views \/ v \in LeftBehind(views) \/ v = NewView(flow)
  BY DEF View
<1>3. \A v \in LeftBehind(views) : ViewOK(v) /\ v.attached = FALSE
  BY LeftBehindIsDetached DEF ViewsInv
<1> QED BY <1>1, <1>2, <1>3 DEF ViewsInv, DoublesInView

\* Growth, reset and outgrown memory leave all arrays behind.
LEMMA GrowKeepsViews ==
  ASSUME ViewsInv, NEW i \in DOMAIN axes, NEW front \in BOOLEAN, Grow(i, front)
  PROVE  ViewsInv'
<1>1. views' = LeftBehind(views) /\ storage' = storage
      /\ type' \in {"small", "wide", "double"} /\ (storage = "dense" => type' = type)
  BY DEF Grow, ViewsInv
<1>2. \A v \in views' : ViewOK(v) /\ v.attached = FALSE
  BY <1>1, LeftBehindIsDetached DEF ViewsInv
<1> QED BY <1>1, <1>2 DEF ViewsInv, DoublesInView

LEMMA ResetKeepsViews ==
  ASSUME ViewsInv, Reset
  PROVE  ViewsInv'
<1>1. CASE storage = "dense"
  BY <1>1 DEF Reset, ViewsInv, ViewOK, DoublesInView
<1>2. CASE storage # "dense"
  <2>1. type' = "small" /\ views' = LeftBehind(views) /\ UNCHANGED <<axes, storage>>
    BY <1>2 DEF Reset
  <2>2. \A v \in views' : ViewOK(v) /\ v.attached = FALSE
    BY <2>1, LeftBehindIsDetached DEF ViewsInv
  <2> QED BY <1>2, <2>1, <2>2 DEF ViewsInv, DoublesInView
<1> QED BY <1>1, <1>2

LEMMA CountKeepsViews ==
  ASSUME ViewsInv, NEW c \in Cells(axes), Count(c)
  PROVE  ViewsInv'
<1>1. CASE type = "small" /\ counted[c] + 1 > SmallLimit
  <2>1. type' = "wide" /\ views' = LeftBehind(views) /\ UNCHANGED <<axes, storage>>
    BY <1>1 DEF Count
  <2>2. storage # "dense"
    BY <1>1 DEF ViewsInv, DoublesInView
  <2>3. \A v \in views' : ViewOK(v) /\ v.attached = FALSE
    BY <2>1, LeftBehindIsDetached DEF ViewsInv
  <2> QED BY <2>1, <2>2, <2>3 DEF ViewsInv, DoublesInView
<1>2. CASE ~(type = "small" /\ counted[c] + 1 > SmallLimit)
  BY <1>2 DEF Count, ViewsInv, ViewOK, DoublesInView
<1> QED BY <1>1, <1>2
-----------------------------------------------------------------------------
\* The invariant holds at the start.
LEMMA BuffersInitially == Init => BuffersInv
<1> SUFFICES ASSUME Init PROVE BuffersInv
  OBVIOUS
<1>1. CellsInv
  BY InitialCells
<1>2. ViewsInv
  BY DEF Init, ViewsInv, DoublesInView
<1> QED BY <1>1, <1>2 DEF BuffersInv

\* Every operation keeps the invariant.
LEMMA BuffersStep == BuffersInv /\ [Next]_vars => BuffersInv'
<1> SUFFICES ASSUME BuffersInv, [Next]_vars PROVE CellsInv' /\ ViewsInv'
  BY DEF BuffersInv
<1>0. CellsInv /\ ViewsInv /\ IsAxes(axes) /\ \A c \in Cells(axes) : counted[c] \in Nat
  BY DEF BuffersInv, CellsInv
<1>1. CASE \E flow \in BOOLEAN : View(flow)
  <2>1. CellsInv'
    BY <1>0, <1>1 DEF View, CellsInv
  <2> QED BY <1>0, <1>1, <2>1, ViewKeepsViews
<1>2. CASE \E v \in views : \E p \in Positions(v.array), n \in 0 .. MaxCount :
             Write(v, p, n)
  <2>1. CellsInv'
    <3>1. \A n \in 0 .. MaxCount : n \in Nat
      OBVIOUS
    <3> QED BY <1>0, <1>2, <3>1, WriteKeepsCells
  <2>2. ViewsInv'
    BY <1>0, <1>2 DEF Write, ViewsInv, ViewOK, DoublesInView
  <2> QED BY <2>1, <2>2
<1>3. CASE \E flow \in BOOLEAN : AddArray(flow)
  <2>1. CellsInv'
    BY <1>0, <1>3, AddKeepsCells
  <2>2. ViewsInv'
    BY <1>0, <1>3, ConversionKeepsViews DEF AddArray
  <2> QED BY <2>1, <2>2
<1>4. CASE \E c \in Cells(axes) : Count(c)
  <2>1. PICK c \in Cells(axes) : Count(c)
    BY <1>4
  <2>2. counted[c] + 1 \in Nat
    BY <1>0
  <2>3. CellsInv'
    BY <1>0, <2>1, <2>2, PutKeepsCells DEF Count, Put
  <2> QED BY <1>0, <2>1, <2>3, CountKeepsViews
<1>5. CASE \E c \in Cells(axes) : CountWeighted(c)
  <2>1. PICK c \in Cells(axes) : CountWeighted(c)
    BY <1>5
  <2>2. counted[c] + 2 \in Nat
    BY <1>0
  <2>3. CellsInv'
    BY <1>0, <2>1, <2>2, PutKeepsCells DEF CountWeighted, Put
  <2> QED BY <1>0, <2>1, <2>3, ConversionKeepsViews DEF CountWeighted
<1>6. CASE \E i \in DOMAIN axes, front \in BOOLEAN : Grow(i, front)
  BY <1>0, <1>6, GrowKeepsCells, GrowKeepsViews
<1>7. CASE Reset
  BY <1>0, <1>7, ResetKeepsCells, ResetKeepsViews
<1>8. CASE UNCHANGED vars
  BY <1>0, <1>8 DEF vars, CellsInv, ViewsInv, ViewOK, DoublesInView
<1> QED BY <1>1, <1>2, <1>3, <1>4, <1>5, <1>6, <1>7, <1>8 DEF Next
-----------------------------------------------------------------------------
(* What the arrays and the queries show *)

\* An attached array, as the buffer it was made.
LEMMA AttachedView ==
  ASSUME BuffersInv, NEW v \in views, v.attached
  PROVE  /\ IsAxes(axes) /\ v.axes = axes /\ v.flow \in BOOLEAN
         /\ v.array = Buffer(axes, v.flow)
<1>1. IsAxes(axes) /\ ViewOK(v) /\ v.axes = axes
  BY DEF BuffersInv, CellsInv, ViewsInv
<1>2. v.array = Buffer(v.axes, v.flow) /\ v.flow \in BOOLEAN
  BY <1>1 DEF ViewOK
<1> QED BY <1>1, <1>2

\* An attached array shows the contents of the bins.
LEMMA BinsShown == BuffersInv => ViewShowsBins
<1> SUFFICES ASSUME BuffersInv, NEW v \in views, v.attached, NEW p \in Positions(v.array)
             PROVE  ValuesOf(v)[p] = counted[CellOf(v.axes, v.flow, p)]
  BY DEF ViewShowsBins
<1>1. IsAxes(axes) /\ v.axes = axes /\ v.flow \in BOOLEAN /\ v.array = Buffer(axes, v.flow)
  BY AttachedView
<1>2. ValuesOf(v)[p] = memory[Address(v.array, p)]
  BY DEF ValuesOf
<1>3. p \in Positions(Buffer(axes, v.flow))
  BY <1>1
<1>4. /\ CellOf(axes, v.flow, p) \in Cells(axes)
      /\ Address(Buffer(axes, v.flow), p) = Offset(axes, CellOf(axes, v.flow, p))
  BY <1>1, <1>3, CellOfIsCell, AddressIsOffset
<1>5. memory[Offset(axes, CellOf(axes, v.flow, p))] = counted[CellOf(axes, v.flow, p)]
  BY <1>4 DEF BuffersInv, CellsInv
<1> QED BY <1>1, <1>2, <1>4, <1>5

\* The edges on both sides of a position.
LEMMA EdgesAround ==
  ASSUME NEW axs, IsAxes(axs), NEW flow \in BOOLEAN, NEW p \in Positions(Buffer(axs, flow)),
         NEW i \in 1 .. Rank(axs), NEW edges, edges = Edges(axs[i], flow),
             NEW c, c = CellOf(axs, flow, p)
  PROVE  edges[p[i]] = c[i] /\ edges[p[i] + 1] = c[i] + 1
<1>1. axs[i] \in AxisRecords
  BY AxesLaw
<1>2. p[i] \in 0 .. Length(axs[i], flow) - 1 /\ p[i] \in Int /\ Length(axs[i], flow) \in Nat
      /\ CellOf(axs, flow, p)[i] = p[i] + FirstSeen(axs[i], flow)
            /\ FirstSeen(axs[i], flow) \in Int
  BY <1>1, PositionLaw, CellOfIsCell, AxisPositions
<1>3. Edges(axs[i], flow) = [k \in 0 .. Length(axs[i], flow) |-> k + FirstSeen(axs[i], flow)]
  <2>1. \A k \in 0 .. Length(axs[i], flow) : k + 0 = k
    OBVIOUS
  <2> QED BY <2>1 DEF Edges, Length, FirstSeen
<1> DEFINE n == Length(axs[i], flow)
           f == FirstSeen(axs[i], flow)
           k == p[i]
<1>4. n \in Nat /\ f \in Int /\ k \in 0 .. n - 1
  BY <1>2
<1>5. k \in 0 .. n /\ k + 1 \in 0 .. n /\ (k + 1) + f = (k + f) + 1
  <2> HIDE DEF n, f, k
  <2> QED BY <1>4
<1>6. \A j \in 0 .. n : Edges(axs[i], flow)[j] = j + f
  BY <1>3
<1> QED BY <1>2, <1>5, <1>6

\* The edges of any array fit it.
LEMMA EdgesBelong == BuffersInv => EdgesFit
<1> SUFFICES ASSUME BuffersInv, NEW v \in views
             PROVE  /\ \A i \in DOMAIN v.edges : DOMAIN v.edges[i] = 0 .. v.array.shape[i]
                    /\ \A p \in Positions(v.array), i \in DOMAIN v.edges :
                         LET bin == CellOf(v.axes, v.flow, p)[i]
                         IN v.edges[i][p[i]] = bin /\ v.edges[i][p[i] + 1] = bin + 1
  BY DEF EdgesFit
<1> DEFINE axs == v.axes
           flow == v.flow
<1>1. /\ IsAxes(axs) /\ flow \in BOOLEAN
      /\ v.array = Buffer(axs, flow) /\ v.edges = AllEdges(axs, flow)
  <2>1. ViewOK(v)
    BY DEF BuffersInv, ViewsInv
  <2> QED BY <2>1 DEF ViewOK
<1> HIDE DEF axs, flow
<1>2. DOMAIN axs = 1 .. Rank(axs)
  BY <1>1, AxesLaw
<1>3. DOMAIN v.edges = 1 .. Rank(axs) /\
      \A i \in 1 .. Rank(axs) : v.edges[i] = Edges(axs[i], flow)
  BY <1>1, <1>2 DEF AllEdges
<1>4. ASSUME NEW i \in 1 .. Rank(axs) PROVE DOMAIN v.edges[i] = 0 .. v.array.shape[i]
  <2>1. v.array.shape[i] = Length(axs[i], flow)
    BY <1>1, BufferFields
  <2>2. DOMAIN Edges(axs[i], flow) = 0 .. Length(axs[i], flow)
    BY DEF Edges, Length
  <2> QED BY <1>3, <2>1, <2>2
<1>5. ASSUME NEW p \in Positions(v.array), NEW i \in 1 .. Rank(axs)
      PROVE  LET bin == CellOf(axs, flow, p)[i]
             IN v.edges[i][p[i]] = bin /\ v.edges[i][p[i] + 1] = bin + 1
  <2>1. p \in Positions(Buffer(axs, flow))
    BY <1>1
  <2>2. v.edges[i] = Edges(axs[i], flow)
    BY <1>3
  <2>3. \A edges, c : edges = Edges(axs[i], flow) /\ c = CellOf(axs, flow, p)
                        => edges[p[i]] = c[i] /\ edges[p[i] + 1] = c[i] + 1
    BY <1>1, <2>1, EdgesAround
  <2> QED BY <2>2, <2>3
<1> QED BY <1>3, <1>4, <1>5 DEF axs, flow

\* Summing over positions or over the cells behind them is the same.
LEMMA SumMatches ==
  ASSUME NEW axs, IsAxes(axs), NEW flow \in BOOLEAN, NEW m \in [0 .. Volume(axs) - 1 -> Nat]
  PROVE  SumFunction([c \in Covered(axs, flow) |-> m[Offset(axs, c)]])
           = SumFunction([p \in Positions(Buffer(axs, flow)) |->
               m[Address(Buffer(axs, flow), p)]])
<1> DEFINE S == Covered(axs, flow)
           T == Positions(Buffer(axs, flow))
           f == [c \in S |-> m[Offset(axs, c)]]
           g == [p \in T |-> m[Address(Buffer(axs, flow), p)]]
           b == [p \in T |-> CellOf(axs, flow, p)]
<1>1. IsFiniteSet(S)
  <2>1. S \subseteq Cells(axs)
    BY DEF Covered
  <2> QED BY <2>1, CellsFinite, FS_Subset
<1>2. \A c \in S : f[c] \in Int
  <2>1. \A c \in S : Offset(axs, c) \in 0 .. Volume(axs) - 1
    BY OffsetInMemory DEF Covered
  <2>2. \A o \in 0 .. Volume(axs) - 1 : m[o] \in Nat
    OBVIOUS
  <2>3. \A c \in S : f[c] \in Nat
    BY <2>1, <2>2
  <2>4. Nat \subseteq Int
    OBVIOUS
  <2> QED BY <2>3, <2>4, Zenon
<1>3. \A p \in T : b[p] \in S /\ g[p] = f[b[p]]
  <2> TAKE p \in T
  <2>1. CellOf(axs, flow, p) \in S
        /\ Address(Buffer(axs, flow), p) = Offset(axs, CellOf(axs, flow, p))
    BY CellOfIsCell, AddressIsOffset
  <2> HIDE DEF S
  <2> QED BY <2>1
<1>4. \A p, q \in T : b[p] = b[q] => p = q
  BY CellOfUnique
<1>5. \A c \in S : \E p \in T : b[p] = c
  BY CoveredSeen
<1>6. f = [c \in S |-> f[c]] /\ g = [p \in T |-> g[p]]
  OBVIOUS
<1> HIDE DEF S, T, f, g, b
<1>7. SumOver(g, T) = SumOver(f, S)
  BY <1>1, <1>2, <1>3, <1>4, <1>5, SumRenamed
<1>8. SumFunction(f) = SumFunction(g)
  BY <1>6, <1>7 DEF SumOver
<1> QED BY <1>8 DEF f, g, S, T

\* No cell holds anything just when no position does.
LEMMA EmptyMatches ==
  ASSUME NEW axs, IsAxes(axs), NEW flow \in BOOLEAN, NEW m
  PROVE  (\A c \in Covered(axs, flow) : m[Offset(axs, c)] = 0)
           <=> \A p \in Positions(Buffer(axs, flow)) : m[Address(Buffer(axs, flow), p)] = 0
<1>1. ASSUME \A c \in Covered(axs, flow) : m[Offset(axs, c)] = 0,
             NEW p \in Positions(Buffer(axs, flow))
      PROVE  m[Address(Buffer(axs, flow), p)] = 0
  <2>1. CellOf(axs, flow, p) \in Covered(axs, flow)
        /\ Address(Buffer(axs, flow), p) = Offset(axs, CellOf(axs, flow, p))
    BY CellOfIsCell, AddressIsOffset
  <2> QED BY <1>1, <2>1
<1>2. ASSUME \A p \in Positions(Buffer(axs, flow)) : m[Address(Buffer(axs, flow), p)] = 0,
             NEW c \in Covered(axs, flow)
      PROVE  m[Offset(axs, c)] = 0
  <2>1. PICK p \in Positions(Buffer(axs, flow)) : CellOf(axs, flow, p) = c
    BY CoveredSeen
  <2> QED BY <1>2, <2>1, AddressIsOffset
<1> QED BY <1>1, <1>2

\* With the flow bins there are as many positions as cells.
LEMMA SizeMatches ==
  ASSUME NEW axs, IsAxes(axs)
  PROVE  Cardinality(Positions(Buffer(axs, TRUE))) = Volume(axs)
<1> DEFINE T == Positions(Buffer(axs, TRUE))
           b == [p \in T |-> CellOf(axs, TRUE, p)]
<1>1. b \in [T -> Cells(axs)]
  BY CellOfIsCell
<1>2. \A p, q \in T : b[p] = b[q] => p = q
  BY CellOfUnique
<1>3. \A c \in Cells(axs) : \E p \in T : b[p] = c
  <2>1. \A c \in Cells(axs) : c \in Covered(axs, TRUE)
    BY DEF Covered
  <2> QED BY <2>1, CoveredSeen
<1> HIDE DEF T, b
<1>4. b \in Bijection(T, Cells(axs))
  <2>1. IsInjective(b)
    BY <1>1, <1>2 DEF IsInjective
  <2> QED BY <1>1, <1>3, <2>1 DEF Bijection, Injection, Surjection
<1>5. ExistsBijection(Cells(axs), T)
  BY <1>4, Fun_ExistsBijSymmetric DEF ExistsBijection
<1>6. Cardinality(T) = Cardinality(Cells(axs))
  BY <1>5, CellsFinite, FS_Bijection
<1> QED BY <1>6, CellsFinite DEF T

\* One axis without its flow bins: centers, edges and items at a position.
AxisAgrees(axs, p, i, bin) ==
  /\ BroadcastAt(AxesCenters(axs)[i], i, p) = bin
  /\ AxesEdges(axs)[i].values[p[i]] = bin
  /\ AxesEdges(axs)[i].values[p[i] + 1] = bin + 1
  /\ AxisItem(axs[i], p[i]) = {bin}
  /\ AxisItem(axs[i], p[i] - axs[i].size) = {bin}

\* They do so at every position.
LEMMA AxisMatches ==
  ASSUME NEW axs, IsAxes(axs), NEW flow \in BOOLEAN, ~flow,
         NEW p \in Positions(Buffer(axs, flow)), NEW i \in 1 .. Rank(axs),
         NEW bin, bin = CellOf(axs, flow, p)[i]
  PROVE  AxisAgrees(axs, p, i, bin)
<1> DEFINE k == p[i]
           n == axs[i].size
           first == FirstBin(axs[i])
<1>1. DOMAIN axs = 1 .. Rank(axs) /\ axs[i] \in AxisRecords
  BY AxesLaw
<1>2. n \in Nat /\ first \in {-1, 0} /\ k \in 0 .. n - 1 /\ bin = k
  <2>1. p[i] \in 0 .. Length(axs[i], flow) - 1 /\ p[i] \in Int
        /\ bin = p[i] + FirstSeen(axs[i], flow)
    BY PositionLaw, CellOfIsCell
  <2>2. Length(axs[i], flow) = n /\ FirstSeen(axs[i], flow) = 0
    BY DEF Length, FirstSeen
  <2>3. n \in Nat /\ first \in {-1, 0}
    BY <1>1, AxisBins
  <2>4. \A x \in Int : x + 0 = x
    OBVIOUS
  <2> QED BY <2>1, <2>2, <2>3, <2>4
<1>3. /\ AxesCenters(axs)[i].values = Centers(axs[i])
      /\ AxesCenters(axs)[i].shape[i] = Cardinality(DOMAIN Centers(axs[i]))
      /\ AxesEdges(axs)[i].values = Edges(axs[i], FALSE)
  BY <1>1 DEF AxesCenters, AxesEdges, AllEdges, MeshGrid
<1>4. Cardinality(DOMAIN Centers(axs[i])) = n
  <2>1. DOMAIN Centers(axs[i]) = 0 .. n - 1
    BY DEF Centers
  <2> HIDE DEF n
  <2>2. 0 \in Int /\ n - 1 \in Int
    BY <1>2
  <2>3. Cardinality(0 .. n - 1) = IF 0 > n - 1 THEN 0 ELSE n - 1 - 0 + 1
    BY <2>2, FS_Interval
  <2> QED BY <1>2, <2>1, <2>3
<1>5. BroadcastAt(AxesCenters(axs)[i], i, p) = bin
  <2>1. (IF n = 1 THEN 0 ELSE k) = k
    <3> HIDE DEF k, n
    <3> QED BY <1>2
  <2>2. BroadcastAt(AxesCenters(axs)[i], i, p) = Centers(axs[i])[k]
    BY <1>3, <1>4, <2>1 DEF BroadcastAt
  <2> QED BY <1>2, <2>2 DEF Centers
<1>6. AxesEdges(axs)[i].values[k] = bin /\ AxesEdges(axs)[i].values[k + 1] = bin + 1
  <2>1. k \in 0 .. n /\ k + 1 \in 0 .. n
    <3> HIDE DEF k, n
    <3> QED BY <1>2
  <2>2. Edges(axs[i], FALSE) = [j \in 0 .. n |-> j]
    BY DEF Edges
  <2> HIDE DEF k, n
  <2> QED BY <1>2, <1>3, <2>1, <2>2
<1>7. AxisItem(axs[i], k) = {bin}
  <2>1. (IF k < 0 THEN k + n ELSE k) = k /\ k \in first .. n - 1
    <3> HIDE DEF k, n, first
    <3> QED BY <1>2
  <2> HIDE DEF k
  <2> QED BY <1>2, <2>1 DEF AxisItem
<1>8. AxisItem(axs[i], k - n) = {bin}
  <2>1. (IF k - n < 0 THEN (k - n) + n ELSE k - n) = k /\ k \in first .. n - 1
    <3> HIDE DEF k, n, first
    <3> QED BY <1>2
  <2> HIDE DEF k
  <2> QED BY <1>2, <2>1 DEF AxisItem
<1> QED BY <1>5, <1>6, <1>7, <1>8 DEF AxisAgrees

\* The centers of an axis broadcast against an array of the sizes.
LEMMA CentersBroadcast ==
  ASSUME NEW axs, IsAxes(axs), NEW i \in 1 .. Rank(axs)
  PROVE  Broadcasts(AxesCenters(axs)[i], AxesSize(axs))
<1>1. DOMAIN axs = 1 .. Rank(axs) /\ \A j \in 1 .. Rank(axs) : axs[j] \in AxisRecords
  BY AxesLaw
<1>2. AxesCenters(axs)[i].shape
        = [j \in 1 .. Rank(axs) |-> IF j = i THEN Cardinality(DOMAIN Centers(axs[i])) ELSE 1]
  BY <1>1 DEF AxesCenters, MeshGrid
<1>3. Cardinality(DOMAIN Centers(axs[i])) = axs[i].size
  <2> DEFINE n == axs[i].size
  <2>1. DOMAIN Centers(axs[i]) = 0 .. n - 1 /\ n \in Nat
    BY <1>1, AxisBins DEF Centers
  <2> HIDE DEF n
  <2>2. 0 \in Int /\ n - 1 \in Int
    BY <2>1
  <2>3. Cardinality(0 .. n - 1) = IF 0 > n - 1 THEN 0 ELSE n - 1 - 0 + 1
    BY <2>2, FS_Interval
  <2>4. Cardinality(DOMAIN Centers(axs[i])) = n
    BY <2>1, <2>3
  <2> QED BY <2>4 DEF n
<1>4. DOMAIN AxesSize(axs) = 1 .. Rank(axs) /\
      \A j \in 1 .. Rank(axs) : AxesSize(axs)[j] = axs[j].size
  BY <1>1 DEF AxesSize
<1> QED BY <1>2, <1>3, <1>4 DEF Broadcasts

\* The queries say what the attached arrays show.
LEMMA QueriesAgree == BuffersInv => QueriesMatchViews
<1> SUFFICES ASSUME BuffersInv, NEW v \in views, v.attached
             PROVE
      LET values == ValuesOf(v)
          centers == AxesCenters(axes)
          edges == AxesEdges(axes)
      IN /\ Sum(v.flow) = SumFunction(values)
         /\ Empty(v.flow) <=> \A p \in DOMAIN values : values[p] = 0
         /\ v.flow => /\ v.array.shape = AxesExtent(axes)
                      /\ Size = Cardinality(DOMAIN values)
         /\ ~v.flow => /\ v.array.shape = AxesSize(axes)
                       /\ \A i \in DOMAIN axes :
                            /\ Broadcasts(centers[i], v.array.shape)
                            /\ \A p \in DOMAIN values :
                                 LET bin == CellOf(axes, FALSE, p)[i]
                                 IN /\ BroadcastAt(centers[i], i, p) = bin
                                    /\ edges[i].values[p[i]] = bin
                                    /\ edges[i].values[p[i] + 1] = bin + 1
                                    /\ AxisItem(axes[i], p[i]) = {bin}
                                    /\ AxisItem(axes[i], p[i] - axes[i].size) = {bin}
  BY DEF QueriesMatchViews
<1> DEFINE flow == v.flow
<1>1. IsAxes(axes) /\ flow \in BOOLEAN /\ v.array = Buffer(axes, flow)
      /\ memory \in [0 .. Volume(axes) - 1 -> Nat] /\ DOMAIN axes = 1 .. Rank(axes)
  BY AttachedView, AxesLaw DEF BuffersInv, CellsInv
<1> HIDE DEF flow
<1>2. ValuesOf(v) = [p \in Positions(Buffer(axes, flow)) |->
      memory[Address(Buffer(axes, flow), p)]]
  BY <1>1 DEF ValuesOf
<1>3. DOMAIN ValuesOf(v) = Positions(Buffer(axes, flow))
  BY <1>2
<1>4. Sum(flow) = SumFunction(ValuesOf(v))
  <2>1. PICK m \in [0 .. Volume(axes) - 1 -> Nat] : m = memory
    BY <1>1
  <2>2. SumFunction([c \in Covered(axes, flow) |-> m[Offset(axes, c)]])
          = SumFunction([p \in Positions(Buffer(axes, flow)) |->
              m[Address(Buffer(axes, flow), p)]])
    BY <1>1, SumMatches
  <2>3. Sum(flow) = SumFunction([c \in Covered(axes, flow) |-> m[Offset(axes, c)]])
    BY <2>1 DEF Sum
  <2>4. ValuesOf(v) = [p \in Positions(Buffer(axes, flow)) |->
        m[Address(Buffer(axes, flow), p)]]
    BY <1>2, <2>1
  <2> QED BY <2>2, <2>3, <2>4
<1>5. Empty(flow) <=> \A p \in DOMAIN ValuesOf(v) : ValuesOf(v)[p] = 0
  <2>1. (\A c \in Covered(axes, flow) : memory[Offset(axes, c)] = 0)
          <=> \A p \in Positions(Buffer(axes, flow)) :
              memory[Address(Buffer(axes, flow), p)] = 0
    BY <1>1, EmptyMatches
  <2> QED BY <1>2, <1>3, <2>1 DEF Empty
<1>6. ASSUME flow PROVE v.array.shape = AxesExtent(axes)
             /\ Size = Cardinality(DOMAIN ValuesOf(v))
  <2>1. v.array.shape = AxesExtent(axes)
    BY <1>1, <1>6 DEF Buffer, Shape, AxesExtent
  <2>2. flow = TRUE
    BY <1>1, <1>6
  <2>3. DOMAIN ValuesOf(v) = Positions(Buffer(axes, TRUE))
    BY <1>3, <2>2
  <2> QED BY <1>1, <2>1, <2>3, SizeMatches DEF Size
<1>7. ASSUME ~flow
      PROVE  /\ v.array.shape = AxesSize(axes)
             /\ \A i \in DOMAIN axes :
                  /\ Broadcasts(AxesCenters(axes)[i], v.array.shape)
                  /\ \A p \in DOMAIN ValuesOf(v) :
                       LET bin == CellOf(axes, FALSE, p)[i]
                       IN /\ BroadcastAt(AxesCenters(axes)[i], i, p) = bin
                          /\ AxesEdges(axes)[i].values[p[i]] = bin
                          /\ AxesEdges(axes)[i].values[p[i] + 1] = bin + 1
                          /\ AxisItem(axes[i], p[i]) = {bin}
                          /\ AxisItem(axes[i], p[i] - axes[i].size) = {bin}
  <2>1. v.array.shape = AxesSize(axes)
    BY <1>1, <1>7 DEF Buffer, Shape, AxesSize
  <2>2. flow = FALSE
    BY <1>1, <1>7
  <2>4. \A i \in DOMAIN axes : Broadcasts(AxesCenters(axes)[i], v.array.shape)
    BY <1>1, <2>1, CentersBroadcast
  <2>5. ASSUME NEW i \in DOMAIN axes, NEW p \in DOMAIN ValuesOf(v),
               NEW bin, bin = CellOf(axes, FALSE, p)[i]
        PROVE  AxisAgrees(axes, p, i, bin)
    <3>1. i \in 1 .. Rank(axes) /\ p \in Positions(Buffer(axes, flow))
      BY <1>1, <1>3
    <3>2. bin = CellOf(axes, flow, p)[i]
      BY <2>2, <2>5
    <3> QED BY <1>1, <1>7, <3>1, <3>2, AxisMatches
  <2> QED BY <2>1, <2>4, <2>5 DEF AxisAgrees
<1> QED BY <1>4, <1>5, <1>6, <1>7 DEF flow
-----------------------------------------------------------------------------
\* The step of the property: only new memory leaves an array behind.
LEMMA StaysAttached ==
  ASSUME BuffersInv, Next
  PROVE  \/ axes' # axes
         \/ \A c \in DOMAIN counted' : counted'[c] = 0
         \/ \A v \in views : v.attached => v \in views'
<1> DEFINE Kept == \A v \in views : v.attached => v \in views'
<1>0. CellsInv /\ ((\E v \in views : v.attached) => type = "double")
  BY DEF BuffersInv, ViewsInv, DoublesInView
<1>1. CASE \E flow \in BOOLEAN : View(flow)
  <2>1. type = "double" => Kept
    BY <1>1 DEF View
  <2> QED BY <1>0, <2>1
<1>2. CASE \E v \in views : \E p \in Positions(v.array), n \in 0 .. MaxCount :
             Write(v, p, n)
  BY <1>2 DEF Write
<1>3. CASE \E flow \in BOOLEAN : AddArray(flow)
  BY <1>0, <1>3 DEF AddArray, ConvertToDouble
<1>4. CASE \E c \in Cells(axes) : Count(c)
  BY <1>0, <1>4 DEF Count
<1>5. CASE \E c \in Cells(axes) : CountWeighted(c)
  BY <1>0, <1>5 DEF CountWeighted, ConvertToDouble
<1>6. CASE \E i \in DOMAIN axes, front \in BOOLEAN : Grow(i, front)
  BY <1>0, <1>6, GrowKeepsCells
<1>7. CASE Reset
  BY <1>7 DEF Reset
<1> QED BY <1>1, <1>2, <1>3, <1>4, <1>5, <1>6, <1>7 DEF Next

\* The invariant of the specification.
LEMMA BuffersInvariant == Spec => []BuffersInv
BY BuffersInitially, BuffersStep, PTL DEF Spec

\* Types: axes are tuples of axes, the memory has an element for every cell, and
\* every array is what make_buffer made for its axes (histogram.hpp 32-58).
THEOREM BuffersTyped == Spec => []TypeOK
BY BuffersInvariant, BuffersInvTyped, PTL

\* Whatever axes a histogram has, with whatever flow bins, and whatever is
\* counted, written, converted, grown and reset: an array that looks into its
\* memory shows for every position the content of the bin of that position
\* (histogram.hpp 32-58, register_histogram.hpp 85-93).
THEOREM ViewsShowBins == Spec => []ViewShowsBins
BY BuffersInvariant, BinsShown, PTL

\* The edges handed out with an array fit it always, also after the array is left
\* behind (axis.hpp 204-250).
THEOREM EdgesAlwaysFit == Spec => []EdgesFit
BY BuffersInvariant, EdgesBelong, PTL

\* sum(), empty(), size, shape, ax[k], centers and edges agree with every array
\* that the program holds (hist.py 703-728, axestuple.py 48-69): the sum over
\* the cells is the sum over the positions, in whatever order.
THEOREM QueriesAlwaysMatch == Spec => []QueriesMatchViews
BY BuffersInvariant, QueriesAgree, PTL

\* Whatever axes the histogram has, no fill, view or in-place operation leaves
\* an array behind (histogram.hpp 87-93).
THEOREM ViewsStay == Spec => ViewsStayValid
<1>1. Spec => []BuffersInv
  BY BuffersInvariant
<1>2. BuffersInv /\ [Next]_vars =>
        [ \/ axes' # axes
          \/ \A c \in DOMAIN counted' : counted'[c] = 0
          \/ \A v \in views : v.attached => v \in views' ]_vars
  BY StaysAttached
<1> QED BY <1>1, <1>2, PTL DEF Spec, ViewsStayValid
=============================================================================
