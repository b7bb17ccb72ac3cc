------------------------ MODULE Accumulators_proofs --------------------------
(***************************************************************************)
(* The accumulators hold what the definitions give for all of the samples, *)
(* for any whole samples, positive whole weights and number of             *)
(* accumulators, whatever was done to them.                                *)
(***************************************************************************)
EXTENDS Accumulators, ArithmeticTheorems, SequenceTheorems, TLAPS

-----------------------------------------------------------------------------
(* Numbers behind a mean *)

\* The mean and the squared deviations of samples, from the sums of w, w * x and
\* w * x^2.
ValueOf(w, x) == IF w = 0 THEN Zero ELSE Ratio(x, w)
DeltasOf(w, x, q) == IF w = 0 THEN Zero ELSE Ratio(q * w - x * x, w)

\* 0 as a fraction, whatever the denominator.
LEMMA ZeroRatio ==
  ASSUME NEW d \in Int \ {0}
  PROVE  Ratio(0, d) = Zero /\ Zero = Ratio(0, 1)
<1>1. Zero = Ratio(0, 1)
  BY WholeRatio DEF Zero
<1>2. 0 * 1 = 0 * d
  OBVIOUS
<1>3. 0 \in Int /\ 1 \in Int \ {0}
  OBVIOUS
<1>4. Ratio(0, d) = Ratio(0, 1)
  BY <1>2, <1>3, RatioEqual
<1> QED BY <1>1, <1>4

\* A new sample v with weight k, n the sum of the weights with it, makes the mean X of the mean
\* V, and the deviations E of D.
Fills(V, D, n, k, v, X, E) ==
  LET delta == Minus(Whole(v), V)
      value == Plus(V, Over(Times(Whole(k), delta), Whole(n)))
  IN /\ value = X
     /\ Plus(D, Times(Times(Whole(k), delta), Minus(Whole(v), value))) = E

\* The first sample is the mean, without deviation.
LEMMA FillFirst ==
  ASSUME NEW k \in Nat \ {0}, NEW v \in Int
  PROVE  Fills(Zero, Zero, k, k, v, Ratio(k * v, k), Zero)
<1> DEFINE delta == Minus(Whole(v), Zero)
           kdelta == Times(Whole(k), delta)
           step == Over(kdelta, Whole(k))
           value == Plus(Zero, step)
           rest == Minus(Whole(v), value)
<1>0. /\ k \in Int \ {0} /\ 0 \in Int /\ 1 \in Int \ {0}
      /\ Whole(v) = Ratio(v, 1) /\ Whole(k) = Ratio(k, 1) /\ Zero = Ratio(0, 1)
  BY WholeRatio, ZeroRatio
<1>1. PICK z \in Int : z = k * v
  OBVIOUS
<1>2. delta = Ratio(v, 1)
  <2>1. (v * 1 - 0 * 1) * 1 = v * (1 * 1)
    OBVIOUS
  <2> QED BY <1>0, <2>1, MinusIs
<1> HIDE DEF delta
<1>3. kdelta = Ratio(z, 1)
  <2>1. (k * v) * 1 = z * (1 * 1)
    BY <1>1
  <2> QED BY <1>0, <1>2, <2>1, TimesIs
<1> HIDE DEF kdelta
<1>4. step = Ratio(v, 1)
  <2>1. (z * 1) * 1 = v * (1 * k)
    BY <1>1
  <2> QED BY <1>0, <1>3, <2>1, OverIs
<1> HIDE DEF step
<1>5. value = Ratio(v, 1) /\ Ratio(v, 1) = Ratio(z, k)
  <2>1. (0 * 1 + v * 1) * 1 = v * (1 * 1) /\ v * k = z * 1
    BY <1>1
  <2> QED BY <1>0, <1>4, <2>1, PlusIs, RatioEqual
<1> HIDE DEF value
<1>6. rest = Ratio(0, 1)
  <2>1. (v * 1 - v * 1) * 1 = 0 * (1 * 1)
    OBVIOUS
  <2> QED BY <1>0, <1>5, <2>1, MinusIs
<1> HIDE DEF rest
<1>7. Times(kdelta, rest) = Ratio(0, 1)
  <2>1. (z * 0) * 1 = 0 * (1 * 1)
    OBVIOUS
  <2> QED BY <1>0, <1>3, <1>6, <2>1, TimesIs
<1>8. Plus(Zero, Times(kdelta, rest)) = Ratio(0, 1)
  <2>1. (0 * 1 + 0 * 1) * 1 = 0 * (1 * 1)
    OBVIOUS
  <2> QED BY <1>0, <1>7, <2>1, PlusIs
<1> QED BY <1>0, <1>1, <1>5, <1>8 DEF Fills, delta, kdelta, step, value, rest

\* Every further sample moves the mean by its share of the distance.
LEMMA FillNext ==
  ASSUME NEW w \in Nat \ {0}, NEW x \in Int, NEW q \in Int,
         NEW k \in Nat \ {0}, NEW v \in Int
  PROVE  Fills(Ratio(x, w), Ratio(q * w - x * x, w), w + k, k, v,
               Ratio(x + k * v, w + k),
               Ratio((q + k * v * v) * (w + k) - (x + k * v) * (x + k * v), w + k))
<1> DEFINE delta == Minus(Whole(v), Ratio(x, w))
           kdelta == Times(Whole(k), delta)
           step == Over(kdelta, Whole(w + k))
           value == Plus(Ratio(x, w), step)
           rest == Minus(Whole(v), value)
           more == Times(kdelta, rest)
<1>1. PICK N \in Nat \ {0} : N = w + k
  OBVIOUS
<1>2. PICK e \in Int, f \in Int, X \in Int, m \in Int \ {0}, g \in Int :
        e = v * w - x /\ f = k * e /\ X = x + k * v /\ m = w * N /\ g = f * e
  <2>1. PICK e \in Int : e = v * w - x
    OBVIOUS
  <2>2. PICK f \in Int : f = k * e
    OBVIOUS
  <2>3. x + k * v \in Int /\ w * N \in Int \ {0} /\ f * e \in Int
    OBVIOUS
  <2> QED BY <2>1, <2>2, <2>3
<1>3. PICK D \in Int, E \in Int :
        /\ D = q * w - x * x
        /\ E = (q + k * v * v) * N - X * X
  <2>1. q * w - x * x \in Int /\ (q + k * v * v) * N - X * X \in Int
    OBVIOUS
  <2> QED BY <2>1
<1>0. /\ w \in Int \ {0} /\ k \in Int \ {0} /\ N \in Int \ {0} /\ 0 \in Int /\ 1 \in Int \ {0}
      /\ Whole(v) = Ratio(v, 1) /\ Whole(k) = Ratio(k, 1) /\ Whole(N) = Ratio(N, 1)
  BY WholeRatio
<1>4. delta = Ratio(e, w)
  <2>1. (v * w - x * 1) * w = e * (1 * w)
    BY <1>2
  <2> QED BY <1>0, <2>1, MinusIs
<1> HIDE DEF delta
<1>5. kdelta = Ratio(f, w)
  <2>1. (k * e) * w = f * (1 * w)
    BY <1>2
  <2> QED BY <1>0, <1>4, <2>1, TimesIs
<1> HIDE DEF kdelta
<1>6. step = Ratio(f, m)
  <2>1. (f * 1) * m = f * (w * N)
    BY <1>2
  <2>2. step = Over(Ratio(f, w), Ratio(N, 1))
    BY <1>0, <1>1, <1>5
  <2> QED BY <1>0, <2>1, <2>2, OverIs
<1> HIDE DEF step
<1>7. value = Ratio(X, N)
  <2>1. (x * (w * (w + k)) + (k * (v * w - x)) * w) * (w + k)
          = (x + k * v) * (w * (w * (w + k)))
    OBVIOUS
  <2>2. (x * m + f * w) * N = X * (w * m)
    BY <1>1, <1>2, <2>1
  <2> QED BY <1>0, <1>6, <2>2, PlusIs
<1> HIDE DEF value
<1>8. rest = Ratio(e, N)
  <2>1. (v * (w + k) - (x + k * v) * 1) * (w + k) = (v * w - x) * (1 * (w + k))
    OBVIOUS
  <2>2. (v * N - X * 1) * N = e * (1 * N)
    BY <1>1, <1>2, <2>1
  <2> QED BY <1>0, <1>7, <2>2, MinusIs
<1> HIDE DEF rest
<1>9. more = Ratio(g, m)
  <2>1. (f * e) * m = g * (w * N)
    BY <1>2
  <2> QED BY <1>0, <1>5, <1>8, <2>1, TimesIs
<1> HIDE DEF more
<1>10. Plus(Ratio(D, w), more) = Ratio(E, N)
  <2>1. ((q * w - x * x) * (w * (w + k)) + ((k * (v * w - x)) * (v * w - x)) * w) * (w + k)
          = ((q + k * v * v) * (w + k) - (x + k * v) * (x + k * v)) * (w * (w * (w + k)))
    OBVIOUS
  <2>2. (D * m + g * w) * N = E * (w * m)
    BY <1>1, <1>2, <1>3, <2>1
  <2> QED BY <1>0, <1>9, <2>2, PlusIs
<1> QED BY <1>1, <1>2, <1>3, <1>7, <1>10
       DEF Fills, delta, kdelta, step, value, rest, more

\* The mean V of weight m and the mean W of weight n, with deviations D and E,
\* merge into the mean X and the deviations F.
Merges(m, V, D, n, W, E, X, F) ==
  /\ MeanOf(Whole(m), V, Whole(n), W) = X
  /\ Plus(Plus(D, E), Spread(Whole(m), V, Whole(n), W)) = F

\* The mean of two means is that of all their samples.
LEMMA MeanOfBoth ==
  ASSUME NEW m \in Nat \ {0}, NEW x \in Int, NEW n \in Nat \ {0}, NEW y \in Int
  PROVE  MeanOf(Whole(m), Ratio(x, m), Whole(n), Ratio(y, n)) = Ratio(x + y, m + n)
<1>1. PICK N \in Nat \ {0}, z \in Int : N = m + n /\ z = x + y
  OBVIOUS
<1>0. /\ m \in Int \ {0} /\ n \in Int \ {0} /\ N \in Int \ {0} /\ 1 \in Int \ {0}
      /\ Whole(m) = Ratio(m, 1) /\ Whole(n) = Ratio(n, 1)
  BY WholeRatio
<1>2. Times(Whole(m), Ratio(x, m)) = Ratio(x, 1)
  <2>1. (m * x) * 1 = x * (1 * m)
    OBVIOUS
  <2> QED BY <1>0, <2>1, TimesIs
<1>3. Times(Whole(n), Ratio(y, n)) = Ratio(y, 1)
  <2>1. (n * y) * 1 = y * (1 * n)
    OBVIOUS
  <2> QED BY <1>0, <2>1, TimesIs
<1>4. Plus(Ratio(x, 1), Ratio(y, 1)) = Ratio(z, 1)
  <2>1. (x * 1 + y * 1) * 1 = z * (1 * 1)
    BY <1>1
  <2> QED BY <1>0, <2>1, PlusIs
<1>5. Plus(Whole(m), Whole(n)) = Ratio(N, 1)
  <2>1. (m * 1 + n * 1) * 1 = N * (1 * 1)
    BY <1>1
  <2> QED BY <1>0, <2>1, PlusIs
<1>6. Over(Ratio(z, 1), Ratio(N, 1)) = Ratio(z, N)
  <2>1. (z * 1) * N = z * (1 * N)
    OBVIOUS
  <2> QED BY <1>0, <2>1, OverIs
<1> QED BY <1>1, <1>2, <1>3, <1>4, <1>5, <1>6 DEF MeanOf

\* One half of what the distance of two means adds, as a fraction.
LEMMA SpreadOfOne ==
  ASSUME NEW n \in Nat \ {0}, NEW y \in Int, NEW N \in Nat \ {0}, NEW z \in Int,
         NEW F \in Int, F = (z * n - y * N) * (z * n - y * N),
         NEW j \in Int \ {0}, j = n * (N * N)
  PROVE  Times(Whole(n), Square(Minus(Ratio(z, N), Ratio(y, n)))) = Ratio(F, j)
<1>1. PICK k \in Int \ {0}, l \in Int \ {0}, E \in Int :
        k = n * N /\ l = k * k /\ E = z * n - y * N /\ F = E * E
  <2>1. PICK k \in Int \ {0} : k = n * N
    OBVIOUS
  <2>2. k * k \in Int \ {0} /\ z * n - y * N \in Int
    OBVIOUS
  <2> QED BY <2>1, <2>2
<1>0. /\ n \in Int \ {0} /\ N \in Int \ {0} /\ 1 \in Int \ {0}
      /\ Whole(n) = Ratio(n, 1)
  BY WholeRatio
<1>2. Minus(Ratio(z, N), Ratio(y, n)) = Ratio(E, k)
  <2>1. N * n = k
    BY <1>1
  <2>2. (z * n - y * N) * k = E * (N * n)
    BY <1>1, <2>1
  <2> QED BY <1>0, <2>2, MinusIs
<1>3. Square(Ratio(E, k)) = Ratio(F, l)
  <2>1. (E * E) * l = F * (k * k)
    BY <1>1
  <2> QED BY <2>1, TimesIs DEF Square
<1>4. Times(Whole(n), Ratio(F, l)) = Ratio(F, j)
  <2>1. (n * F) * (n * (N * N)) = F * (1 * ((n * N) * (n * N)))
    OBVIOUS
  <2>2. (n * F) * j = F * (1 * l)
    BY <1>1, <2>1
  <2> QED BY <1>0, <2>2, TimesIs
<1> QED BY <1>1, <1>2, <1>3, <1>4

\* Two means merge into that of all their samples.
LEMMA DeltasOfBoth ==
  ASSUME NEW m \in Nat \ {0}, NEW x \in Int, NEW p \in Int,
         NEW n \in Nat \ {0}, NEW y \in Int, NEW q \in Int
  PROVE  Merges(m, Ratio(x, m), Ratio(p * m - x * x, m),
                n, Ratio(y, n), Ratio(q * n - y * y, n),
                Ratio(x + y, m + n),
                Ratio((p + q) * (m + n) - (x + y) * (x + y), m + n))
<1>1. PICK N \in Nat \ {0}, z \in Int : N = m + n /\ z = x + y
  OBVIOUS
<1>2. PICK E \in Int, F \in Int, e \in Int :
        E = y * m - x * n /\ F = E * E /\ e = x * n - y * m
  <2>1. y * m - x * n \in Int /\ x * n - y * m \in Int
    OBVIOUS
  <2> QED BY <2>1
<1>3. PICK a \in Int \ {0}, b \in Int \ {0}, c \in Int \ {0}, d \in Int \ {0} :
        a = m * (N * N) /\ b = n * (N * N) /\ c = m * n /\ d = c * N
  <2>1. PICK M \in Int \ {0} : M = N * N
    OBVIOUS
  <2>2. m * M \in Int \ {0} /\ n * M \in Int \ {0}
    OBVIOUS
  <2>3. PICK c \in Int \ {0} : c = m * n
    OBVIOUS
  <2>4. c * N \in Int \ {0}
    OBVIOUS
  <2> QED BY <2>1, <2>2, <2>3, <2>4
<1>4. PICK S \in Int, T \in Int, U \in Int, V \in Int :
        /\ S = p * m - x * x /\ T = q * n - y * y
        /\ U = S * n + T * m
        /\ V = (p + q) * N - z * z
  <2>1. p * m - x * x \in Int /\ q * n - y * y \in Int /\ (p + q) * N - z * z \in Int
    OBVIOUS
  <2>2. \A s, t \in Int : s * n + t * m \in Int
    OBVIOUS
  <2> QED BY <2>1, <2>2
<1>0. m \in Int \ {0} /\ n \in Int \ {0} /\ N \in Int \ {0}
  OBVIOUS
<1>5. MeanOf(Whole(m), Ratio(x, m), Whole(n), Ratio(y, n)) = Ratio(z, N)
  BY <1>1, MeanOfBoth
<1>6. Times(Whole(m), Square(Minus(Ratio(z, N), Ratio(x, m)))) = Ratio(F, a)
  <2>1. (x + y) * m - x * (m + n) = y * m - x * n
    OBVIOUS
  <2>2. z * m - x * N = E
    BY <1>1, <1>2, <2>1
  <2>3. F = (z * m - x * N) * (z * m - x * N)
    BY <1>2, <2>2
  <2>4. a = m * (N * N)
    BY <1>3
  <2> QED BY <2>3, <2>4, SpreadOfOne
<1>7. Times(Whole(n), Square(Minus(Ratio(z, N), Ratio(y, n)))) = Ratio(F, b)
  <2>1. (x + y) * n - y * (m + n) = x * n - y * m
    OBVIOUS
  <2>2. z * n - y * N = e
    BY <1>1, <1>2, <2>1
  <2>3. e * e = F
    <3>1. (x * n - y * m) * (x * n - y * m) = (y * m - x * n) * (y * m - x * n)
      OBVIOUS
    <3> QED BY <1>2, <3>1
  <2>4. F = (z * n - y * N) * (z * n - y * N)
    BY <2>2, <2>3
  <2>5. b = n * (N * N)
    BY <1>3
  <2> QED BY <2>4, <2>5, SpreadOfOne
<1>8. Spread(Whole(m), Ratio(x, m), Whole(n), Ratio(y, n)) = Ratio(F, d)
  <2>1. (F * (n * (N * N)) + F * (m * (N * N))) * ((m * n) * N)
          = F * ((m * (N * N)) * (n * (N * N))) * 1
    <3>1. (F * (n * (N * N)) + F * (m * (N * N))) = F * ((m + n) * (N * N))
      OBVIOUS
    <3>2. (F * (N * (N * N))) * ((m * n) * N) = F * ((m * (N * N)) * (n * (N * N))) * 1
      OBVIOUS
    <3> QED BY <1>1, <3>1, <3>2
  <2>2. (F * b + F * a) * d = F * (a * b)
    <3>1. F * (a * b) * 1 = F * (a * b)
      OBVIOUS
    <3> QED BY <1>3, <2>1, <3>1
  <2>3. Plus(Ratio(F, a), Ratio(F, b)) = Ratio(F, d)
    BY <2>2, PlusIs
  <2> QED BY <1>5, <1>6, <1>7, <2>3 DEF Spread
<1>9. Plus(Ratio(S, m), Ratio(T, n)) = Ratio(U, c)
  <2>1. (S * n + T * m) * c = U * (m * n)
    BY <1>3, <1>4
  <2> QED BY <1>0, <2>1, PlusIs
<1>10. Plus(Ratio(U, c), Ratio(F, d)) = Ratio(V, N)
  <2>1. ((p * m - x * x) * n + (q * n - y * y) * m) * (m + n)
          + (y * m - x * n) * (y * m - x * n)
          = (m * n) * ((p + q) * (m + n) - (x + y) * (x + y))
    OBVIOUS
  <2>2. U * N + F = c * V
    BY <1>1, <1>2, <1>3, <1>4, <2>1
  <2>3. (U * (c * N) + F * c) * N = (U * N + F) * (c * N)
    OBVIOUS
  <2>4. (c * V) * (c * N) = V * (c * (c * N))
    OBVIOUS
  <2>5. (U * d + F * c) * N = V * (c * d)
    BY <1>3, <2>2, <2>3, <2>4
  <2> QED BY <1>0, <2>5, PlusIs
<1> QED BY <1>1, <1>4, <1>5, <1>8, <1>9, <1>10 DEF Merges

\* Merging into an empty mean.
LEMMA BothOfEmpty ==
  ASSUME NEW n \in Nat \ {0}, NEW y \in Int, NEW q \in Int
  PROVE  Merges(0, Zero, Zero, n, Ratio(y, n), Ratio(q, n), Ratio(y, n), Ratio(q, n))
<1>0. /\ n \in Int \ {0} /\ 0 \in Int /\ 1 \in Int \ {0} /\ n * n \in Int \ {0}
      /\ Whole(n) = Ratio(n, 1) /\ Zero = Ratio(0, 1)
  BY WholeRatio, ZeroRatio
<1>1. MeanOf(Zero, Zero, Whole(n), Ratio(y, n)) = Ratio(y, n)
  <2>1. Times(Zero, Zero) = Ratio(0, 1)
    <3>1. (0 * 0) * 1 = 0 * (1 * 1)
      OBVIOUS
    <3> QED BY <1>0, <3>1, TimesIs
  <2>2. Times(Whole(n), Ratio(y, n)) = Ratio(y, 1)
    <3>1. (n * y) * 1 = y * (1 * n)
      OBVIOUS
    <3> QED BY <1>0, <3>1, TimesIs
  <2>3. Plus(Ratio(0, 1), Ratio(y, 1)) = Ratio(y, 1)
    <3>1. (0 * 1 + y * 1) * 1 = y * (1 * 1)
      OBVIOUS
    <3> QED BY <1>0, <3>1, PlusIs
  <2>4. Plus(Zero, Whole(n)) = Ratio(n, 1)
    <3>1. (0 * 1 + n * 1) * 1 = n * (1 * 1)
      OBVIOUS
    <3> QED BY <1>0, <3>1, PlusIs
  <2>5. Over(Ratio(y, 1), Ratio(n, 1)) = Ratio(y, n)
    <3>1. (y * 1) * n = y * (1 * n)
      OBVIOUS
    <3> QED BY <1>0, <3>1, OverIs
  <2> QED BY <2>1, <2>2, <2>3, <2>4, <2>5 DEF MeanOf
<1>2. Times(Zero, Square(Minus(Ratio(y, n), Zero))) = Zero
  <2>1. Minus(Ratio(y, n), Zero) = Ratio(y, n)
    <3>1. (y * 1 - 0 * n) * n = y * (n * 1)
      OBVIOUS
    <3> QED BY <1>0, <3>1, MinusIs
  <2>2. PICK s \in Int, t \in Int \ {0} : Square(Ratio(y, n)) = Ratio(s, t)
    BY <1>0, TimesRatio DEF Square
  <2>3. (0 * s) * 1 = 0 * (1 * t)
    OBVIOUS
  <2> QED BY <1>0, <2>1, <2>2, <2>3, TimesIs
<1>3. Times(Whole(n), Square(Minus(Ratio(y, n), Ratio(y, n)))) = Zero
  <2>1. Minus(Ratio(y, n), Ratio(y, n)) = Ratio(0, 1)
    <3>1. (y * n - y * n) * 1 = 0 * (n * n)
      OBVIOUS
    <3> QED BY <1>0, <3>1, MinusIs
  <2>2. Square(Ratio(0, 1)) = Ratio(0, 1)
    <3>1. (0 * 0) * 1 = 0 * (1 * 1)
      OBVIOUS
    <3> QED BY <1>0, <3>1, TimesIs DEF Square
  <2>3. (n * 0) * 1 = 0 * (1 * 1)
    OBVIOUS
  <2> QED BY <1>0, <2>1, <2>2, <2>3, TimesIs
<1>4. Spread(Zero, Zero, Whole(n), Ratio(y, n)) = Ratio(0, 1)
  <2>1. (0 * 1 + 0 * 1) * 1 = 0 * (1 * 1)
    OBVIOUS
  <2>2. Plus(Zero, Zero) = Ratio(0, 1)
    BY <1>0, <2>1, PlusIs
  <2> QED BY <1>1, <1>2, <1>3, <2>2 DEF Spread
<1>5. Plus(Zero, Ratio(q, n)) = Ratio(q, n)
  <2>1. (0 * n + q * 1) * n = q * (1 * n)
    OBVIOUS
  <2> QED BY <1>0, <2>1, PlusIs
<1>6. Plus(Ratio(q, n), Ratio(0, 1)) = Ratio(q, n)
  <2>1. (q * 1 + 0 * n) * n = q * (n * 1)
    OBVIOUS
  <2> QED BY <1>0, <2>1, PlusIs
<1> QED BY <1>1, <1>4, <1>5, <1>6 DEF Merges, Zero

\* Scaled by s, the mean V becomes X, and the deviations D become E.
Scales(V, D, s, X, E) ==
  /\ Times(V, Whole(s)) = X
  /\ Times(D, Square(Whole(s))) = E

\* Mean and deviations of the scaled samples, with or without a sample.
LEMMA Scaled ==
  ASSUME NEW w \in Nat, NEW x \in Int, NEW q \in Int, NEW s \in Int
  PROVE  Scales(ValueOf(w, x), DeltasOf(w, x, q), s, ValueOf(w, s * x),
         DeltasOf(w, s * x, s * s * q))
<1>1. PICK y \in Int, t \in Int, r \in Int : y = s * x /\ t = s * s /\ r = t * q
  <2>1. PICK t \in Int : t = s * s
    OBVIOUS
  <2>2. s * x \in Int /\ t * q \in Int
    OBVIOUS
  <2> QED BY <2>1, <2>2
<1>0. /\ 0 \in Int /\ 1 \in Int \ {0}
      /\ Whole(s) = Ratio(s, 1) /\ Zero = Ratio(0, 1)
  BY WholeRatio, ZeroRatio
<1>2. Square(Whole(s)) = Ratio(t, 1)
  <2>1. (s * s) * 1 = t * (1 * 1)
    BY <1>1
  <2> QED BY <1>0, <2>1, TimesIs DEF Square
<1>3. CASE w = 0
  <2>1. (0 * s) * 1 = 0 * (1 * 1) /\ (0 * t) * 1 = 0 * (1 * 1)
    OBVIOUS
  <2>2. Times(Zero, Whole(s)) = Zero /\ Times(Zero, Ratio(t, 1)) = Zero
    BY <1>0, <2>1, TimesIs
  <2> QED BY <1>2, <1>3, <2>2 DEF ValueOf, DeltasOf, Scales
<1>4. CASE w # 0
  <2>0. w \in Int \ {0}
    BY <1>4
  <2>1. Times(Ratio(x, w), Whole(s)) = Ratio(y, w)
    <3>1. (x * s) * w = y * (w * 1)
      BY <1>1
    <3> QED BY <1>0, <2>0, <3>1, TimesIs
  <2>2. PICK D \in Int, E \in Int : D = q * w - x * x /\ E = r * w - y * y
    <3>1. q * w - x * x \in Int /\ r * w - y * y \in Int
      OBVIOUS
    <3> QED BY <3>1
  <2>3. Times(Ratio(D, w), Ratio(t, 1)) = Ratio(E, w)
    <3>1. ((q * w - x * x) * (s * s)) * w
            = (((s * s) * q) * w - (s * x) * (s * x)) * (w * 1)
      OBVIOUS
    <3>2. (D * t) * w = E * (w * 1)
      BY <1>1, <2>2, <3>1
    <3> QED BY <1>0, <2>0, <3>2, TimesIs
  <2> QED BY <1>1, <1>2, <1>4, <2>1, <2>2, <2>3 DEF ValueOf, DeltasOf, Scales
<1> QED BY <1>3, <1>4

-----------------------------------------------------------------------------
(* Means of samples *)

\* What there is to know of the sums of some samples, whose weights are positive:
\* none has no weight, and the sum of the squares of the weights is the square of
\* the sum for one, less for more of them, and never less than the n-th part.
SumsOK(d) ==
  /\ d \in [n : Nat, w : Nat, w2 : Nat, x : Int, x2 : Int]
  /\ d.n = 0 => d.w = 0
  /\ d.w = 0 => d.n = 0 /\ d.w2 = 0 /\ d.x = 0 /\ d.x2 = 0
  /\ d.n = 1 => d.w2 = d.w * d.w
  /\ d.n > 1 => d.w2 < d.w * d.w
  /\ d.w * d.w <= d.n * d.w2

MeanOfSums(d) ==
  [count |-> Whole(d.w), value |-> ValueOf(d.w, d.x),
   deltas |-> DeltasOf(d.w, d.x, d.x2)]
WMeanOfSums(d) ==
  [sum |-> Whole(d.w), sum2 |-> Whole(d.w2), value |-> ValueOf(d.w, d.x),
   deltas |-> DeltasOf(d.w, d.x, d.x2)]

\* Whole numbers add, subtract and multiply as integers.
LEMMA WholeArithmetic ==
  ASSUME NEW a \in Int, NEW b \in Int
  PROVE  /\ Plus(Whole(a), Whole(b)) = Whole(a + b)
         /\ Minus(Whole(a), Whole(b)) = Whole(a - b)
         /\ Times(Whole(a), Whole(b)) = Whole(a * b)
<1>1. PICK s \in Int, t \in Int, u \in Int : s = a + b /\ t = a - b /\ u = a * b
  OBVIOUS
<1>0. /\ 1 \in Int \ {0}
      /\ Whole(a) = Ratio(a, 1) /\ Whole(b) = Ratio(b, 1)
      /\ Whole(s) = Ratio(s, 1) /\ Whole(t) = Ratio(t, 1) /\ Whole(u) = Ratio(u, 1)
  BY WholeRatio
<1>2. /\ (a * 1 + b * 1) * 1 = s * (1 * 1)
      /\ (a * 1 - b * 1) * 1 = t * (1 * 1)
      /\ (a * b) * 1 = u * (1 * 1)
  BY <1>1
<1>3. Plus(Ratio(a, 1), Ratio(b, 1)) = Ratio(s, 1)
  BY <1>0, <1>2, PlusIs
<1>4. Minus(Ratio(a, 1), Ratio(b, 1)) = Ratio(t, 1)
  BY <1>0, <1>2, MinusIs
<1>5. Times(Ratio(a, 1), Ratio(b, 1)) = Ratio(u, 1)
  BY <1>0, <1>2, TimesIs
<1> QED BY <1>0, <1>1, <1>3, <1>4, <1>5

LEMMA WholeSame ==
  ASSUME NEW a, NEW b, Whole(a) = Whole(b)
  PROVE  a = b
BY DEF Whole

\* One more sample, the first or a further one.
LEMMA FilledNumbers ==
  ASSUME NEW w \in Nat, NEW x \in Int, NEW q \in Int, w = 0 => x = 0 /\ q = 0,
         NEW k \in Nat \ {0}, NEW v \in Int
  PROVE  Fills(ValueOf(w, x), DeltasOf(w, x, q), w + k, k, v,
               ValueOf(w + k, x + k * v), DeltasOf(w + k, x + k * v, q + k * v * v))
<1>1. CASE w = 0
  <2>1. PICK z \in Int, y \in Int : z = k * v /\ y = k * v * v
    <3>1. k * v \in Int /\ k * v * v \in Int
      OBVIOUS
    <3> QED BY <3>1
  <2>2. w + k = k /\ x + k * v = z /\ q + k * v * v = y /\ k # 0
    BY <1>1, <2>1
  <2>3. DeltasOf(k, z, y) = Zero
    <3>1. (k * v * v) * k - (k * v) * (k * v) = 0
      OBVIOUS
    <3>2. y * k - z * z = 0
      BY <2>1, <3>1
    <3> QED BY <3>2, ZeroRatio DEF DeltasOf
  <2>4. ValueOf(w, x) = Zero /\ DeltasOf(w, x, q) = Zero
    BY <1>1 DEF ValueOf, DeltasOf
  <2>5. ValueOf(k, z) = Ratio(k * v, k)
    BY <2>1 DEF ValueOf
  <2>6. Fills(Zero, Zero, k, k, v, Ratio(k * v, k), Zero)
    BY FillFirst
  <2> QED BY <2>2, <2>3, <2>4, <2>5, <2>6, Zenon
<1>2. CASE w # 0
  <2>1. ValueOf(w, x) = Ratio(x, w) /\ DeltasOf(w, x, q) = Ratio(q * w - x * x, w)
    BY <1>2 DEF ValueOf, DeltasOf
  <2>2. PICK N \in Nat : N = w + k /\ N # 0
    OBVIOUS
  <2>3. /\ ValueOf(w + k, x + k * v) = Ratio(x + k * v, w + k)
        /\ DeltasOf(w + k, x + k * v, q + k * v * v)
             = Ratio((q + k * v * v) * (w + k) - (x + k * v) * (x + k * v), w + k)
    BY <2>2 DEF ValueOf, DeltasOf
  <2>4. w \in Nat \ {0}
    BY <1>2
  <2>5. Fills(Ratio(x, w), Ratio(q * w - x * x, w), w + k, k, v,
              Ratio(x + k * v, w + k),
              Ratio((q + k * v * v) * (w + k) - (x + k * v) * (x + k * v), w + k))
    BY <2>4, FillNext, Zenon
  <2> QED BY <2>1, <2>3, <2>5, Zenon
<1> QED BY <1>1, <1>2

\* Merging into a mean, empty or not.
LEMMA MergedNumbers ==
  ASSUME NEW m \in Nat, NEW x \in Int, NEW p \in Int, m = 0 => x = 0 /\ p = 0,
         NEW n \in Nat \ {0}, NEW y \in Int, NEW q \in Int
  PROVE  Merges(m, ValueOf(m, x), DeltasOf(m, x, p), n, ValueOf(n, y), DeltasOf(n, y, q),
                ValueOf(m + n, x + y), DeltasOf(m + n, x + y, p + q))
<1>0. ValueOf(n, y) = Ratio(y, n) /\ DeltasOf(n, y, q) = Ratio(q * n - y * y, n)
  BY DEF ValueOf, DeltasOf
<1>1. CASE m = 0
  <2>1. m + n = n /\ x + y = y /\ p + q = q
    BY <1>1
  <2>2. ValueOf(m, x) = Zero /\ DeltasOf(m, x, p) = Zero
    BY <1>1 DEF ValueOf, DeltasOf
  <2>3. PICK D \in Int : D = q * n - y * y
    OBVIOUS
  <2>4. Merges(0, Zero, Zero, n, Ratio(y, n), Ratio(D, n), Ratio(y, n), Ratio(D, n))
    BY BothOfEmpty
  <2> QED BY <1>0, <1>1, <2>1, <2>2, <2>3, <2>4, Zenon
<1>2. CASE m # 0
  <2>1. PICK N \in Nat : N = m + n /\ N # 0
    OBVIOUS
  <2>2. /\ ValueOf(m + n, x + y) = Ratio(x + y, m + n)
        /\ DeltasOf(m + n, x + y, p + q)
             = Ratio((p + q) * (m + n) - (x + y) * (x + y), m + n)
    BY <2>1 DEF ValueOf, DeltasOf
  <2>3. ValueOf(m, x) = Ratio(x, m) /\ DeltasOf(m, x, p) = Ratio(p * m - x * x, m)
    BY <1>2 DEF ValueOf, DeltasOf
  <2>4. m \in Nat \ {0}
    BY <1>2
  <2>5. Merges(m, Ratio(x, m), Ratio(p * m - x * x, m),
               n, Ratio(y, n), Ratio(q * n - y * y, n),
               Ratio(x + y, m + n),
               Ratio((p + q) * (m + n) - (x + y) * (x + y), m + n))
    BY <2>4, DeltasOfBoth, Zenon
  <2> QED BY <1>0, <2>2, <2>3, <2>5, Zenon
<1> QED BY <1>1, <1>2

\* The sums of one more sample, of the samples of both, and of the scaled ones.
OneMoreSum(d, k, v) ==
  [n |-> d.n + 1, w |-> d.w + k, w2 |-> d.w2 + k * k,
   x |-> d.x + k * v, x2 |-> d.x2 + k * v * v]
BothSums(d, e) ==
  [n |-> d.n + e.n, w |-> d.w + e.w, w2 |-> d.w2 + e.w2,
   x |-> d.x + e.x, x2 |-> d.x2 + e.x2]
ScaledSums(d, s) == [d EXCEPT !.x = s * d.x, !.x2 = s * s * d.x2]

\* Filling makes of the accumulators of some sums those of one sample more.
LEMMA FillMeanSums ==
  ASSUME NEW d, SumsOK(d), NEW k \in Nat \ {0}, NEW v \in Int
  PROVE  /\ FillMean(MeanOfSums(d), Whole(k), Whole(v)) = MeanOfSums(OneMoreSum(d, k, v))
         /\ FillWMean(WMeanOfSums(d), Whole(k), Whole(v)) = WMeanOfSums(OneMoreSum(d, k, v))
<1>1. PICK w \in Nat, w2 \in Nat, x \in Int, q \in Int :
        /\ w = d.w /\ w2 = d.w2 /\ x = d.x /\ q = d.x2
        /\ w = 0 => x = 0 /\ q = 0
  BY DEF SumsOK
<1> DEFINE delta == Minus(Whole(v), ValueOf(w, x))
           value == Plus(ValueOf(w, x), Over(Times(Whole(k), delta), Whole(w + k)))
           deltas == Plus(DeltasOf(w, x, q),
                          Times(Times(Whole(k), delta), Minus(Whole(v), value)))
<1>2. value = ValueOf(w + k, x + k * v) /\ deltas = DeltasOf(w + k, x + k * v, q + k * v * v)
  <2>1. Fills(ValueOf(w, x), DeltasOf(w, x, q), w + k, k, v,
              ValueOf(w + k, x + k * v), DeltasOf(w + k, x + k * v, q + k * v * v))
    BY <1>1, FilledNumbers, Zenon
  <2> QED BY <2>1, Zenon DEF Fills
<1>3. Plus(Whole(w), Whole(k)) = Whole(w + k)
  BY WholeArithmetic
<1>4. Plus(Whole(w2), Square(Whole(k))) = Whole(w2 + k * k)
  <2>1. PICK kk \in Int : kk = k * k
    OBVIOUS
  <2>2. Square(Whole(k)) = Whole(kk)
    BY <2>1, WholeArithmetic DEF Square
  <2> QED BY <2>1, <2>2, WholeArithmetic
<1>5. MeanOfSums(d) = [count |-> Whole(w), value |-> ValueOf(w, x),
        deltas |-> DeltasOf(w, x, q)]
  BY <1>1 DEF MeanOfSums
<1>6. WMeanOfSums(d) = [sum |-> Whole(w), sum2 |-> Whole(w2), value |-> ValueOf(w, x),
                        deltas |-> DeltasOf(w, x, q)]
  BY <1>1 DEF WMeanOfSums
<1>7. FillMean(MeanOfSums(d), Whole(k), Whole(v))
        = [count |-> Whole(w + k), value |-> value, deltas |-> deltas]
  BY <1>3, <1>5 DEF FillMean
<1>8. FillWMean(WMeanOfSums(d), Whole(k), Whole(v))
        = [sum |-> Whole(w + k), sum2 |-> Whole(w2 + k * k), value |-> value,
              deltas |-> deltas]
  BY <1>3, <1>4, <1>6 DEF FillWMean
<1> HIDE DEF value, deltas
<1> QED BY <1>1, <1>2, <1>7, <1>8 DEF MeanOfSums, WMeanOfSums, OneMoreSum

\* Merging makes the accumulators of the sums of both.
LEMMA MergeMeanSums ==
  ASSUME NEW d, SumsOK(d), NEW e, SumsOK(e)
  PROVE  /\ MergeMean(MeanOfSums(d), MeanOfSums(e)) = MeanOfSums(BothSums(d, e))
         /\ MergeWMean(WMeanOfSums(d), WMeanOfSums(e)) = WMeanOfSums(BothSums(d, e))
<1>1. PICK m \in Nat, m2 \in Nat, x \in Int, p \in Int :
        /\ m = d.w /\ m2 = d.w2 /\ x = d.x /\ p = d.x2
        /\ m = 0 => x = 0 /\ p = 0
  BY DEF SumsOK
<1>2. PICK n \in Nat, n2 \in Nat, y \in Int, q \in Int :
        /\ n = e.w /\ n2 = e.w2 /\ y = e.x /\ q = e.x2
        /\ n = 0 => n2 = 0 /\ y = 0 /\ q = 0
  BY DEF SumsOK
<1>3. MeanOfSums(d) = [count |-> Whole(m), value |-> ValueOf(m, x),
        deltas |-> DeltasOf(m, x, p)]
  BY <1>1 DEF MeanOfSums
<1>4. WMeanOfSums(d) = [sum |-> Whole(m), sum2 |-> Whole(m2), value |-> ValueOf(m, x),
                        deltas |-> DeltasOf(m, x, p)]
  BY <1>1 DEF WMeanOfSums
<1>5. MeanOfSums(e) = [count |-> Whole(n), value |-> ValueOf(n, y),
        deltas |-> DeltasOf(n, y, q)]
  BY <1>2 DEF MeanOfSums
<1>6. WMeanOfSums(e) = [sum |-> Whole(n), sum2 |-> Whole(n2), value |-> ValueOf(n, y),
                        deltas |-> DeltasOf(n, y, q)]
  BY <1>2 DEF WMeanOfSums
<1>7. /\ MeanOfSums(BothSums(d, e)) =
           [count |-> Whole(m + n), value |-> ValueOf(m + n, x + y),
            deltas |-> DeltasOf(m + n, x + y, p + q)]
      /\ WMeanOfSums(BothSums(d, e)) =
           [sum |-> Whole(m + n), sum2 |-> Whole(m2 + n2), value |-> ValueOf(m + n, x + y),
            deltas |-> DeltasOf(m + n, x + y, p + q)]
  BY <1>1, <1>2 DEF MeanOfSums, WMeanOfSums, BothSums
<1>8. CASE n = 0
  <2>1. m + n = m /\ m2 + n2 = m2 /\ x + y = x /\ p + q = p
    BY <1>2, <1>8
  <2>2. MeanOfSums(e).count = Zero /\ WMeanOfSums(e).sum = Zero
    BY <1>5, <1>6, <1>8 DEF Zero
  <2> QED BY <1>3, <1>4, <1>7, <2>1, <2>2 DEF MergeMean, MergeWMean
<1>9. CASE n # 0
  <2>1. Whole(n) # Zero
    BY <1>9, WholeSame DEF Zero
  <2>2. n \in Nat \ {0}
    BY <1>9
  <2>3. /\ MeanOf(Whole(m), ValueOf(m, x), Whole(n), ValueOf(n, y)) = ValueOf(m + n, x + y)
        /\ Plus(Plus(DeltasOf(m, x, p), DeltasOf(n, y, q)),
                Spread(Whole(m), ValueOf(m, x), Whole(n), ValueOf(n, y)))
             = DeltasOf(m + n, x + y, p + q)
    <3>1. Merges(m, ValueOf(m, x), DeltasOf(m, x, p),
                 n, ValueOf(n, y), DeltasOf(n, y, q),
                 ValueOf(m + n, x + y), DeltasOf(m + n, x + y, p + q))
      BY <1>1, <2>2, MergedNumbers, Zenon
    <3> QED BY <3>1, Zenon DEF Merges
  <2>4. Plus(Whole(m), Whole(n)) = Whole(m + n) /\ Plus(Whole(m2), Whole(n2)) = Whole(m2 + n2)
    BY WholeArithmetic
  <2> QED BY <1>3, <1>4, <1>5, <1>6, <1>7, <2>1, <2>3, <2>4 DEF MergeMean, MergeWMean
<1> QED BY <1>8, <1>9

\* The fields that scaling changes.
LEMMA ScaledMean ==
  ASSUME NEW c, NEW V, NEW D, NEW f
  PROVE  ScaleMean([count |-> c, value |-> V, deltas |-> D], f)
           = [count |-> c, value |-> Times(V, f), deltas |-> Times(D, Square(f))]
<1> DEFINE m == [count |-> c, value |-> V, deltas |-> D]
           X == Times(V, f)
           E == Times(D, Square(f))
<1>1. ScaleMean(m, f) = [[m EXCEPT !.value = X] EXCEPT !.deltas = E]
  BY DEF ScaleMean
<1> HIDE DEF X, E
<1>2. [m EXCEPT !.value = X] = [count |-> c, value |-> X, deltas |-> D]
  OBVIOUS
<1>3. [[count |-> c, value |-> X, deltas |-> D] EXCEPT !.deltas = E]
        = [count |-> c, value |-> X, deltas |-> E]
  OBVIOUS
<1> USE DEF X, E
<1> QED BY <1>1, <1>2, <1>3, Zenon

LEMMA ScaledWMean ==
  ASSUME NEW c, NEW b, NEW V, NEW D, NEW f
  PROVE  ScaleMean([sum |-> c, sum2 |-> b, value |-> V, deltas |-> D], f)
           = [sum |-> c, sum2 |-> b, value |-> Times(V, f), deltas |-> Times(D, Square(f))]
<1> DEFINE m == [sum |-> c, sum2 |-> b, value |-> V, deltas |-> D]
           X == Times(V, f)
           E == Times(D, Square(f))
<1>1. ScaleMean(m, f) = [[m EXCEPT !.value = X] EXCEPT !.deltas = E]
  BY DEF ScaleMean
<1> HIDE DEF X, E
<1>2. [m EXCEPT !.value = X] = [sum |-> c, sum2 |-> b, value |-> X, deltas |-> D]
  OBVIOUS
<1>3. [[sum |-> c, sum2 |-> b, value |-> X, deltas |-> D] EXCEPT !.deltas = E]
        = [sum |-> c, sum2 |-> b, value |-> X, deltas |-> E]
  OBVIOUS
<1> USE DEF X, E
<1> QED BY <1>1, <1>2, <1>3, Zenon

\* Scaling makes the accumulators of the scaled samples.
LEMMA ScaleMeanSums ==
  ASSUME NEW d, SumsOK(d), NEW s \in Int
  PROVE  /\ ScaleMean(MeanOfSums(d), Whole(s)) = MeanOfSums(ScaledSums(d, s))
         /\ ScaleMean(WMeanOfSums(d), Whole(s)) = WMeanOfSums(ScaledSums(d, s))
<1>1. PICK w \in Nat, w2 \in Nat, x \in Int, q \in Int :
        w = d.w /\ w2 = d.w2 /\ x = d.x /\ q = d.x2
  BY DEF SumsOK
<1>2. /\ Times(ValueOf(w, x), Whole(s)) = ValueOf(w, s * x)
      /\ Times(DeltasOf(w, x, q), Square(Whole(s))) = DeltasOf(w, s * x, s * s * q)
  <2>1. Scales(ValueOf(w, x), DeltasOf(w, x, q), s, ValueOf(w, s * x),
        DeltasOf(w, s * x, s * s * q))
    BY Scaled, Zenon
  <2> QED BY <2>1, Zenon DEF Scales
<1>3. /\ ScaledSums(d, s).w = w /\ ScaledSums(d, s).w2 = w2
      /\ ScaledSums(d, s).x = s * x /\ ScaledSums(d, s).x2 = s * s * q
  BY <1>1 DEF ScaledSums, SumsOK
<1>4. PICK e : e = ScaledSums(d, s)
  OBVIOUS
<1>5. /\ MeanOfSums(e) = [count |-> Whole(w), value |-> Times(ValueOf(w, x), Whole(s)),
                           deltas |-> Times(DeltasOf(w, x, q), Square(Whole(s)))]
      /\ WMeanOfSums(e) = [sum |-> Whole(w), sum2 |-> Whole(w2),
                            value |-> Times(ValueOf(w, x), Whole(s)),
                            deltas |-> Times(DeltasOf(w, x, q), Square(Whole(s)))]
  BY <1>2, <1>3, <1>4, Zenon DEF MeanOfSums, WMeanOfSums
<1>6. MeanOfSums(d) = [count |-> Whole(w), value |-> ValueOf(w, x),
        deltas |-> DeltasOf(w, x, q)]
  BY <1>1 DEF MeanOfSums
<1>7. WMeanOfSums(d) = [sum |-> Whole(w), sum2 |-> Whole(w2), value |-> ValueOf(w, x),
                        deltas |-> DeltasOf(w, x, q)]
  BY <1>1 DEF WMeanOfSums
<1>8. /\ ScaleMean(MeanOfSums(d), Whole(s)) = MeanOfSums(e)
      /\ ScaleMean(WMeanOfSums(d), Whole(s)) = WMeanOfSums(e)
  <2> DEFINE V == ValueOf(w, x)
             D == DeltasOf(w, x, q)
             f == Whole(s)
             c == Whole(w)
             b == Whole(w2)
  <2> HIDE DEF V, D, f, c, b
  <2>1. ScaleMean([count |-> c, value |-> V, deltas |-> D], f)
              = [count |-> c, value |-> Times(V, f), deltas |-> Times(D, Square(f))]
    BY ScaledMean
  <2>2. ScaleMean([sum |-> c, sum2 |-> b, value |-> V, deltas |-> D], f)
              = [sum |-> c, sum2 |-> b, value |-> Times(V, f), deltas |-> Times(D, Square(f))]
    BY ScaledWMean
  <2> USE DEF V, D, f, c, b
  <2>3. ScaleMean(MeanOfSums(d), Whole(s)) = MeanOfSums(e)
    BY <1>5, <1>6, <2>1, Zenon
  <2>4. ScaleMean(WMeanOfSums(d), Whole(s)) = WMeanOfSums(e)
    BY <1>5, <1>7, <2>2, Zenon
  <2> QED BY <2>3, <2>4
<1> QED BY <1>4, <1>8

-----------------------------------------------------------------------------
(* The sums of samples *)

\* Natural numbers multiply in order, and so do their square roots.
LEMMA ProductsOrdered ==
  ASSUME NEW x \in Nat, NEW y \in Nat, NEW u \in Nat, NEW v \in Nat, x <= y, u <= v
  PROVE  x * u <= y * v
<1>1. PICK e \in Nat, f \in Nat : y = x + e /\ v = u + f
  <2>1. y - x \in Nat /\ v - u \in Nat /\ y = x + (y - x) /\ v = u + (v - u)
    OBVIOUS
  <2> QED BY <2>1
<1>2. (x + e) * (u + f) = x * u + (x * f + e * u + e * f)
  OBVIOUS
<1>3. x * f \in Nat /\ e * u \in Nat /\ e * f \in Nat /\ x * u \in Nat
  OBVIOUS
<1> QED BY <1>1, <1>2, <1>3

LEMMA RootsOrdered ==
  ASSUME NEW x \in Nat, NEW y \in Nat, x * x <= y * y
  PROVE  x <= y
<1>1. SUFFICES ASSUME x > y PROVE FALSE
  OBVIOUS
<1>2. PICK e \in Nat : x = y + 1 + e
  <2>1. x - y - 1 \in Nat /\ x = y + 1 + (x - y - 1)
    BY <1>1
  <2> QED BY <2>1
<1>3. (y + 1 + e) * (y + 1 + e) = y * y + (2 * y + 1 + e * (2 * y + 2 + e))
  OBVIOUS
<1>4. e * (2 * y + 2 + e) \in Nat /\ y * y \in Nat
  OBVIOUS
<1> QED BY <1>2, <1>3, <1>4

LEMMA Squares ==
  ASSUME NEW x \in Int
  PROVE  x * x \in Nat
<1>1. CASE x >= 0
  BY <1>1
<1>2. CASE x < 0
  <2>1. (-x) \in Nat /\ (-x) * (-x) = x * x
    BY <1>2
  <2> QED BY <2>1
<1> QED BY <1>1, <1>2

\* Twice the product of two sums of weights, from what is known of each.
LEMMA Mixed ==
  ASSUME NEW n \in Nat, NEW a \in Nat, NEW A \in Nat, a * a <= n * A,
         NEW m \in Nat, NEW b \in Nat, NEW B \in Nat, b * b <= m * B
  PROVE  2 * (a * b) <= n * B + m * A
<1>1. PICK s \in Nat, t \in Nat, p \in Nat : s = n * B /\ t = m * A /\ p = a * b
  <2>1. n * B \in Nat /\ m * A \in Nat /\ a * b \in Nat
    OBVIOUS
  <2> QED BY <2>1
<1>2. p * p <= s * t
  <2>1. PICK x \in Nat, y \in Nat, u \in Nat, v \in Nat :
          x = a * a /\ y = n * A /\ u = b * b /\ v = m * B
    <3>1. a * a \in Nat /\ n * A \in Nat /\ b * b \in Nat /\ m * B \in Nat
      OBVIOUS
    <3> QED BY <3>1
  <2>2. x * u <= y * v
    BY <2>1, ProductsOrdered
  <2>3. (a * a) * (b * b) = (a * b) * (a * b)
    OBVIOUS
  <2>4. (n * A) * (m * B) = (n * B) * (m * A)
    OBVIOUS
  <2>5. x * u = p * p /\ y * v = s * t
    BY <1>1, <2>1, <2>3, <2>4
  <2> QED BY <2>2, <2>5
<1>3. (2 * p) * (2 * p) <= (s + t) * (s + t)
  <2>1. PICK z \in Nat : z = (s - t) * (s - t)
    <3>1. s - t \in Int
      OBVIOUS
    <3> QED BY <3>1, Squares
  <2>2. (s + t) * (s + t) = 4 * (s * t) + (s - t) * (s - t)
    OBVIOUS
  <2>3. (2 * p) * (2 * p) = 4 * (p * p)
    OBVIOUS
  <2>4. s * t \in Nat /\ p * p \in Nat
    OBVIOUS
  <2> QED BY <1>2, <2>1, <2>2, <2>3, <2>4
<1>4. PICK f \in Nat, g \in Nat : f = 2 * p /\ g = s + t
  OBVIOUS
<1>5. f <= g
  BY <1>3, <1>4, RootsOrdered
<1> QED BY <1>1, <1>4, <1>5

\* Merging keeps what is known of the sums; for the number of samples, by the
\* inequality above.
LEMMA BothSumsOK ==
  ASSUME NEW d, SumsOK(d), NEW e, SumsOK(e)
  PROVE  SumsOK(BothSums(d, e))
<1>1. PICK n \in Nat, a \in Nat, A \in Nat :
        /\ n = d.n /\ a = d.w /\ A = d.w2
        /\ n = 0 => a = 0
        /\ a = 0 => n = 0 /\ A = 0
        /\ n = 1 => A = a * a
        /\ n > 1 => A < a * a
        /\ a * a <= n * A
  BY DEF SumsOK
<1>2. PICK m \in Nat, b \in Nat, B \in Nat :
        /\ m = e.n /\ b = e.w /\ B = e.w2
        /\ m = 0 => b = 0
        /\ b = 0 => m = 0 /\ B = 0
        /\ m = 1 => B = b * b
        /\ m > 1 => B < b * b
        /\ b * b <= m * B
  BY DEF SumsOK
<1>3. PICK f : f = BothSums(d, e)
  OBVIOUS
<1>4. /\ f \in [n : Nat, w : Nat, w2 : Nat, x : Int, x2 : Int]
      /\ f.n = n + m /\ f.w = a + b /\ f.w2 = A + B
      /\ f.x = d.x + e.x /\ f.x2 = d.x2 + e.x2
  BY <1>1, <1>2, <1>3 DEF BothSums, SumsOK
<1>5. /\ n + m = 0 => a + b = 0
      /\ a + b = 0 => n + m = 0 /\ A + B = 0 /\ a = 0 /\ b = 0
  <2>1. /\ n \in Nat /\ a \in Nat /\ A \in Nat
        /\ n = 0 => a = 0
        /\ a = 0 => n = 0 /\ A = 0
    BY <1>1
  <2>2. /\ m \in Nat /\ b \in Nat /\ B \in Nat
        /\ m = 0 => b = 0
        /\ b = 0 => m = 0 /\ B = 0
    BY <1>2
  <2>3. n + m = 0 => n = 0 /\ m = 0
    BY <2>1, <2>2
  <2>4. a + b = 0 => a = 0 /\ b = 0
    BY <2>1, <2>2
  <2> QED BY <2>1, <2>2, <2>3, <2>4
<1>6. d.w = 0 => d.x = 0 /\ d.x2 = 0
  BY DEF SumsOK
<1>7. e.w = 0 => e.x = 0 /\ e.x2 = 0
  BY DEF SumsOK
<1>8. f.w = 0 => f.n = 0 /\ f.w2 = 0 /\ f.x = 0 /\ f.x2 = 0
  BY <1>1, <1>2, <1>4, <1>5, <1>6, <1>7
<1>9. (a + b) * (a + b) = a * a + b * b + 2 * (a * b)
  OBVIOUS
<1>10. (n + m) * (A + B) = n * A + m * B + (n * B + m * A)
  OBVIOUS
<1>11. a * a \in Nat /\ b * b \in Nat /\ a * b \in Nat
  OBVIOUS
<1>12. (a + b) * (a + b) <= (n + m) * (A + B)
  <2>1. n * A \in Nat /\ m * B \in Nat /\ n * B \in Nat /\ m * A \in Nat
    OBVIOUS
  <2>2. 2 * (a * b) <= n * B + m * A
    BY <1>1, <1>2, Mixed
  <2> QED BY <1>1, <1>2, <1>9, <1>10, <1>11, <2>1, <2>2
<1>13. CASE n = 0
  <2>1. a = 0 /\ A = 0 /\ a + b = b /\ A + B = B /\ n + m = m
    <3>1. a = 0 /\ A = 0
      BY <1>1, <1>13
    <3>2. b \in Nat /\ B \in Nat /\ m \in Nat
      BY <1>2
    <3> QED BY <1>13, <3>1, <3>2
  <2> QED BY <1>2, <1>3, <1>4, <1>5, <1>8, <1>12, <2>1 DEF SumsOK
<1>14. CASE m = 0
  <2>1. b = 0 /\ B = 0 /\ a + b = a /\ A + B = A /\ n + m = n
    <3>1. b = 0 /\ B = 0
      BY <1>2, <1>14
    <3>2. a \in Nat /\ A \in Nat /\ n \in Nat
      BY <1>1
    <3> QED BY <1>14, <3>1, <3>2
  <2> QED BY <1>1, <1>3, <1>4, <1>5, <1>8, <1>12, <2>1 DEF SumsOK
<1>15. CASE n # 0 /\ m # 0
  <2>1. n + m > 1
    BY <1>15
  <2>2. A <= a * a /\ B <= b * b
    BY <1>1, <1>2, <1>11, <1>15
  <2>3. a * b > 0
    <3>1. a \in Nat \ {0} /\ b \in Nat \ {0}
      BY <1>1, <1>2, <1>15
    <3> QED BY <3>1
  <2>4. A + B < (a + b) * (a + b)
    BY <1>9, <1>11, <2>2, <2>3
  <2> QED BY <1>3, <1>4, <1>5, <1>8, <1>12, <2>1, <2>4 DEF SumsOK
<1> QED BY <1>13, <1>14, <1>15

\* A sample more is a merge with the sums of one sample.
LEMMA OneMoreSumOK ==
  ASSUME NEW d, SumsOK(d), NEW k \in Nat \ {0}, NEW v \in Int
  PROVE  SumsOK(OneMoreSum(d, k, v))
<1>1. PICK kk \in Nat, y \in Int, q \in Int : kk = k * k /\ y = k * v /\ q = k * v * v
  <2>1. k * k \in Nat /\ k * v \in Int /\ k * v * v \in Int
    OBVIOUS
  <2> QED BY <2>1
<1>2. PICK e : e = [n |-> 1, w |-> k, w2 |-> kk, x |-> y, x2 |-> q]
  OBVIOUS
<1>3. 1 * kk = kk
  OBVIOUS
<1>4. SumsOK(e)
  BY <1>1, <1>2, <1>3 DEF SumsOK
<1>5. OneMoreSum(d, k, v) = BothSums(d, e)
  BY <1>1, <1>2 DEF OneMoreSum, BothSums
<1> QED BY <1>4, <1>5, BothSumsOK

LEMMA ScaledSumsOK ==
  ASSUME NEW d, SumsOK(d), NEW s \in Int
  PROVE  SumsOK(ScaledSums(d, s))
<1>1. PICK y \in Int, q \in Int :
        y = s * d.x /\ q = s * s * d.x2 /\ (d.x = 0 => y = 0) /\ (d.x2 = 0 => q = 0)
  <2>1. d.x \in Int /\ d.x2 \in Int
    BY DEF SumsOK
  <2>2. s * d.x \in Int /\ s * s * d.x2 \in Int /\ s * 0 = 0 /\ s * s * 0 = 0
    BY <2>1
  <2> QED BY <2>2
<1>2. ScaledSums(d, s) = [[d EXCEPT !.x = y] EXCEPT !.x2 = q]
  BY <1>1 DEF ScaledSums, SumsOK
<1>3. PICK f : f = [[d EXCEPT !.x = y] EXCEPT !.x2 = q]
  OBVIOUS
<1>4. /\ f \in [n : Nat, w : Nat, w2 : Nat, x : Int, x2 : Int]
      /\ f.n = d.n /\ f.w = d.w /\ f.w2 = d.w2 /\ f.x = y /\ f.x2 = q
  BY <1>3 DEF SumsOK
<1> QED BY <1>1, <1>2, <1>3, <1>4 DEF SumsOK

-----------------------------------------------------------------------------
(* Cells written through a view *)

\* The fields of the three records.
LEMMA FieldNames ==
  /\ DOMAIN Fields = {"WeightedSum", "WeightedMean", "Mean"}
  /\ Fields["WeightedSum"] = <<"value", "variance">>
  /\ Fields["WeightedMean"] = <<"sum", "sum2", "value", "deltas">>
  /\ Fields["Mean"] = <<"count", "value", "deltas">>
  /\ Fields["WeightedSum"] # <<>> /\ Fields["WeightedMean"] # <<>> /\ Fields["Mean"] # <<>>
  /\ ToSet(Fields["WeightedSum"]) = {"value", "variance"}
  /\ ToSet(Fields["WeightedMean"]) = {"sum", "sum2", "value", "deltas"}
  /\ ToSet(Fields["Mean"]) = {"count", "value", "deltas"}
<1>1. /\ DOMAIN Fields = {"WeightedSum", "WeightedMean", "Mean"}
      /\ Fields["WeightedSum"] = <<"value", "variance">>
      /\ Fields["WeightedMean"] = <<"sum", "sum2", "value", "deltas">>
      /\ Fields["Mean"] = <<"count", "value", "deltas">>
  BY DEF Fields
<1>2. /\ <<"value", "variance">> # <<>>
      /\ <<"sum", "sum2", "value", "deltas">> # <<>>
      /\ <<"count", "value", "deltas">> # <<>>
  OBVIOUS
<1>3. /\ ToSet(<<"value", "variance">>) = {"value", "variance"}
      /\ ToSet(<<"sum", "sum2", "value", "deltas">>) = {"sum", "sum2", "value", "deltas"}
      /\ ToSet(<<"count", "value", "deltas">>) = {"count", "value", "deltas"}
  BY DEF ToSet
<1> QED BY <1>1, <1>2, <1>3

\* The fields tell the accumulator.
LEMMA ViewOfFields ==
  ASSUME NEW parent \in {"WeightedSum", "WeightedMean", "Mean"}
  PROVE  ToView(Fields[parent]) = parent
<1>1. /\ Len(Fields["WeightedSum"]) = 2
      /\ Len(Fields["WeightedMean"]) = 4
      /\ Len(Fields["Mean"]) = 3
  BY FieldNames
<1>2. \A p \in DOMAIN Fields : Fields[p] = Fields[parent] => p = parent
  BY <1>1, FieldNames
<1> QED BY <1>2, FieldNames DEF ToView

\* Taking the fields of a record one by one gives the record.
LEMMA MakeFields ==
  ASSUME NEW parent \in {"WeightedSum", "WeightedMean", "Mean"}, NEW r
  PROVE  Make(parent, [k \in DOMAIN Fields[parent] |-> r[Fields[parent][k]]])
           = [f \in ToSet(Fields[parent]) |-> r[f]]
<1> DEFINE names == Fields[parent]
           a == [k \in DOMAIN names |-> r[names[k]]]
           place(f) == CHOOSE k \in DOMAIN names : names[k] = f
<1>1. ASSUME NEW f \in ToSet(names)
      PROVE  a[place(f)] = r[f]
  <2>1. \E k \in DOMAIN names : names[k] = f
    BY DEF ToSet
  <2>2. PICK k : k = place(f)
    OBVIOUS
  <2>3. k \in DOMAIN names /\ names[k] = f
    BY <2>1, <2>2
  <2> QED BY <2>2, <2>3
<1>2. Make(parent, a) = [f \in ToSet(names) |-> a[place(f)]]
  BY DEF Make
<1> HIDE DEF a, names, place
<1>3. [f \in ToSet(names) |-> a[place(f)]] = [f \in ToSet(names) |-> r[f]]
  BY <1>1
<1> QED BY <1>2, <1>3 DEF names, a

\* A record and a field-by-field assignment write the cell r.
LEMMA WrittenFields ==
  ASSUME NEW parent \in {"WeightedSum", "WeightedMean", "Mean"},
         NEW m, NEW r, DOMAIN m = ToSet(Fields[parent]),
         r = [f \in ToSet(Fields[parent]) |-> r[f]]
  PROVE  /\ SetItem(parent, Record(parent, r)) = {r}
         /\ SetFields(parent, m, r) = r
<1>1. SetFields(parent, m, r) = r
  <2>1. SetFields(parent, m, r) = [f \in ToSet(Fields[parent]) |-> r[f]]
    BY DEF SetFields
  <2> QED BY <2>1
<1>2. Record(parent, r).dtype = Fields[parent] /\ Fields[parent] # <<>>
  BY FieldNames DEF Record
<1>3. GetItem(Record(parent, r)) = r
  <2>1. Record(parent, r).last = [k \in DOMAIN Fields[parent] |-> r[Fields[parent][k]]]
    BY DEF Record
  <2>2. GetItem(Record(parent, r)) = Make(parent, Record(parent, r).last)
    BY <1>2, ViewOfFields DEF GetItem
  <2> QED BY <2>1, <2>2, MakeFields
<1> QED BY <1>1, <1>2, <1>3 DEF SetItem

\* What a variance is divided by gives the deviations back.
LEMMA VarianceBack ==
  ASSUME NEW a \in Int, NEW b \in Int \ {0}, NEW c \in Int, NEW d \in Int \ {0},
         Over(Ratio(a, b), Ratio(c, d)) # NaN
  PROVE  Times(Over(Ratio(a, b), Ratio(c, d)), Ratio(c, d)) = Ratio(a, b)
<1>1. c # 0
  BY OverRatio
<1>2. PICK n \in Int, m \in Int \ {0} : n = a * d /\ m = b * c
  BY <1>1, OverRatio
<1>3. Over(Ratio(a, b), Ratio(c, d)) = Ratio(n, m)
  BY <1>1, <1>2, OverRatio
<1>4. ((a * d) * c) * b = a * ((b * c) * d)
  OBVIOUS
<1>5. (n * c) * b = a * (m * d)
  BY <1>2, <1>4
<1> QED BY <1>3, <1>5, TimesIs

\* All ways to write a cell write r, if constructing it from numbers does.
LEMMA WrittenIs ==
  ASSUME NEW parent \in {"WeightedSum", "WeightedMean", "Mean"},
         NEW m, NEW r, DOMAIN m = ToSet(Fields[parent]),
         r = [f \in ToSet(Fields[parent]) |-> r[f]],
         NEW reports, NaN \notin ToSet(reports) => SetItem(parent, Numbers(reports)) = {r},
         NEW y \in Written(parent, m, r, reports)
  PROVE  y = r
<1>1. SetItem(parent, Record(parent, r)) = {r} /\ SetFields(parent, m, r) = r
  BY WrittenFields
<1>2. CASE NaN \in ToSet(reports)
  BY <1>1, <1>2 DEF Written
<1>3. CASE NaN \notin ToSet(reports)
  BY <1>1, <1>3 DEF Written
<1> QED BY <1>2, <1>3

\* Numbers assigned to a cell go to the constructor of its accumulator.
LEMMA MeanAssigned ==
  ASSUME NEW a, NEW b, NEW c
  PROVE  SetItem("Mean", Numbers(<<a, b, c>>)) = {NewMean(a, b, c)}
<1>1. Len(<<a, b, c>>) = Len(Fields["Mean"])
  BY FieldNames
<1>2. ArrayOf("Mean", <<a, b, c>>) = NewMean(a, b, c)
  BY DEF ArrayOf
<1>3. Numbers(<<a, b, c>>).dtype = <<>> /\ Numbers(<<a, b, c>>).last = <<a, b, c>>
  BY DEF Numbers
<1> QED BY <1>1, <1>2, <1>3 DEF SetItem

LEMMA WMeanAssigned ==
  ASSUME NEW a, NEW b, NEW c, NEW d
  PROVE  SetItem("WeightedMean", Numbers(<<a, b, c, d>>)) = {NewWMean(a, b, c, d)}
<1>1. Len(<<a, b, c, d>>) = Len(Fields["WeightedMean"])
  BY FieldNames
<1>2. ArrayOf("WeightedMean", <<a, b, c, d>>) = NewWMean(a, b, c, d)
  BY DEF ArrayOf
<1>3. Numbers(<<a, b, c, d>>).dtype = <<>> /\ Numbers(<<a, b, c, d>>).last = <<a, b, c, d>>
  BY DEF Numbers
<1> QED BY <1>1, <1>2, <1>3 DEF SetItem

LEMMA WSumAssigned ==
  ASSUME NEW a, NEW b
  PROVE  SetItem("WeightedSum", Numbers(<<a, b>>)) = {Make("WeightedSum", <<a, b>>)}
<1>1. Len(<<a, b>>) = Len(Fields["WeightedSum"])
  BY FieldNames
<1>2. ArrayOf("WeightedSum", <<a, b>>) = Make("WeightedSum", <<a, b>>)
  BY DEF ArrayOf
<1>3. Numbers(<<a, b>>).dtype = <<>> /\ Numbers(<<a, b>>).last = <<a, b>>
  BY DEF Numbers
<1> QED BY <1>1, <1>2, <1>3 DEF SetItem

LEMMA MadeSum ==
  ASSUME NEW a, NEW b
  PROVE  Make("WeightedSum", <<a, b>>) = [value |-> a, variance |-> b]
<1> DEFINE r == [value |-> a, variance |-> b]
<1>1. <<a, b>> = [k \in DOMAIN Fields["WeightedSum"] |-> r[Fields["WeightedSum"][k]]]
  BY FieldNames
<1>2. r = [f \in {"value", "variance"} |-> r[f]]
  OBVIOUS
<1> HIDE DEF r
<1>3. Make("WeightedSum", <<a, b>>) = [f \in ToSet(Fields["WeightedSum"]) |-> r[f]]
  BY <1>1, MakeFields
<1> QED BY <1>2, <1>3, FieldNames DEF r

\* Deviations are fractions.
LEMMA DeltasAreRatios ==
  ASSUME NEW w \in Nat, NEW x \in Int, NEW q \in Int
  PROVE  \E a \in Int, b \in Int \ {0} : DeltasOf(w, x, q) = Ratio(a, b)
<1>1. q * w - x * x \in Int
  OBVIOUS
<1>2. 0 \in Int /\ 1 \in Int \ {0}
  OBVIOUS
<1>3. CASE w = 0
  BY <1>2, <1>3, ZeroRatio DEF DeltasOf
<1>4. CASE w # 0
  <2>1. w \in Int \ {0}
    BY <1>4
  <2> QED BY <1>1, <1>4, <2>1 DEF DeltasOf
<1> QED BY <1>3, <1>4

\* The constructor that takes a variance gives back the mean that reports it.
LEMMA MeanFromNumbers ==
  ASSUME NEW e, SumsOK(e), NEW r, r = MeanOfSums(e), MeanVariance(r) # NaN
  PROVE  NewMean(r.count, r.value, MeanVariance(r)) = r
<1>1. PICK w \in Nat, x \in Int, q \in Int : w = e.w /\ x = e.x /\ q = e.x2
  BY DEF SumsOK
<1>2. r = [count |-> Whole(w), value |-> ValueOf(w, x), deltas |-> DeltasOf(w, x, q)]
  BY <1>1 DEF MeanOfSums
<1>3. PICK a \in Int, b \in Int \ {0} : DeltasOf(w, x, q) = Ratio(a, b)
  BY DeltasAreRatios
<1>4. PICK v \in Int : v = w - 1
  OBVIOUS
<1>5. Minus(Whole(w), Whole(1)) = Ratio(v, 1)
  BY <1>4, WholeArithmetic, WholeRatio
<1>6. 1 \in Int \ {0}
  OBVIOUS
<1>7. MeanVariance(r) = Over(Ratio(a, b), Ratio(v, 1))
  BY <1>2, <1>3, <1>5 DEF MeanVariance
<1>8. Times(MeanVariance(r), Minus(Whole(w), Whole(1))) = Ratio(a, b)
  BY <1>5, <1>6, <1>7, VarianceBack
<1> QED BY <1>2, <1>3, <1>8 DEF NewMean

\* The divisor of the variance of a weighted mean.
LEMMA EffectiveIs ==
  ASSUME NEW w \in Nat, NEW w2 \in Nat, NEW m, m.sum = Whole(w), m.sum2 = Whole(w2)
  PROVE  /\ w = 0 => Effective(m) = NaN
         /\ w # 0 => /\ w * w - w2 \in Int
                     /\ Effective(m) = Ratio(w * w - w2, w)
<1>0. 1 \in Int \ {0} /\ w \in Int /\ w2 \in Int
      /\ Whole(w) = Ratio(w, 1) /\ Whole(w2) = Ratio(w2, 1)
  BY WholeRatio
<1>1. CASE w = 0
  <2>1. Over(m.sum2, m.sum) = NaN
    BY <1>0, <1>1, OverRatio
  <2>2. Whole(w) = <<w, 1>> /\ NaN = <<0, 0>>
    BY DEF Whole, NaN
  <2>3. Minus(Whole(w), NaN) = Ratio(w * 0 - 0 * 1, 1 * 0)
    BY <2>2 DEF Minus
  <2>4. Minus(Whole(w), NaN) = NaN
    BY <2>3 DEF Ratio
  <2> QED BY <1>1, <2>1, <2>4 DEF Effective
<1>2. CASE w # 0
  <2>0. w \in Int \ {0}
    BY <1>2
  <2>1. Over(Ratio(w2, 1), Ratio(w, 1)) = Ratio(w2, w)
    <3>1. (w2 * 1) * w = w2 * (1 * w)
      OBVIOUS
    <3> QED BY <1>0, <2>0, <3>1, OverIs
  <2>2. PICK f \in Int : f = w * w - w2
    <3>1. w * w - w2 \in Int
      OBVIOUS
    <3> QED BY <3>1
  <2>3. Minus(Ratio(w, 1), Ratio(w2, w)) = Ratio(f, w)
    <3>1. (w * w - w2 * 1) * w = f * (1 * w)
      BY <2>2
    <3> QED BY <1>0, <2>0, <3>1, MinusIs
  <2> QED BY <1>0, <1>2, <2>1, <2>2, <2>3 DEF Effective
<1> QED BY <1>1, <1>2

\* The same for a weighted mean.
LEMMA WMeanFromNumbers ==
  ASSUME NEW e, SumsOK(e), NEW r, r = WMeanOfSums(e), WMeanVariance(r) # NaN
  PROVE  NewWMean(r.sum, r.sum2, r.value, WMeanVariance(r)) = r
<1>1. PICK w \in Nat, w2 \in Nat, x \in Int, q \in Int :
        w = e.w /\ w2 = e.w2 /\ x = e.x /\ q = e.x2
  BY DEF SumsOK
<1>2. r = [sum |-> Whole(w), sum2 |-> Whole(w2), value |-> ValueOf(w, x),
           deltas |-> DeltasOf(w, x, q)]
  BY <1>1 DEF WMeanOfSums
<1>3. PICK a \in Int, b \in Int \ {0} : DeltasOf(w, x, q) = Ratio(a, b)
  BY DeltasAreRatios
<1>4. r.sum = Whole(w) /\ r.sum2 = Whole(w2) /\ r.deltas = Ratio(a, b)
  BY <1>2, <1>3
<1>5. WMeanVariance(r) = Over(Ratio(a, b), Effective(r))
  BY <1>4 DEF WMeanVariance
<1>6. w # 0
  <2>1. SUFFICES ASSUME w = 0 PROVE FALSE
    OBVIOUS
  <2>2. Effective(r) = NaN
    BY <1>4, <2>1, EffectiveIs
  <2> QED BY <1>5, <2>2 DEF Over
<1>7. PICK f \in Int, g \in Int \ {0} : Effective(r) = Ratio(f, g)
  <2>1. w \in Int \ {0}
    BY <1>6
  <2> QED BY <1>4, <1>6, <2>1, EffectiveIs
<1>8. Times(WMeanVariance(r), Effective(r)) = Ratio(a, b)
  BY <1>5, <1>7, VarianceBack
<1>9. Minus(r.sum, Over(r.sum2, r.sum)) = Effective(r)
  BY DEF Effective
<1>10. NewWMean(r.sum, r.sum2, r.value, WMeanVariance(r))
         = [sum |-> r.sum, sum2 |-> r.sum2, value |-> r.value, deltas |-> Ratio(a, b)]
  BY <1>8, <1>9 DEF NewWMean
<1> QED BY <1>2, <1>3, <1>10

\* A cell written over with a mean, in any of the ways, is that mean.
LEMMA WrittenMean ==
  ASSUME NEW e, SumsOK(e), NEW m, DOMAIN m = {"count", "value", "deltas"},
         NEW y \in Written("Mean", m, MeanOfSums(e),
                           <<MeanOfSums(e).count, MeanOfSums(e).value,
                             MeanVariance(MeanOfSums(e))>>)
  PROVE  y = MeanOfSums(e)
<1>1. PICK r : r = MeanOfSums(e)
  OBVIOUS
<1>2. PICK reports : reports = <<r.count, r.value, MeanVariance(r)>>
  OBVIOUS
<1>3. r = [f \in ToSet(Fields["Mean"]) |-> r[f]]
  <2>1. r = [f \in {"count", "value", "deltas"} |-> r[f]]
    BY <1>1 DEF MeanOfSums
  <2> QED BY <2>1, FieldNames
<1>4. NaN \notin ToSet(reports) => SetItem("Mean", Numbers(reports)) = {r}
  <2>1. MeanVariance(r) \in ToSet(reports)
    BY <1>2 DEF ToSet
  <2>2. SUFFICES ASSUME MeanVariance(r) # NaN
                 PROVE  SetItem("Mean", Numbers(reports)) = {r}
    BY <2>1
  <2>3. NewMean(r.count, r.value, MeanVariance(r)) = r
    BY <1>1, <2>2, MeanFromNumbers
  <2> QED BY <1>2, <2>3, MeanAssigned
<1>5. y \in Written("Mean", m, r, reports)
  BY <1>1, <1>2
<1>6. DOMAIN m = ToSet(Fields["Mean"]) /\ "Mean" \in {"WeightedSum", "WeightedMean", "Mean"}
  BY FieldNames
<1> QED BY <1>1, <1>3, <1>4, <1>5, <1>6, WrittenIs

LEMMA WrittenWMean ==
  ASSUME NEW e, SumsOK(e), NEW m, DOMAIN m = {"sum", "sum2", "value", "deltas"},
         NEW y \in Written("WeightedMean", m, WMeanOfSums(e),
                           <<WMeanOfSums(e).sum, WMeanOfSums(e).sum2, WMeanOfSums(e).value,
                             WMeanVariance(WMeanOfSums(e))>>)
  PROVE  y = WMeanOfSums(e)
<1>1. PICK r : r = WMeanOfSums(e)
  OBVIOUS
<1>2. PICK reports : reports = <<r.sum, r.sum2, r.value, WMeanVariance(r)>>
  OBVIOUS
<1>3. r = [f \in ToSet(Fields["WeightedMean"]) |-> r[f]]
  <2>1. r = [f \in {"sum", "sum2", "value", "deltas"} |-> r[f]]
    BY <1>1 DEF WMeanOfSums
  <2> QED BY <2>1, FieldNames
<1>4. NaN \notin ToSet(reports) => SetItem("WeightedMean", Numbers(reports)) = {r}
  <2>1. WMeanVariance(r) \in ToSet(reports)
    BY <1>2 DEF ToSet
  <2>2. SUFFICES ASSUME WMeanVariance(r) # NaN
                 PROVE  SetItem("WeightedMean", Numbers(reports)) = {r}
    BY <2>1
  <2>3. NewWMean(r.sum, r.sum2, r.value, WMeanVariance(r)) = r
    BY <1>1, <2>2, WMeanFromNumbers
  <2> QED BY <1>2, <2>3, WMeanAssigned
<1>5. y \in Written("WeightedMean", m, r, reports)
  BY <1>1, <1>2
<1>6. /\ DOMAIN m = ToSet(Fields["WeightedMean"])
      /\ "WeightedMean" \in {"WeightedSum", "WeightedMean", "Mean"}
  BY FieldNames
<1> QED BY <1>1, <1>3, <1>4, <1>5, <1>6, WrittenIs

LEMMA WrittenWSum ==
  ASSUME NEW m, DOMAIN m = {"value", "variance"}, NEW a, NEW b,
         NEW y \in Written("WeightedSum", m, [value |-> a, variance |-> b], <<a, b>>)
  PROVE  y = [value |-> a, variance |-> b]
<1>1. PICK r : r = [value |-> a, variance |-> b]
  OBVIOUS
<1>2. PICK reports : reports = <<a, b>>
  OBVIOUS
<1>3. r = [f \in ToSet(Fields["WeightedSum"]) |-> r[f]]
  <2>1. r = [f \in {"value", "variance"} |-> r[f]]
    BY <1>1
  <2> QED BY <2>1, FieldNames
<1>4. SetItem("WeightedSum", Numbers(reports)) = {r}
  BY <1>1, <1>2, WSumAssigned, MadeSum
<1>5. y \in Written("WeightedSum", m, r, reports)
  BY <1>1, <1>2
<1>6. /\ DOMAIN m = ToSet(Fields["WeightedSum"])
      /\ "WeightedSum" \in {"WeightedSum", "WeightedMean", "Mean"}
  BY FieldNames
<1> QED BY <1>1, <1>3, <1>4, <1>5, <1>6, WrittenIs

-----------------------------------------------------------------------------
(* Fractions *)

Fractions == {p \in Int \X Int : \E n \in Int, d \in Int \ {0} : p = Ratio(n, d)}

LEMMA FractionIs ==
  ASSUME NEW p
  PROVE  p \in Fractions <=> \E n \in Int, d \in Int \ {0} : p = Ratio(n, d)
<1>1. ASSUME NEW n \in Int, NEW d \in Int \ {0} PROVE Ratio(n, d) \in Int \X Int
  BY RatioParts
<1> QED BY <1>1 DEF Fractions

\* Sums, differences and products of fractions are fractions.
LEMMA FractionsClosed ==
  ASSUME NEW p \in Fractions, NEW q \in Fractions
  PROVE  Plus(p, q) \in Fractions /\ Minus(p, q) \in Fractions /\ Times(p, q) \in Fractions
<1>1. PICK a \in Int, b \in Int \ {0} : p = Ratio(a, b)
  BY FractionIs
<1>2. PICK c \in Int, d \in Int \ {0} : q = Ratio(c, d)
  BY FractionIs
<1>3. Plus(p, q) \in Fractions
  BY <1>1, <1>2, PlusRatio, FractionIs
<1>4. Times(p, q) \in Fractions
  BY <1>1, <1>2, TimesRatio, FractionIs
<1>5. Minus(p, q) \in Fractions
  BY <1>1, <1>2, MinusRatio, FractionIs
<1> QED BY <1>3, <1>4, <1>5

LEMMA WholeFraction ==
  ASSUME NEW n \in Int
  PROVE  Whole(n) \in Fractions
<1>1. 1 \in Int \ {0}
  OBVIOUS
<1> QED BY <1>1, WholeRatio, FractionIs

\* A difference is the sum with the opposite, whose square is the same.
LEMMA OppositePlus ==
  ASSUME NEW p \in Fractions, NEW w \in Int
  PROVE  /\ Minus(p, Whole(-w)) = Plus(p, Whole(w))
         /\ Square(Whole(-w)) = Whole(w * w) /\ Square(Whole(w)) = Whole(w * w)
<1>1. PICK a \in Int, b \in Int \ {0} : p = Ratio(a, b)
  BY FractionIs
<1>2. PICK u \in Int, v \in Int : u = -w /\ v = w * w
  OBVIOUS
<1>0. /\ 1 \in Int \ {0}
      /\ Whole(w) = Ratio(w, 1) /\ Whole(u) = Ratio(u, 1) /\ Whole(v) = Ratio(v, 1)
  BY WholeRatio
<1>3. PICK n \in Int, m \in Int \ {0} : n = a * 1 + w * b /\ m = b * 1
  OBVIOUS
<1>4. Plus(p, Whole(w)) = Ratio(n, m)
  BY <1>0, <1>1, <1>3, PlusRatio
<1>5. Minus(p, Whole(u)) = Ratio(n, m)
  <2>1. a * 1 - (-w) * b = a * 1 + w * b
    OBVIOUS
  <2>2. (a * 1 - u * b) * m = n * (b * 1)
    BY <1>2, <1>3, <2>1
  <2> QED BY <1>0, <1>1, <1>3, <2>2, MinusIs
<1>6. Square(Whole(u)) = Whole(v) /\ Square(Whole(w)) = Whole(v)
  <2>1. (-w) * (-w) = w * w
    OBVIOUS
  <2>2. (u * u) * 1 = v * (1 * 1) /\ (w * w) * 1 = v * (1 * 1)
    BY <1>2, <2>1
  <2>3. Times(Ratio(u, 1), Ratio(u, 1)) = Ratio(v, 1)
    BY <1>0, <2>2, TimesIs
  <2>4. Times(Ratio(w, 1), Ratio(w, 1)) = Ratio(v, 1)
    BY <1>0, <2>2, TimesIs
  <2> QED BY <1>0, <2>3, <2>4 DEF Square
<1> QED BY <1>2, <1>4, <1>5, <1>6

\* Dividing by the inverse is multiplying.
LEMMA OverInverse ==
  ASSUME NEW p \in Fractions, NEW c \in Int \ {0}, NEW d \in Int \ {0}
  PROVE  /\ Over(p, Over(Whole(1), Ratio(c, d))) = Times(p, Ratio(c, d))
         /\ Over(p, Square(Over(Whole(1), Ratio(c, d)))) = Times(p, Square(Ratio(c, d)))
<1>1. PICK a \in Int, b \in Int \ {0} : p = Ratio(a, b)
  BY FractionIs
<1>2. PICK cc \in Int \ {0}, dd \in Int \ {0} : cc = c * c /\ dd = d * d
  <2>1. c * c \in Int \ {0} /\ d * d \in Int \ {0}
    OBVIOUS
  <2> QED BY <2>1
<1>0. 1 \in Int \ {0} /\ Whole(1) = Ratio(1, 1) /\ c \in Int /\ d \in Int /\ cc \in Int
      /\ dd \in Int
  BY WholeRatio
<1>3. Over(Whole(1), Ratio(c, d)) = Ratio(d, c)
  <2>1. (1 * d) * c = d * (1 * c)
    OBVIOUS
  <2> QED BY <1>0, <2>1, OverIs
<1>4. Square(Ratio(d, c)) = Ratio(dd, cc) /\ Square(Ratio(c, d)) = Ratio(cc, dd)
  <2>1. (d * d) * cc = dd * (c * c) /\ (c * c) * dd = cc * (d * d)
    BY <1>2
  <2>2. Times(Ratio(d, c), Ratio(d, c)) = Ratio(dd, cc)
    BY <1>0, <2>1, TimesIs
  <2>3. Times(Ratio(c, d), Ratio(c, d)) = Ratio(cc, dd)
    BY <1>0, <2>1, TimesIs
  <2> QED BY <2>2, <2>3 DEF Square
<1>5. ASSUME NEW n \in Int \ {0}, NEW m \in Int \ {0}
      PROVE  Over(p, Ratio(m, n)) = Times(p, Ratio(n, m))
  <2>1. PICK x \in Int, y \in Int \ {0} : x = a * n /\ y = b * m
    <3>1. a * n \in Int /\ b * m \in Int \ {0}
      OBVIOUS
    <3> QED BY <3>1
  <2>2. n \in Int /\ m \in Int
    OBVIOUS
  <2>3. Times(Ratio(a, b), Ratio(n, m)) = Ratio(x, y)
    BY <2>1, <2>2, TimesRatio
  <2>4. Over(Ratio(a, b), Ratio(m, n)) = Ratio(x, y)
    BY <2>1, <2>2, OverRatio
  <2> QED BY <1>1, <2>3, <2>4
<1>6. Over(p, Ratio(d, c)) = Times(p, Ratio(c, d))
  BY <1>5
<1>7. Over(p, Ratio(dd, cc)) = Times(p, Ratio(cc, dd))
  BY <1>5
<1> QED BY <1>3, <1>4, <1>6, <1>7

\* Multiplying by -1 changes the sign, and its square changes nothing.
LEMMA TimesMinusOne ==
  ASSUME NEW p \in Fractions
  PROVE  /\ Times(p, Whole(-1)) = Minus(Zero, p)
         /\ Times(p, Square(Whole(-1))) = p
<1>1. PICK a \in Int, b \in Int \ {0} : p = Ratio(a, b)
  BY FractionIs
<1>2. PICK u \in Int, n \in Int : u = -1 /\ n = -a
  OBVIOUS
<1>0. /\ 1 \in Int \ {0} /\ 0 \in Int /\ 1 \in Int
      /\ Whole(u) = Ratio(u, 1) /\ Whole(1) = Ratio(1, 1) /\ Zero = Ratio(0, 1)
  BY WholeRatio, ZeroRatio
<1>3. Times(Ratio(a, b), Ratio(u, 1)) = Ratio(n, b)
  <2>1. (a * (-1)) * b = (-a) * (b * 1)
    OBVIOUS
  <2>2. (a * u) * b = n * (b * 1)
    BY <1>2, <2>1
  <2> QED BY <1>0, <2>2, TimesIs
<1>4. Minus(Ratio(0, 1), Ratio(a, b)) = Ratio(n, b)
  <2>1. (0 * b - a * 1) * b = (-a) * (1 * b)
    OBVIOUS
  <2>2. (0 * b - a * 1) * b = n * (1 * b)
    BY <1>2, <2>1
  <2> QED BY <1>0, <2>2, MinusIs
<1>5. Square(Whole(u)) = Ratio(1, 1)
  <2>1. (-1) * (-1) * 1 = 1 * (1 * 1)
    OBVIOUS
  <2>2. (u * u) * 1 = 1 * (1 * 1)
    BY <1>2, <2>1
  <2> QED BY <1>0, <2>2, TimesIs DEF Square
<1>6. Times(Ratio(a, b), Ratio(1, 1)) = Ratio(a, b)
  <2>1. (a * 1) * b = a * (b * 1)
    OBVIOUS
  <2> QED BY <1>0, <2>1, TimesIs
<1> QED BY <1>0, <1>1, <1>2, <1>3, <1>4, <1>5, <1>6

Added == [p \in Fractions \X Fractions |-> Plus(p[1], p[2])]

\* The sum of finitely many fractions is the fold with Plus, and is a fraction.
LEMMA TotalFraction ==
  ASSUME NEW s, IsFiniteSet(s), NEW f, f = [x \in s |-> f[x]], \A x \in s : f[x] \in Fractions
  PROVE  Total(f) \in Fractions
<1>1. Added \in [Fractions \X Fractions -> Fractions] /\ Zero \in Fractions
  <2>1. \A p \in Fractions \X Fractions : Plus(p[1], p[2]) \in Fractions
    BY FractionsClosed
  <2>2. Zero \in Fractions
    BY WholeFraction DEF Zero
  <2> HIDE DEF Fractions
  <2> QED BY <2>1, <2>2 DEF Added
<1>2. PICK it \in [SUBSET s -> Fractions] : Folds(it, s, Added, Zero, f)
  <2> DEFINE V == Fractions
             op == Added
             b == Zero
  <2>1. op \in [V \X V -> V] /\ b \in V /\ \A x \in s : f[x] \in V
    BY <1>1
  <2> HIDE DEF V, op, b
  <2>2. \E it \in [SUBSET s -> V] : Folds(it, s, op, b, f)
    BY <2>1, FoldExists
  <2> QED BY <2>2 DEF V, op, b
<1> DEFINE R(g) == g = [t \in SUBSET s |-> IF t = {} THEN Zero
                    ELSE LET x == CHOOSE x \in t : TRUE IN Plus(f[x], g[t \ {x}])]
           iter == CHOOSE g : R(g)
<1>3. R(it)
  <2> SUFFICES ASSUME NEW t \in SUBSET s
      PROVE it[t] = IF t = {} THEN Zero
                    ELSE LET x == CHOOSE x \in t : TRUE IN Plus(f[x], it[t \ {x}])
    BY <1>2
  <2>1. CASE t = {}
    BY <1>2, <2>1 DEF Folds
  <2>2. CASE t # {}
    <3>1. Chosen(t) \in t
      BY <2>2 DEF Chosen
    <3>2. it[t] = Added[<<f[Chosen(t)], it[t \ {Chosen(t)}]>>]
      BY <1>2, <2>2 DEF Folds
    <3>3. f[Chosen(t)] \in Fractions /\ it[t \ {Chosen(t)}] \in Fractions
      BY <1>2, <3>1
    <3>4. it[t] = Plus(f[Chosen(t)], it[t \ {Chosen(t)}])
      BY <3>2, <3>3 DEF Added
    <3> QED BY <2>2, <3>4 DEF Chosen
  <2> QED BY <2>1, <2>2
<1>4. R(iter)
  <2> HIDE DEF R
  <2> QED BY <1>3
<1>5. Total(f) = iter[s]
  BY DEF Total, FoldFunction, FoldFunctionOnSet, MapThenFoldSet
<1>6. ASSUME NEW g, R(g) PROVE g[s] = it[s]
  <2> DEFINE B == {t \in SUBSET s : g[t] # it[t]}
  <2> SUFFICES ASSUME B # {} PROVE FALSE
    OBVIOUS
  <2>1. PICK t \in B : \A u \in B : u \subseteq t => u = t
    <3> HIDE DEF B
    <3>1. B \in SUBSET (SUBSET s)
      BY DEF B
    <3> QED BY <3>1, SmallestSet
  <2>2. \A u \in SUBSET s :
          /\ g[u] = IF u = {} THEN Zero ELSE Plus(f[Chosen(u)], g[u \ {Chosen(u)}])
          /\ it[u] = IF u = {} THEN Zero ELSE Plus(f[Chosen(u)], it[u \ {Chosen(u)}])
    BY <1>3, <1>6 DEF Chosen
  <2>3. t # {}
    BY <2>2
  <2>4. Chosen(t) \in t
    BY <2>3 DEF Chosen
  <2>5. g[t \ {Chosen(t)}] = it[t \ {Chosen(t)}]
    BY <2>1, <2>4
  <2> HIDE DEF R
  <2> QED BY <2>2, <2>3, <2>5
<1> HIDE DEF R
<1> QED BY <1>2, <1>4, <1>5, <1>6

-----------------------------------------------------------------------------
(* The invariant *)

MeansInv ==
  /\ drawn = [i \in Cells |-> drawn[i]]
  /\ \A i \in Cells : SumsOK(drawn[i])
  /\ mean = [i \in Cells |-> MeanOfSums(drawn[i])]
  /\ wmean = [i \in Cells |-> WMeanOfSums(drawn[i])]

Entries == [w : Fractions, w2 : Fractions]
SumOfEntries(e) == [value |-> e.w, variance |-> e.w2]

SumsInv ==
  /\ weighed \in [Cells -> Entries]
  /\ wsum = [i \in Cells |-> SumOfEntries(weighed[i])]

AccumulatorsInv == MeansInv /\ SumsInv

\* An operation that keeps one accumulator of each kind in step with its sums
\* keeps all of them.
LEMMA MeanChanged ==
  ASSUME MeansInv, NEW i \in Cells, NEW d, SumsOK(d),
         drawn' = [drawn EXCEPT ![i] = d],
         mean' = [mean EXCEPT ![i] = MeanOfSums(d)],
         wmean' = [wmean EXCEPT ![i] = WMeanOfSums(d)]
  PROVE  MeansInv'
<1>1. /\ drawn = [k \in Cells |-> drawn[k]]
      /\ \A k \in Cells : SumsOK(drawn[k])
      /\ mean = [k \in Cells |-> MeanOfSums(drawn[k])]
      /\ wmean = [k \in Cells |-> WMeanOfSums(drawn[k])]
  BY DEF MeansInv
<1>2. drawn' = [k \in Cells |-> IF k = i THEN d ELSE drawn[k]]
  BY <1>1
<1>3. mean' = [k \in Cells |-> IF k = i THEN MeanOfSums(d) ELSE MeanOfSums(drawn[k])]
  BY <1>1
<1>4. wmean' = [k \in Cells |-> IF k = i THEN WMeanOfSums(d) ELSE WMeanOfSums(drawn[k])]
  BY <1>1
<1>5. \A k \in Cells : drawn'[k] = IF k = i THEN d ELSE drawn[k]
  BY <1>2
<1>6. drawn' = [k \in Cells |-> drawn'[k]]
  BY <1>2
<1>7. mean' = [k \in Cells |-> MeanOfSums(drawn'[k])]
  BY <1>3, <1>5
<1>8. wmean' = [k \in Cells |-> WMeanOfSums(drawn'[k])]
  BY <1>4, <1>5
<1>9. \A k \in Cells : SumsOK(drawn'[k])
  BY <1>1, <1>5
<1> QED BY <1>6, <1>7, <1>8, <1>9 DEF MeansInv, SumsOK, MeanOfSums, WMeanOfSums

LEMMA MeansInit == Init => MeansInv
<1> SUFFICES ASSUME Init PROVE MeansInv
  OBVIOUS
<1> DEFINE d == [n |-> 0, w |-> 0, w2 |-> 0, x |-> 0, x2 |-> 0]
<1>1. SumsOK(d)
  BY DEF SumsOK
<1>2. MeanOfSums(d) = EmptyMean /\ WMeanOfSums(d) = EmptyWMean
  BY DEF MeanOfSums, WMeanOfSums, EmptyMean, EmptyWMean, ValueOf, DeltasOf, Zero
<1> HIDE DEF d
<1>3. /\ drawn = [i \in Cells |-> d]
      /\ mean = [i \in Cells |-> EmptyMean] /\ wmean = [i \in Cells |-> EmptyWMean]
  BY DEF Init, d
<1> QED BY <1>1, <1>2, <1>3 DEF MeansInv

\* Each operation on means.
LEMMA MeansFill ==
  ASSUME NumbersAssumption, MeansInv,
         NEW i \in Cells, NEW w \in Weights, NEW x \in Values, Fill(i, w, x)
  PROVE  MeansInv'
<1>1. w \in Nat \ {0} /\ x \in Int /\ SumsOK(drawn[i])
  BY DEF NumbersAssumption, MeansInv
<1>2. PICK d : d = OneMoreSum(drawn[i], w, x)
  OBVIOUS
<1>3. mean[i] = MeanOfSums(drawn[i]) /\ wmean[i] = WMeanOfSums(drawn[i])
  BY DEF MeansInv
<1>4. /\ FillMean(mean[i], Whole(w), Whole(x)) = MeanOfSums(d)
      /\ FillWMean(wmean[i], Whole(w), Whole(x)) = WMeanOfSums(d)
  BY <1>1, <1>2, <1>3, FillMeanSums
<1>5. SumsOK(d)
  BY <1>1, <1>2, OneMoreSumOK
<1>6. drawn' = [drawn EXCEPT ![i] = d]
  BY <1>2 DEF Fill, OneMoreSum
<1>7. /\ mean' = [mean EXCEPT ![i] = MeanOfSums(d)]
      /\ wmean' = [wmean EXCEPT ![i] = WMeanOfSums(d)]
  BY <1>4 DEF Fill
<1> QED BY <1>5, <1>6, <1>7, MeanChanged

LEMMA MeansMerge ==
  ASSUME MeansInv, NEW i \in Cells, NEW j \in Cells, Merge(i, j)
  PROVE  MeansInv'
<1>1. SumsOK(drawn[i]) /\ SumsOK(drawn[j])
  BY DEF MeansInv
<1>2. PICK d : d = BothSums(drawn[i], drawn[j])
  OBVIOUS
<1>3. /\ mean[i] = MeanOfSums(drawn[i]) /\ wmean[i] = WMeanOfSums(drawn[i])
      /\ mean[j] = MeanOfSums(drawn[j]) /\ wmean[j] = WMeanOfSums(drawn[j])
  BY DEF MeansInv
<1>4. /\ MergeMean(mean[i], mean[j]) = MeanOfSums(d)
      /\ MergeWMean(wmean[i], wmean[j]) = WMeanOfSums(d)
  BY <1>1, <1>2, <1>3, MergeMeanSums
<1>5. SumsOK(d)
  BY <1>1, <1>2, BothSumsOK
<1>6. [f \in DOMAIN drawn[i] |-> drawn[i][f] + drawn[j][f]] = d
  <2>1. DOMAIN drawn[i] = {"n", "w", "w2", "x", "x2"}
    BY <1>1 DEF SumsOK
  <2> QED BY <1>2, <2>1 DEF BothSums
<1>7. drawn' = [drawn EXCEPT ![i] = d]
  BY <1>6 DEF Merge
<1>8. /\ mean' = [mean EXCEPT ![i] = MeanOfSums(d)]
      /\ wmean' = [wmean EXCEPT ![i] = WMeanOfSums(d)]
  BY <1>4 DEF Merge
<1> QED BY <1>5, <1>7, <1>8, MeanChanged

LEMMA MeansScale ==
  ASSUME NumbersAssumption, MeansInv, NEW i \in Cells, NEW s \in Factors, Scale(i, s)
  PROVE  MeansInv'
<1>1. s \in Int /\ SumsOK(drawn[i])
  BY DEF NumbersAssumption, MeansInv
<1>2. PICK d : d = ScaledSums(drawn[i], s)
  OBVIOUS
<1>3. mean[i] = MeanOfSums(drawn[i]) /\ wmean[i] = WMeanOfSums(drawn[i])
  BY DEF MeansInv
<1>4. /\ ScaleMean(mean[i], Whole(s)) = MeanOfSums(d)
      /\ ScaleMean(wmean[i], Whole(s)) = WMeanOfSums(d)
  BY <1>1, <1>2, <1>3, ScaleMeanSums
<1>5. SumsOK(d)
  BY <1>1, <1>2, ScaledSumsOK
<1>6. drawn' = [drawn EXCEPT ![i] = d]
  BY <1>2 DEF Scale, ScaledSums
<1>7. /\ mean' = [mean EXCEPT ![i] = MeanOfSums(d)]
      /\ wmean' = [wmean EXCEPT ![i] = WMeanOfSums(d)]
  BY <1>4 DEF Scale
<1> QED BY <1>5, <1>6, <1>7, MeanChanged

LEMMA MeansAssign ==
  ASSUME MeansInv, NEW i \in Cells, NEW j \in Cells, AssignMean(i, j)
  PROVE  MeansInv'
<1>1. PICK d : d = drawn[j]
  OBVIOUS
<1>2. SumsOK(d) /\ mean[j] = MeanOfSums(d) /\ wmean[j] = WMeanOfSums(d)
  BY <1>1 DEF MeansInv
<1>3. PICK m \in Written("Mean", mean[i], mean[j],
                         <<mean[j].count, mean[j].value, MeanVariance(mean[j])>>) :
        mean' = [mean EXCEPT ![i] = m]
  BY DEF AssignMean
<1>4. DOMAIN mean[i] = {"count", "value", "deltas"}
  BY DEF MeansInv, MeanOfSums
<1>5. m = MeanOfSums(d)
  BY <1>2, <1>3, <1>4, WrittenMean
<1>6. PICK v \in Written("WeightedMean", wmean[i], wmean[j],
                         <<wmean[j].sum, wmean[j].sum2, wmean[j].value,
                           WMeanVariance(wmean[j])>>) :
        wmean' = [wmean EXCEPT ![i] = v]
  BY DEF AssignMean
<1>7. DOMAIN wmean[i] = {"sum", "sum2", "value", "deltas"}
  BY DEF MeansInv, WMeanOfSums
<1>8. v = WMeanOfSums(d)
  BY <1>2, <1>6, <1>7, WrittenWMean
<1>9. drawn' = [drawn EXCEPT ![i] = d]
  BY <1>1 DEF AssignMean
<1> QED BY <1>2, <1>3, <1>5, <1>6, <1>8, <1>9, MeanChanged

LEMMA MeansUntouched ==
  ASSUME MeansInv, UNCHANGED <<mean, wmean, drawn>>
  PROVE  MeansInv'
<1>1. drawn' = drawn /\ mean' = mean /\ wmean' = wmean
  OBVIOUS
<1> QED BY <1>1 DEF MeansInv, SumsOK, MeanOfSums, WMeanOfSums

\* The same for the weighted sums.
LEMMA SumChanged ==
  ASSUME SumsInv, NEW i \in Cells, NEW e \in Entries,
         weighed' = [weighed EXCEPT ![i] = e],
         wsum' = [wsum EXCEPT ![i] = SumOfEntries(e)]
  PROVE  SumsInv'
<1>1. weighed \in [Cells -> Entries] /\ wsum = [k \in Cells |-> SumOfEntries(weighed[k])]
  BY DEF SumsInv
<1> HIDE DEF Entries
<1>2. weighed' \in [Cells -> Entries]
  BY <1>1
<1>3. wsum' = [k \in Cells |-> IF k = i THEN SumOfEntries(e) ELSE SumOfEntries(weighed[k])]
  BY <1>1
<1>4. \A k \in Cells : weighed'[k] = IF k = i THEN e ELSE weighed[k]
  BY <1>1
<1>5. wsum' = [k \in Cells |-> SumOfEntries(weighed'[k])]
  BY <1>3, <1>4
<1> QED BY <1>2, <1>5 DEF SumsInv, Entries, Fractions, SumOfEntries

LEMMA SumsInit == Init => SumsInv
<1> SUFFICES ASSUME Init PROVE SumsInv
  OBVIOUS
<1>1. Zero \in Fractions
  BY WholeFraction DEF Zero
<1> DEFINE e == [w |-> Zero, w2 |-> Zero]
<1> HIDE DEF Fractions
<1>2. e \in Entries /\ SumOfEntries(e) = EmptyWSum
  BY <1>1 DEF Entries, SumOfEntries, EmptyWSum
<1> HIDE DEF e
<1>3. weighed = [i \in Cells |-> e] /\ wsum = [i \in Cells |-> EmptyWSum]
  BY DEF Init, e
<1> QED BY <1>2, <1>3 DEF SumsInv

\* Each operation on weighted sums.
LEMMA SumsAdd ==
  ASSUME NumbersAssumption, SumsInv, NEW i \in Cells, NEW w \in Weights, AddSum(i, w)
  PROVE  SumsInv'
<1>1. w \in Int
  BY DEF NumbersAssumption
<1>2. PICK a \in Fractions, b \in Fractions :
        a = weighed[i].w /\ b = weighed[i].w2 /\ wsum[i] = [value |-> a, variance |-> b]
  BY DEF SumsInv, Entries, SumOfEntries
<1>3. PICK e : e = [w |-> Plus(a, Whole(w)), w2 |-> Plus(b, Whole(w * w))]
  OBVIOUS
<1>4. e \in Entries
  <2>1. w * w \in Int
    BY <1>1
  <2>2. Plus(a, Whole(w)) \in Fractions /\ Plus(b, Whole(w * w)) \in Fractions
    BY <1>1, <2>1, WholeFraction, FractionsClosed
  <2> QED BY <1>3, <2>2 DEF Entries
<1>5. /\ Minus(a, Whole(-w)) = Plus(a, Whole(w))
      /\ Square(Whole(-w)) = Whole(w * w) /\ Square(Whole(w)) = Whole(w * w)
  BY <1>1, OppositePlus
<1>6. /\ AddWeight(wsum[i], Whole(w)) = SumOfEntries(e)
      /\ ViewPlus(wsum[i], Whole(w)) = SumOfEntries(e)
      /\ ViewMinus(wsum[i], Whole(-w)) = SumOfEntries(e)
  BY <1>2, <1>3, <1>5 DEF AddWeight, ViewPlus, ViewMinus, SumOfEntries
<1>7. wsum' = [wsum EXCEPT ![i] = SumOfEntries(e)]
  BY <1>6 DEF AddSum
<1>8. weighed' = [weighed EXCEPT ![i] = e]
  BY <1>2, <1>3 DEF AddSum
<1> QED BY <1>4, <1>7, <1>8, SumChanged

LEMMA SumsSubtract ==
  ASSUME NumbersAssumption, SumsInv, NEW i \in Cells, NEW w \in Weights, SubtractFrom(i, w)
  PROVE  SumsInv'
<1>1. w \in Int
  BY DEF NumbersAssumption
<1>2. PICK a \in Fractions, b \in Fractions :
        a = weighed[i].w /\ b = weighed[i].w2 /\ wsum[i] = [value |-> a, variance |-> b]
  BY DEF SumsInv, Entries, SumOfEntries
<1>3. PICK e : e = [w |-> Minus(Whole(w), a), w2 |-> Plus(Whole(w * w), b)]
  OBVIOUS
<1>4. e \in Entries
  <2>1. w * w \in Int
    BY <1>1
  <2>2. Minus(Whole(w), a) \in Fractions /\ Plus(Whole(w * w), b) \in Fractions
    BY <1>1, <2>1, WholeFraction, FractionsClosed
  <2> QED BY <1>3, <2>2 DEF Entries
<1>5. Square(Whole(w)) = Whole(w * w)
  BY <1>1, OppositePlus
<1>6. ViewFrom(wsum[i], Whole(w)) = SumOfEntries(e)
  BY <1>2, <1>3, <1>5 DEF ViewFrom, SumOfEntries
<1>7. wsum' = [wsum EXCEPT ![i] = SumOfEntries(e)]
  BY <1>6 DEF SubtractFrom
<1>8. weighed' = [weighed EXCEPT ![i] = e]
  BY <1>2, <1>3 DEF SubtractFrom
<1> QED BY <1>4, <1>7, <1>8, SumChanged

LEMMA SumsMerge ==
  ASSUME SumsInv, NEW i \in Cells, NEW j \in Cells, MergeSum(i, j)
  PROVE  SumsInv'
<1>1. PICK a \in Fractions, b \in Fractions :
        a = weighed[i].w /\ b = weighed[i].w2 /\ wsum[i] = [value |-> a, variance |-> b]
  BY DEF SumsInv, Entries, SumOfEntries
<1>2. PICK c \in Fractions, d \in Fractions :
        c = weighed[j].w /\ d = weighed[j].w2 /\ wsum[j] = [value |-> c, variance |-> d]
  BY DEF SumsInv, Entries, SumOfEntries
<1>3. PICK e : e = [w |-> Plus(a, c), w2 |-> Plus(b, d)]
  OBVIOUS
<1>4. e \in Entries
  <2>1. Plus(a, c) \in Fractions /\ Plus(b, d) \in Fractions
    BY FractionsClosed
  <2> QED BY <1>3, <2>1 DEF Entries
<1>5. MergeWSum(wsum[i], wsum[j]) = SumOfEntries(e)
      /\ ViewAdd(wsum[i], wsum[j]) = SumOfEntries(e)
  BY <1>1, <1>2, <1>3 DEF MergeWSum, ViewAdd, SumOfEntries
<1>6. wsum' = [wsum EXCEPT ![i] = SumOfEntries(e)]
  BY <1>5 DEF MergeSum
<1>7. weighed' = [weighed EXCEPT ![i] = e]
  BY <1>1, <1>2, <1>3 DEF MergeSum
<1> QED BY <1>4, <1>6, <1>7, SumChanged

LEMMA SumsScale ==
  ASSUME SumsInv, NEW i \in Cells, NEW c \in Int \ {0}, NEW d \in Int \ {0},
         NEW f, f = Ratio(c, d), ScaleSum(i, f)
  PROVE  SumsInv'
<1>1. PICK a \in Fractions, b \in Fractions :
        a = weighed[i].w /\ b = weighed[i].w2 /\ wsum[i] = [value |-> a, variance |-> b]
  BY DEF SumsInv, Entries, SumOfEntries
<1>2. PICK e : e = [w |-> Times(a, f), w2 |-> Times(b, Square(f))]
  OBVIOUS
<1>3. e \in Entries
  <2>1. f \in Fractions
    BY FractionIs
  <2>2. Square(f) \in Fractions
    BY <2>1, FractionsClosed DEF Square
  <2>3. Times(a, f) \in Fractions /\ Times(b, Square(f)) \in Fractions
    BY <2>1, <2>2, FractionsClosed
  <2> QED BY <1>2, <2>3 DEF Entries
<1>4. ScaleWSum(wsum[i], f) = SumOfEntries(e) /\ ViewTimes(wsum[i], f) = SumOfEntries(e)
  BY <1>1, <1>2 DEF ScaleWSum, ViewTimes, SumOfEntries
<1>5. ViewOver(wsum[i], Over(Whole(1), f)) = SumOfEntries(e)
  <2>1. Over(a, Over(Whole(1), f)) = Times(a, f)
    BY OverInverse
  <2>2. Over(b, Square(Over(Whole(1), f))) = Times(b, Square(f))
    BY OverInverse
  <2> QED BY <1>1, <1>2, <2>1, <2>2 DEF ViewOver, SumOfEntries
<1>6. f = Whole(-1) => ViewNegative(wsum[i]) = SumOfEntries(e)
  <2> SUFFICES ASSUME f = Whole(-1) PROVE ViewNegative(wsum[i]) = SumOfEntries(e)
    OBVIOUS
  <2>1. Times(a, f) = Minus(Zero, a) /\ Times(b, Square(f)) = b
    BY TimesMinusOne
  <2>2. ViewNegative(wsum[i]) = [value |-> Minus(Zero, a), variance |-> b]
    BY <1>1 DEF ViewNegative
  <2> QED BY <1>2, <2>1, <2>2 DEF SumOfEntries
<1>7. wsum' = [wsum EXCEPT ![i] = SumOfEntries(e)]
  BY <1>4, <1>5, <1>6 DEF ScaleSum
<1>8. weighed' = [weighed EXCEPT ![i] = e]
  BY <1>1, <1>2 DEF ScaleSum
<1> QED BY <1>3, <1>7, <1>8, SumChanged

LEMMA SumsAssign ==
  ASSUME SumsInv, NEW i \in Cells, NEW j \in Cells, AssignWSum(i, j)
  PROVE  SumsInv'
<1>1. PICK e \in Entries : e = weighed[j] /\ wsum[j] = [value |-> e.w, variance |-> e.w2]
  BY DEF SumsInv, SumOfEntries
<1>2. DOMAIN wsum[i] = {"value", "variance"}
  BY DEF SumsInv, SumOfEntries
<1>3. PICK s \in Written("WeightedSum", wsum[i], wsum[j],
                         <<wsum[j].value, wsum[j].variance>>) :
        wsum' = [wsum EXCEPT ![i] = s]
  BY DEF AssignWSum
<1>4. PICK a, b : a = e.w /\ b = e.w2
  OBVIOUS
<1>5. /\ wsum[j] = [value |-> a, variance |-> b]
      /\ wsum[j].value = a /\ wsum[j].variance = b
  BY <1>1, <1>4
<1>6. s = [value |-> a, variance |-> b]
  BY <1>2, <1>3, <1>5, WrittenWSum
<1>7. wsum' = [wsum EXCEPT ![i] = SumOfEntries(e)]
  BY <1>3, <1>4, <1>6 DEF SumOfEntries
<1>8. weighed' = [weighed EXCEPT ![i] = e]
  BY <1>1 DEF AssignWSum
<1> QED BY <1>7, <1>8, SumChanged

LEMMA SumsTotal ==
  ASSUME NumbersAssumption, SumsInv, NEW i \in Cells, AssignTotal(i)
  PROVE  SumsInv'
<1> DEFINE f == [k \in Cells |-> weighed[k].w]
           g == [k \in Cells |-> weighed[k].w2]
<1>1. [k \in Cells |-> wsum[k].value] = f /\ [k \in Cells |-> wsum[k].variance] = g
  BY DEF SumsInv, SumOfEntries
<1>2. (\A k \in Cells : f[k] \in Fractions) /\ (\A k \in Cells : g[k] \in Fractions)
  BY DEF SumsInv, Entries
<1>3. f = [k \in Cells |-> f[k]] /\ g = [k \in Cells |-> g[k]]
  OBVIOUS
<1>4. /\ wsum' = [wsum EXCEPT ![i] = Make("WeightedSum", <<Total(f), Total(g)>>)]
      /\ weighed' = [weighed EXCEPT ![i] = [w |-> Total(f), w2 |-> Total(g)]]
  BY <1>1 DEF AssignTotal
<1> HIDE DEF f, g
<1>5. Total(f) \in Fractions /\ Total(g) \in Fractions
  BY <1>2, <1>3, TotalFraction DEF NumbersAssumption
<1>6. PICK e : e = [w |-> Total(f), w2 |-> Total(g)]
  OBVIOUS
<1>7. e \in Entries
  BY <1>5, <1>6 DEF Entries
<1>8. Make("WeightedSum", <<Total(f), Total(g)>>) = SumOfEntries(e)
  BY <1>6, MadeSum DEF SumOfEntries
<1> QED BY <1>4, <1>6, <1>7, <1>8, SumChanged

LEMMA SumsUntouched ==
  ASSUME SumsInv, UNCHANGED <<wsum, weighed>>
  PROVE  SumsInv'
<1>1. wsum' = wsum /\ weighed' = weighed
  OBVIOUS
<1> QED BY <1>1 DEF SumsInv, Entries, Fractions, SumOfEntries
-----------------------------------------------------------------------------
(* Every step *)

LEMMA AccumulatorsStep ==
  ASSUME NumbersAssumption
  PROVE  AccumulatorsInv /\ [Next]_vars => AccumulatorsInv'
<1> SUFFICES ASSUME AccumulatorsInv, [Next]_vars PROVE AccumulatorsInv'
  OBVIOUS
<1>0. MeansInv /\ SumsInv
  BY DEF AccumulatorsInv
<1>1. CASE \E i \in Cells, w \in Weights, x \in Values : Fill(i, w, x)
  <2>1. PICK i \in Cells, w \in Weights, x \in Values : Fill(i, w, x)
    BY <1>1
  <2>2. MeansInv'
    BY <1>0, <2>1, MeansFill
  <2>3. UNCHANGED <<wsum, weighed>>
    BY <2>1 DEF Fill
  <2> QED BY <1>0, <2>2, <2>3, SumsUntouched DEF AccumulatorsInv
<1>2. CASE \E i, j \in Cells : Merge(i, j)
  <2>1. PICK i \in Cells, j \in Cells : Merge(i, j)
    BY <1>2
  <2>2. MeansInv'
    BY <1>0, <2>1, MeansMerge
  <2>3. UNCHANGED <<wsum, weighed>>
    BY <2>1 DEF Merge
  <2> QED BY <1>0, <2>2, <2>3, SumsUntouched DEF AccumulatorsInv
<1>3. CASE \E i \in Cells, s \in Factors : Scale(i, s)
  <2>1. PICK i \in Cells, s \in Factors : Scale(i, s)
    BY <1>3
  <2>2. MeansInv'
    BY <1>0, <2>1, MeansScale
  <2>3. UNCHANGED <<wsum, weighed>>
    BY <2>1 DEF Scale
  <2> QED BY <1>0, <2>2, <2>3, SumsUntouched DEF AccumulatorsInv
<1>4. CASE \E i, j \in Cells : AssignMean(i, j)
  <2>1. PICK i \in Cells, j \in Cells : AssignMean(i, j)
    BY <1>4
  <2>2. MeansInv'
    BY <1>0, <2>1, MeansAssign
  <2>3. UNCHANGED <<wsum, weighed>>
    BY <2>1 DEF AssignMean
  <2> QED BY <1>0, <2>2, <2>3, SumsUntouched DEF AccumulatorsInv
<1>5. CASE \E i, j \in Cells : AssignWSum(i, j)
  <2>1. PICK i \in Cells, j \in Cells : AssignWSum(i, j)
    BY <1>5
  <2>2. SumsInv'
    BY <1>0, <2>1, SumsAssign
  <2>3. UNCHANGED <<mean, wmean, drawn>>
    BY <2>1 DEF AssignWSum
  <2> QED BY <1>0, <2>2, <2>3, MeansUntouched DEF AccumulatorsInv
<1>6. CASE \E i \in Cells : AssignTotal(i)
  <2>1. PICK i \in Cells : AssignTotal(i)
    BY <1>6
  <2>2. SumsInv'
    BY <1>0, <2>1, SumsTotal
  <2>3. UNCHANGED <<mean, wmean, drawn>>
    BY <2>1 DEF AssignTotal
  <2> QED BY <1>0, <2>2, <2>3, MeansUntouched DEF AccumulatorsInv
<1>7. CASE \E i \in Cells, w \in Weights : AddSum(i, w)
  <2>1. PICK i \in Cells, w \in Weights : AddSum(i, w)
    BY <1>7
  <2>2. SumsInv'
    BY <1>0, <2>1, SumsAdd
  <2>3. UNCHANGED <<mean, wmean, drawn>>
    BY <2>1 DEF AddSum
  <2> QED BY <1>0, <2>2, <2>3, MeansUntouched DEF AccumulatorsInv
<1>8. CASE \E i \in Cells, w \in Weights : SubtractFrom(i, w)
  <2>1. PICK i \in Cells, w \in Weights : SubtractFrom(i, w)
    BY <1>8
  <2>2. SumsInv'
    BY <1>0, <2>1, SumsSubtract
  <2>3. UNCHANGED <<mean, wmean, drawn>>
    BY <2>1 DEF SubtractFrom
  <2> QED BY <1>0, <2>2, <2>3, MeansUntouched DEF AccumulatorsInv
<1>9. CASE \E i, j \in Cells : MergeSum(i, j)
  <2>1. PICK i \in Cells, j \in Cells : MergeSum(i, j)
    BY <1>9
  <2>2. SumsInv'
    BY <1>0, <2>1, SumsMerge
  <2>3. UNCHANGED <<mean, wmean, drawn>>
    BY <2>1 DEF MergeSum
  <2> QED BY <1>0, <2>2, <2>3, MeansUntouched DEF AccumulatorsInv
<1>10. CASE \E i \in Cells, s \in Factors : ScaleSum(i, Whole(s)) \/ ScaleSum(i, Ratio(1, s))
  <2>1. PICK i \in Cells, s \in Factors : ScaleSum(i, Whole(s)) \/ ScaleSum(i, Ratio(1, s))
    BY <1>10
  <2>2. s \in Int \ {0} /\ 1 \in Int \ {0} /\ s \in Int
    BY DEF NumbersAssumption
  <2>3. PICK f : ScaleSum(i, f) /\ (f = Ratio(s, 1) \/ f = Ratio(1, s))
    BY <2>1, <2>2, WholeRatio
  <2>4. PICK c \in Int \ {0}, d \in Int \ {0} : f = Ratio(c, d)
    BY <2>2, <2>3
  <2>5. SumsInv'
    BY <1>0, <2>3, <2>4, SumsScale
  <2>6. UNCHANGED <<mean, wmean, drawn>>
    BY <2>3 DEF ScaleSum
  <2> QED BY <1>0, <2>5, <2>6, MeansUntouched DEF AccumulatorsInv
<1>11. CASE UNCHANGED vars
  <2>1. UNCHANGED <<mean, wmean, drawn>> /\ UNCHANGED <<wsum, weighed>>
    BY <1>11 DEF vars
  <2> QED BY <1>0, <2>1, MeansUntouched, SumsUntouched DEF AccumulatorsInv
<1> QED
  BY <1>1, <1>2, <1>3, <1>4, <1>5, <1>6, <1>7, <1>8, <1>9, <1>10, <1>11, Zenon DEF Next

\* At every moment each accumulator is the one the sums of its samples give, and the
\* sums are those of samples with positive weights.
THEOREM AccumulatorsInvariant == Spec => []AccumulatorsInv
<1>1. Init => AccumulatorsInv
  BY MeansInit, SumsInit DEF AccumulatorsInv
<1>2. AccumulatorsInv /\ [Next]_vars => AccumulatorsInv'
  BY NumbersAssumption, AccumulatorsStep
<1> QED BY <1>1, <1>2, PTL DEF Spec
-----------------------------------------------------------------------------
(* What the accumulators report *)

\* The definition of the squared deviations.
LEMMA DeviationIs ==
  ASSUME NEW w \in Nat \ {0}, NEW x \in Int, NEW q \in Int
  PROVE  Minus(Whole(q), Ratio(x * x, w)) = Ratio(q * w - x * x, w)
<1>1. PICK y \in Int, D \in Int : y = x * x /\ D = q * w - x * x
  <2>1. x * x \in Int /\ q * w - x * x \in Int
    OBVIOUS
  <2> QED BY <2>1
<1>0. w \in Int \ {0} /\ 1 \in Int \ {0} /\ Whole(q) = Ratio(q, 1)
  BY WholeRatio
<1>2. (q * w - y * 1) * w = D * (1 * w)
  BY <1>1
<1>3. Minus(Ratio(q, 1), Ratio(y, w)) = Ratio(D, w)
  BY <1>0, <1>2, MinusIs
<1> QED BY <1>0, <1>1, <1>3

LEMMA MeansReported ==
  ASSUME NEW d, SumsOK(d)
  PROVE  /\ d.w = 0 => MeanOfSums(d) = EmptyMean /\ WMeanOfSums(d) = EmptyWMean
         /\ d.w # 0 => /\ ValueOf(d.w, d.x) = Ratio(d.x, d.w)
                       /\ DeltasOf(d.w, d.x, d.x2) = Deviation(d)
<1>1. d.w \in Nat /\ d.x \in Int /\ d.x2 \in Int /\ (d.w = 0 => d.w2 = 0)
  BY DEF SumsOK
<1>2. CASE d.w = 0
  BY <1>1, <1>2 DEF MeanOfSums, WMeanOfSums, EmptyMean, EmptyWMean, ValueOf, DeltasOf, Zero
<1>3. CASE d.w # 0
  <2>1. PICK w \in Nat \ {0}, x \in Int, q \in Int : w = d.w /\ x = d.x /\ q = d.x2
    BY <1>1, <1>3
  <2>2. ValueOf(w, x) = Ratio(x, w) /\ DeltasOf(w, x, q) = Ratio(q * w - x * x, w)
    BY DEF ValueOf, DeltasOf
  <2>3. Deviation(d) = Ratio(q * w - x * x, w)
    BY <2>1, DeviationIs DEF Deviation
  <2> QED BY <1>3, <2>1, <2>2, <2>3
<1> QED BY <1>2, <1>3

\* A mean holds the number, the mean and the squared deviations of its samples, however
\* they came in, for any samples, weights and factors and any number of
\* operations.
THEOREM MeansAreExact == Spec => []MeanExact
<1>1. AccumulatorsInv => MeanExact
  <2> SUFFICES ASSUME AccumulatorsInv, NEW i \in Cells
      PROVE IF drawn[i].w = 0 THEN mean[i] = EmptyMean
            ELSE mean[i] = [count |-> Whole(drawn[i].w),
                            value |-> Ratio(drawn[i].x, drawn[i].w),
                            deltas |-> Deviation(drawn[i])]
    BY DEF MeanExact
  <2>1. SumsOK(drawn[i]) /\ mean[i] = MeanOfSums(drawn[i])
    BY DEF AccumulatorsInv, MeansInv
  <2> QED BY <2>1, MeansReported DEF MeanOfSums
<1> QED BY <1>1, AccumulatorsInvariant, PTL

\* The same for a weighted mean and the sum of the squares of its weights.
THEOREM WeightedMeansAreExact == Spec => []WeightedMeanExact
<1>1. AccumulatorsInv => WeightedMeanExact
  <2> SUFFICES ASSUME AccumulatorsInv, NEW i \in Cells
      PROVE IF drawn[i].w = 0 THEN wmean[i] = EmptyWMean
            ELSE wmean[i] = [sum |-> Whole(drawn[i].w), sum2 |-> Whole(drawn[i].w2),
                             value |-> Ratio(drawn[i].x, drawn[i].w),
                             deltas |-> Deviation(drawn[i])]
    BY DEF WeightedMeanExact
  <2>1. SumsOK(drawn[i]) /\ wmean[i] = WMeanOfSums(drawn[i])
    BY DEF AccumulatorsInv, MeansInv
  <2> QED BY <2>1, MeansReported DEF WMeanOfSums
<1> QED BY <1>1, AccumulatorsInvariant, PTL

\* The counts of a weighted mean as a fraction.
LEMMA CountsAre ==
  ASSUME NEW w \in Nat \ {0}, NEW w2 \in Nat \ {0}, NEW m, m.sum = Whole(w), m.sum2 = Whole(w2)
  PROVE  /\ w * w \in Int
         /\ WMeanCounts(m) = Ratio(w * w, w2)
<1>1. PICK v \in Int : v = w * w
  OBVIOUS
<1>0. /\ 1 \in Int \ {0} /\ w2 \in Int \ {0}
      /\ Whole(w) = Ratio(w, 1) /\ Whole(w2) = Ratio(w2, 1)
  BY WholeRatio
<1>2. m.sum2 # Zero
  BY WholeSame DEF Zero
<1>3. Square(Ratio(w, 1)) = Ratio(v, 1)
  <2>1. (w * w) * 1 = v * (1 * 1)
    BY <1>1
  <2> QED BY <1>0, <2>1, TimesIs DEF Square
<1>4. Over(Ratio(v, 1), Ratio(w2, 1)) = Ratio(v, w2)
  <2>1. (v * 1) * w2 = v * (1 * w2)
    OBVIOUS
  <2> QED BY <1>0, <2>1, OverIs
<1> QED BY <1>0, <1>1, <1>2, <1>3, <1>4 DEF WMeanCounts

\* The counts of a weighted mean are 0 without a sample, 1 for one, and for more of them
\* between 1 and their number: the inequality between the square of the sum and the sum
\* of the squares, kept by every merge.
THEOREM CountsAreEffective == Spec => []CountsEffective
<1>1. AccumulatorsInv => CountsEffective
  <2> SUFFICES ASSUME AccumulatorsInv, NEW i \in Cells
      PROVE /\ drawn[i].n <= 1 => WMeanCounts(wmean[i]) = Whole(drawn[i].n)
            /\ drawn[i].n > 1 => /\ Above(WMeanCounts(wmean[i]), Whole(1))
                                 /\ ~Above(WMeanCounts(wmean[i]), Whole(drawn[i].n))
    BY DEF CountsEffective
  <2>1. SumsOK(drawn[i]) /\ wmean[i] = WMeanOfSums(drawn[i])
    BY DEF AccumulatorsInv, MeansInv
  <2>2. PICK n \in Nat, w \in Nat, w2 \in Nat :
          /\ n = drawn[i].n /\ w = drawn[i].w /\ w2 = drawn[i].w2
          /\ n = 0 => w = 0
          /\ w = 0 => n = 0 /\ w2 = 0
          /\ n = 1 => w2 = w * w
          /\ n > 1 => w2 < w * w
          /\ w * w <= n * w2
    BY <2>1 DEF SumsOK
  <2>3. wmean[i].sum = Whole(w) /\ wmean[i].sum2 = Whole(w2)
    BY <2>1, <2>2 DEF WMeanOfSums
  <2>4. CASE n = 0
    <3>1. w2 = 0
      BY <2>2, <2>4
    <3>2. WMeanCounts(wmean[i]) = Whole(0)
      BY <2>3, <3>1 DEF WMeanCounts, Zero
    <3> QED BY <2>2, <2>4, <3>2
  <2>5. CASE n # 0
    <3>1. w \in Nat \ {0}
      BY <2>2, <2>5
    <3>2. w * w \in Nat \ {0}
      BY <3>1
    <3>3. w2 \in Nat \ {0}
      <4>1. w2 # 0
        <5>1. SUFFICES ASSUME w2 = 0 PROVE FALSE
          OBVIOUS
        <5>2. n * w2 = 0
          BY <5>1
        <5> QED BY <2>2, <3>2, <5>2
      <4> QED BY <4>1
    <3>4. PICK v \in Int : v = w * w /\ WMeanCounts(wmean[i]) = Ratio(v, w2)
      BY <2>3, <3>1, <3>3, CountsAre
    <3>5. 1 \in Int \ {0} /\ 1 \in Nat \ {0} /\ 1 \in Int /\ w2 \in Int \ {0} /\ n \in Int
      BY <2>2, <3>3
    <3>6. Whole(1) = Ratio(1, 1) /\ Whole(n) = Ratio(n, 1)
      BY <3>5, WholeRatio
    <3>7. CASE n = 1
      <4>1. v * 1 = 1 * w2
        BY <2>2, <3>4, <3>7
      <4>2. Ratio(v, w2) = Ratio(1, 1)
        BY <3>5, <4>1, RatioEqual
      <4> QED BY <2>2, <3>4, <3>6, <3>7, <4>2
    <3>8. CASE n > 1
      <4>1. Above(Ratio(v, w2), Ratio(1, 1)) <=> v * 1 > 1 * w2
        BY <3>3, <3>5, AboveRatio
      <4>2. Above(Ratio(v, w2), Ratio(n, 1)) <=> v * 1 > n * w2
        BY <3>3, <3>5, AboveRatio
      <4>3. v * 1 > 1 * w2 /\ ~(v * 1 > n * w2)
        <5>1. v > w2 /\ v <= n * w2
          BY <2>2, <3>4, <3>8
        <5>2. n * w2 \in Nat
          OBVIOUS
        <5> QED BY <5>1, <5>2
      <4> QED BY <2>2, <3>4, <3>6, <3>8, <4>1, <4>2, <4>3
    <3> QED BY <2>5, <3>7, <3>8
  <2> QED BY <2>4, <2>5
<1> QED BY <1>1, AccumulatorsInvariant, PTL

\* With weights of 1 a histogram of weighted means reports what a histogram of means
\* does, variances that are undefined included.
THEOREM UnitWeightsReportTheSame == Spec => []UnitWeightsAgree
<1>1. AccumulatorsInv => UnitWeightsAgree
  <2> SUFFICES ASSUME AccumulatorsInv, NEW i \in Cells,
                      drawn[i].w = drawn[i].n, drawn[i].w2 = drawn[i].n
      PROVE /\ WMeanCounts(wmean[i]) = mean[i].count
            /\ wmean[i].value = mean[i].value
            /\ WMeanVariances(wmean[i]) = MeanVariances(mean[i])
    BY DEF UnitWeightsAgree
  <2>1. /\ SumsOK(drawn[i])
        /\ mean[i] = MeanOfSums(drawn[i]) /\ wmean[i] = WMeanOfSums(drawn[i])
    BY DEF AccumulatorsInv, MeansInv
  <2>2. PICK n, V, D :
          /\ n \in Nat
          /\ mean[i] = [count |-> Whole(n), value |-> V, deltas |-> D]
          /\ wmean[i] = [sum |-> Whole(n), sum2 |-> Whole(n), value |-> V, deltas |-> D]
    <3>1. drawn[i].n \in Nat
      BY <2>1 DEF SumsOK
    <3> QED BY <2>1, <3>1 DEF MeanOfSums, WMeanOfSums
  <2>3. /\ mean[i].count = Whole(n) /\ mean[i].deltas = D
        /\ wmean[i].sum = Whole(n) /\ wmean[i].sum2 = Whole(n) /\ wmean[i].deltas = D
        /\ wmean[i].value = mean[i].value
    BY <2>2
  <2>4. CASE n = 0
    <3>1. WMeanCounts(wmean[i]) = mean[i].count
      BY <2>3, <2>4 DEF WMeanCounts, Zero
    <3>2. ~Above(Whole(0), Whole(1))
      BY DEF Above, Whole
    <3> QED BY <2>3, <2>4, <3>1, <3>2 DEF WMeanVariances, MeanVariances
  <2>5. CASE n # 0
    <3>0. /\ n \in Nat \ {0} /\ n \in Int \ {0} /\ 1 \in Int \ {0} /\ n \in Int
          /\ Whole(n) = Ratio(n, 1)
      BY <2>2, <2>5, WholeRatio
    <3>1. PICK v \in Int, u \in Int : v = n * n /\ u = n - 1
      <4>1. n * n \in Int /\ n - 1 \in Int
        BY <3>0
      <4> QED BY <4>1
    <3>2. WMeanCounts(wmean[i]) = mean[i].count
      <4>1. WMeanCounts(wmean[i]) = Ratio(v, n)
        BY <2>3, <3>0, <3>1, CountsAre
      <4>2. v * 1 = n * n
        BY <3>0, <3>1
      <4> QED BY <2>3, <3>0, <4>1, <4>2, RatioEqual
    <3>3. Effective(wmean[i]) = Ratio(u, 1)
      <4>1. PICK f \in Int : f = n * n - n /\ Effective(wmean[i]) = Ratio(f, n)
        BY <2>3, <2>5, <3>0, EffectiveIs
      <4>2. n * n - n = (n - 1) * n
        BY <3>0
      <4>3. f * 1 = u * n
        BY <3>0, <3>1, <4>1, <4>2
      <4> QED BY <3>0, <4>1, <4>3, RatioEqual
    <3>4. Minus(Whole(n), Whole(1)) = Ratio(u, 1)
      BY <3>0, <3>1, WholeArithmetic, WholeRatio
    <3>5. WMeanVariance(wmean[i]) = MeanVariance(mean[i])
      BY <2>3, <3>3, <3>4 DEF WMeanVariance, MeanVariance
    <3> QED BY <2>3, <3>2, <3>5 DEF WMeanVariances, MeanVariances
  <2> QED BY <2>4, <2>5
<1> QED BY <1>1, AccumulatorsInvariant, PTL

\* A weighted sum is the sum of its entries and of their squares, worked on as an
\* accumulator or through the arithmetic of a view.
THEOREM ViewsWorkAsAccumulators == Spec => []ViewsAgree
<1>1. AccumulatorsInv => ViewsAgree
  BY DEF AccumulatorsInv, SumsInv, SumOfEntries, ViewsAgree
<1> QED BY <1>1, AccumulatorsInvariant, PTL
=============================================================================
