------------------------ MODULE ArithmeticTheorems ---------------------------
(***************************************************************************)
(* What is known of sums and of fractions: what the sum of finitely many   *)
(* numbers does, that fractions in lowest terms are unique, and what the   *)
(* operators of Rationals compute; and the two ways of induction that show *)
(* it, through the least of some natural numbers and through the smallest  *)
(* of some finite sets.                                                    *)
(*                                                                         *)
(* The library states induction for a property that is an operator; stated *)
(* for sets, as here, it can be cited with any set of counterexamples.     *)
(***************************************************************************)
EXTENDS Integers, Rationals, Functions, FiniteSetTheorems, TLAPS

(* Induction *)

\* A set of natural numbers has a least one.
LEMMA LeastNumber ==
  ASSUME NEW T \in SUBSET Nat, T # {}
  PROVE  \E n \in T : \A m \in T : n <= m
<1> DEFINE R == {ss \in Nat \X Nat : ss[1] < ss[2]}
<1>0. \A m, n \in Nat : <<m, n>> \in R <=> m < n
  OBVIOUS
<1>1. OpToRel(<, Nat) = R
  BY Zenon DEF OpToRel
<1>2. IsWellFoundedOn(R, Nat)
  BY <1>1, NatLessThanWellFounded
<1>3. PICK n \in T : \A m \in T : ~(<<m, n>> \in R)
  <2> HIDE DEF R
  <2> QED BY <1>2, WFMin
<1>4. ASSUME NEW m \in T PROVE n <= m
  <2> HIDE DEF R
  <2>1. m \in Nat /\ n \in Nat
    OBVIOUS
  <2>2. ~(m < n)
    BY <1>0, <1>3, <2>1
  <2> QED BY <2>1, <2>2
<1> QED BY <1>4

\* A set of natural numbers that has 0 and with each number the next.
LEMMA NumberInduction ==
  ASSUME NEW T, 0 \in T, \A n \in T \cap Nat : n + 1 \in T
  PROVE  Nat \subseteq T
<1>1. SUFFICES ASSUME Nat \ T # {} PROVE FALSE
  OBVIOUS
<1>2. PICK n \in Nat \ T : \A m \in Nat \ T : n <= m
  BY <1>1, LeastNumber
<1>3. n - 1 \in Nat /\ n - 1 \in T
  BY <1>2
<1>4. (n - 1) + 1 = n
  OBVIOUS
<1>5. (n - 1) + 1 \in T
  BY <1>3
<1> QED BY <1>4, <1>5

\* H gives values in V, of those that f has at what is of a lower rank.
GoesDown(H, S, V, r) ==
  /\ \A c \in S : \A f \in [S -> V] : H[<<c, f>>] \in V
  /\ \A c \in S : \A f, g \in [S -> V] :
       (\A d \in S : r[d] < r[c] => f[d] = g[d]) => H[<<c, f>>] = H[<<c, g>>]

Solution(f, H, S, V) == f \in [S -> V] /\ \A c \in S : f[c] = H[<<c, f>>]

\* Such a definition by recursion has a solution.
LEMMA Recursion ==
  ASSUME NEW S, NEW V, NEW v \in V, NEW r \in [S -> Nat], NEW m \in Nat,
         \A c \in S : r[c] < m,
         NEW H, GoesDown(H, S, V, r)
  PROVE  \E f : Solution(f, H, S, V)
<1> DEFINE Solves(f, k) == \A c \in S : r[c] < k => f[c] = H[<<c, f>>]
           T == {k \in Nat : \E f \in [S -> V] : Solves(f, k)}
<1> USE DEF GoesDown
<1>1. 0 \in T
  <2>1. [c \in S |-> v] \in [S -> V]
    OBVIOUS
  <2>2. Solves([c \in S |-> v], 0)
    OBVIOUS
  <2> QED BY <2>1, <2>2
<1>2. ASSUME NEW k \in T \cap Nat PROVE k + 1 \in T
  <2>1. PICK f \in [S -> V] : Solves(f, k)
    OBVIOUS
  <2> DEFINE g == [c \in S |-> IF r[c] < k + 1 THEN H[<<c, f>>] ELSE f[c]]
  <2>2. g \in [S -> V]
    OBVIOUS
  <2>3. ASSUME NEW d \in S, r[d] < k PROVE g[d] = f[d]
    BY <2>1, <2>3
  <2>4. ASSUME NEW c \in S, r[c] < k + 1 PROVE g[c] = H[<<c, g>>]
    <3>1. g[c] = H[<<c, f>>]
      BY <2>4
    <3>2. \A d \in S : r[d] < r[c] => f[d] = g[d]
      BY <2>3, <2>4
    <3>3. H[<<c, f>>] = H[<<c, g>>]
      <4> HIDE DEF g
      <4> QED BY <2>2, <3>2
    <3> QED BY <3>1, <3>3
  <2>5. Solves(g, k + 1)
    <3> HIDE DEF g
    <3> QED BY <2>4
  <2>6. \E h \in [S -> V] : Solves(h, k + 1)
    <3> HIDE DEF g, Solves
    <3> QED BY <2>2, <2>5
  <2> QED BY <2>6
<1>3. m \in T
  <2> HIDE DEF T
  <2>1. Nat \subseteq T
    BY <1>1, <1>2, NumberInduction
  <2> QED BY <2>1
<1> QED BY <1>3 DEF Solution

\* Among some subsets of a finite set there is one of which no proper subset
\* is among them.
LEMMA SmallestSet ==
  ASSUME NEW S, IsFiniteSet(S), NEW B \in SUBSET (SUBSET S), B # {}
  PROVE  \E s \in B : \A t \in B : t \subseteq s => t = s
<1> DEFINE R == StrictSubsetOrdering(S)
<1>1. IsWellFoundedOn(R, FiniteSubsetsOf(S))
  BY FS_StrictSubsetOrderingWellFounded
<1>2. B \subseteq FiniteSubsetsOf(S)
  BY FS_FiniteSubsetsOfFinite
<1>3. PICK s \in B : \A t \in B : ~(<<t, s>> \in R)
  <2> HIDE DEF R
  <2> QED BY <1>1, <1>2, WFMin
<1>4. ASSUME NEW t \in B, t \subseteq s, t # s PROVE FALSE
  BY <1>3, <1>4 DEF StrictSubsetOrdering
<1> QED BY <1>4
-----------------------------------------------------------------------------
(* Folding the values of a function with an operation op on V *)

Chosen(s) == CHOOSE x \in s : TRUE

\* it[s] is the fold over s, for every part s of S.
Folds(it, S, op, b, g) ==
  \A s \in SUBSET S :
    it[s] = IF s = {} THEN b ELSE op[<<g[Chosen(s)], it[s \ {Chosen(s)}]>>]

\* Two functions that fold every part of a set the same way are the same.
LEMMA FoldUnique ==
  ASSUME NEW S, IsFiniteSet(S), NEW op, NEW b, NEW g, NEW f, NEW h,
         Folds(f, S, op, b, g), Folds(h, S, op, b, g)
  PROVE  \A s \in SUBSET S : f[s] = h[s]
<1> DEFINE B == {s \in SUBSET S : f[s] # h[s]}
<1> SUFFICES ASSUME B # {} PROVE FALSE
  OBVIOUS
<1>1. PICK s \in B : \A t \in B : t \subseteq s => t = s
  <2> HIDE DEF B
  <2>1. B \in SUBSET (SUBSET S)
    BY DEF B
  <2> QED BY <2>1, SmallestSet
<1>2. s # {}
  BY DEF Folds
<1>3. Chosen(s) \in s
  BY <1>2 DEF Chosen
<1>4. s \ {Chosen(s)} \notin B /\ s \ {Chosen(s)} \in SUBSET S
  BY <1>1, <1>3
<1> QED BY <1>2, <1>4 DEF Folds

\* A fold of a set folds its parts.
LEMMA FoldPart ==
  ASSUME NEW S, NEW op, NEW b, NEW g, NEW f, NEW t \in SUBSET S, Folds(f, S, op, b, g)
  PROVE  Folds(f, t, op, b, g)
BY DEF Folds

\* Every finite set has a fold.
LEMMA FoldExists ==
  ASSUME NEW S, IsFiniteSet(S), NEW V, NEW op \in [V \X V -> V], NEW b \in V,
         NEW g, \A x \in S : g[x] \in V
  PROVE  \E f \in [SUBSET S -> V] : Folds(f, S, op, b, g)
<1> DEFINE Has(s, f) == f \in [SUBSET s -> V] /\ Folds(f, s, op, b, g)
           B == {s \in SUBSET S : \A f : ~Has(s, f)}
<1> SUFFICES ASSUME B # {} PROVE FALSE
  OBVIOUS
<1>1. PICK s \in B : \A t \in B : t \subseteq s => t = s
  <2> HIDE DEF B
  <2>1. B \in SUBSET (SUBSET S)
    BY DEF B
  <2> QED BY <2>1, SmallestSet
<1> DEFINE F(t) == CHOOSE f : Has(t, f)
<1>2. ASSUME NEW t \in SUBSET s, t # s PROVE Has(t, F(t))
  <2>1. t \in SUBSET S /\ t \notin B
    BY <1>1, <1>2
  <2>2. \E f : Has(t, f)
    BY <2>1
  <2> HIDE DEF Has
  <2> QED BY <2>2
<1> DEFINE below == [t \in (SUBSET s) \ {s} |-> F(t)[t]]
<1>3. ASSUME NEW t \in SUBSET s, t # s, NEW u \in SUBSET t PROVE F(t)[u] = F(u)[u]
  <2>1. Has(t, F(t)) /\ Has(u, F(u))
    <3>1. u \in SUBSET s /\ u # s
      BY <1>3
    <3> HIDE DEF Has, F
    <3> QED BY <1>2, <1>3, <3>1
  <2>2. Folds(F(t), u, op, b, g) /\ Folds(F(u), u, op, b, g)
    <3> HIDE DEF F
    <3> QED BY <2>1, FoldPart
  <2>3. IsFiniteSet(u)
    BY FS_Subset
  <2> HIDE DEF F
  <2> QED BY <2>2, <2>3, FoldUnique
<1>4. below \in [(SUBSET s) \ {s} -> V]
  <2>1. ASSUME NEW t \in (SUBSET s) \ {s} PROVE F(t)[t] \in V
    <3>1. Has(t, F(t))
      <4> HIDE DEF Has, F
      <4> QED BY <1>2
    <3> HIDE DEF F
    <3> QED BY <3>1
  <2> HIDE DEF F
  <2> QED BY <2>1
<1>5. ASSUME NEW t \in (SUBSET s) \ {s}
      PROVE  below[t] = IF t = {} THEN b
                        ELSE op[<<g[Chosen(t)], below[t \ {Chosen(t)}]>>]
  <2>1. Has(t, F(t))
    <3> HIDE DEF Has, F
    <3> QED BY <1>2
  <2>2. F(t)[t] = IF t = {} THEN b ELSE op[<<g[Chosen(t)], F(t)[t \ {Chosen(t)}]>>]
    <3> HIDE DEF F
    <3> QED BY <2>1 DEF Folds
  <2>3. t # {} => /\ t \ {Chosen(t)} \in SUBSET t
                  /\ t \ {Chosen(t)} \in (SUBSET s) \ {s}
    OBVIOUS
  <2>4. t # {} => F(t)[t \ {Chosen(t)}] = F(t \ {Chosen(t)})[t \ {Chosen(t)}]
    <3> HIDE DEF F
    <3> QED BY <1>3, <2>3
  <2>5. below[t] = F(t)[t]
        /\ (t # {} => below[t \ {Chosen(t)}] = F(t \ {Chosen(t)})[t \ {Chosen(t)}])
    <3> HIDE DEF F
    <3> QED BY <2>3
  <2> HIDE DEF F, below
  <2> QED BY <2>2, <2>4, <2>5
<1> DEFINE last == IF s = {} THEN b ELSE op[<<g[Chosen(s)], below[s \ {Chosen(s)}]>>]
           f == [t \in SUBSET s |-> IF t = s THEN last ELSE below[t]]
<1>6. last \in V
  <2>1. s # {} => /\ Chosen(s) \in s /\ s \ {Chosen(s)} \in (SUBSET s) \ {s}
    BY DEF Chosen
  <2> HIDE DEF below
  <2> QED BY <1>4, <2>1
<1>7. f \in [SUBSET s -> V]
  <2> HIDE DEF below, last
  <2> QED BY <1>4, <1>6
<1>8. Folds(f, s, op, b, g)
  <2> SUFFICES ASSUME NEW t \in SUBSET s
               PROVE  f[t] = IF t = {} THEN b ELSE op[<<g[Chosen(t)], f[t \ {Chosen(t)}]>>]
    BY DEF Folds
  <2>1. t # {} => Chosen(t) \in t
    BY DEF Chosen
  <2>2. t # {} => f[t \ {Chosen(t)}] = below[t \ {Chosen(t)}]
    <3> HIDE DEF below, last
    <3> QED BY <2>1
  <2>3. CASE t = s
    <3>1. f[t] = last
      BY <2>3
    <3> HIDE DEF f, below
    <3> QED BY <2>2, <2>3, <3>1
  <2>4. CASE t # s
    <3>1. f[t] = below[t]
      BY <2>4
    <3> HIDE DEF f, below
    <3> QED BY <1>5, <2>2, <2>4, <3>1
  <2> QED BY <2>3, <2>4
<1>9. Has(s, f)
  BY <1>7, <1>8
<1> HIDE DEF Has, f
<1> QED BY <1>1, <1>9

\* For an operation that is commutative and associative, it does not matter
\* which element is taken out.
Commutes(op, V) ==
  /\ \A x, y \in V : op[<<x, y>>] = op[<<y, x>>]
  /\ \A x, y, z \in V : op[<<x, op[<<y, z>>]>>] = op[<<op[<<x, y>>], z>>]

AnyOrder(f, S, op, g) ==
  \A s \in SUBSET S : \A x \in s : f[s] = op[<<g[x], f[s \ {x}]>>]

\* Where the order of two steps makes no difference, any element may come last.
LEMMA FoldAny ==
  ASSUME NEW S, IsFiniteSet(S), NEW V, NEW op \in [V \X V -> V], NEW b \in V,
         Commutes(op, V),
         NEW g, \A x \in S : g[x] \in V,
         NEW f, f \in [SUBSET S -> V], Folds(f, S, op, b, g)
  PROVE  AnyOrder(f, S, op, g)
<1> DEFINE B == {s \in SUBSET S : \E x \in s : f[s] # op[<<g[x], f[s \ {x}]>>]}
<1> SUFFICES ASSUME B # {} PROVE FALSE
  BY DEF AnyOrder
<1>1. PICK s \in B : \A t \in B : t \subseteq s => t = s
  <2> HIDE DEF B
  <2>1. B \in SUBSET (SUBSET S)
    BY DEF B
  <2> QED BY <2>1, SmallestSet
<1>2. PICK x \in s : f[s] # op[<<g[x], f[s \ {x}]>>]
  OBVIOUS
<1> DEFINE y == Chosen(s)
<1>3. y \in s
  BY DEF Chosen
<1>4. f[s] = op[<<g[y], f[s \ {y}]>>]
  BY DEF Folds
<1>5. x # y
  BY <1>2, <1>4
<1> HIDE DEF y
<1>6. f[s \ {y}] = op[<<g[x], f[(s \ {y}) \ {x}]>>]
  <2>1. s \ {y} \in SUBSET S /\ s \ {y} \notin B /\ x \in s \ {y}
    BY <1>1, <1>3, <1>5
  <2> QED BY <2>1
<1>7. f[s \ {x}] = op[<<g[y], f[(s \ {x}) \ {y}]>>]
  <2>1. s \ {x} \in SUBSET S /\ s \ {x} \notin B /\ y \in s \ {x}
    BY <1>1, <1>2, <1>3, <1>5
  <2> QED BY <2>1
<1> DEFINE rest == f[(s \ {x}) \ {y}]
<1>8. (s \ {y}) \ {x} = (s \ {x}) \ {y} /\ rest \in V /\ g[x] \in V /\ g[y] \in V
  BY <1>2, <1>3
<1> HIDE DEF rest
<1>9. op[<<g[y], op[<<g[x], rest>>]>>] = op[<<g[x], op[<<g[y], rest>>]>>]
  <2>1. op[<<g[y], op[<<g[x], rest>>]>>] = op[<<op[<<g[y], g[x]>>], rest>>]
    BY <1>8 DEF Commutes
  <2>2. op[<<g[x], op[<<g[y], rest>>]>>] = op[<<op[<<g[x], g[y]>>], rest>>]
    BY <1>8 DEF Commutes
  <2> QED BY <1>8, <2>1, <2>2 DEF Commutes
<1> QED BY <1>2, <1>4, <1>6, <1>7, <1>8, <1>9 DEF rest
-----------------------------------------------------------------------------
(* Sums of integers *)

Addition == [p \in Int \X Int |-> p[1] + p[2]]

\* The sum of a function over a finite set is the fold with +.
LEMMA SumIsFold ==
  ASSUME NEW s, IsFiniteSet(s), NEW f, f = [x \in s |-> f[x]], \A x \in s : f[x] \in Int,
         NEW it, it \in [SUBSET s -> Int], Folds(it, s, Addition, 0, f)
  PROVE  SumFunction(f) = it[s]
<1> DEFINE R(g) == g = [t \in SUBSET s |-> IF t = {} THEN 0
                    ELSE LET x == CHOOSE x \in t : TRUE IN f[x] + g[t \ {x}]]
           iter == CHOOSE g : R(g)
<1>1. R(it)
  <2> SUFFICES ASSUME NEW t \in SUBSET s 
      PROVE it[t] = IF t = {} THEN 0
                    ELSE LET x == CHOOSE x \in t : TRUE IN f[x] + it[t \ {x}]
    OBVIOUS
  <2>1. CASE t = {}
    BY <2>1 DEF Folds
  <2>2. CASE t # {}
    <3>1. Chosen(t) \in t
      BY <2>2 DEF Chosen
    <3>2. it[t] = Addition[<<f[Chosen(t)], it[t \ {Chosen(t)}]>>]
      BY <2>2 DEF Folds
    <3>3. f[Chosen(t)] \in Int /\ it[t \ {Chosen(t)}] \in Int
      BY <3>1
    <3>4. it[t] = f[Chosen(t)] + it[t \ {Chosen(t)}]
      BY <3>2, <3>3 DEF Addition
    <3> QED BY <2>2, <3>4 DEF Chosen
  <2> QED BY <2>1, <2>2
<1>2. R(iter)
  <2> HIDE DEF R
  <2> QED BY <1>1
<1>3. SumFunction(f) = iter[s]
  BY DEF SumFunction, SumFunctionOnSet, FoldFunctionOnSet, MapThenFoldSet
<1>4. ASSUME NEW g, R(g) PROVE g[s] = it[s]
  <2> DEFINE B == {t \in SUBSET s : g[t] # it[t]}
  <2> SUFFICES ASSUME B # {} PROVE FALSE
    OBVIOUS
  <2>1. PICK t \in B : \A u \in B : u \subseteq t => u = t
    <3> HIDE DEF B
    <3>1. B \in SUBSET (SUBSET s)
      BY DEF B
    <3> QED BY <3>1, SmallestSet
  <2>2. \A u \in SUBSET s :
          /\ g[u] = IF u = {} THEN 0 ELSE f[Chosen(u)] + g[u \ {Chosen(u)}]
          /\ it[u] = IF u = {} THEN 0 ELSE f[Chosen(u)] + it[u \ {Chosen(u)}]
    BY <1>1, <1>4 DEF Chosen
  <2>3. t # {}
    BY <2>2
  <2>4. Chosen(t) \in t
    BY <2>3 DEF Chosen
  <2>5. g[t \ {Chosen(t)}] = it[t \ {Chosen(t)}]
    BY <2>1, <2>4
  <2> HIDE DEF R
  <2> QED BY <2>2, <2>3, <2>5
<1> HIDE DEF R
<1> QED BY <1>2, <1>3, <1>4

\* The sum of the values of f over s.
SumOver(f, s) == SumFunction([x \in s |-> f[x]])

\* it[s] is the sum over s, for every part s of S.
AddsUp(it, S, f) ==
  /\ it \in [SUBSET S -> Int]
  /\ it[{}] = 0
  /\ \A s \in SUBSET S : \A x \in s : it[s] = f[x] + it[s \ {x}]
  /\ \A s \in SUBSET S : SumOver(f, s) = it[s]

\* For every finite set there is the function of the sums of its parts, which any
\* element may be split off from.
LEMMA SumOfParts ==
  ASSUME NEW S, IsFiniteSet(S), NEW f, \A x \in S : f[x] \in Int
  PROVE  \E it : AddsUp(it, S, f)
<1>1. /\ Addition \in [Int \X Int -> Int]
      /\ \A x, y \in Int : Addition[<<x, y>>] = x + y
  BY DEF Addition
<1>2. Commutes(Addition, Int)
  <2>1. ASSUME NEW x \in Int, NEW y \in Int PROVE Addition[<<x, y>>] = Addition[<<y, x>>]
    <3>1. Addition[<<x, y>>] = x + y /\ Addition[<<y, x>>] = y + x
      BY <1>1
    <3> QED BY <3>1
  <2>2. ASSUME NEW x \in Int, NEW y \in Int, NEW z \in Int
        PROVE  Addition[<<x, Addition[<<y, z>>]>>] = Addition[<<Addition[<<x, y>>], z>>]
    <3>1. /\ Addition[<<y, z>>] = y + z /\ Addition[<<x, y>>] = x + y
          /\ y + z \in Int /\ x + y \in Int
      BY <1>1
    <3>2. Addition[<<x, y + z>>] = x + (y + z) /\ Addition[<<x + y, z>>] = (x + y) + z
      BY <1>1, <3>1
    <3> QED BY <3>1, <3>2
  <2> QED BY <2>1, <2>2 DEF Commutes
<1>3. PICK it : /\ it \in [SUBSET S -> Int] /\ Folds(it, S, Addition, 0, f)
                /\ \A s \in SUBSET S : \A x \in s : it[s] = Addition[<<f[x], it[s \ {x}]>>]
  <2> DEFINE V == Int
  <2>1. /\ Addition \in [V \X V -> V] /\ 0 \in V /\ Commutes(Addition, V)
        /\ \A x \in S : f[x] \in V
    BY <1>1, <1>2
  <2> HIDE DEF V, Addition
  <2>2. PICK it \in [SUBSET S -> V] : Folds(it, S, Addition, 0, f)
    BY <2>1, FoldExists
  <2>3. AnyOrder(it, S, Addition, f)
    BY <2>1, <2>2, FoldAny
  <2> QED BY <2>2, <2>3 DEF V, AnyOrder
<1> HIDE DEF Addition
<1>4. ASSUME NEW s \in SUBSET S, NEW x \in s PROVE it[s] = f[x] + it[s \ {x}]
  BY <1>1, <1>3, <1>4
<1>5. it[{}] = 0
  BY <1>3 DEF Folds
<1>6. ASSUME NEW s \in SUBSET S PROVE SumOver(f, s) = it[s]
  <2> DEFINE h == [x \in s |-> f[x]]
             is == [t \in SUBSET s |-> it[t]]
  <2>1. h = [x \in s |-> h[x]] /\ (\A x \in s : h[x] \in Int) /\ is \in [SUBSET s -> Int]
    BY <1>3
  <2>2. Folds(is, s, Addition, 0, h)
    <3> SUFFICES ASSUME NEW t \in SUBSET s
                 PROVE  is[t] = IF t = {} THEN 0
                        ELSE Addition[<<h[Chosen(t)], is[t \ {Chosen(t)}]>>]
      BY DEF Folds
    <3>1. t # {} => Chosen(t) \in t
      BY DEF Chosen
    <3>2. it[t] = IF t = {} THEN 0 ELSE Addition[<<f[Chosen(t)], it[t \ {Chosen(t)}]>>]
      BY <1>3 DEF Folds
    <3> QED BY <3>1, <3>2
  <2>3. IsFiniteSet(s)
    BY FS_Subset
  <2> HIDE DEF h, is
  <2>4. SumFunction(h) = is[s]
    BY <2>1, <2>2, <2>3, SumIsFold
  <2> QED BY <2>4 DEF h, is, SumOver
<1> QED BY <1>3, <1>4, <1>5, <1>6 DEF AddsUp

\* No summands make 0.
LEMMA SumEmpty ==
  ASSUME NEW f
  PROVE  SumOver(f, {}) = 0
<1>1. IsFiniteSet({})
  BY FS_EmptySet
<1>2. \A x \in {} : f[x] \in Int
  OBVIOUS
<1>3. PICK it : AddsUp(it, {}, f)
  BY <1>1, <1>2, SumOfParts
<1>4. SumOver(f, {}) = it[{}] /\ it[{}] = 0
  BY <1>3 DEF AddsUp
<1> QED BY <1>4

\* Integers add up to an integer.
LEMMA SumType ==
  ASSUME NEW S, IsFiniteSet(S), NEW f, \A x \in S : f[x] \in Int
  PROVE  SumOver(f, S) \in Int
<1>1. PICK it : AddsUp(it, S, f)
  BY SumOfParts
<1>2. SumOver(f, S) = it[S] /\ it[S] \in Int
  BY <1>1 DEF AddsUp
<1> QED BY <1>2

\* One summand apart.
LEMMA SumOut ==
  ASSUME NEW S, IsFiniteSet(S), NEW f, \A x \in S : f[x] \in Int, NEW x \in S
  PROVE  SumOver(f, S)
           = f[x] + SumOver(f, S \ {x})
<1>1. PICK it : AddsUp(it, S, f)
  BY SumOfParts
<1>2. S \in SUBSET S /\ S \ {x} \in SUBSET S
  OBVIOUS
<1> QED BY <1>1, <1>2 DEF AddsUp

\* Natural numbers add up to a natural number, and to 0 only if all are 0.
LEMMA SumNat ==
  ASSUME NEW S, IsFiniteSet(S), NEW f, \A x \in S : f[x] \in Nat
  PROVE  /\ SumOver(f, S) \in Nat
         /\ SumOver(f, S) = 0 <=> \A x \in S : f[x] = 0
<1>1. PICK it : AddsUp(it, S, f)
  BY SumOfParts
<1> DEFINE B == {s \in SUBSET S : ~(it[s] \in Nat /\ (it[s] = 0 <=> \A x \in s : f[x] = 0))}
<1>2. B = {}
  <2> SUFFICES ASSUME B # {} PROVE FALSE
    OBVIOUS
  <2>1. PICK s \in B : \A t \in B : t \subseteq s => t = s
    <3> HIDE DEF B
    <3>1. B \in SUBSET (SUBSET S)
      BY DEF B
    <3> QED BY <3>1, SmallestSet
  <2>2. PICK x \in s : TRUE
    <3>1. SUFFICES ASSUME s = {} PROVE FALSE
      OBVIOUS
    <3>2. it[s] = 0
      BY <1>1, <3>1 DEF AddsUp
    <3> QED BY <3>1, <3>2
  <2>3. it[s] = f[x] + it[s \ {x}] /\ s \ {x} \in SUBSET S /\ f[x] \in Nat
    BY <1>1 DEF AddsUp
  <2>4. it[s \ {x}] \in Nat /\ (it[s \ {x}] = 0 <=> \A y \in s \ {x} : f[y] = 0)
    BY <2>1, <2>3
  <2>5. it[s] \in Nat /\ (it[s] = 0 <=> f[x] = 0 /\ it[s \ {x}] = 0)
    BY <2>3, <2>4
  <2> QED BY <2>4, <2>5
<1> QED BY <1>1, <1>2 DEF AddsUp

\* Adding up sums.
LEMMA SumAdd ==
  ASSUME NEW S, IsFiniteSet(S), NEW f, \A x \in S : f[x] \in Int,
         NEW g, \A x \in S : g[x] \in Int, NEW h, \A x \in S : h[x] = f[x] + g[x]
  PROVE  SumOver(h, S) = SumOver(f, S) + SumOver(g, S)
<1>1. \A x \in S : h[x] \in Int
  OBVIOUS
<1>2. PICK it : AddsUp(it, S, f)
  BY SumOfParts
<1>3. PICK jt : AddsUp(jt, S, g)
  BY SumOfParts
<1>4. PICK kt : AddsUp(kt, S, h)
  BY <1>1, SumOfParts
<1> DEFINE B == {s \in SUBSET S : kt[s] # it[s] + jt[s]}
<1>5. B = {}
  <2> SUFFICES ASSUME B # {} PROVE FALSE
    OBVIOUS
  <2>1. PICK s \in B : \A t \in B : t \subseteq s => t = s
    <3> HIDE DEF B
    <3>1. B \in SUBSET (SUBSET S)
      BY DEF B
    <3> QED BY <3>1, SmallestSet
  <2>2. PICK x \in s : TRUE
    <3>1. SUFFICES ASSUME s = {} PROVE FALSE
      OBVIOUS
    <3>2. it[s] = 0 /\ jt[s] = 0 /\ kt[s] = 0
      BY <1>2, <1>3, <1>4, <3>1 DEF AddsUp
    <3> QED BY <3>2
  <2> DEFINE t == s \ {x}
  <2>3. t \in SUBSET S /\ t \notin B
    BY <2>1
  <2>4. it[s] = f[x] + it[t]
    BY <1>2 DEF AddsUp
  <2>5. jt[s] = g[x] + jt[t]
    BY <1>3 DEF AddsUp
  <2>6. kt[s] = h[x] + kt[t]
    BY <1>4 DEF AddsUp
  <2>7. it[t] \in Int /\ jt[t] \in Int
    BY <1>2, <1>3, <2>3 DEF AddsUp
  <2>8. kt[t] = it[t] + jt[t]
    BY <2>3
  <2>9. f[x] \in Int /\ g[x] \in Int /\ h[x] = f[x] + g[x] /\ kt[s] # it[s] + jt[s]
    OBVIOUS
  <2> HIDE DEF t, B
  <2> QED BY <2>4, <2>5, <2>6, <2>7, <2>8, <2>9
<1>6. SumOver(h, S) = kt[S] /\ SumOver(f, S) = it[S] /\ SumOver(g, S) = jt[S]
  BY <1>2, <1>3, <1>4 DEF AddsUp
<1> QED BY <1>5, <1>6

\* Adding up other things in the same number.
LEMMA SumRenamed ==
  ASSUME NEW S, IsFiniteSet(S), NEW f, \A x \in S : f[x] \in Int,
         NEW T, NEW g, NEW b, \A y \in T : b[y] \in S /\ g[y] = f[b[y]],
         \A y, z \in T : b[y] = b[z] => y = z,
         \A x \in S : \E y \in T : b[y] = x
  PROVE  SumOver(g, T) = SumOver(f, S)
<1>1. PICK it : AddsUp(it, S, f)
  BY SumOfParts
<1> DEFINE Taken(s) == {y \in T : b[y] \in s}
           back == [x \in S |-> CHOOSE y \in T : b[y] = x]
<1>2. \A x \in S : back[x] \in T /\ b[back[x]] = x
  OBVIOUS
<1>3. IsFiniteSet(T)
  <2>1. T \subseteq {back[x] : x \in S}
    BY <1>2
  <2>2. IsFiniteSet({back[x] : x \in S})
    <3> HIDE DEF back
    <3>1. back \in Surjection(S, {back[x] : x \in S})
      BY DEF Surjection, back
    <3> QED BY <3>1, FS_Surjection
  <2> QED BY <2>1, <2>2, FS_Subset
<1> HIDE DEF back
<1>4. PICK jt : AddsUp(jt, T, g)
  <2>1. \A y \in T : g[y] \in Int
    OBVIOUS
  <2> QED BY <1>3, <2>1, SumOfParts
<1> DEFINE B == {s \in SUBSET S : jt[Taken(s)] # it[s]}
<1>5. B = {}
  <2> SUFFICES ASSUME B # {} PROVE FALSE
    OBVIOUS
  <2>1. PICK s \in B : \A t \in B : t \subseteq s => t = s
    <3> HIDE DEF B
    <3>1. B \in SUBSET (SUBSET S)
      BY DEF B
    <3> QED BY <3>1, SmallestSet
  <2>2. s # {}
    <3>1. Taken({}) = {}
      OBVIOUS
    <3> QED BY <1>1, <1>4, <3>1 DEF AddsUp
  <2>3. PICK x \in s : TRUE
    BY <2>2
  <2>4. back[x] \in T /\ b[back[x]] = x /\ g[back[x]] = f[x]
    BY <1>2
  <2>5. Taken(s \ {x}) = Taken(s) \ {back[x]} /\ back[x] \in Taken(s) /\ Taken(s) \in SUBSET T
    BY <2>4
  <2>6. jt[Taken(s \ {x})] = it[s \ {x}]
    <3> HIDE DEF Taken
    <3>1. s \ {x} \in SUBSET S /\ s \ {x} \notin B
      BY <2>1
    <3> QED BY <3>1
  <2>7. it[s] = f[x] + it[s \ {x}]
    BY <1>1 DEF AddsUp
  <2>8. jt[Taken(s)] = f[x] + jt[Taken(s \ {x})]
    <3> DEFINE o == Taken(s)
    <3>1. o \in SUBSET T /\ back[x] \in o
      BY <2>5
    <3> HIDE DEF o
    <3>2. jt[o] = g[back[x]] + jt[o \ {back[x]}]
      BY <1>4, <3>1 DEF AddsUp
    <3> QED BY <2>4, <2>5, <3>2 DEF o
  <2>9. jt[Taken(s)] = it[s]
    BY <2>6, <2>7, <2>8
  <2> QED BY <2>9
<1>6. Taken(S) = T
  OBVIOUS
<1>7. jt[T] = it[S]
  <2> HIDE DEF Taken
  <2> QED BY <1>5, <1>6
<1> QED BY <1>1, <1>4, <1>7 DEF AddsUp
-----------------------------------------------------------------------------
(* Greatest common divisors *)

Divides(d, n) == \E k \in Int : n = d * k

\* Divisors of two numbers divide their combinations.
LEMMA DividesSum ==
  ASSUME NEW d \in Int, NEW a \in Int, NEW b \in Int, NEW q \in Int,
         Divides(d, a), Divides(d, b)
  PROVE  Divides(d, q * b + a) /\ Divides(d, a - q * b)
<1>1. PICK k \in Int : a = d * k
  BY DEF Divides
<1>2. PICK l \in Int : b = d * l
  BY DEF Divides
<1>3. \A x, y \in Int : q * (d * y) + d * x = d * (q * y + x)
      /\ d * x - q * (d * y) = d * (x - q * y)
  OBVIOUS
<1>4. q * b + a = d * (q * l + k) /\ a - q * b = d * (k - q * l)
  BY <1>1, <1>2, <1>3
<1>5. q * l + k \in Int /\ k - q * l \in Int
  OBVIOUS
<1> QED BY <1>4, <1>5 DEF Divides

\* The numbers that have the same divisors as a and b have in common.
Common(a, b) ==
  {d \in Nat : \A e \in Nat : Divides(e, d) <=> Divides(e, a) /\ Divides(e, b)}

LEMMA DividesItself ==
  ASSUME NEW d \in Int
  PROVE  Divides(d, d) /\ Divides(d, 0)
<1>1. d = d * 1 /\ 0 = d * 0 /\ 1 \in Int /\ 0 \in Int
  OBVIOUS
<1> QED BY <1>1 DEF Divides

\* Natural numbers that divide each other are equal.
LEMMA DividesEach ==
  ASSUME NEW d \in Nat, NEW e \in Nat, Divides(d, e), Divides(e, d)
  PROVE  d = e
<1>1. PICK k \in Int : e = d * k
  BY DEF Divides
<1>2. PICK l \in Int : d = e * l
  BY DEF Divides
<1>3. CASE d = 0 \/ e = 0
  BY <1>1, <1>2, <1>3
<1>4. CASE d > 0 /\ e > 0
  <2>1. k > 0 /\ l > 0
    <3>1. ASSUME NEW x \in Int, NEW y \in Int, x > 0, y <= 0 PROVE x * y <= 0
      BY <3>1
    <3> QED BY <1>1, <1>2, <1>4, <3>1
  <2>2. ASSUME NEW x \in Int, NEW y \in Int, x > 0, y > 0 PROVE x * y >= x
    BY <2>2
  <2>3. e >= d /\ d >= e
    BY <1>1, <1>2, <1>4, <2>1, <2>2
  <2> QED BY <2>3
<1> QED BY <1>3, <1>4

\* Euclid's step.
LEMMA CommonStep ==
  ASSUME NEW a \in Nat, NEW b \in Nat \ {0}
  PROVE  a % b \in Nat /\ a % b < b /\ Common(a, b) = Common(b, a % b)
<1>1. /\ a \div b \in Int
      /\ a % b \in 0 .. b - 1
  OBVIOUS
<1>2. PICK q \in Int : q = a \div b
  BY <1>1
<1>3. PICK m \in Int : m = a % b
  BY <1>1
<1>4. a = b * q + m
  BY <1>2, <1>3
<1>5. m \in Nat /\ m < b
  BY <1>1, <1>3
<1>6. a = q * b + m /\ m = a - q * b
  BY <1>4
<1>7. \A e \in Nat : Divides(e, a) /\ Divides(e, b) <=> Divides(e, b) /\ Divides(e, m)
  <2> SUFFICES ASSUME NEW e \in Nat, Divides(e, b)
               PROVE  Divides(e, a) <=> Divides(e, m)
    OBVIOUS
  <2>1. ASSUME Divides(e, a) PROVE Divides(e, m)
    <3>1. Divides(e, a - q * b)
      <4>1. e \in Int /\ a \in Int /\ b \in Int
        OBVIOUS
      <4> QED BY <2>1, <4>1, DividesSum, Zenon
    <3> QED BY <1>6, <3>1
  <2>2. ASSUME Divides(e, m) PROVE Divides(e, a)
    <3>1. Divides(e, q * b + m)
      BY <2>2, <1>5, DividesSum
    <3> QED BY <1>6, <3>1
  <2> QED BY <2>1, <2>2
<1>8. Common(a, b) = Common(b, m)
  BY <1>7 DEF Common
<1> QED BY <1>3, <1>5, <1>8

LEMMA CommonNothing ==
  ASSUME NEW a \in Nat
  PROVE  a \in Common(a, 0)
BY DividesItself DEF Common

\* At most one common divisor is divided by all of them.
LEMMA CommonUnique ==
  ASSUME NEW a \in Nat, NEW b \in Nat, NEW d \in Common(a, b), NEW e \in Common(a, b)
  PROVE  d = e
<1>1. d \in Nat /\ e \in Nat
  BY DEF Common
<1>2. Divides(d, e) /\ Divides(e, d)
  BY <1>1, DividesItself DEF Common
<1> QED BY <1>1, <1>2, DividesEach

\* The recursive definition of Gcd has a solution.
Euclidean(g) ==
  g = [p \in Nat \X Nat |-> IF p[2] = 0 THEN p[1] ELSE g[<<p[2], p[1] % p[2]>>]]

LEMMA GcdExists == \E g : Euclidean(g)
<1> DEFINE D(p) == CHOOSE d \in Nat : d \in Common(p[1], p[2])
           g == [p \in Nat \X Nat |-> D(p)]
<1>1. \A p \in Nat \X Nat : g[p] = D(p)
  OBVIOUS
<1>2. ASSUME NEW p \in Nat \X Nat
      PROVE  g[p] = IF p[2] = 0 THEN p[1] ELSE g[<<p[2], p[1] % p[2]>>]
  <2> DEFINE a == p[1]
             b == p[2]
  <2>0. a \in Nat /\ b \in Nat
    OBVIOUS
  <2>1. CASE b = 0
    <3>1. a \in Common(a, b) /\ a \in Nat
      BY <2>0, <2>1, CommonNothing
    <3>2. D(p) \in Common(a, b)
      BY <3>1
    <3>3. D(p) = a
      <4> HIDE DEF D, a, b
      <4> QED BY <2>0, <2>1, <3>1, <3>2, CommonUnique
    <3> QED BY <1>1, <2>1, <3>3
  <2>2. CASE b # 0
    <3>1. PICK m \in Nat : m = a % b /\ Common(a, b) = Common(b, m)
      BY <2>0, <2>2, CommonStep
    <3>2. <<b, m>> \in Nat \X Nat
      BY <2>0
    <3>3. g[<<b, m>>] = CHOOSE d \in Nat : d \in Common(b, m)
      BY <1>1, <3>2
    <3>4. g[p] = CHOOSE d \in Nat : d \in Common(a, b)
      BY <1>1
    <3> HIDE DEF g
    <3>5. g[p] = g[<<b, m>>]
      BY <3>1, <3>3, <3>4
    <3> QED BY <2>2, <3>1, <3>5
  <2> QED BY <2>1, <2>2
<1> HIDE DEF D
<1>3. g = [p \in Nat \X Nat |-> IF p[2] = 0 THEN p[1] ELSE g[<<p[2], p[1] % p[2]>>]]
  BY <1>2
<1> HIDE DEF g
<1> QED BY <1>3 DEF Euclidean

\* Gcd does what its definition says: the equation has one solution.
LEMMA GcdDef ==
  ASSUME NEW a \in Nat, NEW b \in Nat
  PROVE  Gcd[<<a, b>>] = IF b = 0 THEN a ELSE Gcd[<<b, a % b>>]
<1>1. Gcd = CHOOSE g : Euclidean(g)
  BY DEF Gcd, Euclidean
<1>2. Euclidean(Gcd)
  BY <1>1, GcdExists
<1>3. <<a, b>> \in Nat \X Nat /\ <<a, b>>[1] = a /\ <<a, b>>[2] = b
  OBVIOUS
<1>4. \A g : Euclidean(g) =>
        \A p \in Nat \X Nat : g[p] = IF p[2] = 0 THEN p[1] ELSE g[<<p[2], p[1] % p[2]>>]
  BY DEF Euclidean
<1>5. PICK p \in Nat \X Nat : p = <<a, b>> /\ p[1] = a /\ p[2] = b
  BY <1>3
<1>6. Gcd[p] = IF p[2] = 0 THEN p[1] ELSE Gcd[<<p[2], p[1] % p[2]>>]
  BY <1>2, <1>4
<1> QED BY <1>5, <1>6

\* Gcd divides both numbers, and is a sum of multiples of them.
Combines(g, a, b) ==
  /\ g \in Nat
  /\ \E k \in Nat : a = g * k
  /\ \E l \in Nat : b = g * l
  /\ \E x, y \in Int : g = x * a + y * b

\* A combination of b and a % b is one of a and b.
LEMMA CombinesStep ==
  ASSUME NEW a \in Nat, NEW b \in Nat, NEW q \in Nat, NEW m \in Nat,
         a = b * q + m, NEW g, Combines(g, b, m)
  PROVE  Combines(g, a, b)
<1>0. g \in Nat
  BY DEF Combines
<1>1. PICK k \in Nat : b = g * k
  BY DEF Combines
<1>2. PICK l \in Nat : m = g * l
  BY DEF Combines
<1>3. PICK x \in Int, y \in Int : g = x * b + y * m
  BY DEF Combines
<1>4. a = g * (k * q + l)
  <2>1. (g * k) * q + g * l = g * (k * q + l)
    BY <1>0
  <2> QED BY <1>1, <1>2, <2>1
<1>5. g = y * a + (x - y * q) * b
  <2>1. y * (b * q + m) + (x - y * q) * b = x * b + y * m
    OBVIOUS
  <2> QED BY <1>3, <2>1
<1>6. k * q + l \in Nat /\ x - y * q \in Int
  <2>1. \A u, v \in Nat : u * v \in Nat
    OBVIOUS
  <2> QED BY <2>1
<1> QED BY <1>0, <1>1, <1>4, <1>5, <1>6 DEF Combines

\* The greatest common divisor divides both numbers and combines them.
LEMMA GcdCombines ==
  ASSUME NEW a \in Nat, NEW b \in Nat
  PROVE  Combines(Gcd[<<a, b>>], a, b)
<1> DEFINE T == {n \in Nat : \E c \in Nat : ~Combines(Gcd[<<c, n>>], c, n)}
<1> SUFFICES ASSUME T # {} PROVE FALSE
  OBVIOUS
<1>1. PICK n \in T : \A m \in T : n <= m
  <2>1. T \in SUBSET Nat
    OBVIOUS
  <2> HIDE DEF T
  <2> QED BY <2>1, LeastNumber
<1>2. PICK c \in Nat : n \in Nat /\ ~Combines(Gcd[<<c, n>>], c, n)
  OBVIOUS
<1>3. CASE n = 0
  <2>1. Gcd[<<c, n>>] = c
    BY <1>3, GcdDef
  <2>2. c = c * 1 /\ n = c * 0 /\ c = 1 * c + 0 * n
    BY <1>2, <1>3
  <2>3. 0 \in Int /\ 1 \in Int /\ 0 \in Nat /\ 1 \in Nat
    OBVIOUS
  <2>4. Combines(c, c, n)
    BY <1>2, <2>2, <2>3 DEF Combines
  <2> QED BY <1>2, <2>1, <2>4
<1>4. CASE n # 0
  <2>1. n \in Nat \ {0}
    BY <1>2, <1>4
  <2>2. PICK m \in Nat : m = c % n /\ m < n
    BY <2>1, CommonStep
  <2>3. Gcd[<<c, n>>] = Gcd[<<n, m>>]
    BY <1>4, <2>1, <2>2, GcdDef
  <2>4. ~(m \in T)
    <3> HIDE DEF T
    <3>1. n \in Nat
      BY <2>1
    <3> QED BY <1>1, <2>2, <3>1
  <2>5. Combines(Gcd[<<n, m>>], n, m)
    BY <1>2, <2>4
  <2>6. PICK q \in Nat : c = n * q + m
    <3>1. c \div n \in Int
      BY <1>2, <2>1
    <3>2. PICK q \in Int : q = c \div n
      BY <3>1
    <3>3. c = n * q + m
      BY <1>2, <2>1, <2>2, <3>2
    <3>4. ASSUME NEW x \in Int, x < 0 PROVE n * x <= -n
      BY <2>1, <3>4
    <3>5. q >= 0
      BY <1>2, <2>1, <2>2, <3>3, <3>4
    <3> QED BY <3>3, <3>5
  <2>7. Combines(Gcd[<<n, m>>], c, n)
    BY <1>2, <2>1, <2>5, <2>6, CombinesStep
  <2> QED BY <1>2, <2>3, <2>7
<1> QED BY <1>3, <1>4

-----------------------------------------------------------------------------
(* Fractions in lowest terms *)

\* Equal products with the same factor.
LEMMA Cancel ==
  ASSUME NEW x \in Int, NEW y \in Int, NEW d \in Int, d # 0, x * d = y * d
  PROVE  x = y
<1>1. (x - y) * d = 0
  OBVIOUS
<1>2. PICK z \in Int : z = x - y
  OBVIOUS
<1>3. z * d = 0
  BY <1>1, <1>2
<1>4. z = 0
  BY <1>3
<1> QED BY <1>2, <1>4

\* p is n / d in lowest terms.
Lowest(p, n, d) ==
  /\ p = <<p[1], p[2]>>
  /\ p[1] \in Int /\ p[2] \in Nat \ {0}
  /\ p[1] * d = n * p[2]
  /\ \E x, y \in Int : x * p[1] + y * p[2] = 1

\* Division of a multiple.
LEMMA Quotient ==
  ASSUME NEW g \in Nat \ {0}, NEW k \in Int
  PROVE  (g * k) \div g = k
<1>1. PICK q \in Int : q = (g * k) \div g
  OBVIOUS
<1>2. g * q <= g * k /\ g * k < g * (q + 1)
  <2>1. PICK z \in Int : z = g * k
    OBVIOUS
  <2>2. PICK m \in Int : m = z % g
    OBVIOUS
  <2>3. q = z \div g
    BY <1>1, <2>1
  <2>4. z = g * q + m /\ 0 <= m /\ m < g
    BY <2>1, <2>2, <2>3
  <2>5. g * (q + 1) = g * q + g
    OBVIOUS
  <2>6. g * q \in Int
    OBVIOUS
  <2> QED BY <2>1, <2>4, <2>5, <2>6
<1>3. ASSUME NEW x \in Int, NEW y \in Int, x < y PROVE g * x < g * y
  <2>1. g * (y - x) > 0
    BY <1>3
  <2>2. g * (y - x) = g * y - g * x
    OBVIOUS
  <2> QED BY <2>1, <2>2
<1>4. ~(k < q) /\ ~(q + 1 < k) /\ q + 1 # k
  <2>1. ~(k < q)
    <3> SUFFICES ASSUME k < q PROVE FALSE
      OBVIOUS
    <3>1. g * k < g * q
      BY <1>3
    <3>2. g * k \in Int /\ g * q \in Int
      OBVIOUS
    <3> QED BY <1>2, <3>1, <3>2
  <2>2. ~(q + 1 < k)
    <3> SUFFICES ASSUME q + 1 < k PROVE FALSE
      OBVIOUS
    <3>1. g * (q + 1) < g * k
      BY <1>3
    <3>2. g * k \in Int /\ g * (q + 1) \in Int
      OBVIOUS
    <3> QED BY <1>2, <3>1, <3>2
  <2>3. q + 1 # k
    <3> SUFFICES ASSUME q + 1 = k PROVE FALSE
      OBVIOUS
    <3>1. g * k < g * k
      BY <1>2
    <3>2. g * k \in Int
      OBVIOUS
    <3> QED BY <3>1, <3>2
  <2> QED BY <2>1, <2>2, <2>3
<1>5. q = k
  BY <1>4
<1> QED BY <1>1, <1>5

\* Ratio gives a fraction in lowest terms.
LEMMA RatioLowest ==
  ASSUME NEW n \in Int, NEW d \in Int \ {0}
  PROVE  Lowest(Ratio(n, d), n, d)
<1> DEFINE an == Magnitude(n)
           ad == Magnitude(d)
<1>1. an \in Nat /\ ad \in Nat \ {0}
  BY DEF Magnitude
<1>2. PICK t \in {-1, 1} : n = t * an
  <2>1. n = 1 * an \/ n = (-1) * an
    BY DEF Magnitude
  <2> QED BY <2>1
<1>3. PICK s \in {-1, 1} : /\ d = s * ad
                           /\ s = IF d < 0 THEN -1 ELSE 1
  <2>1. CASE d < 0
    <3>1. d = (-1) * ad
      BY <2>1 DEF Magnitude
    <3> QED BY <2>1, <3>1
  <2>2. CASE ~(d < 0)
    <3>1. d = 1 * ad
      BY <2>2 DEF Magnitude
    <3> QED BY <2>2, <3>1
  <2> QED BY <2>1, <2>2
<1>4. PICK g : g = Gcd[<<an, ad>>]
  OBVIOUS
<1>5. Ratio(n, d) = <<(s * n) \div g, (s * d) \div g>>
  BY <1>3, <1>4 DEF Ratio
<1> HIDE DEF an, ad
<1>6. Combines(g, an, ad)
  BY <1>1, <1>4, GcdCombines
<1>7. g \in Nat
  BY <1>6 DEF Combines
<1>8. PICK k \in Nat : an = g * k
  BY <1>6 DEF Combines
<1>9. PICK l \in Nat : ad = g * l
  BY <1>6 DEF Combines
<1>10. PICK x \in Int, y \in Int : g = x * an + y * ad
  BY <1>6 DEF Combines
<1>11. g # 0 /\ l # 0
  BY <1>1, <1>7, <1>9
<1>12. g \in Nat \ {0}
  BY <1>7, <1>11
<1> DEFINE p1 == (s * t) * k
<1>13. p1 \in Int /\ s \in Int /\ t \in Int /\ s * t \in Int /\ (s * t) * (s * t) = 1
       /\ s * s = 1
  <2>1. s * t \in {-1, 1}
    BY <1>2, <1>3
  <2> QED BY <2>1, <1>3
<1>14. s * n = g * p1 /\ s * d = g * l
  <2>1. s * (t * (g * k)) = g * ((s * t) * k)
    BY <1>7, <1>13
  <2>2. s * (s * (g * l)) = (s * s) * (g * l)
    BY <1>7, <1>13
  <2>3. g * l \in Int
    BY <1>7
  <2>4. s * n = g * p1
    BY <1>2, <1>8, <2>1
  <2>5. s * d = 1 * (g * l)
    BY <1>3, <1>9, <1>13, <2>2
  <2> QED BY <2>3, <2>4, <2>5
<1>15. Ratio(n, d) = <<p1, l>>
  <2>1. (g * p1) \div g = p1 /\ (g * l) \div g = l
    <3> HIDE DEF p1
    <3> QED BY <1>12, <1>13, Quotient
  <2> QED BY <1>5, <1>14, <2>1
<1>16. p1 * d = n * l
  <2>1. ((s * t) * k) * (s * (g * l)) = (s * s) * (t * (g * k) * l)
    BY <1>7, <1>13
  <2>2. t * (g * k) * l \in Int
    BY <1>7, <1>13
  <2>3. p1 * d = 1 * (t * (g * k) * l)
    BY <1>3, <1>9, <1>13, <2>1
  <2> QED BY <1>2, <1>8, <2>2, <2>3
<1>17. (x * (s * t)) * p1 + y * l = 1
  <2>1. ((x * (s * t)) * ((s * t) * k) + y * l) * g
        = (x * ((s * t) * (s * t))) * (g * k) + y * (g * l)
    BY <1>7, <1>13
  <2>2. x * 1 = x
    OBVIOUS
  <2>3. ((x * (s * t)) * p1 + y * l) * g = g
    BY <1>8, <1>9, <1>10, <1>13, <2>1, <2>2
  <2>4. PICK u \in Int : u = (x * (s * t)) * p1 + y * l
    BY <1>13
  <2>5. u * g = 1 * g
    BY <1>7, <2>3, <2>4
  <2>6. u = 1
    BY <1>12, <2>5, Cancel
  <2> QED BY <2>4, <2>6
<1>18. x * (s * t) \in Int
  BY <1>13
<1> HIDE DEF p1
<1>19. PICK p : p = <<p1, l>>
  OBVIOUS
<1>20. p[1] = p1 /\ p[2] = l
  BY <1>19
<1>21. Lowest(p, n, d)
  BY <1>11, <1>13, <1>16, <1>17, <1>18, <1>19, <1>20 DEF Lowest
<1> QED BY <1>15, <1>19, <1>21

\* A fraction has one form in lowest terms.
LEMMA SameDenominator ==
  ASSUME NEW a \in Int, NEW b \in Nat \ {0}, NEW c \in Int, NEW d \in Nat \ {0},
         a * d = c * b,
         NEW x \in Int, NEW y \in Int, x * a + y * b = 1
  PROVE  Divides(b, d)
<1>1. (x * a + y * b) * d = x * (a * d) + y * b * d
  OBVIOUS
<1>2. x * (c * b) + y * b * d = b * (x * c + y * d)
  OBVIOUS
<1>3. 1 * d = d
  OBVIOUS
<1>4. d = b * (x * c + y * d)
  BY <1>1, <1>2, <1>3
<1>5. x * c + y * d \in Int
  OBVIOUS
<1> QED BY <1>4, <1>5 DEF Divides

\* There is only one in lowest terms.
LEMMA LowestUnique ==
  ASSUME NEW n \in Int, NEW d \in Int \ {0}, NEW m \in Int, NEW e \in Int \ {0},
         n * e = m * d,
         NEW p, Lowest(p, n, d), NEW q, Lowest(q, m, e)
  PROVE  p = q
<1>1. PICK a \in Int, b \in Nat \ {0} :
        /\ p = <<a, b>> /\ a * d = n * b
        /\ \E x, y \in Int : x * a + y * b = 1
  BY DEF Lowest
<1>2. PICK f \in Int, g \in Nat \ {0} :
        /\ q = <<f, g>> /\ f * e = m * g
        /\ \E x, y \in Int : x * f + y * g = 1
  BY DEF Lowest
<1>3. a * g = f * b
  <2>1. (a * g) * (d * e) = (a * d) * (g * e)
    OBVIOUS
  <2>2. (n * b) * (g * e) = (n * e) * (b * g)
    OBVIOUS
  <2>3. (m * d) * (b * g) = (m * g) * (d * b)
    OBVIOUS
  <2>4. (f * e) * (d * b) = (f * b) * (d * e)
    OBVIOUS
  <2>5. (a * g) * (d * e) = (f * b) * (d * e)
    BY <1>1, <1>2, <2>1, <2>2, <2>3, <2>4
  <2>6. d * e \in Int /\ d * e # 0
    OBVIOUS
  <2>7. a * g \in Int /\ f * b \in Int
    OBVIOUS
  <2>8. PICK u \in Int, v \in Int, w \in Int : u = a * g /\ v = f * b /\ w = d * e
    BY <2>6, <2>7
  <2>9. u = v
    BY <2>5, <2>6, <2>8, Cancel
  <2> QED BY <2>8, <2>9
<1>4. Divides(b, g)
  <2>1. PICK x \in Int, y \in Int : x * a + y * b = 1
    BY <1>1
  <2> QED BY <1>3, <2>1, SameDenominator
<1>5. Divides(g, b)
  <2>1. PICK x \in Int, y \in Int : x * f + y * g = 1
    BY <1>2
  <2>2. f * b = a * g
    BY <1>3
  <2> QED BY <2>1, <2>2, SameDenominator
<1>6. b = g
  BY <1>4, <1>5, DividesEach
<1>7. a = f
  <2>1. a * b = f * b
    BY <1>3, <1>6
  <2> QED BY <2>1, Cancel
<1> QED BY <1>1, <1>2, <1>6, <1>7

\* Ratio gives equal results for equal fractions, and only for those.
LEMMA RatioEqual ==
  ASSUME NEW n \in Int, NEW d \in Int \ {0}, NEW m \in Int, NEW e \in Int \ {0},
         n * e = m * d
  PROVE  Ratio(n, d) = Ratio(m, e)
<1>1. Lowest(Ratio(n, d), n, d) /\ Lowest(Ratio(m, e), m, e)
  BY RatioLowest
<1>2. PICK p, q : p = Ratio(n, d) /\ q = Ratio(m, e)
  OBVIOUS
<1>3. Lowest(p, n, d) /\ Lowest(q, m, e)
  BY <1>1, <1>2
<1> QED BY <1>2, <1>3, LowestUnique

\* What is known of the result.
LEMMA RatioParts ==
  ASSUME NEW n \in Int, NEW d \in Int \ {0}
  PROVE  \E a \in Int, b \in Nat \ {0} : Ratio(n, d) = <<a, b>> /\ a * d = n * b
BY RatioLowest DEF Lowest

\* Equal fractions have equal products across.
LEMMA RatioSame ==
  ASSUME NEW n \in Int, NEW d \in Int \ {0}, NEW m \in Int, NEW e \in Int \ {0},
         Ratio(n, d) = Ratio(m, e)
  PROVE  n * e = m * d
<1>1. PICK a \in Int, b \in Nat \ {0} : Ratio(n, d) = <<a, b>> /\ a * d = n * b
  BY RatioParts
<1>2. PICK f \in Int, g \in Nat \ {0} : Ratio(m, e) = <<f, g>> /\ f * e = m * g
  BY RatioParts
<1>3. a = f /\ b = g
  <2>1. <<a, b>> = <<f, g>>
    BY <1>1, <1>2, Zenon
  <2> QED BY <2>1
<1>4. (n * e) * b = (m * d) * b
  <2>1. (n * b) * e = (n * e) * b /\ (a * d) * e = (a * e) * d /\ (m * b) * d = (m * d) * b
    OBVIOUS
  <2> QED BY <1>1, <1>2, <1>3, <2>1
<1>5. PICK u \in Int, v \in Int : u = n * e /\ v = m * d
  OBVIOUS
<1>6. u = v
  BY <1>4, <1>5, Cancel
<1> QED BY <1>5, <1>6

LEMMA WholeRatio ==
  ASSUME NEW n \in Int
  PROVE  Whole(n) = Ratio(n, 1)
<1>1. PICK a \in Int, b \in Nat \ {0} :
        /\ Ratio(n, 1) = <<a, b>> /\ a * 1 = n * b
        /\ \E x, y \in Int : x * a + y * b = 1
  BY RatioLowest DEF Lowest
<1>2. PICK x \in Int, y \in Int : x * a + y * b = 1
  BY <1>1
<1>3. a = n * b
  BY <1>1
<1>4. b * (x * n + y) = 1
  <2>1. x * (n * b) + y * b = b * (x * n + y)
    OBVIOUS
  <2> QED BY <1>2, <1>3, <2>1
<1>5. b = 1
  <2>1. Divides(b, 1) /\ Divides(1, b)
    <3>1. x * n + y \in Int /\ b = 1 * b
      OBVIOUS
    <3> QED BY <1>4, <3>1 DEF Divides
  <2> QED BY <2>1, DividesEach
<1>6. a = n
  BY <1>3, <1>5
<1> QED BY <1>1, <1>5, <1>6 DEF Whole

-----------------------------------------------------------------------------
(* Arithmetic *)

\* What the operators do to fractions that need not be in lowest terms.
LEMMA PlusRatio ==
  ASSUME NEW a \in Int, NEW b \in Int \ {0}, NEW c \in Int, NEW d \in Int \ {0}
  PROVE  /\ b * d \in Int \ {0} /\ a * d + c * b \in Int
         /\ Plus(Ratio(a, b), Ratio(c, d)) = Ratio(a * d + c * b, b * d)
<1>1. PICK p \in Int, q \in Nat \ {0} : Ratio(a, b) = <<p, q>> /\ p * b = a * q
  BY RatioParts
<1>2. PICK r \in Int, t \in Nat \ {0} : Ratio(c, d) = <<r, t>> /\ r * d = c * t
  BY RatioParts
<1>3. Plus(<<p, q>>, <<r, t>>) = Ratio(p * t + r * q, q * t)
  BY DEF Plus
<1>4. (p * t + r * q) * (b * d) = (a * d + c * b) * (q * t)
  <2>1. (p * t + r * q) * (b * d) = (p * b) * (t * d) + (r * d) * (q * b)
    OBVIOUS
  <2>2. (a * q) * (t * d) + (c * t) * (q * b) = (a * d + c * b) * (q * t)
    OBVIOUS
  <2> QED BY <1>1, <1>2, <2>1, <2>2
<1>5. /\ p * t + r * q \in Int /\ q * t \in Int \ {0}
      /\ a * d + c * b \in Int /\ b * d \in Int \ {0}
  OBVIOUS
<1>6. Ratio(p * t + r * q, q * t) = Ratio(a * d + c * b, b * d)
  <2>1. PICK u \in Int, v \in Int \ {0}, x \in Int, y \in Int \ {0} :
          u = p * t + r * q /\ v = q * t /\ x = a * d + c * b /\ y = b * d
    BY <1>5
  <2>2. u * y = x * v
    BY <1>4, <2>1
  <2> QED BY <2>1, <2>2, RatioEqual
<1> QED BY <1>1, <1>2, <1>3, <1>5, <1>6

LEMMA MinusRatio ==
  ASSUME NEW a \in Int, NEW b \in Int \ {0}, NEW c \in Int, NEW d \in Int \ {0}
  PROVE  /\ b * d \in Int \ {0} /\ a * d - c * b \in Int
         /\ Minus(Ratio(a, b), Ratio(c, d)) = Ratio(a * d - c * b, b * d)
<1>1. PICK p \in Int, q \in Nat \ {0} : Ratio(a, b) = <<p, q>> /\ p * b = a * q
  BY RatioParts
<1>2. PICK r \in Int, t \in Nat \ {0} : Ratio(c, d) = <<r, t>> /\ r * d = c * t
  BY RatioParts
<1>3. Minus(<<p, q>>, <<r, t>>) = Ratio(p * t - r * q, q * t)
  BY DEF Minus
<1>4. (p * t - r * q) * (b * d) = (a * d - c * b) * (q * t)
  <2>1. (p * t - r * q) * (b * d) = (p * b) * (t * d) - (r * d) * (q * b)
    OBVIOUS
  <2>2. (a * q) * (t * d) - (c * t) * (q * b) = (a * d - c * b) * (q * t)
    OBVIOUS
  <2> QED BY <1>1, <1>2, <2>1, <2>2
<1>5. /\ p * t - r * q \in Int /\ q * t \in Int \ {0}
      /\ a * d - c * b \in Int /\ b * d \in Int \ {0}
  OBVIOUS
<1>6. Ratio(p * t - r * q, q * t) = Ratio(a * d - c * b, b * d)
  <2>1. PICK u \in Int, v \in Int \ {0}, x \in Int, y \in Int \ {0} :
          u = p * t - r * q /\ v = q * t /\ x = a * d - c * b /\ y = b * d
    BY <1>5
  <2>2. u * y = x * v
    BY <1>4, <2>1
  <2> QED BY <2>1, <2>2, RatioEqual
<1> QED BY <1>1, <1>2, <1>3, <1>5, <1>6

LEMMA TimesRatio ==
  ASSUME NEW a \in Int, NEW b \in Int \ {0}, NEW c \in Int, NEW d \in Int \ {0}
  PROVE  /\ b * d \in Int \ {0} /\ a * c \in Int
         /\ Times(Ratio(a, b), Ratio(c, d)) = Ratio(a * c, b * d)
<1>1. PICK p \in Int, q \in Nat \ {0} : Ratio(a, b) = <<p, q>> /\ p * b = a * q
  BY RatioParts
<1>2. PICK r \in Int, t \in Nat \ {0} : Ratio(c, d) = <<r, t>> /\ r * d = c * t
  BY RatioParts
<1>3. Times(<<p, q>>, <<r, t>>) = Ratio(p * r, q * t)
  BY DEF Times
<1>4. (p * r) * (b * d) = (a * c) * (q * t)
  <2>1. (p * r) * (b * d) = (p * b) * (r * d)
    OBVIOUS
  <2>2. (a * q) * (c * t) = (a * c) * (q * t)
    OBVIOUS
  <2> QED BY <1>1, <1>2, <2>1, <2>2
<1>5. p * r \in Int /\ q * t \in Int \ {0} /\ a * c \in Int /\ b * d \in Int \ {0}
  OBVIOUS
<1>6. Ratio(p * r, q * t) = Ratio(a * c, b * d)
  <2>1. PICK u \in Int, v \in Int \ {0}, x \in Int, y \in Int \ {0} :
          u = p * r /\ v = q * t /\ x = a * c /\ y = b * d
    BY <1>5
  <2>2. u * y = x * v
    BY <1>4, <2>1
  <2> QED BY <2>1, <2>2, RatioEqual
<1> QED BY <1>1, <1>2, <1>3, <1>5, <1>6

LEMMA NotNaN ==
  ASSUME NEW n \in Int, NEW d \in Int \ {0}
  PROVE  Ratio(n, d) # NaN
<1>1. PICK a \in Int, b \in Nat \ {0} : Ratio(n, d) = <<a, b>>
  BY RatioParts
<1> QED BY <1>1 DEF NaN

LEMMA OverRatio ==
  ASSUME NEW a \in Int, NEW b \in Int \ {0}, NEW c \in Int, NEW d \in Int \ {0}
  PROVE  /\ c # 0 => /\ b * c \in Int \ {0} /\ a * d \in Int
                     /\ Over(Ratio(a, b), Ratio(c, d)) = Ratio(a * d, b * c)
         /\ c = 0 => Over(Ratio(a, b), Ratio(c, d)) = NaN
<1>1. PICK p \in Int, q \in Nat \ {0} : Ratio(a, b) = <<p, q>> /\ p * b = a * q
  BY RatioParts
<1>2. PICK r \in Int, t \in Nat \ {0} : Ratio(c, d) = <<r, t>> /\ r * d = c * t
  BY RatioParts
<1>3. Over(<<p, q>>, <<r, t>>) = Ratio(p * t, q * r)
  BY DEF Over, NaN
<1>4. CASE c = 0
  <2>1. r * d = 0
    BY <1>2, <1>4
  <2>2. r = 0
    BY <2>1
  <2>3. q * r = 0
    BY <2>2
  <2> QED BY <1>1, <1>2, <1>3, <1>4, <2>3 DEF Ratio
<1>5. CASE c # 0
  <2>1. r # 0
    <3>1. c * t # 0
      BY <1>5
    <3>2. 0 * d = 0
      OBVIOUS
    <3> QED BY <1>2, <3>1, <3>2
  <2>2. (p * t) * (b * c) = (a * d) * (q * r)
    <3>1. (p * t) * (b * c) = (p * b) * (c * t)
      OBVIOUS
    <3>2. (a * q) * (r * d) = (a * d) * (q * r)
      OBVIOUS
    <3> QED BY <1>1, <1>2, <3>1, <3>2
  <2>3. p * t \in Int /\ q * r \in Int \ {0} /\ a * d \in Int /\ b * c \in Int \ {0}
    BY <1>5, <2>1
  <2>4. Ratio(p * t, q * r) = Ratio(a * d, b * c)
    <3>1. PICK u \in Int, v \in Int \ {0}, x \in Int, y \in Int \ {0} :
            u = p * t /\ v = q * r /\ x = a * d /\ y = b * c
      BY <2>3
    <3>2. u * y = x * v
      BY <2>2, <3>1
    <3> QED BY <3>1, <3>2, RatioEqual
  <2> QED BY <1>1, <1>2, <1>3, <1>5, <2>3, <2>4
<1> QED BY <1>4, <1>5

LEMMA AboveRatio ==
  ASSUME NEW a \in Int, NEW b \in Nat \ {0}, NEW c \in Int, NEW d \in Nat \ {0}
  PROVE  Above(Ratio(a, b), Ratio(c, d)) <=> a * d > c * b
<1>0. b \in Int \ {0} /\ d \in Int \ {0}
  OBVIOUS
<1>1. PICK p \in Int, q \in Nat \ {0} : Ratio(a, b) = <<p, q>> /\ p * b = a * q
  BY <1>0, RatioParts
<1>2. PICK r \in Int, t \in Nat \ {0} : Ratio(c, d) = <<r, t>> /\ r * d = c * t
  BY <1>0, RatioParts
<1>3. Above(<<p, q>>, <<r, t>>) <=> p * t > r * q
  BY DEF Above
<1>4. (p * t) * (b * d) = (a * d) * (q * t) /\ (r * q) * (b * d) = (c * b) * (q * t)
  <2>1. /\ (p * t) * (b * d) = (p * b) * (t * d) /\ (a * q) * (t * d) = (a * d) * (q * t)
        /\ (r * q) * (b * d) = (r * d) * (q * b) /\ (c * t) * (q * b) = (c * b) * (q * t)
    OBVIOUS
  <2> QED BY <1>1, <1>2, <2>1
<1>5. PICK u \in Int, v \in Int, x \in Int, y \in Int, k \in Nat \ {0}, l \in Nat \ {0} :
        /\ u = p * t /\ v = r * q /\ x = a * d /\ y = c * b
        /\ k = b * d /\ l = q * t
  <2>1. /\ p * t \in Int /\ r * q \in Int /\ a * d \in Int /\ c * b \in Int
        /\ b * d \in Nat \ {0} /\ q * t \in Nat \ {0}
    OBVIOUS
  <2> QED BY <2>1
<1>6. u * k = x * l /\ v * k = y * l
  BY <1>4, <1>5
<1>7. ASSUME NEW e \in Int, NEW f \in Int, NEW g \in Nat \ {0}
      PROVE  e > f <=> e * g > f * g
  <2>1. (e - f) * g = e * g - f * g
    OBVIOUS
  <2>2. e - f > 0 => (e - f) * g > 0
    OBVIOUS
  <2>3. ~(e - f > 0) => ~((e - f) * g > 0)
    OBVIOUS
  <2>4. e * g \in Int /\ f * g \in Int
    OBVIOUS
  <2> QED BY <2>1, <2>2, <2>3, <2>4
<1>8. u > v <=> x > y
  BY <1>6, <1>7
<1> QED BY <1>1, <1>2, <1>3, <1>5, <1>8

-----------------------------------------------------------------------------
(* Results in a given form *)

\* The same with the result given: it is enough to compare the products across.
LEMMA PlusIs ==
  ASSUME NEW a \in Int, NEW b \in Int \ {0}, NEW c \in Int, NEW d \in Int \ {0},
         NEW n \in Int, NEW m \in Int \ {0}, (a * d + c * b) * m = n * (b * d)
  PROVE  Plus(Ratio(a, b), Ratio(c, d)) = Ratio(n, m)
<1>1. PICK u \in Int, v \in Int \ {0} : u = a * d + c * b /\ v = b * d
  BY PlusRatio
<1>2. u * m = n * v
  BY <1>1
<1>3. Plus(Ratio(a, b), Ratio(c, d)) = Ratio(u, v)
  BY <1>1, PlusRatio
<1> QED BY <1>2, <1>3, RatioEqual

LEMMA MinusIs ==
  ASSUME NEW a \in Int, NEW b \in Int \ {0}, NEW c \in Int, NEW d \in Int \ {0},
         NEW n \in Int, NEW m \in Int \ {0}, (a * d - c * b) * m = n * (b * d)
  PROVE  Minus(Ratio(a, b), Ratio(c, d)) = Ratio(n, m)
<1>1. PICK u \in Int, v \in Int \ {0} : u = a * d - c * b /\ v = b * d
  BY MinusRatio
<1>2. u * m = n * v
  BY <1>1
<1>3. Minus(Ratio(a, b), Ratio(c, d)) = Ratio(u, v)
  BY <1>1, MinusRatio
<1> QED BY <1>2, <1>3, RatioEqual

LEMMA TimesIs ==
  ASSUME NEW a \in Int, NEW b \in Int \ {0}, NEW c \in Int, NEW d \in Int \ {0},
         NEW n \in Int, NEW m \in Int \ {0}, (a * c) * m = n * (b * d)
  PROVE  Times(Ratio(a, b), Ratio(c, d)) = Ratio(n, m)
<1>1. PICK u \in Int, v \in Int \ {0} : u = a * c /\ v = b * d
  BY TimesRatio
<1>2. u * m = n * v
  BY <1>1
<1>3. Times(Ratio(a, b), Ratio(c, d)) = Ratio(u, v)
  BY <1>1, TimesRatio
<1> QED BY <1>2, <1>3, RatioEqual

LEMMA OverIs ==
  ASSUME NEW a \in Int, NEW b \in Int \ {0}, NEW c \in Int \ {0}, NEW d \in Int \ {0},
         NEW n \in Int, NEW m \in Int \ {0}, (a * d) * m = n * (b * c)
  PROVE  Over(Ratio(a, b), Ratio(c, d)) = Ratio(n, m)
<1>1. PICK u \in Int, v \in Int \ {0} : u = a * d /\ v = b * c
  BY OverRatio
<1>2. u * m = n * v
  BY <1>1
<1>3. Over(Ratio(a, b), Ratio(c, d)) = Ratio(u, v)
  BY <1>1, OverRatio
<1> QED BY <1>2, <1>3, RatioEqual
=============================================================================
