------------------------------ MODULE Rationals -----------------------------
(***************************************************************************)
(* Exact fractions for code that computes with floating-point numbers: a   *)
(* pair <<n, d>> in lowest terms with d > 0, or NaN for the result of a    *)
(* division by zero and of everything computed from it.                    *)
(***************************************************************************)
EXTENDS Integers

NaN == <<0, 0>>

Gcd[p \in Nat \X Nat] ==
  IF p[2] = 0 THEN p[1] ELSE Gcd[<<p[2], p[1] % p[2]>>]

Magnitude(n) == IF n < 0 THEN -n ELSE n

Ratio(n, d) ==
  IF d = 0 THEN NaN
  ELSE LET g == Gcd[<<Magnitude(n), Magnitude(d)>>]
           sign == IF d < 0 THEN -1 ELSE 1
       IN <<(sign * n) \div g, (sign * d) \div g>>

Whole(n) == <<n, 1>>
Zero == Whole(0)

\* The denominators of NaN make the results NaN.
Plus(p, q) == Ratio(p[1] * q[2] + q[1] * p[2], p[2] * q[2])
Minus(p, q) == Ratio(p[1] * q[2] - q[1] * p[2], p[2] * q[2])
Times(p, q) == Ratio(p[1] * q[1], p[2] * q[2])
Over(p, q) == IF q = NaN THEN NaN ELSE Ratio(p[1] * q[2], p[2] * q[1])
Square(p) == Times(p, p)
Above(p, q) == p[1] * q[2] > q[1] * p[2]
=============================================================================
