----------------------------- MODULE ArraySplit ------------------------------
(***************************************************************************)
(* numpy.array_split(a, threads) as Histogram.fill uses it (hist.py        *)
(* 445-457): an array of length n is cut into t consecutive sections, the  *)
(* first n % t of them one element longer than the others.  Sections are   *)
(* numbered 1..t, elements 0..n-1.                                         *)
(***************************************************************************)
EXTENDS Integers

SectionLen(n, t, i) == n \div t + (IF i <= n % t THEN 1 ELSE 0)

\* Number of elements in the sections before section i.
SectionStart(n, t, i) ==
  (i - 1) * (n \div t) + (IF i - 1 <= n % t THEN i - 1 ELSE n % t)

Section(n, t, i) ==
  SectionStart(n, t, i) .. SectionStart(n, t, i) + SectionLen(n, t, i) - 1
=============================================================================
