--------------------------- MODULE MCFillArguments ---------------------------
(***************************************************************************)
(* An instance of FillArguments for TLC: a histogram with two axes.        *)
(***************************************************************************)
EXTENDS FillArguments

CONSTANTS MaxLen, MaxThreads

Lengths == 0 .. MaxLen

\* Two arrays of any lengths and nothing else.
UnequalArrays ==
  [rank : {2}, args : Lengths \X Lengths, weight : {Absent}, sample : {Absent},
   threads : 1 .. MaxThreads, mean : {FALSE}]
=============================================================================
