-------------------------- MODULE MCHistogramObject --------------------------
(***************************************************************************)
(* Instances of HistogramObject for TLC.  A C++ histogram per Histogram    *)
(* is enough, and two dicts per Histogram and one for the program's Axis.  *)
(***************************************************************************)
EXTENDS HistogramObject, TLC

CONSTANTS h1, h2, h3, h4

Handles == {h1, h2, h3, h4}
HandleSymmetry == Permutations(Handle)

Cores == 1 .. Cardinality(Handle)
Dicts == 0 .. 2 * Cardinality(Handle)

\* Everything that bears on the variance and on which dict is whose, but no
\* conversion.
ContentProgram ==
  [kinds |-> {"simple", "weight"}, most |-> 3,
   uses |-> {"fill", "weights", "reset", "scale", "add", "iadd", "copy",
             "pickle", "drop"}]

\* Conversion, and labels, which addition compares.
SharingProgram ==
  [kinds |-> {"simple"}, most |-> 4,
   uses |-> {"iadd", "copy", "convert", "label", "setitem"}]

AddingProgram ==
  [kinds |-> {"simple", "weight"}, most |-> 2, uses |-> {"fill", "iadd"}]

SoundPrograms == {ContentProgram, SharingProgram}
MixedPrograms == {AddingProgram}
=============================================================================
