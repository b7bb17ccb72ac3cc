------------------------------ MODULE MCUnpickling ------------------------------
(***************************************************************************)
(* Objects to pickle: accumulators by themselves, and histograms with up   *)
(* to two axes of every kind of layout and every storage.  The classes of  *)
(* Boost.Histogram have the members here that they have there.  Around one *)
(* of the histograms, two libraries derive up to two classes.              *)
(***************************************************************************)
EXTENDS Unpickling

RegularMembers(transform) == <<transform, Number, Object, Number, Number>>
IntegerLayout == Class(<<Number, Object, Number>>)
VariableLayout == Class(<<Array, Object>>)
IntCategoryLayout == Class(<<Array, Object>>)
StrCategoryLayout == Class(<<Vector(Number), Object>>)
Identity == Class(<<>>)

AxisLayouts ==
  <<Class(RegularMembers(Identity)), Class(RegularMembers(FuncTransform)),
    RegularNumpy(RegularMembers(Identity)), IntegerLayout, VariableLayout,
    IntCategoryLayout, StrCategoryLayout>>

AxisClassesInCpp ==
  <<Cpp("regular", {"overflow"}), Cpp("regular_trans", Flow),
    Cpp("regular_numpy", Flow), Cpp("integer", Flow),
    Cpp("variable", {"circular", "overflow"}), Cpp("category_int", {"overflow"}),
    Cpp("category_str", {"growth"})>>

AxisValues ==
  <<<< <<>>, <<4>>, <<11>>, <<12>>, <<13>> >>,
    << <<<<21>>, <<22>>, <<23>>, <<24>>>>, <<4>>, <<25>>, <<26>>, <<27>> >>,
    << <<>>, <<4>>, <<31>>, <<32>>, <<33>>, <<34>> >>,
    << <<3>>, <<41>>, <<42>> >>,
    << <<51, 52, 53>>, <<54>> >>,
    << <<>>, <<61>> >>,
    << << <<71>>, <<72>> >>, <<73>> >> >>

DenseStorage == Class(<<Class(<<Array>>)>>)
UnlimitedStorage == Class(<<Number, Number, Array>>)

Storages ==
  <<[type |-> DenseStorage, value |-> <<<<<<81, 82, 83>>>>>>],
    [type |-> UnlimitedStorage, value |-> <<<<1>>, <<2>>, <<81, 82>>>>],
    [type |-> AtomicStorage, value |-> <<<<81, 82>>>>],
    [type |-> WeightStorage, value |-> <<<<<<81, 82>>, <<83, 84>>>>>>],
    [type |-> MeanStorage,
     value |-> <<<<<<81, 82, 83>>, <<84, 85, 86>>>>>>],
    [type |-> WeightedMeanStorage, value |-> <<<<<<81, 82, 83, 84>>>>>>]>>

Histogram(axes, storage) ==
  [type |-> Class(<<Vector(AxisVariant(AxisLayouts)), storage.type>>),
   value |-> <<[i \in DOMAIN axes |->
                  <<<<[which |-> axes[i], is |-> AxisValues[axes[i]]]>>>>],
               storage.value>>,
   axes |-> [i \in DOMAIN axes |-> AxisClassesInCpp[axes[i]]]]

Single(type, value) == [type |-> type, value |-> value, axes |-> <<>>]

Accumulators ==
  <<Single(WeightedSum, <<<<1>>, <<2>>>>),
    Single(Mean, <<<<1>>, <<2>>, <<3>>>>),
    Single(WeightedMean, <<<<1>>, <<2>>, <<3>>, <<4>>>>)>>

\* Histograms without axes, with one and with two.
MCObjects ==
  LET n == Len(AxisLayouts)
      Stored(axes, k) == Histogram(axes, Storages[(k % Len(Storages)) + 1])
  IN Accumulators
       \o [k \in 1 .. Len(Storages) |-> Stored(<<>>, k)]
       \o [k \in 1 .. n |-> Stored(<<k>>, k)]
       \o [k \in 1 .. n * n |-> Stored(<<((k - 1) \div n) + 1, (k % n) + 1>>, k)]

\* Nothing is nested deeper than a member of the transform of an axis.
MCPieces ==
  LET level[n \in 0 .. 8] ==
        IF n = 0
        THEN {<<MCObjects[k].type, MCObjects[k].value>> : k \in DOMAIN MCObjects}
        ELSE UNION {Parts(p[1], p[2]) : p \in level[n - 1]}
  IN UNION {level[n] : n \in 0 .. 8}

MCLibraries == {"hist", "mine"}
MCNewTypes == {Cpp("new", {})}
MCParents == {Regular, Double}
MCMaxClasses == Len(BoostClasses) + 2
\* One with a regular and a regular_numpy axis.
MCWatched ==
  {CHOOSE k \in DOMAIN MCObjects :
     MCObjects[k].axes = <<AxisClassesInCpp[1], AxisClassesInCpp[3]>>}

\* Around that one, the classes matter; around the others, the states do.
MCFiles ==
  [k \in DOMAIN MCObjects |->
     IF k \in MCWatched
     THEN {[version |-> "0", known |-> <<FALSE>>, label |-> <<"h">>],
           [version |-> "classic", known |-> <<>>, label |-> <<>>]}
     ELSE States \cup ClassicStates]
=============================================================================
