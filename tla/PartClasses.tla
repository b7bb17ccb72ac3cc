----------------------------- MODULE PartClasses -----------------------------
(***************************************************************************)
(* The parts of a histogram, axes, transforms and storages, as Python      *)
(* objects: which C++ object a constructor makes (axis.py 269-777,         *)
(* axis_transform.py, storage.py), as an object of which class it is       *)
(* handed out again (ClassRegistry), and which arguments it is printed     *)
(* with.  Libraries derive classes of their own meanwhile.                 *)
(***************************************************************************)
EXTENDS ClassRegistry, AxisTypes, FiniteSets

CONSTANTS
  Libraries,     \* the families of other libraries
  NewTypes,      \* C++ classes that they bring along
  Parents,       \* the classes that they derive from
  MaxClasses     \* bound on the number of classes

\* A C++ class: a template with options.
Cpp(of, options) == [of |-> of, options |-> options]

\* A variant that forgets circular axes.
RegularTypesStraight ==
  {Cpp("regular", os) : os \in (SUBSET Flow) \cup {Flow \cup {"growth"}}}
    \cup {Cpp(of, Flow) : of \in {"regular_numpy", "regular_pow", "regular_trans"}}

RegularTypes ==
  {Cpp("regular", os) : os \in (SUBSET Flow)
                          \cup {Flow \cup {"growth"}, {"circular", "overflow"}}}
    \cup {Cpp(of, Flow) : of \in {"regular_numpy", "regular_pow", "regular_trans"}}

VariableTypes ==
  {Cpp("variable", os) : os \in (SUBSET Flow)
                           \cup {Flow \cup {"growth"}, {"circular", "overflow"}}}

IntegerTypes ==
  {Cpp("integer", os) : os \in (SUBSET Flow) \cup {{"growth"}, {"circular"}}}

CategoryTypes(of) == {Cpp(of, {"overflow"}), Cpp(of, {"growth"})}

StorageNames ==
  <<"int64", "double", "atomic_int64", "unlimited", "weight", "mean",
    "weighted_mean">>

\* The classes of boost_histogram, by their numbers.
Axis == 1
Regular == 2  Variable == 3  Integer == 4  BaseCategory == 5
StrCategory == 6  IntCategory == 7  Boolean == 8
AxisTransform == 9
Pow == 10  Function == 11
Storage == 12
StorageClass(k) == Storage + k
Double == StorageClass(2)

\* Base classes have no family; every other class has it from its statement.
Base == MakeClass(NoClass, "", {}, NoTypes)
BoostClass(parent, types) == MakeClass(parent, Main, {}, types)
StoragePart(of) == MakeClass(Storage, Main, {Cpp(of, {})}, NoTypes)

BoostClasses ==
  <<Base,
    BoostClass(Axis, OwnTypes(RegularTypes)), BoostClass(Axis, OwnTypes(VariableTypes)),
    BoostClass(Axis, OwnTypes(IntegerTypes)), BoostClass(Axis, NoTypes),
    BoostClass(BaseCategory, OwnTypes(CategoryTypes("category_str"))),
    BoostClass(BaseCategory, OwnTypes(CategoryTypes("category_int"))),
    BoostClass(Axis, OwnTypes({Cpp("boolean", {})})),
    Base,
    BoostClass(AxisTransform, OwnTypes({Cpp("pow", {})})),
    BoostClass(AxisTransform, OwnTypes({Cpp("func_transform", {})})),
    Base>> \o [k \in DOMAIN StorageNames |-> StoragePart(StorageNames[k])]

BuiltIn == DOMAIN BoostClasses

\* What libraries bring along is not what boost_histogram has registered or
\* derived its storages from.
ASSUME NewTypesAssumption ==
  /\ IsFiniteSet(NewTypes)
  /\ \A c \in BuiltIn :
       /\ BoostClasses[c].bases \cap NewTypes = {}
       /\ BoostClasses[c].types # NoTypes => BoostClasses[c].types[1] \cap NewTypes = {}
-----------------------------------------------------------------------------
(* Constructors *)

\* A call, by the options and the class of the transform that are passed, and
\* the C++ axis it makes.
Made(options, transform, cpp) ==
  [options |-> options, transform |-> transform, cpp |-> cpp]

\* The template of the axis that _produce of a transform makes.
Produce(transform) ==
  CASE transform = Pow -> "regular_pow" [] transform = Function -> "regular_trans"

\* The calls with options only that do not raise.
Plain(of, family) ==
  {Made(os, NoClass, Cpp(of, Produced(family, os))) :
     os \in {os \in SUBSET Options : Accepts(family, os)}}

RegularAxes ==
  Plain("regular", "regular")
    \cup {Made(Flow, t, Cpp(Produce(t), Flow)) : t \in {Pow, Function}}
VariableAxes == Plain("variable", "variable")
IntegerAxes == Plain("integer", "integer")
StrCategoryAxes == Plain("category_str", "category")
IntCategoryAxes == Plain("category_int", "category")
BooleanAxes == {Made({}, NoClass, Cpp("boolean", {}))}

AxisClasses == {Regular, Variable, Integer, StrCategory, IntCategory, Boolean}

Constructor ==
  [class \in AxisClasses |->
     CASE class = Regular -> RegularAxes
       [] class = Variable -> VariableAxes
       [] class = Integer -> IntegerAxes
       [] class = StrCategory -> StrCategoryAxes
       [] class = IntCategory -> IntCategoryAxes
       [] class = Boolean -> BooleanAxes]

\* The axes that programs make, by class and C++ object, with the one that
\* histogramdd makes without a constructor (numpy.py 71).
CppAxes ==
  (UNION {{<<class, made.cpp>> : made \in Constructor[class]} : class \in AxisClasses})
    \cup {<<Regular, Cpp("regular_numpy", Flow)>>}

\* The C++ transform of an axis, for Axis.transform, which is None on others.
TransformIn(cpp) ==
  CASE cpp.of = "regular_pow" -> {Cpp("pow", {})}
    [] cpp.of = "regular_trans" -> {Cpp("func_transform", {})}
    [] OTHER -> {}

\* The C++ transform that the constructor of a transform makes, of the one type
\* in _types; it raises ValueError if a library has added a type of its own.
NewTransform(c) ==
  LET types == classes[Holder(classes)[c]].types[1]
  IN IF Cardinality(types) = 1 THEN types ELSE {}
-----------------------------------------------------------------------------
(* Printing *)

\* The options of the call that an axis is printed as: those that are named,
\* and the defaults of those that are not.
PrintedCategory(cpp) == cpp.options \cap {"growth"}

PrintedFlow(cpp) ==
  CASE "growth" \in cpp.options -> Flow \cup {"growth"}
    [] "circular" \in cpp.options -> Flow \cup {"circular"}
    [] OTHER -> cpp.options \cap Flow

Printed(class, cpp) ==
  CASE class = Boolean -> {}
    [] class \in {StrCategory, IntCategory} -> PrintedCategory(cpp)
    [] OTHER -> PrintedFlow(cpp)

\* The constructor that a class has or inherits.
ConstructorOf(c) ==
  CHOOSE class \in AxisClasses : DescendsFrom(classes, c, class)
-----------------------------------------------------------------------------
(* Processes *)

LibraryClasses == {p \in DOMAIN classes : p \in Parents \/ p \notin BuiltIn}

ClassStatement ==
  /\ Len(classes) < MaxClasses
  /\ \E p \in LibraryClasses, family \in Libraries \cup {Main} :
       \/ Derive(p, family)
       \/ DeriveHidden(p, family)
       \/ \E ts \in (SUBSET NewTypes) \ {{}} : DeriveRegistered(p, family, ts)

CollectClass == \E c \in DOMAIN classes : Collect(c)

InitClasses == classes = BoostClasses
-----------------------------------------------------------------------------
(* Correctness *)

\* What a cast for a family has to make of a C++ object that a class of
\* boost_histogram stands for: an object of that class or one derived from it,
\* of the family, if it has any that are not hidden from cast.
StandsFor(c, family, class) ==
  LET own == {d \in DOMAIN classes :
                /\ classes[d].exists /\ classes[d].family = family
                /\ DescendsFrom(classes, d, class)
                /\ Holder(classes)[d] = Holder(classes)[class]}
  IN /\ c # NoClass /\ DescendsFrom(classes, c, class)
     /\ classes[c].family = IF own # {} THEN family ELSE Main

ComesBack(family, class, cpp, root) ==
  StandsFor(Cast(classes, family, cpp, root), family, class)

\* The call that an axis is printed as makes the same axis, and the transform
\* that it is printed with is the one that was passed.
PrintsAs(c, made) ==
  /\ Made(Printed(ConstructorOf(c), made.cpp), made.transform, made.cpp)
       \in Constructor[ConstructorOf(c)]
  /\ \A t \in TransformIn(made.cpp) :
       ComesBack(classes[c].family, made.transform, t, AxisTransform)

\* Whatever arguments an axis, its transform or a storage is made with, and
\* whatever classes libraries have derived in between, some of them hidden,
\* registered for types of their own or not even bound: a histogram of any
\* family hands the part out as what it was made as, in the family's own class
\* if there is one, and printed as a call that would make the same axis again
\* (utils.py 33-62, 101-164).
PartsComeBack ==
  \A family \in Libraries \cup {Main} :
    /\ \A ax \in CppAxes :
         LET c == Cast(classes, family, ax[2], Axis)
         IN /\ StandsFor(c, family, ax[1])
            /\ \A made \in Constructor[ax[1]] : made.cpp = ax[2] => PrintsAs(c, made)
    /\ \A class \in {Pow, Function} : \A t \in NewTransform(class) :
         ComesBack(family, class, t, AxisTransform)
    /\ \A k \in DOMAIN StorageNames :
         ComesBack(family, StorageClass(k), Cpp(StorageNames[k], {}), Storage)

\* A class that one library derives, registers, fails to register or loses
\* never changes what the C++ classes of boost_histogram become in the
\* histograms of another, nor in those of boost_histogram itself.
OtherFamiliesUntouched ==
  [][ \A c \in DOMAIN classes' :
        c \notin DOMAIN classes \/ classes[c].exists # classes'[c].exists
        => \A family \in (Libraries \cup {Main}) \ {classes'[c].family} :
             \A ax \in CppAxes :
               Cast(classes', family, ax[2], Axis)
                 = Cast(classes, family, ax[2], Axis) ]_classes
=============================================================================
