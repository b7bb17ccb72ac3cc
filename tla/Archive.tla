------------------------------- MODULE Archive -------------------------------
(***************************************************************************)
(* make_pickle: an object is saved as one flat tuple of Python primitives, *)
(* and loaded by going through its C++ type in the same order.  The tuple  *)
(* says nothing of the type but a version number per class and a length    *)
(* per vector, so that saving and loading must agree on every slot.        *)
(*                                                                         *)
(* The recursion of operator<< and operator>> is a stack of what is still  *)
(* to be saved or loaded.  What a slot holds is a sequence of numbers, one *)
(* for a number or a Python object, any number of them for an array.       *)
(***************************************************************************)
EXTENDS Integers, Sequences, SequencesExt

CONSTANTS
  Objects,   \* a sequence of [type |-> ..., value |-> ..., axes |-> ...]
  Pieces     \* <<type, value>> of the objects and of all that they consist of

(* The types that the overloads of the archives tell apart *)
Number == [sort |-> "number"]      \* arithmetic types and strings
Object == [sort |-> "object"]      \* Python objects, and metadata
Array == [sort |-> "array"]        \* NumPy arrays, vectors of numbers
Vector(t) == [sort |-> "vector", of |-> t]
Class(ts) == [sort |-> "class", members |-> ts]
\* A variant as Boost.Histogram saves it: its number and what it holds, in the
\* proxy class that the class of the variant is saved by.
Variant(ts) == [sort |-> "variant", cases |-> ts]
AxisVariant(ts) == Class(<<Class(<<Variant(ts)>>)>>)
\* The memory of a storage whose cells consist of n doubles.
Doubles(n) == [sort |-> "doubles", width |-> n]

\* Classes of this repository.
WeightedSum == Class(<<Number, Number>>)
Mean == Class(<<Number, Number, Number>>)
WeightedMean == Class(<<Number, Number, Number, Number>>)
FuncTransform == Class(<<Object, Object, Object, Object>>)
\* regular_numpy, from the members of a regular axis
RegularNumpy(regular) == Class(Append(regular, Number))
AtomicStorage == Class(<<Array>>)
WeightStorage == Class(<<Doubles(2)>>)
MeanStorage == Class(<<Doubles(3)>>)
WeightedMeanStorage == Class(<<Doubles(4)>>)

\* A sequence of anything.
Sequence(s) == Len(s) \in Nat /\ s = [i \in 1 .. Len(s) |-> s[i]]

\* What values of a type look like, one level deep, and what they consist of.
Fits(type, value) ==
  \/ type.sort \in {"number", "object", "array"}
  \/ type.sort = "vector" /\ Sequence(value)
  \/ type.sort = "class" /\ Sequence(value) /\ DOMAIN value = DOMAIN type.members
  \/ type.sort = "variant" /\ value.which \in DOMAIN type.cases
  \/ /\ type.sort = "doubles" /\ type.width \in Nat \ {0}
     /\ Sequence(value)
     /\ \A i \in DOMAIN value : Sequence(value[i]) /\ Len(value[i]) = type.width

Parts(type, value) ==
  CASE type.sort = "vector" -> {<<type.of, value[i]>> : i \in DOMAIN value}
    [] type.sort = "class" -> {<<type.members[i], value[i]>> : i \in DOMAIN value}
    [] type.sort = "variant" -> {<<type.cases[value.which], value.is>>}
    [] OTHER -> {}

ASSUME PiecesAssumption ==
  /\ \A k \in DOMAIN Objects : <<Objects[k].type, Objects[k].value>> \in Pieces
  /\ \A p \in Pieces : Fits(p[1], p[2]) /\ Parts(p[1], p[2]) \subseteq Pieces

VARIABLES
  object,    \* the number of the object that is pickled
  phase,     \* "saving", "loading" or "done"
  todo,      \* the stack: what is next is its head
  tup, cur,
  saved,     \* history: what was saved, with its place in the object
  loaded     \* what has been loaded, with its place

vars == <<object, phase, todo, tup, cur, saved, loaded>>
-----------------------------------------------------------------------------
Top == Head(todo)
Sort == Top.type.sort
Place(i) == Append(Top.path, i)

Slots == {"number", "object", "array"}

\* The cells of a storage and the flat array.
Flat(cells, n) ==
  [k \in 1 .. Len(cells) * n |-> cells[((k - 1) \div n) + 1][((k - 1) % n) + 1]]
\* A variant that divides by the width of another accumulator.
FromFlatPairs(a, n) ==
  [i \in 1 .. Len(a) \div 2 |-> [j \in 1 .. 2 |-> a[(i - 1) * 2 + j]]]

FromFlat(a, n) ==
  [i \in 1 .. Len(a) \div n |-> [j \in 1 .. n |-> a[(i - 1) * n + j]]]

\* One entry for a slot, or one for every cell.
Entry(contents) == <<<<Top.path, contents>>>>
CellEntries(cells) == [i \in DOMAIN cells |-> <<Place(i), cells[i]>>]
-----------------------------------------------------------------------------
(* tuple_oarchive *)

Put(kind, contents, entries, parts) ==
  /\ tup' = Append(tup, [kind |-> kind, is |-> contents])
  /\ saved' = saved \o entries
  /\ todo' = parts \o Tail(todo)
  /\ UNCHANGED <<object, phase, cur, loaded>>

Saving(sort) == phase = "saving" /\ todo # <<>> /\ Sort = sort

Part(t, i, v) == [type |-> t, path |-> Place(i), value |-> v]

SaveSlot ==
  \E kind \in Slots :
    Saving(kind) /\ Put(kind, Top.value, Entry(Top.value), <<>>)

SaveVector ==
  /\ Saving("vector")
  /\ LET size == <<Len(Top.value)>>
     IN Put("number", size, Entry(size),
            [i \in DOMAIN Top.value |->
               Part(Top.type.of, i, Top.value[i])])

\* A variant that writes no version.
SaveClassUnversioned ==
  /\ Saving("class")
  /\ todo' = [i \in DOMAIN Top.value |->
                Part(Top.type.members[i], i, Top.value[i])] \o Tail(todo)
  /\ UNCHANGED <<object, phase, tup, cur, saved, loaded>>

SaveClass ==
  /\ Saving("class")
  /\ Put("number", <<0>>, Entry(<<0>>),
         [i \in DOMAIN Top.value |->
            Part(Top.type.members[i], i, Top.value[i])])

SaveVariant ==
  /\ Saving("variant")
  /\ LET which == Top.value.which
     IN Put("number", <<which>>, Entry(<<which>>),
            <<Part(Top.type.cases[which], 1, Top.value.is)>>)

SaveDoubles ==
  /\ Saving("doubles")
  /\ Put("array", Flat(Top.value, Top.type.width),
         CellEntries(Top.value), <<>>)
-----------------------------------------------------------------------------
(* tuple_iarchive *)

\* Any slot passes for a Python object; a number that is something else fails
\* to be cast, and memory that is no array cannot be read.
Get(kind, entries, parts) ==
  /\ cur <= Len(tup)
  /\ kind \in {"object", tup[cur].kind}
  /\ cur' = cur + 1
  /\ loaded' = loaded \o entries
  /\ todo' = parts \o Tail(todo)
  /\ UNCHANGED <<object, phase, tup, saved>>

Loading(sort) == phase = "loading" /\ todo # <<>> /\ Sort = sort

Contents == tup[cur].is
Room(t, i) == [type |-> t, path |-> Place(i)]

LoadSlot ==
  \E kind \in Slots : Loading(kind) /\ Get(kind, Entry(Contents), <<>>)

LoadVector ==
  /\ Loading("vector")
  /\ Get("number", Entry(Contents),
         [i \in 1 .. Contents[1] |-> Room(Top.type.of, i)])

\* The saved version is passed to serialize.
LoadClass ==
  /\ Loading("class")
  /\ Get("number", Entry(Contents),
         [i \in DOMAIN Top.type.members |-> Room(Top.type.members[i], i)])

\* A number that is none of the cases is refused.
LoadVariant ==
  /\ Loading("variant")
  /\ Contents[1] \in DOMAIN Top.type.cases
  /\ Get("number", Entry(Contents), <<Room(Top.type.cases[Contents[1]], 1)>>)

LoadDoubles ==
  /\ Loading("doubles")
  /\ Get("array", CellEntries(FromFlat(Contents, Top.type.width)), <<>>)
-----------------------------------------------------------------------------
(* make_pickle *)

Init ==
  /\ object \in DOMAIN Objects
  /\ phase = "saving"
  /\ todo = <<[type |-> Objects[object].type, path |-> <<>>,
               value |-> Objects[object].value]>>
  /\ tup = <<>> /\ cur = 1
  /\ saved = <<>> /\ loaded = <<>>

\* The other function takes the tuple, to make another object of the type.
StartLoading ==
  /\ phase = "saving" /\ todo = <<>>
  /\ phase' = "loading"
  /\ todo' = <<[type |-> Objects[object].type, path |-> <<>>]>>
  /\ UNCHANGED <<object, tup, cur, saved, loaded>>

Return ==
  /\ phase = "loading" /\ todo = <<>>
  /\ phase' = "done"
  /\ UNCHANGED <<object, todo, tup, cur, saved, loaded>>

Save == SaveSlot \/ SaveVector \/ SaveClass \/ SaveVariant \/ SaveDoubles
Load == LoadSlot \/ LoadVector \/ LoadClass \/ LoadVariant \/ LoadDoubles

Next == Save \/ StartLoading \/ Load \/ Return

Spec == Init /\ [][Next]_vars /\ WF_vars(Next)
-----------------------------------------------------------------------------
(* Correctness *)

\* What is loaded is what was saved, each piece to the place it had, from the
\* first slot on, and at the end the whole of it: every version, length,
\* array, cell and member of an object of any type, though the tuple does not
\* say what its slots are ("The Boost approach stores very little meta-data",
\* make_pickle.hpp 17-20).
LoadedAsSaved ==
  /\ IsPrefix(loaded, saved)
  /\ phase = "done" => loaded = saved /\ cur = Len(tup) + 1

\* Every object that can be pickled can be unpickled: loading never meets the
\* end of the tuple (BOOST_ASSERT, make_pickle.hpp 284) or a slot of the wrong
\* type.
UnpicklesAll == <>(phase = "done")
=============================================================================
