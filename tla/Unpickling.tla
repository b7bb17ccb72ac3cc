------------------------------ MODULE Unpickling ------------------------------
(***************************************************************************)
(* Opening pickles: Histogram.__setstate__ (hist.py 541-561).  A file that *)
(* this version or an earlier one has written is opened in a process that  *)
(* may have classes which the one that wrote it did not have.              *)
(*                                                                         *)
(* The C++ histogram in the file is one tuple (Archive); the axes of the   *)
(* Histogram are made from what is loaded of it, as objects of the classes *)
(* that cast finds (PartClasses).                                          *)
(***************************************************************************)
EXTENDS PartClasses, Archive

CONSTANTS
  Watched,     \* the objects that libraries derive classes around
  Files        \* Files[k] is the states in which object k is pickled

\* Objects that are C++ histograms say of which C++ classes their axes are;
\* it is <<>> for other objects and for histograms without axes.
Axes == Objects[object].axes

VARIABLE opened    \* what __setstate__ has made, a sequence of at most one

\* States of __getstate__, of which those from before 0.12 have no flag and
\* those from before 0.11 are a dict, with metadata from 0.8 on.  A sequence
\* of at most one element stands for a key that may be missing.
States ==
  [version : {"0"}, known : {<<TRUE>>, <<FALSE>>, <<>>}, label : {<<"h">>}]
    \cup [version : {"1"}, known : {<<TRUE>>}, label : {<<"h">>}]
ClassicStates == [version : {"classic"}, known : {<<>>}, label : {<<"h">>, <<>>}]

ASSUME FilesAssumption ==
  /\ DOMAIN Files = DOMAIN Objects
  /\ \A k \in DOMAIN Files : Files[k] \subseteq States \cup ClassicStates

\* Whatever axes a histogram has, programs have made them.
ASSUME AxesAssumption ==
  \A k \in DOMAIN Objects : \A i \in DOMAIN Objects[k].axes :
    \E class \in AxisClasses : <<class, Objects[k].axes[i]>> \in CppAxes

IsClassic(state) == state.version = "classic"
TooNew(state) == state.version = "1"

\* What a variable holds: a dict with the label of an axis, or the label.
InDict(x) == [dict |-> TRUE, label |-> x]
Raw(x) == [dict |-> FALSE, label |-> x]

\* The slot of the tuple with the metadata of axis i, the only Python object
\* that is a member of the axis itself, and what it says in histories of
\* saving and of loading.
MetadataPath(i) ==
  LET variant == Objects[object].type.members[1].of.members[1].members[1]
      members == variant.cases[Objects[object].value[1][i][1][1].which].members
  IN <<1, i, 1, 1, 1, CHOOSE k \in DOMAIN members : members[k] = Object>>
Slot(entries, path) ==
  entries[CHOOSE k \in DOMAIN entries : entries[k][1] = path][2]

\* _hist.axis(i).metadata, which versions before 0.11 saved without a dict.
MetadataIn(state, i) ==
  LET x == Slot(loaded, MetadataPath(i))
  IN IF IsClassic(state) THEN Raw(x) ELSE InDict(x)

\* A variant that leaves the metadata of old axes as they are.
AxisDictAsLoaded(state, i) == MetadataIn(state, i)

AxisDict(state, i) ==
  IF IsClassic(state) THEN InDict(MetadataIn(state, i).label)
  ELSE MetadataIn(state, i)

\* An Axis object refers to the dict of its C++ axis.
ConvertCpp(class, dict) == [class |-> class, dict |-> dict]
AxisOf(family, state, i) ==
  ConvertCpp(Cast(classes, family, Axes[i], Axis), AxisDict(state, i))
GenerateAxes(family, state) == [i \in DOMAIN Axes |-> AxisOf(family, state, i)]

\* The axes are made anew, each with the dict of its C++ axis; a state that is
\* too new raises RuntimeError.
SetState(family, state) ==
  /\ phase = "done" /\ opened = <<>>
  /\ opened' =
       <<[family |-> family, state |-> state,
          raises |-> TooNew(state),
          known |-> IF state.known = <<>> THEN TRUE ELSE state.known[1],
          label |-> IF state.label = <<>> THEN "None" ELSE state.label[1],
          axes |-> GenerateAxes(family, state)]>>
  /\ UNCHANGED <<classes, vars>>
-----------------------------------------------------------------------------
UnpicklingInit == Init /\ InitClasses /\ opened = <<>>

UnpicklingNext ==
  \/ Next /\ UNCHANGED <<classes, opened>>
  \/ /\ phase = "done" /\ opened = <<>> /\ object \in Watched
     /\ ClassStatement \/ CollectClass
     /\ UNCHANGED <<vars, opened>>
  \/ /\ Axes # <<>>
     /\ \E family \in Libraries \cup {Main}, state \in Files[object] :
          SetState(family, state)

UnpicklingSpec ==
  /\ UnpicklingInit /\ [][UnpicklingNext]_<<vars, classes, opened>>
  /\ WF_vars(Next)
-----------------------------------------------------------------------------
(* Correctness *)

\* A state gives what was saved in it: the flag that it had, or that the
\* variance is known; its label; and the label of each axis, which is not in
\* the same place in all of them, in the dict of the axis where .metadata looks
\* for it.  A state of a later version is refused.
StateRead(h) ==
  \/ h.raises /\ TooNew(h.state)
  \/ /\ ~h.raises /\ ~TooNew(h.state)
     /\ h.known # (h.state.known = <<FALSE>>)
     /\ h.label = (IF h.state.label = <<>> THEN "None" ELSE h.state.label[1])
     /\ \A i \in DOMAIN Axes : h.axes[i].dict = InDict(Slot(saved, MetadataPath(i)))

\* The axes are of the classes they were made in, or of what a library has
\* derived from those.
ClassesFound(h) ==
  \A i \in DOMAIN Axes :
    /\ h.axes[i].class # NoClass
    /\ \E class \in AxisClasses :
         /\ <<class, Axes[i]>> \in CppAxes
         /\ DescendsFrom(classes, h.axes[i].class, class)

\* A file of any of the generations, opened by a Histogram of any family in a
\* process with any classes, gives the Histogram that was saved, with all that
\* its state says and with axes of the classes they had.
OpensEveryGeneration ==
  \A k \in DOMAIN opened :
    StateRead(opened[k]) /\ (opened[k].raises \/ ClassesFound(opened[k]))
=============================================================================
