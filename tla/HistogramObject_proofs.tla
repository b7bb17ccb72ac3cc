------------------------ MODULE HistogramObject_proofs ------------------------
(***************************************************************************)
(* Theorems about HistogramObject, for any number of Histograms, C++       *)
(* histograms and dicts, and any program.                                  *)
(***************************************************************************)
EXTENDS HistogramObject, TLAPS

\* What the allocator hands out is new to everyone.
LEMMA Fresh ==
  ASSUME TypeOK, CanAllocate
  PROVE  /\ FreshHandle \in Handle /\ ~Exists(FreshHandle)
         /\ FreshCore \in Core /\ \A h \in Handle : hist[h] # FreshCore
         /\ FreshDict \in Dict /\ FreshDict # UserDict
         /\ \A h \in Handle : Exists(h) => FreshDict \notin DictsOf(h)
<1>1. FreeHandles # {} /\ FreeCores # {} /\ FreeDicts # {}
  BY DEF CanAllocate
<1>2. FreshHandle \in FreeHandles /\ FreshCore \in FreeCores /\ FreshDict \in FreeDicts
  BY <1>1 DEF FreshHandle, FreshCore, FreshDict
<1>3. FreshHandle \in Handle /\ ~Exists(FreshHandle)
  BY <1>2 DEF FreeHandles
<1>4. FreshCore \in Core /\ \A h \in Handle : hist[h] # FreshCore
  BY <1>2 DEF FreeCores, Holders
<1>5. FreshDict \in Dict /\ FreshDict \notin DictsInUse
  BY <1>2 DEF FreeDicts
<1>6. FreshDict # UserDict /\ \A h \in Handle : Exists(h) => FreshDict \notin DictsOf(h)
  BY <1>5 DEF DictsInUse
<1> QED BY <1>3, <1>4, <1>5, <1>6

LEMMA KindsNotEmpty ==
  ASSUME TypeOK
  PROVE  (CHOOSE k \in Kinds : TRUE) \in Kinds
BY HeapAssumption DEF TypeOK, Kinds

\* Every value that a step of a Histogram may refer to is in its range.
LEMMA InRange ==
  ASSUME TypeOK, NEW h \in Handle, Exists(h)
  PROVE  /\ hist[h] \in Core /\ kind[hist[h]] \in Kinds
         /\ content[hist[h]] \in SUBSET Origin
         /\ metadata[hist[h]] \in Dict /\ label[metadata[hist[h]]] \in Label
         /\ axesDict[h] \in Dict /\ known[h] \in BOOLEAN
BY DEF TypeOK, Exists

-----------------------------------------------------------------------------
(* Type correctness *)

LEMMA AllocateType ==
  ASSUME TypeOK, program' = program, NEW r \in Handle,
         NEW k \in Kinds, NEW o \in SUBSET Origin, NEW b \in BOOLEAN,
         NEW d \in Dict, Allocate(r, k, o, b), Link(r, d),
         label' \in [Dict -> Label], built' \in {built, built \cup {r}}
  PROVE  TypeOK'
<1>1. FreshCore \in Core /\ Kinds' = Kinds
  BY Fresh DEF Allocate, Kinds
<1>2. /\ hist' \in [Handle -> Core \cup {NoCore}]
      /\ known' \in [Handle -> BOOLEAN]
      /\ kind' \in [Core -> Kinds]
      /\ content' \in [Core -> SUBSET Origin]
  BY <1>1 DEF Allocate, TypeOK
<1>3. axesDict' \in [Handle -> Dict] /\ metadata' \in [Core -> Dict]
  BY <1>1 DEF Link, TypeOK
<1>4. built' \subseteq {h \in Handle : Exists(h)'}
  BY <1>1, HeapAssumption DEF Allocate, Exists, TypeOK
<1> QED BY <1>1, <1>2, <1>3, <1>4 DEF TypeOK, Exists

LEMMA NewHistType ==
  ASSUME TypeOK, program' = program, NEW r \in Handle, NEW h \in Handle,
         Exists(h), NEW o \in SUBSET Origin, NEW b \in BOOLEAN,
         NewHist(r, h, o, b)
  PROVE  TypeOK'
<1>1. CanAllocate
  BY DEF NewHist, Allocate
<1>2. label' \in [Dict -> Label]
  BY <1>1, Fresh, InRange DEF NewHist, TypeOK
<1>3. kind[hist[h]] \in Kinds /\ FreshDict \in Dict
  BY <1>1, Fresh, InRange
<1> QED BY <1>2, <1>3, AllocateType DEF NewHist

LEMMA MakeType ==
  ASSUME TypeOK, program' = program, NEW r \in Handle, Make(r)
  PROVE  TypeOK'
<1>1. CASE New(r)
  <2>1. PICK k \in Kinds : Allocate(r, k, {}, TRUE)
    BY <1>1 DEF New
  <2>2. /\ Link(r, UserDict) /\ label' \in [Dict -> Label]
        /\ built' = built \cup {r} /\ UserDict \in Dict
    BY <1>1, HeapAssumption DEF New, TypeOK
  <2>3. {} \in SUBSET Origin /\ TRUE \in BOOLEAN
    OBVIOUS
  <2> QED BY <2>1, <2>2, <2>3, AllocateType
<1>2. ASSUME NEW h \in Handle, Copy(r, h) PROVE TypeOK'
  BY <1>2, InRange, NewHistType DEF Copy
<1>3. ASSUME NEW h \in Handle, Pickle(r, h) PROVE TypeOK'
  <2>1. NewHist(r, h, content[hist[h]], known[h]) /\ Exists(h)
    BY <1>3 DEF Pickle, NewHist
  <2> QED BY <2>1, InRange, NewHistType
<1>4. ASSUME NEW h \in Handle, Convert(r, h) PROVE TypeOK'
  <2>1. Exists(h) /\ CanAllocate
    BY <1>4 DEF Convert
  <2>2. /\ hist' \in [Handle -> Core \cup {NoCore}]
        /\ known' \in [Handle -> BOOLEAN]
        /\ axesDict' \in [Handle -> Dict] /\ metadata' \in [Core -> Dict]
        /\ label' \in [Dict -> Label]
    BY <1>4, <2>1, InRange, Fresh DEF Convert, TypeOK
  <2>3. built' \subseteq {g \in Handle : Exists(g)'}
    BY <1>4, <2>1, InRange, HeapAssumption DEF Convert, TypeOK, Exists
  <2> QED BY <1>4, <2>2, <2>3 DEF Convert, TypeOK, Kinds, Exists
<1>5. ASSUME NEW h \in Handle, Mul(r, h) PROVE TypeOK'
  <2>1. Scaled(content[hist[h]]) \in SUBSET Origin /\ FALSE \in BOOLEAN
    BY <1>5, InRange DEF Mul, Scaled, Origin
  <2> QED BY <1>5, <2>1, NewHistType DEF Mul
<1>6. ASSUME NEW h \in Handle, NEW g \in Handle, Add(r, h, g) PROVE TypeOK'
  <2>1. Exists(h) /\ Exists(g)
    BY <1>6 DEF Add, CanAdd
  <2>2. Sum(h, g) \in SUBSET Origin /\ FALSE \in BOOLEAN
    BY <2>1, InRange DEF Sum
  <2> QED BY <1>6, <2>1, <2>2, NewHistType DEF Add
<1> QED BY <1>1, <1>2, <1>3, <1>4, <1>5, <1>6 DEF Make

LEMMA ReleaseType ==
  ASSUME TypeOK, ReleaseDicts
  PROVE  label' \in [Dict -> Label]
BY HeapAssumption DEF TypeOK, ReleaseDicts

LEMMA UseType ==
  ASSUME TypeOK, program' = program, NEW h \in Handle, Use(h)
  PROVE  TypeOK'
<1> USE DEF TypeOK, Kinds, objects, cores, Exists
<1>1. ASSUME NEW o \in Origin, Fill(h, o) PROVE TypeOK'
  <2>1. hist[h] \in Core /\ content[hist[h]] \cup {o} \in SUBSET Origin
    BY <1>1, InRange DEF Fill
  <2>2. content' \in [Core -> SUBSET Origin]
    BY <1>1, <2>1 DEF Fill, Into
  <2>3. known' \in [Handle -> BOOLEAN]
    BY <1>1 DEF Fill
  <2> QED BY <1>1, <2>2, <2>3 DEF Fill
<1>2. CASE SetItem(h) \/ Reset(h) \/ Scale(h)
  <2>1. hist[h] \in Core /\ content[hist[h]] \in SUBSET Origin
    BY <1>2, InRange DEF SetItem, Reset, Scale
  <2>2. /\ content[hist[h]] \cup {"assigned"} \in SUBSET Origin
        /\ {} \in SUBSET Origin /\ Scaled(content[hist[h]]) \in SUBSET Origin
    BY <2>1 DEF Scaled, Origin
  <2>3. PICK o \in SUBSET Origin : content' = [content EXCEPT ![hist[h]] = o]
    BY <1>2, <2>2 DEF SetItem, Reset, Scale, Into
  <2>4. content' \in [Core -> SUBSET Origin]
    BY <2>1, <2>3
  <2>5. known' \in [Handle -> BOOLEAN]
    BY <1>2 DEF SetItem, Reset, Scale
  <2> QED BY <1>2, <2>4, <2>5 DEF SetItem, Reset, Scale
<1>3. ASSUME NEW g \in Handle, IAdd(h, g) PROVE TypeOK'
  <2>1. /\ hist[h] \in Core /\ metadata[hist[h]] \in Dict
        /\ Sum(h, g) \in SUBSET Origin
    BY <1>3, InRange DEF IAdd, CanAdd, Sum
  <2>2. /\ content' \in [Core -> SUBSET Origin] /\ known' \in [Handle -> BOOLEAN]
        /\ axesDict' \in [Handle -> Dict]
    BY <1>3, <2>1 DEF IAdd
  <2> QED BY <1>3, <2>2, ReleaseType DEF IAdd
<1>4. ASSUME NEW x \in Label, SetLabel(h, x) PROVE TypeOK'
  BY <1>4 DEF SetLabel
<1>5. CASE Drop(h)
  <2>1. hist[h] \in Core /\ UserDict \in Dict /\ {} \in SUBSET Origin
    BY <1>5, InRange, HeapAssumption DEF Drop
  <2>2. /\ kind' \in [Core -> Kinds] /\ content' \in [Core -> SUBSET Origin]
        /\ metadata' \in [Core -> Dict]
    BY <1>5, <2>1, KindsNotEmpty DEF Drop
  <2>3. /\ hist' \in [Handle -> Core \cup {NoCore}]
        /\ known' \in [Handle -> BOOLEAN] /\ axesDict' \in [Handle -> Dict]
        /\ built' \subseteq {g \in Handle : Exists(g)'}
    BY <1>5, <2>1 DEF Drop
  <2> QED BY <1>5, <2>2, <2>3, ReleaseType DEF Drop
<1>6. "entries" \in Origin /\ "weights" \in Origin
  BY DEF Origin
<1> QED BY <1>1, <1>2, <1>3, <1>4, <1>5, <1>6 DEF Use

\* Every operation keeps every reference inside the heap, and a Histogram that
\* exists on a C++ histogram that does.
THEOREM TypeCorrect == Spec => []TypeOK
<1>1. Init => TypeOK
  BY HeapAssumption DEF Init, TypeOK, Exists, Kinds, Program
<1>2. TypeOK /\ [Next]_vars => TypeOK'
  <2> SUFFICES ASSUME TypeOK, [Next]_vars PROVE TypeOK'
    OBVIOUS
  <2>1. ASSUME NEW x \in Label, SetAxisLabel(x), UNCHANGED program PROVE TypeOK'
    BY <2>1 DEF SetAxisLabel, TypeOK, objects, cores, Kinds, Exists
  <2>2. CASE UNCHANGED vars
    BY <2>2 DEF vars, TypeOK, objects, cores, Kinds, Exists
  <2>3. ASSUME CanAllocate, Make(FreshHandle), UNCHANGED program PROVE TypeOK'
    BY <2>3, Fresh, MakeType
  <2> QED BY <2>1, <2>2, <2>3, UseType DEF Next
<1> QED BY <1>1, <1>2, PTL DEF Spec

-----------------------------------------------------------------------------
(* Who refers to what *)

\* r is made on a C++ histogram of its own; its axis is labelled by a dict of
\* its own as well, unless r is built from the program's Axis.
Born(r) ==
  /\ ~Exists(r) /\ CanAllocate
  /\ hist' = [hist EXCEPT ![r] = FreshCore]
  /\ \/ Link(r, UserDict) /\ built' = built \cup {r}
     \/ Link(r, FreshDict) /\ built' = built

\* What a step may do to the references of the heap.
References ==
  \/ \E r \in Handle : Born(r)
  \/ \E r, h \in Handle : "convert" \in Uses /\ Convert(r, h)
  \/ \E h \in Handle : Drop(h)
  \/ \E a \in Handle :
       /\ Exists(a) /\ axesDict' = [axesDict EXCEPT ![a] = metadata[hist[a]]]
       /\ UNCHANGED <<hist, metadata, built>>
  \/ UNCHANGED <<hist, axesDict, metadata, built>>

LEMMA StepReferences ==
  ASSUME [Next]_vars
  PROVE  References
<1> USE DEF References
<1>1. ASSUME NEW r \in Handle, Make(r) PROVE References
  <2>1. CASE New(r)
    BY <2>1 DEF New, Born, Allocate
  <2>2. ASSUME NEW h \in Handle, NEW o, NEW b, NewHist(r, h, o, b) PROVE Born(r)
    BY <2>2 DEF NewHist, Born, Allocate
  <2>3. ASSUME NEW h \in Handle, Pickle(r, h) PROVE Born(r)
    BY <2>3 DEF Pickle, Born, Allocate
  <2> QED BY <1>1, <2>1, <2>2, <2>3 DEF Make, Copy, Mul, Add
<1>2. ASSUME NEW h \in Handle, Use(h) PROVE References
  BY <1>2 DEF Use, Fill, SetItem, Reset, Scale, IAdd, CanAdd, SetLabel,
              objects, cores
<1>3. CASE UNCHANGED vars
  BY <1>3 DEF vars, objects, cores
<1>4. ASSUME NEW x \in Label, SetAxisLabel(x) PROVE References
  BY <1>4 DEF SetAxisLabel, objects, cores
<1>5. ASSUME CanAllocate, Make(FreshHandle) PROVE References
  <2>1. FreshHandle \in Handle
    BY <1>5 DEF CanAllocate, FreshHandle, FreeHandles
  <2> QED BY <1>1, <1>5, <2>1
<1> QED BY <1>2, <1>3, <1>4, <1>5 DEF Next

\* LabelsPrivate is not inductive: a Histogram that refers to the dict of the
\* program's Axis shares it with the next one that is built from it.
PrivateInv ==
  /\ LabelsPrivate
  /\ \A h \in Handle : Exists(h) /\ UserDict \in DictsOf(h) => h \in built

LEMMA BornPrivate ==
  ASSUME TypeOK, PrivateInv, NEW r \in Handle, Born(r)
  PROVE  PrivateInv'
<1> DEFINE D == IF Link(r, UserDict) THEN UserDict ELSE FreshDict
<1>1. /\ D \in Dict /\ hist'[r] = FreshCore /\ FreshCore \in Core
      /\ axesDict'[r] = D /\ metadata'[FreshCore] = D
      /\ D = UserDict => built' = built \cup {r}
      /\ D # UserDict => D = FreshDict /\ built' = built
  BY Fresh, HeapAssumption DEF Born, Link, TypeOK
<1>2. DictsOf(r)' = {D}
  BY <1>1 DEF DictsOf
<1>3. ASSUME NEW h \in Handle, h # r, Exists(h)'
      PROVE  /\ Exists(h) /\ hist'[h] = hist[h] /\ hist[h] # FreshCore
             /\ DictsOf(h)' = DictsOf(h)
  <2>1. hist'[h] = hist[h] /\ axesDict'[h] = axesDict[h]
    BY <1>3 DEF Born, Link, TypeOK
  <2>2. Exists(h) /\ hist[h] # FreshCore /\ hist[h] \in Core
    BY <1>3, <2>1, Fresh, InRange DEF Born, Exists
  <2>3. metadata'[hist[h]] = metadata[hist[h]]
    BY <2>2 DEF Born, Link, TypeOK
  <2> QED BY <2>1, <2>2, <2>3 DEF DictsOf
<1>4. ASSUME NEW h \in Handle, h # r, Exists(h)', D \in DictsOf(h)
      PROVE  D = UserDict /\ h \in built
  BY <1>1, <1>3, <1>4, Fresh DEF Born, PrivateInv
<1>5. \A h \in Handle : Exists(h)' /\ UserDict \in DictsOf(h)' => h \in built'
  <2> SUFFICES ASSUME NEW h \in Handle, Exists(h)', UserDict \in DictsOf(h)'
               PROVE  h \in built'
    OBVIOUS
  <2>1. CASE h = r
    BY <1>1, <1>2, <2>1
  <2>2. CASE h # r
    BY <1>1, <1>3, <2>2 DEF PrivateInv
  <2> QED BY <2>1, <2>2
<1>6. ASSUME NEW g \in Handle, NEW h \in Handle, Exists(g)', Exists(h)',
             hist'[g] # hist'[h], (DictsOf(g) \cap DictsOf(h) # {})'
      PROVE  {g, h} \subseteq built'
  <2> HIDE DEF D
  <2>1. CASE g # r /\ h # r
    <3>1. {g, h} \subseteq built
      BY <1>3, <1>6, <2>1 DEF PrivateInv, LabelsPrivate
    <3> QED BY <1>1, <3>1
  <2>2. CASE g = r /\ h # r
    BY <1>1, <1>2, <1>3, <1>4, <1>6, <2>2
  <2>3. CASE g # r /\ h = r
    BY <1>1, <1>2, <1>3, <1>4, <1>6, <2>3
  <2> QED BY <1>6, <2>1, <2>2, <2>3
<1> QED BY <1>5, <1>6 DEF PrivateInv, LabelsPrivate, Exists, DictsOf

LEMMA ConvertPrivate ==
  ASSUME TypeOK, PrivateInv, NEW r \in Handle, NEW s \in Handle, Convert(r, s)
  PROVE  PrivateInv'
<1>1. /\ hist'[r] = hist[s] /\ hist[s] \in Core /\ FreshDict \in Dict
      /\ axesDict'[r] = FreshDict /\ metadata'[hist[s]] = FreshDict
      /\ built' = built
  BY Fresh, InRange DEF Convert, TypeOK
<1>2. DictsOf(r)' = {FreshDict}
  BY <1>1 DEF DictsOf
<1>3. ASSUME NEW h \in Handle, h # r, Exists(h)'
      PROVE  /\ Exists(h) /\ hist'[h] = hist[h]
             /\ hist[h] = hist[s] => DictsOf(h)' = {axesDict[h], FreshDict}
             /\ hist[h] # hist[s] => DictsOf(h)' = DictsOf(h)
  <2>1. hist'[h] = hist[h] /\ axesDict'[h] = axesDict[h] /\ Exists(h)
    BY <1>3 DEF Convert, TypeOK, Exists
  <2>2. hist[h] # hist[s] => metadata'[hist[h]] = metadata[hist[h]]
    BY <1>1, <2>1, InRange DEF Convert, TypeOK
  <2> QED BY <1>1, <2>1, <2>2 DEF DictsOf
<1>4. /\ FreshDict # UserDict
      /\ \A h \in Handle : Exists(h) => FreshDict \notin DictsOf(h)
  BY Fresh DEF Convert
<1>5. \A h \in Handle : axesDict[h] \in DictsOf(h)
  BY DEF DictsOf
<1>6. \A h \in Handle : Exists(h)' /\ UserDict \in DictsOf(h)' => h \in built'
  BY <1>1, <1>2, <1>3, <1>4, <1>5 DEF PrivateInv
<1>7. ASSUME NEW g \in Handle, NEW h \in Handle, Exists(g)', Exists(h)',
             hist'[g] # hist'[h], (DictsOf(g) \cap DictsOf(h) # {})'
      PROVE  {g, h} \subseteq built'
  <2>1. CASE g # r /\ h # r
    <3>1. DictsOf(g)' \subseteq DictsOf(g) \cup {FreshDict}
      BY <1>3, <1>5, <1>7, <2>1
    <3>2. DictsOf(h)' \subseteq DictsOf(h) \cup {FreshDict}
      BY <1>3, <1>5, <1>7, <2>1
    <3>3. FreshDict \notin DictsOf(g)' \/ FreshDict \notin DictsOf(h)'
      BY <1>3, <1>4, <1>7, <2>1
    <3>4. DictsOf(g) \cap DictsOf(h) # {}
      BY <1>7, <3>1, <3>2, <3>3
    <3> QED BY <1>1, <1>3, <1>7, <2>1, <3>4 DEF PrivateInv, LabelsPrivate
  <2>2. CASE g = r /\ h # r
    BY <1>1, <1>2, <1>3, <1>4, <1>7, <2>2
  <2>3. CASE g # r /\ h = r
    BY <1>1, <1>2, <1>3, <1>4, <1>7, <2>3
  <2> QED BY <1>7, <2>1, <2>2, <2>3
<1> QED BY <1>6, <1>7 DEF PrivateInv, LabelsPrivate, Exists, DictsOf

\* A step that takes references away, or gives an Axis object the dict its C++
\* axis has, makes nobody share what was not shared.
LEMMA FewerPrivate ==
  ASSUME PrivateInv,
         \A h \in Handle : Exists(h)' =>
           /\ Exists(h) /\ hist'[h] = hist[h] /\ DictsOf(h)' \subseteq DictsOf(h)
           /\ h \in built => h \in built'
  PROVE  PrivateInv'
<1>1. \A h \in Handle : Exists(h)' /\ UserDict \in DictsOf(h)' => h \in built'
  BY DEF PrivateInv
<1>2. ASSUME NEW g \in Handle, NEW h \in Handle, Exists(g)', Exists(h)',
             hist'[g] # hist'[h], (DictsOf(g) \cap DictsOf(h) # {})'
      PROVE  {g, h} \subseteq built'
  <2>1. DictsOf(g) \cap DictsOf(h) # {} /\ hist[g] # hist[h]
    BY <1>2
  <2> QED BY <1>2, <2>1 DEF PrivateInv, LabelsPrivate
<1> QED BY <1>1, <1>2 DEF PrivateInv, LabelsPrivate, Exists, DictsOf

LEMMA DropKeeps ==
  ASSUME TypeOK, NEW s \in Handle, Drop(s), NEW h \in Handle, Exists(h)'
  PROVE  /\ h # s /\ Exists(h) /\ hist'[h] = hist[h] /\ axesDict'[h] = axesDict[h]
         /\ known'[h] = known[h] /\ (h \in built <=> h \in built')
         /\ metadata'[hist[h]] = metadata[hist[h]]
         /\ kind'[hist[h]] = kind[hist[h]] /\ content'[hist[h]] = content[hist[h]]
<1>1. h # s
  BY DEF Drop, Exists, TypeOK
<1>2. /\ hist'[h] = hist[h] /\ axesDict'[h] = axesDict[h] /\ known'[h] = known[h]
      /\ h \in built <=> h \in built'
  BY <1>1 DEF Drop, TypeOK
<1>3. Exists(h) /\ hist[h] \in Core
  BY <1>2, InRange DEF Exists
<1>4. CASE Holders(hist[s]) = {s}
  <2>1. hist[h] # hist[s]
    BY <1>1, <1>4 DEF Holders
  <2> QED BY <1>1, <1>2, <1>3, <1>4, <2>1 DEF Drop, TypeOK
<1>5. CASE Holders(hist[s]) # {s}
  BY <1>1, <1>2, <1>3, <1>5 DEF Drop, cores
<1> QED BY <1>4, <1>5

LEMMA PrivateStep ==
  ASSUME TypeOK, PrivateInv, [Next]_vars
  PROVE  PrivateInv'
<1>1. CASE \E r \in Handle : Born(r)
  BY <1>1, BornPrivate
<1>2. CASE \E r, h \in Handle : Convert(r, h)
  BY <1>2, ConvertPrivate
<1>3. ASSUME NEW s \in Handle, Drop(s) PROVE PrivateInv'
  <2>1. \A h \in Handle : Exists(h)' =>
           /\ Exists(h) /\ hist'[h] = hist[h] /\ DictsOf(h)' = DictsOf(h)
           /\ h \in built => h \in built'
    BY <1>3, DropKeeps DEF DictsOf
  <2> QED BY <2>1, FewerPrivate
<1>4. ASSUME NEW a \in Handle, Exists(a),
             axesDict' = [axesDict EXCEPT ![a] = metadata[hist[a]]],
             UNCHANGED <<hist, metadata, built>>
      PROVE  PrivateInv'
  <2>1. \A h \in Handle : axesDict'[h] \in DictsOf(h)
    BY <1>4 DEF DictsOf, TypeOK
  <2>2. \A h \in Handle : DictsOf(h)' \subseteq DictsOf(h)
    BY <1>4, <2>1 DEF DictsOf
  <2>3. \A h \in Handle : Exists(h)' => Exists(h)
    BY <1>4 DEF Exists
  <2> QED BY <1>4, <2>2, <2>3, FewerPrivate
<1>5. CASE UNCHANGED <<hist, axesDict, metadata, built>>
  BY <1>5 DEF PrivateInv, LabelsPrivate, Exists, DictsOf
<1> QED BY <1>1, <1>2, <1>3, <1>4, <1>5, StepReferences DEF References

\* After any series of operations, two Histograms share a label dict only if
\* they share their C++ histogram or were built from the same Axis object.
THEOREM NobodyElsesLabels == Spec => []LabelsPrivate
<1>1. Init => PrivateInv
  BY DEF Init, PrivateInv, LabelsPrivate, Exists
<1>2. PrivateInv => LabelsPrivate
  BY DEF PrivateInv
<1> QED BY <1>1, <1>2, PrivateStep, TypeCorrect, PTL DEF Spec

-----------------------------------------------------------------------------
(* Without conversions *)

\* Every Histogram has a C++ histogram of its own.
OwnCore ==
  \A g, h \in Handle : Exists(g) /\ hist[g] = hist[h] => g = h

Linked == \A h \in Handle : Exists(h) => axesDict[h] = metadata[hist[h]]

NoConversion == "convert" \notin Uses

LEMMA BornKeeps ==
  ASSUME TypeOK, NEW r \in Handle, Born(r), NEW h \in Handle, h # r
  PROVE  /\ hist'[h] = hist[h] /\ axesDict'[h] = axesDict[h]
         /\ hist[h] # FreshCore /\ hist'[r] = FreshCore
         /\ Exists(h) => metadata'[hist[h]] = metadata[hist[h]]
<1>1. hist'[h] = hist[h] /\ axesDict'[h] = axesDict[h] /\ hist'[r] = FreshCore
  BY DEF Born, Link, TypeOK
<1>2. hist[h] # FreshCore
  BY Fresh DEF Born
<1>3. Exists(h) => metadata'[hist[h]] = metadata[hist[h]]
  BY <1>2, InRange DEF Born, Link, TypeOK
<1> QED BY <1>1, <1>2, <1>3

LEMMA OwnCoreStep ==
  ASSUME TypeOK, NoConversion, OwnCore, [Next]_vars
  PROVE  OwnCore'
<1>1. ASSUME NEW r \in Handle, Born(r) PROVE OwnCore'
  BY <1>1, BornKeeps DEF OwnCore, Exists
<1>2. ASSUME NEW s \in Handle, Drop(s) PROVE OwnCore'
  <2> SUFFICES ASSUME NEW g \in Handle, NEW h \in Handle, Exists(g)',
                      hist'[g] = hist'[h]
               PROVE  g = h
    BY DEF OwnCore
  <2>1. Exists(h)'
    BY DEF Exists
  <2> QED BY <1>2, <2>1, DropKeeps DEF OwnCore
<1> QED
  BY <1>1, <1>2, StepReferences DEF References, NoConversion, OwnCore, Exists

LEMMA LinkedStep ==
  ASSUME TypeOK, NoConversion, Linked, [Next]_vars
  PROVE  Linked'
<1>1. ASSUME NEW r \in Handle, Born(r) PROVE Linked'
  <2>1. hist'[r] = FreshCore /\ axesDict'[r] = metadata'[FreshCore]
    BY <1>1, Fresh DEF Born, Link, TypeOK
  <2> QED BY <1>1, <2>1, BornKeeps DEF Linked, Exists
<1>2. ASSUME NEW s \in Handle, Drop(s) PROVE Linked'
  BY <1>2, DropKeeps DEF Linked
<1>3. ASSUME NEW a \in Handle, Exists(a),
             axesDict' = [axesDict EXCEPT ![a] = metadata[hist[a]]],
             UNCHANGED <<hist, metadata, built>>
      PROVE  Linked'
  BY <1>3 DEF Linked, Exists, TypeOK
<1> QED
  BY <1>1, <1>2, <1>3, StepReferences DEF References, NoConversion, Linked, Exists

\* Whatever a program without conversions does, a label set through h.axes is
\* in the dict that the C++ axis compares, copies and pickles.
THEOREM LabelsReachTheAxis == Spec => []LabelsLinked
<1> DEFINE Inv == NoConversion => Linked
<1>1. Init => Inv
  BY DEF Init, Linked, Exists
<1>2. TypeOK /\ Inv /\ [Next]_vars => Inv'
  <2>1. [Next]_vars => program' = program
    BY DEF Next, vars
  <2> QED BY <2>1, LinkedStep DEF NoConversion, Uses
<1>3. Inv => LabelsLinked
  BY DEF Linked, LabelsLinked, NoConversion
<1> HIDE DEF Inv
<1> QED BY <1>1, <1>2, <1>3, TypeCorrect, PTL DEF Spec

-----------------------------------------------------------------------------
(* The flag *)

\* What the flag says of a Histogram is true.
HonestAt(isKnown, k, origins) ==
  isKnown /\ k = "simple" => "weights" \notin origins

Honest ==
  \A h \in Handle : Exists(h) => HonestAt(known[h], kind[hist[h]], content[hist[h]])

LEMMA AllocateHonest ==
  ASSUME TypeOK, Honest, NEW r \in Handle, NEW k, NEW o, NEW b,
         Allocate(r, k, o, b), HonestAt(b, k, o)
  PROVE  Honest'
<1> SUFFICES ASSUME NEW h \in Handle, Exists(h)'
             PROVE  HonestAt(known'[h], kind'[hist'[h]], content'[hist'[h]])
  BY DEF Honest, HonestAt
<1>1. FreshCore \in Core /\ \A g \in Handle : hist[g] # FreshCore
  BY Fresh DEF Allocate
<1>2. CASE h = r
  BY <1>1, <1>2 DEF Allocate, TypeOK
<1>3. CASE h # r
  <2>1. hist'[h] = hist[h] /\ known'[h] = known[h] /\ Exists(h)
    BY <1>3 DEF Allocate, TypeOK, Exists
  <2>2. kind'[hist[h]] = kind[hist[h]] /\ content'[hist[h]] = content[hist[h]]
    BY <1>1, <2>1, InRange DEF Allocate, TypeOK
  <2> QED BY <2>1, <2>2 DEF Honest
<1> QED BY <1>2, <1>3

LEMMA MakeHonest ==
  ASSUME TypeOK, NoConversion, Honest, NEW r \in Handle, Make(r)
  PROVE  Honest'
<1>1. CASE New(r)
  BY <1>1, AllocateHonest DEF New, HonestAt
<1>2. ASSUME NEW h \in Handle, Copy(r, h) \/ Pickle(r, h) PROVE Honest'
  <2>1. HonestAt(known[h], kind[hist[h]], content[hist[h]])
    BY <1>2 DEF Copy, Pickle, Honest
  <2>2. Allocate(r, kind[hist[h]], content[hist[h]], known[h])
    BY <1>2 DEF Copy, Pickle, NewHist
  <2> QED BY <2>1, <2>2, AllocateHonest
<1>3. ASSUME NEW h \in Handle, NEW o, NewHist(r, h, o, FALSE) PROVE Honest'
  BY <1>3, AllocateHonest DEF NewHist, HonestAt
<1> QED BY <1>1, <1>2, <1>3 DEF Make, Mul, Add, NoConversion

\* A step that changes the cells of one Histogram only.
LEMMA OneHonest ==
  ASSUME TypeOK, OwnCore, Honest, NEW s \in Handle, Exists(s),
         NEW o, NEW b,
         content' = [content EXCEPT ![hist[s]] = o],
         known' = [known EXCEPT ![s] = b],
         UNCHANGED <<hist, kind>>,
         HonestAt(b, kind[hist[s]], o)
  PROVE  Honest'
<1> SUFFICES ASSUME NEW h \in Handle, Exists(h)
             PROVE  HonestAt(known'[h], kind[hist[h]], content'[hist[h]])
  BY DEF Honest, HonestAt, Exists
<1>1. CASE h = s
  BY <1>1, InRange DEF TypeOK
<1>2. CASE h # s
  <2>1. hist[h] # hist[s] /\ hist[h] \in Core
    BY <1>2, InRange DEF OwnCore
  <2>2. content'[hist[h]] = content[hist[h]] /\ known'[h] = known[h]
    BY <1>2, <2>1 DEF TypeOK
  <2> QED BY <2>2 DEF Honest
<1> QED BY <1>1, <1>2

LEMMA UseHonest ==
  ASSUME TypeOK, OwnCore, Honest, NEW s \in Handle, Use(s)
  PROVE  Honest'
<1> USE DEF HonestAt
<1>1. ASSUME NEW o \in {"entries", "weights"}, Fill(s, o) PROVE Honest'
  <2> DEFINE b == known[s] /\ ~(o = "weights" /\ kind[hist[s]] = "simple")
  <2>1. /\ Exists(s) /\ UNCHANGED <<hist, kind>>
        /\ known' = [known EXCEPT ![s] = b]
    BY <1>1 DEF Fill
  <2>2. HonestAt(known[s], kind[hist[s]], content[hist[s]])
    BY <2>1 DEF Honest
  <2>3. CASE Into(s, {o})
    <3>1. HonestAt(b, kind[hist[s]], content[hist[s]] \cup {o})
      BY <2>2
    <3>2. content' = [content EXCEPT ![hist[s]] = content[hist[s]] \cup {o}]
      BY <2>3 DEF Into
    <3> QED BY <2>1, <3>1, <3>2, OneHonest
  <2>4. CASE UNCHANGED content
    <3>1. HonestAt(b, kind[hist[s]], content[hist[s]])
      BY <2>2
    <3>2. content' = [content EXCEPT ![hist[s]] = content[hist[s]]]
      BY <2>4 DEF TypeOK
    <3> QED BY <2>1, <3>1, <3>2, OneHonest
  <2> QED BY <1>1, <2>3, <2>4 DEF Fill
<1>2. CASE SetItem(s) \/ Reset(s)
  <2>1. Exists(s) /\ UNCHANGED <<hist, known, kind>>
    BY <1>2 DEF SetItem, Reset, objects
  <2>2. HonestAt(known[s], kind[hist[s]], content[hist[s]])
    BY <2>1 DEF Honest
  <2>3. PICK o : /\ content' = [content EXCEPT ![hist[s]] = o]
                 /\ HonestAt(known[s], kind[hist[s]], o)
    BY <1>2, <2>2 DEF SetItem, Reset, Into
  <2>4. known' = [known EXCEPT ![s] = known[s]]
    BY <2>1 DEF TypeOK
  <2> QED BY <2>1, <2>3, <2>4, OneHonest
<1>3. CASE Scale(s)
  BY <1>3, OneHonest DEF Scale
<1>4. ASSUME NEW g \in Handle, IAdd(s, g) PROVE Honest'
  BY <1>4, OneHonest DEF IAdd, CanAdd
<1>5. ASSUME NEW x \in Label, SetLabel(s, x) PROVE Honest'
  BY <1>5 DEF SetLabel, objects, cores, Honest, Exists
<1>6. CASE Drop(s)
  BY <1>6, DropKeeps DEF Honest
<1> QED BY <1>1, <1>2, <1>3, <1>4, <1>5, <1>6 DEF Use

LEMMA HonestStep ==
  ASSUME TypeOK, NoConversion, OwnCore, Honest, [Next]_vars
  PROVE  Honest'
<1>1. ASSUME CanAllocate, Make(FreshHandle) PROVE Honest'
  BY <1>1, Fresh, MakeHonest
<1>2. ASSUME NEW x \in Label, SetAxisLabel(x) PROVE Honest'
  BY <1>2 DEF SetAxisLabel, objects, cores, Honest, Exists
<1>3. CASE UNCHANGED vars
  BY <1>3 DEF vars, objects, cores, Honest, Exists
<1> QED BY <1>1, <1>2, <1>3, UseHonest DEF Next

\* No series of operations without conversions makes a Histogram claim a
\* variance that weights have spoilt.
THEOREM FlagNeverLies == Spec => []VarianceHonest
<1> DEFINE Inv == NoConversion => OwnCore /\ Honest
<1>1. Init => Inv
  BY DEF Init, OwnCore, Honest, Exists
<1>2. TypeOK /\ Inv /\ [Next]_vars => Inv'
  <2>1. [Next]_vars => program' = program
    BY DEF Next, vars
  <2> QED BY <2>1, OwnCoreStep, HonestStep DEF NoConversion, Uses
<1>3. Inv => VarianceHonest
  BY DEF Honest, HonestAt, VarianceHonest, NoConversion
<1> HIDE DEF Inv
<1> QED BY <1>1, <1>2, <1>3, TypeCorrect, PTL DEF Spec
=============================================================================
