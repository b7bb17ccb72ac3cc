------------------------ MODULE ThreadedFill_proofs --------------------------
(***************************************************************************)
(* Theorems about ThreadedFill, for every number of calls, threads and     *)
(* entries, every way of cutting them into sections, every storage, and    *)
(* axes that grow, merge or fail to merge: what is counted, and how often; *)
(* what remains of a fill that fails or raises, what its weight does to    *)
(* the flag; that a fill whose sections are all usable does, step by step, *)
(* what FillSpec promises; and that whatever axis each private copy        *)
(* started from, merging loses and invents no category, and the bins of    *)
(* any axis stay numbered without gaps.                                    *)
(***************************************************************************)
EXTENDS ThreadedFill, FiniteSetTheorems, TLAPS

-----------------------------------------------------------------------------
(* Axes *)

\* The number of bins of an axis, and of any part of it, is a number.
LEMMA PartSizes ==
  ASSUME NEW S, S \subseteq Cat
  PROVE  IsFiniteSet(S) /\ Cardinality(S) \in Nat
BY CatAssumption, FS_Subset, FS_CardinalityType

\* Growing and merging yield axes, and keep every bin there is.
LEMMA GrowType ==
  ASSUME NEW a \in Axis, NEW k \in Cat
  PROVE  Grow(a, k) \in Axis /\ KeepsBins(a, Grow(a, k))
<1>1. Size(a) \in Nat
  BY PartSizes DEF Size, OnAxis
<1>2. QED
  BY <1>1 DEF Grow, Axis, KeepsBins, OnAxis

LEMMA MergeType ==
  ASSUME NEW a \in Axis, NEW b \in Axis
  PROVE  MergeAxes(a, b) \in Axis /\ KeepsBins(a, MergeAxes(a, b))
<1> DEFINE new == OnAxis(b) \ OnAxis(a)
           rank(k) == Cardinality({j \in new : b[j] <= b[k]})
<1>1. Size(a) \in Nat
  BY PartSizes DEF Size, OnAxis
<1>2. \A k \in Cat : rank(k) \in Nat
  BY PartSizes DEF OnAxis
<1>3. \A k \in Cat : MergeAxes(a, b)[k] =
        IF k \in new THEN Size(a) + rank(k) ELSE a[k]
  BY DEF MergeAxes
<1>4. MergeAxes(a, b) \in Axis
  <2>1. MergeAxes(a, b) = [k \in Cat |-> MergeAxes(a, b)[k]]
    BY DEF MergeAxes
  <2>2. ASSUME NEW k \in Cat PROVE MergeAxes(a, b)[k] \in Nat
    <3> HIDE DEF rank, new
    <3>1. CASE k \in new
      BY <3>1, <1>1, <1>2, <1>3
    <3>2. CASE k \notin new
      BY <3>2, <1>3 DEF Axis
    <3>3. QED
      BY <3>1, <3>2
  <2>3. QED
    BY <2>1, <2>2 DEF Axis
<1>5. \A k \in OnAxis(a) : k \in Cat /\ k \notin new
  BY DEF OnAxis
<1>6. QED
  BY <1>3, <1>4, <1>5 DEF KeepsBins

\* What one entry does to the axis it is filled into.
LEMMA InsertType ==
  ASSUME NEW a \in Axis, NEW d \in Datum
  PROVE  Insert(a, d) \in Axis /\ KeepsBins(a, Insert(a, d))
BY GrowType, ConstantsAssumption DEF Insert, KeepsBins

-----------------------------------------------------------------------------
(* Threads *)

\* Thread i of call c, and the parts of a thread's name.
LEMMA WorkerIntro ==
  ASSUME NEW c \in Call, NEW i \in Nat, 1 <= i, i <= Threads[c]
  PROVE  <<c, i>> \in Worker
BY ConstantsAssumption DEF Worker

LEMMA WorkerElim ==
  ASSUME NEW w \in Worker
  PROVE  /\ w[1] \in Call /\ w[2] \in Nat
         /\ 1 <= w[2] /\ w[2] <= Threads[w[1]]
         /\ w = <<w[1], w[2]>>
BY ConstantsAssumption DEF Worker

\* Advancing or restarting an index keeps it inside the thread list.
IndexOK(f) == f \in [Call -> Nat \ {0}] /\ \A c \in Call : f[c] <= Threads[c]

LEMMA NextType ==
  ASSUME NEW f, IndexOK(f), NEW c \in Call,
         NEW n, n = f[c] \/ n = 1 \/ (f[c] < Threads[c] /\ n = f[c] + 1)
  PROVE  IndexOK([f EXCEPT ![c] = n])
<1>1. Threads[c] \in Nat \ {0} /\ f[c] \in Nat \ {0} /\ f[c] <= Threads[c]
  BY ConstantsAssumption DEF IndexOK
<1>2. n \in Nat \ {0} /\ n <= Threads[c]
  BY <1>1
<1>3. QED
  BY <1>2 DEF IndexOK

-----------------------------------------------------------------------------
(* Type correctness *)

LEMMA TypeStep ==
  ASSUME TypeOK, [Next]_vars
  PROVE  TypeOK'
<1> USE DEF TypeOK, hist, local
<1>1. ASSUME NEW c \in Call, Caller(c) PROVE TypeOK'
  <2>1. CASE EnterDirect(c)
    BY <2>1, WorkerIntro, ConstantsAssumption
    DEF EnterDirect, CanEnter, NoteWeight, CallerStates, ThreadStates
  <2>2. CASE EnterMean(c)
    BY <2>2 DEF EnterMean, CanEnter, NoteWeight, CallerStates
  <2>3. CASE EnterThreaded(c)
    BY <2>3 DEF EnterThreaded, CanEnter, NoteWeight, CallerStates
  <2>4. CASE StartThread(c)
    <3>1. wpc' \in [Worker -> ThreadStates]
      BY <2>4 DEF StartThread, ThreadStates
    <3>2. cpc' \in [Call -> CallerStates]
      BY <2>4 DEF StartThread, CallerStates
    <3>3. next' = [next EXCEPT ![c] = IF next[c] < Threads[c]
                                      THEN next[c] + 1 ELSE 1]
      BY <2>4 DEF StartThread
    <3>4. IndexOK(next')
      BY <3>3, NextType DEF IndexOK
    <3>5. QED
      BY <2>4, <3>1, <3>2, <3>4 DEF StartThread, IndexOK
  <2>5. CASE JoinThread(c)
    <3>1. cpc' \in [Call -> CallerStates]
      BY <2>5 DEF JoinThread, CallerStates
    <3>2. next' = [next EXCEPT ![c] = IF next[c] < Threads[c]
                                      THEN next[c] + 1 ELSE next[c]]
      BY <2>5 DEF JoinThread
    <3>3. IndexOK(next')
      BY <3>2, NextType DEF IndexOK
    <3>4. QED
      BY <2>5, <3>1, <3>3 DEF JoinThread, IndexOK
  <2>6. CASE DirectReturn(c)
    BY <2>6 DEF DirectReturn, CallerStates
  <2>7. QED
    BY <1>1, <2>1, <2>2, <2>3, <2>4, <2>5, <2>6 DEF Caller
<1>2. ASSUME NEW w \in Worker, Thread(w) PROVE TypeOK'
  <2>1. CASE Copy(w)
    BY <2>1 DEF Copy, Go, ThreadStates
  <2>2. CASE Reset(w)
    BY <2>2 DEF Reset, Go, ThreadStates, NoCounts
  <2>3. CASE Reject(w)
    BY <2>3 DEF Reject, Go, ThreadStates
  <2>4. CASE FillEntry(w)
    <3>1. PICK d \in rest[w] : InsertEntry(w, d)
      BY <2>4 DEF FillEntry
    <3>2. d \in Datum
      BY <3>1
    <3>3. rest' \in [Worker -> SUBSET Datum]
      BY <3>1 DEF InsertEntry
    <3>4. CASE InPlace(w)
      <4>1. counts' \in [Datum -> Nat]
        BY <3>1, <3>2, <3>4 DEF InsertEntry
      <4>2. axis' \in Axis
        BY <3>1, <3>2, <3>4, InsertType DEF InsertEntry
      <4>3. QED
        BY <2>4, <3>1, <3>3, <3>4, <4>1, <4>2 DEF FillEntry, InsertEntry
    <3>5. CASE ~InPlace(w)
      <4>1. localAxis' \in [Worker -> Axis]
        <5>1. Insert(localAxis[w], d) \in Axis
          BY <3>2, InsertType
        <5>2. QED
          BY <3>1, <3>5, <5>1 DEF InsertEntry
      <4>2. localCounts' \in [Worker -> [Datum -> Nat]]
        <5>1. [localCounts[w] EXCEPT ![d] = @ + 1] \in [Datum -> Nat]
          BY <3>2
        <5>2. localCounts' = [localCounts EXCEPT ![w] =
                                [localCounts[w] EXCEPT ![d] = @ + 1]]
          BY <3>1, <3>5 DEF InsertEntry
        <5>3. QED
          BY <5>1, <5>2
      <4>3. QED
        BY <2>4, <3>1, <3>3, <3>5, <4>1, <4>2 DEF FillEntry, InsertEntry
    <3>6. QED
      BY <3>4, <3>5
  <2>5. CASE FillEnd(w)
    BY <2>5 DEF FillEnd, Go, ThreadStates
  <2>6. CASE Acquire(w)
    BY <2>6, WorkerElim DEF Acquire, Go, ThreadStates
  <2>7. CASE Merge(w)
    BY <2>7, MergeType DEF Merge, Go, ThreadStates
  <2>8. CASE MergeFail(w)
    BY <2>8 DEF MergeFail, Go, ThreadStates
  <2>9. CASE Release(w)
    BY <2>9, WorkerElim DEF Release, Go, ThreadStates
  <2>10. QED
    BY <1>2, <2>1, <2>2, <2>3, <2>4, <2>5, <2>6, <2>7, <2>8, <2>9
    DEF Thread
<1>3. CASE Finished \/ UNCHANGED vars
  BY <1>3 DEF Finished, vars
<1>4. QED
  BY <1>1, <1>2, <1>3 DEF Next

\* Every variable keeps its type, and the index of the thread a call starts
\* or joins next never leaves the call's thread list (hist.py 487-491).
THEOREM TypeCorrect == Spec => []TypeOK
<1>1. Init => TypeOK
  BY ConstantsAssumption DEF Init, TypeOK, NoCounts, Entries, CallerStates,
     ThreadStates, Axis
<1>2. QED
  BY <1>1, TypeStep, PTL DEF Spec

-----------------------------------------------------------------------------
(* Every entry is counted exactly once *)

\* Thread w's entries are in self._hist: one by one when it inserts in place,
\* all together from its += on otherwise.
Counted(d) ==
  LET w == Owner[d]
  IN  IF InPlace(w) THEN d \notin rest[w] ELSE wpc[w] \in {"release", "done"}

\* Which entries a thread has still to insert, by where it is.
RestInv ==
  \A w \in Worker :
    /\ rest[w] \subseteq Entries(w)
    /\ wpc[w] \in {"new", "copy", "reset"} => rest[w] = Entries(w)
    /\ wpc[w] \in {"acquire", "merge", "release", "done"} => rest[w] = {}
    /\ InPlace(w) => wpc[w] \in {"new", "fill", "done", "dead"}

\* Where the threads of a call can be, by where the call is.
CallInv ==
  \A c \in Call :
    /\ cpc[c] = "idle" => next[c] = 1
    /\ cpc[c] = "direct" => Threads[c] = 1
    /\ cpc[c] \in {"start", "join"} => Threads[c] > 1
    /\ \A i \in Nat : 1 <= i /\ i <= Threads[c] =>
         /\ cpc[c] = "idle" => wpc[<<c, i>>] = "new"
         /\ cpc[c] = "start" /\ next[c] <= i => wpc[<<c, i>>] = "new"
         /\ cpc[c] = "join" /\ i < next[c] => wpc[<<c, i>>] \in {"done", "dead"}
         /\ cpc[c] = "done" => wpc[<<c, i>>] \in {"done", "dead"}

\* What a private copy holds once it has been reset.
LocalInv ==
  \A w \in Worker :
    ~InPlace(w) /\ wpc[w] \in {"fill", "acquire", "merge"} =>
      \A d \in Datum : localCounts[w][d] =
                         IF d \in Entries(w) \ rest[w] THEN 1 ELSE 0

\* The content of self._hist is what its threads have added so far.
ContentInv == \A d \in Datum : counts[d] = IF Counted(d) THEN 1 ELSE 0

FillInv == TypeOK /\ RestInv /\ CallInv /\ LocalInv /\ ContentInv

LEMMA InitFillInv == Init => FillInv
<1> SUFFICES ASSUME Init PROVE FillInv
  OBVIOUS
<1>1. TypeOK
  BY ConstantsAssumption DEF Init, TypeOK, NoCounts, Entries, CallerStates,
     ThreadStates, Axis
<1>2. RestInv
  BY DEF Init, RestInv
<1>3. CallInv
  BY WorkerIntro DEF Init, CallInv
<1>4. LocalInv
  BY DEF Init, LocalInv
<1>5. ContentInv
  <2> SUFFICES ASSUME NEW d \in Datum
               PROVE  counts[d] = 0 /\ ~Counted(d)
    BY DEF ContentInv
  <2>1. Owner[d] \in Worker /\ d \in rest[Owner[d]]
    BY ConstantsAssumption DEF Init, Entries
  <2>2. QED
    BY <2>1 DEF Init, NoCounts, Counted
<1>6. QED
  BY <1>1, <1>2, <1>3, <1>4, <1>5 DEF FillInv

\* The library never changes the type of a histogram's storage.
LEMMA StorageFixed == [Next]_vars => storage' = storage
BY DEF Next, Caller, Thread, vars, hist, EnterDirect, EnterMean,
   EnterThreaded, StartThread, JoinThread, DirectReturn, Copy, Reset, Reject,
   FillEntry, FillEnd, Acquire, Merge, MergeFail, Release, Finished

LEMMA InPlaceFixed ==
  ASSUME [Next]_vars, NEW w
  PROVE  InPlace(w)' <=> InPlace(w)
BY StorageFixed DEF InPlace

\* The threads a caller's step moves: the one of an unthreaded fill, or the
\* one it starts.  They have not run before.
LEMMA CallerMoves ==
  ASSUME FillInv, NEW c \in Call, Caller(c)
  PROVE  /\ UNCHANGED <<counts, rest, localCounts>>
         /\ \/ UNCHANGED wpc
            \/ \E i \in Nat :
                 /\ <<c, i>> \in Worker
                 /\ wpc[<<c, i>>] = "new"
                 /\ wpc' = [wpc EXCEPT ![<<c, i>>] =
                              IF InPlace(<<c, i>>) THEN "fill" ELSE "copy"]
<1> USE DEF hist, local
<1>1. CASE EnterDirect(c)
  <2>1. <<c, 1>> \in Worker /\ InPlace(<<c, 1>>)
    BY <1>1, WorkerIntro, ConstantsAssumption DEF EnterDirect, InPlace
  <2>2. wpc[<<c, 1>>] = "new"
    BY <1>1, ConstantsAssumption
    DEF EnterDirect, CanEnter, FillInv, CallInv
  <2>3. QED
    BY <1>1, <2>1, <2>2 DEF EnterDirect
<1>2. CASE EnterMean(c) \/ EnterThreaded(c)
  BY <1>2 DEF EnterMean, EnterThreaded
<1>3. CASE StartThread(c)
  <2>1. next[c] \in Nat /\ 1 <= next[c] /\ next[c] <= Threads[c]
    BY DEF FillInv, TypeOK
  <2>2. <<c, next[c]>> \in Worker
    BY <2>1, WorkerIntro
  <2>3. wpc[<<c, next[c]>>] = "new"
    BY <1>3, <2>1 DEF StartThread, FillInv, CallInv
  <2>4. InPlace(<<c, next[c]>>) <=> storage = "atomic"
    BY <1>3, <2>1 DEF StartThread, InPlace, FillInv, CallInv
  <2>5. QED
    BY <1>3, <2>1, <2>2, <2>3, <2>4 DEF StartThread
<1>4. CASE JoinThread(c) \/ DirectReturn(c)
  BY <1>4 DEF JoinThread, DirectReturn
<1>5. QED
  BY <1>1, <1>2, <1>3, <1>4 DEF Caller

LEMMA RestStep ==
  ASSUME FillInv, [Next]_vars
  PROVE  RestInv'
<1> USE DEF hist, local
<1>0. \A w : InPlace(w)' <=> InPlace(w)
  BY InPlaceFixed
<1>1. ASSUME NEW c \in Call, Caller(c) PROVE RestInv'
  <2>1. CASE UNCHANGED wpc
    BY <1>0, <1>1, <2>1, CallerMoves DEF RestInv, FillInv
  <2>2. CASE \E i \in Nat :
               /\ <<c, i>> \in Worker
               /\ wpc[<<c, i>>] = "new"
               /\ wpc' = [wpc EXCEPT ![<<c, i>>] =
                            IF InPlace(<<c, i>>) THEN "fill" ELSE "copy"]
    BY <1>0, <1>1, <2>2, CallerMoves DEF RestInv, FillInv, TypeOK
  <2>3. QED
    BY <1>1, <2>1, <2>2, CallerMoves
<1>2. ASSUME NEW w \in Worker, Thread(w) PROVE RestInv'
  <2> USE <1>0 DEF RestInv, FillInv, TypeOK, Go
  <2>1. CASE Copy(w) \/ Reset(w) \/ Reject(w)
    BY <2>1 DEF Copy, Reset, Reject
  <2>2. CASE FillEntry(w)
    <3>1. PICK d \in rest[w] : InsertEntry(w, d)
      BY <2>2 DEF FillEntry
    <3>2. rest' = [rest EXCEPT ![w] = @ \ {d}] /\ UNCHANGED wpc
      BY <2>2, <3>1 DEF FillEntry, InsertEntry
    <3>3. QED
      BY <2>2, <3>2 DEF FillEntry
  <2>3. CASE FillEnd(w)
    BY <2>3 DEF FillEnd
  <2>4. CASE Acquire(w) \/ Merge(w) \/ MergeFail(w) \/ Release(w)
    BY <2>4 DEF Acquire, Merge, MergeFail, Release
  <2>5. QED
    BY <1>2, <2>1, <2>2, <2>3, <2>4 DEF Thread
<1>3. CASE Finished \/ UNCHANGED vars
  BY <1>0, <1>3 DEF Finished, vars, RestInv, FillInv
<1>4. QED
  BY <1>1, <1>2, <1>3 DEF Next

LEMMA LessOrEqual == \A i, n \in Nat : i <= n => i = n \/ i < n
OBVIOUS

LEMMA CallStep ==
  ASSUME FillInv, [Next]_vars
  PROVE  CallInv'
<1> USE DEF hist, local
<1>1. ASSUME NEW c \in Call, Caller(c) PROVE CallInv'
  <2> USE <1>1, WorkerIntro, ConstantsAssumption DEF FillInv, CallInv, TypeOK
  <2>1. CASE EnterDirect(c)
    BY <2>1 DEF EnterDirect, CanEnter
  <2>2. CASE EnterMean(c) \/ EnterThreaded(c)
    BY <2>2 DEF EnterMean, EnterThreaded, CanEnter
  <2>3. CASE StartThread(c)
    <3>1. wpc' = [wpc EXCEPT ![<<c, next[c]>>] =
                    IF storage = "atomic" THEN "fill" ELSE "copy"]
      BY <2>3 DEF StartThread
    <3>2. \A b \in Call, i \in Nat :
            1 <= i /\ i <= Threads[b] /\ (b # c \/ i # next[c])
              => wpc'[<<b, i>>] = wpc[<<b, i>>]
      BY <3>1, WorkerIntro
    <3>3. CASE next[c] < Threads[c]
      <4>1. next' = [next EXCEPT ![c] = @ + 1] /\ UNCHANGED cpc
        BY <2>3, <3>3 DEF StartThread
      <4>2. cpc[c] = "start"
        BY <2>3 DEF StartThread
      <4>3. QED
        BY <3>2, <4>1, <4>2
    <3>4. CASE ~(next[c] < Threads[c])
      <4>1. /\ next' = [next EXCEPT ![c] = 1]
            /\ cpc' = [cpc EXCEPT ![c] = "join"]
        BY <2>3, <3>4 DEF StartThread
      <4>2. cpc[c] = "start"
        BY <2>3 DEF StartThread
      <4>3. QED
        BY <3>2, <4>1, <4>2
    <3>5. QED
      BY <3>3, <3>4
  <2>4. CASE JoinThread(c)
    <3>1. /\ UNCHANGED wpc
          /\ cpc[c] = "join"
          /\ wpc[<<c, next[c]>>] \in {"done", "dead"}
      BY <2>4 DEF JoinThread
    <3>2. \A i \in Nat : 1 <= i /\ i <= next[c] =>
            wpc[<<c, i>>] \in {"done", "dead"}
      <4>1. TAKE i \in Nat
      <4>2. HAVE 1 <= i /\ i <= next[c]
      <4>3. next[c] \in Nat /\ Threads[c] \in Nat /\ next[c] <= Threads[c]
        OBVIOUS
      <4>4. CASE i = next[c]
        BY <3>1, <4>4
      <4>5. CASE i < next[c]
        BY <3>1, <4>2, <4>3, <4>5
      <4>6. i = next[c] \/ i < next[c]
        BY <4>2, <4>3, LessOrEqual
      <4>7. QED
        BY <4>4, <4>5, <4>6
    <3>3. CASE next[c] < Threads[c]
      <4>1. next' = [next EXCEPT ![c] = @ + 1] /\ UNCHANGED cpc
        BY <2>4, <3>3 DEF JoinThread
      <4>2. \A i \in Nat : i < next'[c] => i <= next[c]
        BY <4>1
      <4>3. QED
        BY <3>1, <3>2, <4>1, <4>2
    <3>4. CASE ~(next[c] < Threads[c])
      <4>1. UNCHANGED next /\ cpc' = [cpc EXCEPT ![c] = "done"]
        BY <2>4, <3>4 DEF JoinThread
      <4>2. \A i \in Nat : i <= Threads[c] => i <= next[c]
        BY <3>4
      <4>3. QED
        BY <3>1, <3>2, <4>1, <4>2
    <3>5. QED
      BY <3>3, <3>4
  <2>5. CASE DirectReturn(c)
    <3>1. /\ UNCHANGED <<wpc, next>>
          /\ cpc[c] = "direct"
          /\ wpc[<<c, 1>>] \in {"done", "dead"}
          /\ cpc'[c] \in {"done", "raised"}
          /\ \A b \in Call : b # c => cpc'[b] = cpc[b]
      BY <2>5 DEF DirectReturn
    <3>2. \A i \in Nat : 1 <= i /\ i <= Threads[c] =>
            wpc'[<<c, i>>] \in {"done", "dead"}
      <4>1. TAKE i \in Nat
      <4>2. HAVE 1 <= i /\ i <= Threads[c]
      <4>3. Threads[c] = 1
        BY <3>1
      <4>4. i = 1
        BY <4>2, <4>3
      <4>5. QED
        BY <3>1, <4>4
    <3>3. QED
      BY <3>1, <3>2
  <2>6. QED
    BY <1>1, <2>1, <2>2, <2>3, <2>4, <2>5 DEF Caller
<1>2. ASSUME NEW w \in Worker, Thread(w) PROVE CallInv'
  <2>1. /\ UNCHANGED <<cpc, next>>
        /\ wpc[w] \notin {"new", "done", "dead"}
        /\ \A v \in Worker : v # w => wpc'[v] = wpc[v]
    BY <1>2 DEF Thread, Go, FillInv, TypeOK, Copy, Reset, Reject, FillEntry,
       FillEnd, Acquire, Merge, MergeFail, Release
  <2>2. QED
    BY <2>1, WorkerIntro DEF FillInv, CallInv
<1>3. CASE Finished \/ UNCHANGED vars
  BY <1>3 DEF Finished, vars, CallInv, FillInv
<1>4. QED
  BY <1>1, <1>2, <1>3 DEF Next

LEMMA LocalStep ==
  ASSUME FillInv, [Next]_vars
  PROVE  LocalInv'
<1> USE DEF hist, local
<1>0. \A w : InPlace(w)' <=> InPlace(w)
  BY InPlaceFixed
<1>1. ASSUME NEW c \in Call, Caller(c) PROVE LocalInv'
  BY <1>0, <1>1, CallerMoves DEF LocalInv, FillInv, TypeOK
<1>2. ASSUME NEW w \in Worker, Thread(w) PROVE LocalInv'
  <2> USE <1>0 DEF LocalInv, FillInv, TypeOK, Go
  <2>1. CASE Copy(w)
    BY <2>1 DEF Copy
  <2>2. CASE Reset(w)
    <3>1. rest[w] = Entries(w)
      BY <2>2 DEF Reset, RestInv
    <3>2. QED
      BY <2>2, <3>1 DEF Reset, NoCounts
  <2>3. CASE FillEntry(w)
    <3>1. PICK d \in rest[w] : InsertEntry(w, d)
      BY <2>3 DEF FillEntry
    <3>2. d \in Entries(w) /\ d \in Datum
      BY <3>1 DEF RestInv
    <3>3. UNCHANGED wpc
      BY <2>3 DEF FillEntry
    <3>4. CASE InPlace(w)
      BY <3>1, <3>3, <3>4 DEF InsertEntry
    <3>5. CASE ~InPlace(w)
      <4>1. /\ rest' = [rest EXCEPT ![w] = @ \ {d}]
            /\ localCounts' = [localCounts EXCEPT ![w][d] = @ + 1]
        BY <3>1, <3>5 DEF InsertEntry
      <4>2. wpc[w] = "fill"
        BY <2>3 DEF FillEntry
      <4>3. localCounts[w][d] = 0
        BY <3>1, <3>2, <3>5, <4>2
      <4>4. \A e \in Datum : localCounts'[w][e] =
              IF e \in Entries(w) \ rest'[w] THEN 1 ELSE 0
        BY <3>2, <3>5, <4>1, <4>2, <4>3
      <4>5. \A v \in Worker : v # w =>
              localCounts'[v] = localCounts[v] /\ rest'[v] = rest[v]
        BY <4>1
      <4>6. QED
        BY <3>3, <4>4, <4>5 DEF Entries
    <3>6. QED
      BY <3>4, <3>5
  <2>4. CASE Reject(w) \/ FillEnd(w)
    BY <2>4 DEF Reject, FillEnd
  <2>5. CASE Acquire(w) \/ Merge(w) \/ MergeFail(w) \/ Release(w)
    BY <2>5 DEF Acquire, Merge, MergeFail, Release
  <2>6. QED
    BY <1>2, <2>1, <2>2, <2>3, <2>4, <2>5 DEF Thread
<1>3. CASE Finished \/ UNCHANGED vars
  BY <1>0, <1>3 DEF Finished, vars, LocalInv, FillInv
<1>4. QED
  BY <1>1, <1>2, <1>3 DEF Next

LEMMA ContentStep ==
  ASSUME FillInv, [Next]_vars
  PROVE  ContentInv'
<1> USE DEF hist, local
<1>0. /\ \A w : InPlace(w)' <=> InPlace(w)
      /\ \A d \in Datum : Owner[d] \in Worker
  BY InPlaceFixed, ConstantsAssumption
<1>1. ASSUME NEW c \in Call, Caller(c) PROVE ContentInv'
  BY <1>0, <1>1, CallerMoves DEF ContentInv, Counted, FillInv, TypeOK
<1>2. ASSUME NEW w \in Worker, Thread(w) PROVE ContentInv'
  <2> USE <1>0 DEF ContentInv, Counted, FillInv, TypeOK, Go
  <2>1. CASE Copy(w) \/ Reset(w)
    BY <2>1 DEF Copy, Reset
  <2>2. CASE Reject(w) \/ FillEnd(w)
    BY <2>2 DEF Reject, FillEnd
  <2>3. CASE FillEntry(w)
    <3>1. PICK d \in rest[w] : InsertEntry(w, d)
      BY <2>3 DEF FillEntry
    <3>2. Owner[d] = w /\ d \in Datum
      BY <3>1 DEF RestInv, Entries
    <3>3. wpc' = wpc /\ wpc[w] = "fill"
      BY <2>3 DEF FillEntry
    <3>4. rest' = [rest EXCEPT ![w] = @ \ {d}]
      BY <3>1 DEF InsertEntry
    <3>5. CASE InPlace(w)
      <4>1. counts' = [counts EXCEPT ![d] = @ + 1]
        BY <3>1, <3>5 DEF InsertEntry
      <4>2. counts[d] = 0
        BY <3>1, <3>2, <3>5
      <4>3. QED
        BY <3>2, <3>3, <3>4, <3>5, <4>1, <4>2
    <3>6. CASE ~InPlace(w)
      <4>1. UNCHANGED counts
        BY <3>1, <3>6 DEF InsertEntry
      <4>2. \A e \in Datum : Owner[e] # w => rest'[Owner[e]] = rest[Owner[e]]
        BY <3>4
      <4>3. \A e \in Datum : Counted(e)' <=> Counted(e)
        BY <3>3, <3>6, <4>2
      <4>4. QED
        BY <4>1, <4>3
    <3>7. QED
      BY <3>5, <3>6
  <2>4. CASE Acquire(w) \/ MergeFail(w) \/ Release(w)
    BY <2>4 DEF Acquire, MergeFail, Release
  <2>5. CASE Merge(w)
    <3>1. /\ wpc[w] = "merge" /\ wpc' = [wpc EXCEPT ![w] = "release"]
          /\ counts' = [d \in Datum |-> counts[d] + localCounts[w][d]]
          /\ UNCHANGED rest
      BY <2>5 DEF Merge
    <3>2. ~InPlace(w) /\ rest[w] = {}
      BY <3>1 DEF RestInv
    <3>3. \A d \in Datum : localCounts[w][d] = IF Owner[d] = w THEN 1 ELSE 0
      BY <3>1, <3>2 DEF LocalInv, Entries
    <3>4. \A d \in Datum : Owner[d] = w => counts[d] = 0 /\ Counted(d)'
      BY <3>1, <3>2
    <3>5. \A d \in Datum : Owner[d] # w => (Counted(d)' <=> Counted(d))
      BY <3>1
    <3>6. \A d \in Datum : counts'[d] = IF Counted(d)' THEN 1 ELSE 0
      BY <3>1, <3>3, <3>4, <3>5
    <3>7. QED
      BY <3>6
  <2>6. QED
    BY <1>2, <2>1, <2>2, <2>3, <2>4, <2>5 DEF Thread
<1>3. CASE Finished \/ UNCHANGED vars
  BY <1>0, <1>3 DEF Finished, vars, ContentInv, Counted, FillInv
<1>4. QED
  BY <1>1, <1>2, <1>3 DEF Next

\* A thread whose copy has been added does not take it back.
LEMMA StaysMerged ==
  ASSUME FillInv, [Next]_vars, NEW w \in Worker, ~InPlace(w),
         wpc[w] \in {"release", "done"}
  PROVE  wpc'[w] \in {"release", "done"}
<1> USE DEF hist, local, FillInv, TypeOK
<1>1. ASSUME NEW c \in Call, Caller(c) PROVE wpc'[w] \in {"release", "done"}
  BY <1>1, CallerMoves
<1>2. ASSUME NEW v \in Worker, Thread(v) PROVE wpc'[w] \in {"release", "done"}
  BY <1>2 DEF Thread, Go, Copy, Reset, Reject, FillEntry, FillEnd, Acquire,
     Merge, MergeFail, Release
<1>3. CASE Finished \/ UNCHANGED vars
  BY <1>3 DEF Finished, vars
<1>4. QED
  BY <1>1, <1>2, <1>3 DEF Next

LEMMA Invariance == Spec => []FillInv
<1>1. Init => FillInv
  BY InitFillInv
<1>2. Spec => []TypeOK
  BY TypeCorrect
<1>3. FillInv /\ TypeOK' /\ [Next]_vars => FillInv'
  BY RestStep, CallStep, LocalStep, ContentStep DEF FillInv
<1>4. QED
  BY <1>1, <1>2, <1>3, PTL DEF Spec

\* However the calls and their threads interleave, and whatever fails, no
\* entry is counted twice: resetting each private copy is enough.
THEOREM CountedAtMostOnce == Spec => []NothingTwice
<1>1. FillInv => NothingTwice
  BY DEF FillInv, ContentInv, NothingTwice
<1>2. QED
  BY <1>1, Invariance, PTL

\* A call that returns without having lost a thread has counted all of its
\* entries, each once, exactly as an unthreaded fill.
THEOREM CompleteOnReturn == Spec => []ReturnedComplete
<1>1. FillInv => ReturnedComplete
  <2> SUFFICES ASSUME FillInv, NEW c \in Call, cpc[c] = "done",
                      \A w \in Worker : w[1] = c => wpc[w] # "dead",
                      NEW d \in Datum, Owner[d][1] = c
               PROVE  counts[d] = 1
    BY DEF ReturnedComplete
  <2>1. PICK w \in Worker : w = Owner[d]
    BY ConstantsAssumption
  <2>2. wpc[w] \in {"done", "dead"}
    BY <2>1, WorkerElim DEF FillInv, CallInv
  <2>3. wpc[w] = "done" /\ rest[w] = {}
    BY <2>1, <2>2 DEF FillInv, RestInv
  <2>4. Counted(d)
    BY <2>1, <2>3 DEF Counted
  <2>5. QED
    BY <2>4 DEF FillInv, ContentInv
<1>2. QED
  BY <1>1, Invariance, PTL

\* A private copy reaches the histogram whole or not at all.
THEOREM WholeSections == Spec => SectionsAppearWhole
<1>1. ASSUME FillInv, [Next]_vars, NEW w \in Worker, ~InPlace(w)
      PROVE  \/ \A d \in Entries(w) : counts'[d] = counts[d]
             \/ \A d \in Entries(w) : counts'[d] = counts[d] + 1
  <2>1. FillInv'
    BY <1>1, RestStep, CallStep, LocalStep, ContentStep, TypeStep
    DEF FillInv
  <2>2. ~InPlace(w)'
    BY <1>1, InPlaceFixed
  <2>3. \A d \in Entries(w) :
          /\ counts[d] = IF wpc[w] \in {"release", "done"} THEN 1 ELSE 0
          /\ counts'[d] = IF wpc'[w] \in {"release", "done"} THEN 1 ELSE 0
    BY <1>1, <2>1, <2>2 DEF FillInv, ContentInv, Counted, Entries
  <2>4. wpc[w] \in {"release", "done"} => wpc'[w] \in {"release", "done"}
    BY <1>1, <2>3, StaysMerged
  <2>5. QED
    BY <2>3, <2>4
<1>2. FillInv /\ [Next]_vars =>
        [\A w \in Worker : ~InPlace(w) =>
           \/ \A d \in Entries(w) : counts'[d] = counts[d]
           \/ \A d \in Entries(w) : counts'[d] = counts[d] + 1]_vars
  BY <1>1
<1>3. QED
  BY <1>2, Invariance, PTL DEF Spec, SectionsAppearWhole

\* Indices stay valid: no step, growing or merging, moves a category.
THEOREM BinsAreStable == Spec => BinsKept
<1>1. ASSUME FillInv, [Next]_vars PROVE KeepsBins(axis, axis')
  <2> USE DEF hist, local
  <2>1. axis \in Axis
    BY <1>1 DEF FillInv, TypeOK
  <2>2. KeepsBins(axis, axis)
    BY DEF KeepsBins
  <2>3. CASE axis' = axis
    BY <2>2, <2>3
  <2>4. ASSUME NEW w \in Worker, FillEntry(w) PROVE KeepsBins(axis, axis')
    <3>1. PICK d \in rest[w] : InsertEntry(w, d)
      BY <2>4 DEF FillEntry
    <3>2. d \in Datum
      BY <1>1, <3>1 DEF FillInv, TypeOK
    <3>3. CASE InPlace(w)
      BY <2>1, <3>1, <3>2, <3>3, InsertType DEF InsertEntry
    <3>4. CASE ~InPlace(w)
      BY <2>2, <3>1, <3>4 DEF InsertEntry
    <3>5. QED
      BY <3>3, <3>4
  <2>5. ASSUME NEW w \in Worker, Merge(w) PROVE KeepsBins(axis, axis')
    <3>1. localAxis[w] \in Axis
      BY <1>1 DEF FillInv, TypeOK
    <3>2. QED
      BY <2>1, <2>5, <3>1, MergeType DEF Merge
  <2>6. QED
    BY <1>1, <2>3, <2>4, <2>5
    DEF Next, Caller, Thread, vars, EnterDirect, EnterMean, EnterThreaded,
        StartThread, JoinThread, DirectReturn, Copy, Reset, Reject, FillEnd,
        Acquire, MergeFail, Release, Finished
<1>2. FillInv /\ [Next]_vars => [KeepsBins(axis, axis')]_vars
  BY <1>1
<1>3. QED
  BY <1>2, Invariance, PTL DEF Spec, BinsKept

\* What FillInv says of a call that raises, and of the thread of a call.
RaisedInv ==
  \A c \in Call : cpc[c] = "raised" =>
    \A i \in Nat : 1 <= i /\ i <= Threads[c] =>
      wpc[<<c, i>>] \in {"new", "done", "dead"}

\* A lock is held by a thread that is inside the with block, and by nobody
\* else.
Inside == {"merge", "release", "unwind"}
LockInv ==
  /\ \A c \in Call : lock[c] # 0 =>
       <<c, lock[c]>> \in Worker /\ wpc[<<c, lock[c]>>] \in Inside
  /\ \A w \in Worker : wpc[w] \in Inside => lock[w[1]] = w[2]

\* A rejected section has all of its entries left, and only a rejected one can
\* die that fills in place.
DeadInv ==
  \A w \in Worker :
    /\ w \in Broken => rest[w] = Entries(w)
    /\ InPlace(w) /\ wpc[w] = "dead" => w \in Broken

\* The flag is off as soon as a call with a weight has begun.
FlagInv ==
  \A c \in Call :
    (cpc[c] # "idle" /\ c \in Weighted /\ storage \notin Accumulating)
      => ~varianceKnown

EndInv == RaisedInv /\ LockInv /\ DeadInv /\ FlagInv

LEMMA InitEndInv == Init => EndInv
BY DEF Init, EndInv, RaisedInv, LockInv, Inside, DeadInv, FlagInv

\* The threads that a step of a caller leaves alone, and those of a thread.
LEMMA ThreadMoves ==
  ASSUME FillInv, NEW w \in Worker, Thread(w)
  PROVE  /\ UNCHANGED <<cpc, varianceKnown, storage>>
         /\ wpc[w] \notin {"new", "done", "dead"}
         /\ \A v \in Worker : v # w => wpc'[v] = wpc[v]
BY DEF Thread, Go, FillInv, TypeOK, Copy, Reset, Reject, FillEntry,
   FillEnd, Acquire, Merge, MergeFail, Release, hist

LEMMA RaisedStep ==
  ASSUME FillInv, EndInv, [Next]_vars
  PROVE  RaisedInv'
<1> USE WorkerIntro DEF EndInv, RaisedInv
<1>1. ASSUME NEW c \in Call, Caller(c) PROVE RaisedInv'
  <2> USE <1>1, ConstantsAssumption DEF FillInv, CallInv, TypeOK
  <2>1. CASE EnterDirect(c)
    BY <2>1 DEF EnterDirect, CanEnter
  <2>2. CASE EnterMean(c) \/ EnterThreaded(c)
    BY <2>2 DEF EnterMean, EnterThreaded, CanEnter
  <2>3. CASE StartThread(c)
    BY <2>3 DEF StartThread
  <2>4. CASE JoinThread(c)
    BY <2>4 DEF JoinThread
  <2>5. CASE DirectReturn(c)
    <3>1. /\ UNCHANGED wpc /\ Threads[c] = 1
          /\ wpc[<<c, 1>>] \in {"done", "dead"}
          /\ \A b \in Call : b # c => cpc'[b] = cpc[b]
      BY <2>5 DEF DirectReturn
    <3>2. \A i \in Nat : 1 <= i /\ i <= Threads[c] => i = 1
      BY <3>1
    <3>3. QED
      BY <3>1, <3>2
  <2>6. QED
    BY <1>1, <2>1, <2>2, <2>3, <2>4, <2>5 DEF Caller
<1>2. ASSUME NEW w \in Worker, Thread(w) PROVE RaisedInv'
  BY <1>2, ThreadMoves
<1>3. CASE Finished \/ UNCHANGED vars
  BY <1>3 DEF Finished, vars
<1>4. QED
  BY <1>1, <1>2, <1>3 DEF Next

LEMMA FlagStep ==
  ASSUME FillInv, EndInv, [Next]_vars
  PROVE  FlagInv'
<1> USE DEF EndInv, FlagInv
<1>0. storage' = storage
  BY StorageFixed
<1>1. ASSUME NEW c \in Call, Caller(c) PROVE FlagInv'
  <2> USE <1>0, <1>1 DEF FillInv, TypeOK
  <2>1. CASE EnterDirect(c) \/ EnterMean(c) \/ EnterThreaded(c)
    BY <2>1 DEF EnterDirect, EnterMean, EnterThreaded, NoteWeight
  <2>2. CASE StartThread(c) \/ JoinThread(c) \/ DirectReturn(c)
    BY <2>2 DEF StartThread, JoinThread, DirectReturn
  <2>3. QED
    BY <1>1, <2>1, <2>2 DEF Caller
<1>2. ASSUME NEW w \in Worker, Thread(w) PROVE FlagInv'
  BY <1>2, ThreadMoves
<1>3. CASE Finished \/ UNCHANGED vars
  BY <1>3 DEF Finished, vars, hist
<1>4. QED
  BY <1>1, <1>2, <1>3 DEF Next

LEMMA DeadStep ==
  ASSUME FillInv, EndInv, [Next]_vars
  PROVE  DeadInv'
<1> USE DEF EndInv, DeadInv
<1>0. \A w : InPlace(w)' <=> InPlace(w)
  BY InPlaceFixed
<1>1. ASSUME NEW c \in Call, Caller(c) PROVE DeadInv'
  BY <1>0, <1>1, CallerMoves DEF FillInv, TypeOK
<1>2. ASSUME NEW w \in Worker, Thread(w) PROVE DeadInv'
  <2> USE <1>0 DEF FillInv, TypeOK, RestInv, Go
  <2>1. CASE Copy(w) \/ Reset(w) \/ Reject(w) \/ FillEnd(w)
    BY <2>1 DEF Copy, Reset, Reject, FillEnd
  <2>2. CASE FillEntry(w)
    <3>1. /\ w \notin Broken /\ UNCHANGED wpc
          /\ \A v \in Worker : v # w => rest'[v] = rest[v]
      BY <2>2 DEF FillEntry, InsertEntry
    <3>2. QED
      BY <3>1
  <2>3. CASE Acquire(w) \/ Merge(w) \/ MergeFail(w) \/ Release(w)
    BY <2>3 DEF Acquire, Merge, MergeFail, Release
  <2>4. QED
    BY <1>2, <2>1, <2>2, <2>3 DEF Thread
<1>3. CASE Finished \/ UNCHANGED vars
  BY <1>0, <1>3 DEF Finished, vars
<1>4. QED
  BY <1>1, <1>2, <1>3 DEF Next

LEMMA LockStep ==
  ASSUME FillInv, EndInv, [Next]_vars
  PROVE  LockInv'
<1> USE DEF EndInv, LockInv, Inside
<1>1. ASSUME NEW c \in Call, Caller(c) PROVE LockInv'
  <2>1. UNCHANGED lock
    BY <1>1 DEF Caller, EnterDirect, EnterMean, EnterThreaded, StartThread,
       JoinThread, DirectReturn
  <2>2. QED
    BY <1>1, <2>1, CallerMoves DEF FillInv, TypeOK
<1>2. ASSUME NEW w \in Worker, Thread(w) PROVE LockInv'
  <2> USE DEF FillInv, TypeOK, Go
  <2>0. w[1] \in Call /\ w[2] \in Nat /\ w[2] # 0 /\ w = <<w[1], w[2]>>
    BY WorkerElim
  <2>1. CASE Acquire(w)
    <3>1. /\ lock[w[1]] = 0 /\ lock' = [lock EXCEPT ![w[1]] = w[2]]
          /\ wpc' = [wpc EXCEPT ![w] = "merge"]
      BY <2>1 DEF Acquire
    <3>2. \A v \in Worker : v # w /\ wpc[v] \in Inside => v[1] # w[1]
      BY <3>1, WorkerElim
    <3>3. \A c \in Call : lock'[c] # 0 =>
            <<c, lock'[c]>> \in Worker /\ wpc'[<<c, lock'[c]>>] \in Inside
      <4>1. TAKE c \in Call
      <4>2. CASE c = w[1]
        BY <2>0, <3>1, <4>2
      <4>3. CASE c # w[1]
        BY <2>0, <3>1, <4>3
      <4>4. QED
        BY <4>2, <4>3
    <3>4. \A v \in Worker : wpc'[v] \in Inside => lock'[v[1]] = v[2]
      BY <2>0, <3>1, <3>2, WorkerElim
    <3>5. QED
      BY <3>3, <3>4
  <2>2. CASE Release(w)
    <3>1. /\ wpc[w] \in Inside /\ lock' = [lock EXCEPT ![w[1]] = 0]
          /\ wpc'[w] \in {"done", "dead"}
          /\ \A v \in Worker : v # w => wpc'[v] = wpc[v]
      BY <2>2 DEF Release
    <3>2. \A v \in Worker : v # w /\ wpc[v] \in Inside => v[1] # w[1]
      BY <2>0, <3>1, WorkerElim
    <3>3. QED
      BY <2>0, <3>1, <3>2, WorkerElim
  <2>3. CASE Merge(w) \/ MergeFail(w)
    <3>1. wpc[w] = "merge" /\ lock' = lock
      BY <2>3 DEF Merge, MergeFail
    <3>2. /\ wpc'[w] \in Inside
          /\ \A v \in Worker : v # w => wpc'[v] = wpc[v]
      BY <2>3 DEF Merge, MergeFail
    <3>3. QED
      BY <3>1, <3>2
  <2>4. CASE Copy(w) \/ Reset(w) \/ Reject(w) \/ FillEntry(w) \/ FillEnd(w)
    <3>1. wpc[w] \notin Inside /\ lock' = lock
      BY <2>4 DEF Copy, Reset, Reject, FillEntry, FillEnd
    <3>2. wpc'[w] \notin Inside
      BY <2>4 DEF Copy, Reset, Reject, FillEntry, FillEnd
    <3>3. \A v \in Worker : v # w => wpc'[v] = wpc[v]
      BY <2>4 DEF Copy, Reset, Reject, FillEntry, FillEnd
    <3>4. QED
      BY <3>1, <3>2, <3>3
  <2>5. QED
    BY <1>2, <2>1, <2>2, <2>3, <2>4 DEF Thread
<1>3. CASE Finished \/ UNCHANGED vars
  BY <1>3 DEF Finished, vars
<1>4. QED
  BY <1>1, <1>2, <1>3 DEF Next

LEMMA EndInvariance == Spec => [](FillInv /\ EndInv)
<1>1. FillInv /\ EndInv /\ [Next]_vars => EndInv'
  BY RaisedStep, LockStep, DeadStep, FlagStep DEF EndInv
<1>2. QED
  BY <1>1, InitEndInv, Invariance, PTL DEF Spec

\* A section that died is not in the histogram, whether the fill rejected it
\* or the += raised.
THEOREM FailuresCountNothing == Spec => []DeadCountNothing
<1>1. FillInv /\ EndInv => DeadCountNothing
  <2> SUFFICES ASSUME FillInv, EndInv, NEW w \in Worker, wpc[w] = "dead",
                      NEW d \in Entries(w)
               PROVE  counts[d] = 0
    BY DEF DeadCountNothing
  <2>1. d \in Datum /\ Owner[d] = w
    BY DEF Entries
  <2>2. InPlace(w) => d \in rest[w]
    BY DEF EndInv, DeadInv
  <2>3. ~Counted(d)
    BY <2>1, <2>2 DEF Counted
  <2>4. QED
    BY <2>1, <2>3 DEF FillInv, ContentInv
<1>2. QED
  BY <1>1, EndInvariance, PTL

\* A weighted entry in a simple storage is never seen with the flag on, not
\* even between the steps of a call.
THEOREM WeightsAreNoted == Spec => []WeightedEntriesSpoilVariance
<1>1. FillInv /\ EndInv => WeightedEntriesSpoilVariance
  <2> SUFFICES ASSUME FillInv, EndInv, NEW d \in Datum, counts[d] > 0,
                      Owner[d][1] \in Weighted, storage \notin Accumulating
               PROVE  ~varianceKnown
    BY DEF WeightedEntriesSpoilVariance
  <2>1. PICK w \in Worker : w = Owner[d]
    BY ConstantsAssumption
  <2>2. Counted(d) /\ d \in Entries(w)
    BY <2>1 DEF FillInv, ContentInv, Entries
  <2>3. wpc[w] # "new"
    BY <2>1, <2>2 DEF Counted, FillInv, RestInv
  <2>4. cpc[w[1]] # "idle"
    BY <2>3, WorkerElim DEF FillInv, CallInv
  <2>5. QED
    BY <2>1, <2>4, WorkerElim DEF EndInv, FlagInv
<1>2. QED
  BY <1>1, EndInvariance, PTL

\* After its end, a call has no thread that could still act and no lock.
THEOREM QuietAtTheEnd == Spec => []QuietAfterReturn
<1>1. FillInv /\ EndInv => QuietAfterReturn
  <2> SUFFICES ASSUME FillInv, EndInv, NEW c \in Call, cpc[c] \in {"done", "raised"}
               PROVE  /\ lock[c] = 0
                      /\ \A w \in Worker : w[1] = c => wpc[w] \in {"new", "done", "dead"}
    BY DEF QuietAfterReturn
  <2>1. \A w \in Worker : w[1] = c => wpc[w] \in {"new", "done", "dead"}
    BY WorkerElim DEF FillInv, CallInv, EndInv, RaisedInv
  <2>2. lock[c] = 0
    BY <2>1, WorkerElim DEF EndInv, LockInv, Inside
  <2>3. QED
    BY <2>1, <2>2
<1>2. QED
  BY <1>1, EndInvariance, PTL

-----------------------------------------------------------------------------
(* The promise of FillSpec *)

\* Fills whose sections C++ fill accepts, on axes that can be merged.
Usable == Broken = {} /\ Mergeable

Alive == \A w \in Worker : wpc[w] \notin {"unwind", "dead"}

LEMMA AliveStep ==
  ASSUME Usable, FillInv, Alive, [Next]_vars
  PROVE  Alive'
<1> USE DEF Alive, FillInv, TypeOK
<1>1. ASSUME NEW c \in Call, Caller(c) PROVE Alive'
  BY <1>1, CallerMoves
<1>2. ASSUME NEW w \in Worker, Thread(w) PROVE Alive'
  <2>1. wpc'[w] \notin {"unwind", "dead"}
    BY <1>2 DEF Usable, Thread, Go, Copy, Reset, Reject, FillEntry, FillEnd,
       Acquire, Merge, MergeFail, Release
  <2>2. QED
    BY <1>2, <2>1, ThreadMoves
<1>3. CASE Finished \/ UNCHANGED vars
  BY <1>3 DEF Finished, vars
<1>4. QED
  BY <1>1, <1>2, <1>3 DEF Next

\* The status of the calls as FillSpec sees them.
Status == [c \in Call |-> IF Running(c) THEN "running" ELSE cpc[c]]

LEMMA StatusOfRunning ==
  ASSUME FillInv, EndInv, NEW w \in Worker, wpc[w] \notin {"new", "done", "dead"}
  PROVE  Running(w[1])
BY WorkerElim DEF FillInv, TypeOK, CallInv, CallerStates, EndInv, RaisedInv, Running

\* A call can return only when all of its entries are counted.
LEMMA AllCounted ==
  ASSUME FillInv, NEW c \in Call,
         \A w \in Worker : w[1] = c => wpc[w] = "done"
  PROVE  \A d \in Promise!Entries(c) : counts[d] = 1
<1> SUFFICES ASSUME NEW d \in Datum, Owner[d][1] = c PROVE counts[d] = 1
  BY DEF Promise!Entries
<1>1. PICK w \in Worker : w = Owner[d]
  BY ConstantsAssumption
<1>2. wpc[w] = "done" /\ rest[w] = {}
  BY <1>1 DEF FillInv, RestInv
<1>3. Counted(d)
  BY <1>1, <1>2 DEF Counted
<1> QED BY <1>3 DEF FillInv, ContentInv

LEMMA CallerPromise ==
  ASSUME FillInv, EndInv, Alive, NEW c \in Call, Caller(c)
  PROVE  Promise!SpecNext \/ (Status' = Status /\ counts' = counts)
<1> USE DEF Status, Running, FillInv, TypeOK, Promise!SpecNext
<1>0. counts' = counts
  BY CallerMoves
<1>1. CASE EnterDirect(c) \/ EnterThreaded(c)
  <2>1. Promise!Begin(c)
    BY <1>0, <1>1 DEF EnterDirect, EnterThreaded, CanEnter, Promise!Begin
  <2>2. QED
    BY <2>1
<1>2. CASE EnterMean(c)
  <2>1. Promise!Raise(c)
    BY <1>0, <1>2 DEF EnterMean, CanEnter, Promise!Raise
  <2>2. QED
    BY <2>1
<1>3. CASE StartThread(c)
  <2>1. Status' = Status
    BY <1>3 DEF StartThread
  <2>2. QED
    BY <1>0, <2>1
<1>4. CASE JoinThread(c)
  <2>1. CASE next[c] < Threads[c]
    BY <1>0, <1>4, <2>1 DEF JoinThread
  <2>2. CASE ~(next[c] < Threads[c])
    <3>1. /\ cpc[c] = "join" /\ cpc' = [cpc EXCEPT ![c] = "done"]
          /\ next[c] = Threads[c] /\ wpc[<<c, next[c]>>] \in {"done", "dead"}
      <4>1. /\ cpc[c] = "join" /\ cpc' = [cpc EXCEPT ![c] = "done"]
            /\ wpc[<<c, next[c]>>] \in {"done", "dead"}
        BY <1>4, <2>2 DEF JoinThread
      <4>2. next[c] \in Nat /\ Threads[c] \in Nat /\ next[c] <= Threads[c]
        BY ConstantsAssumption DEF FillInv, TypeOK
      <4>3. next[c] = Threads[c]
        BY <2>2, <4>2, LessOrEqual
      <4>4. QED
        BY <4>1, <4>3
    <3>2. ASSUME NEW w \in Worker, w[1] = c PROVE wpc[w] = "done"
      <4>1. w = <<c, w[2]>> /\ w[2] \in Nat /\ 1 <= w[2] /\ w[2] <= next[c]
        BY <3>1, <3>2, WorkerElim
      <4>2. w[2] = next[c] \/ w[2] < next[c]
        BY <4>1, LessOrEqual
      <4>3. wpc[w] \in {"done", "dead"}
        BY <3>1, <4>1, <4>2 DEF CallInv
      <4>4. QED
        BY <4>3 DEF Alive
    <3>3. Promise!Finish(c)
      <4>1. \A d \in Promise!Entries(c) : counts[d] = 1
        BY <3>2, AllCounted
      <4>2. QED
        BY <1>0, <3>1, <4>1 DEF Promise!Finish
    <3>4. QED
      BY <3>3 DEF Promise!Work
  <2>3. QED
    BY <2>1, <2>2
<1>5. CASE DirectReturn(c)
  <2>1. cpc[c] = "direct" /\ Threads[c] = 1 /\ <<c, 1>> \in Worker
    BY <1>5, WorkerIntro, ConstantsAssumption DEF DirectReturn, CallInv
  <2>2. wpc[<<c, 1>>] = "done" /\ cpc' = [cpc EXCEPT ![c] = "done"]
    BY <1>5, <2>1 DEF DirectReturn, Alive
  <2>3. ASSUME NEW w \in Worker, w[1] = c PROVE wpc[w] = "done"
    <3>1. w = <<c, 1>>
      BY <2>1, <2>3, WorkerElim
    <3>2. QED
      BY <2>2, <3>1
  <2>4. Promise!Finish(c)
    <3>1. \A d \in Promise!Entries(c) : counts[d] = 1
      BY <2>3, AllCounted
    <3>2. QED
      BY <1>0, <2>1, <2>2, <3>1 DEF Promise!Finish
  <2>5. QED
    BY <2>4 DEF Promise!Work
<1>6. QED
  BY <1>1, <1>2, <1>3, <1>4, <1>5 DEF Caller

\* Adding entries that were not counted, none of another call.
LEMMA Adding ==
  ASSUME FillInv, EndInv, NEW w \in Worker, wpc[w] \notin {"new", "done", "dead"},
         Status' = Status,
         NEW S \in SUBSET Entries(w),
         \A d \in S : counts[d] = 0,
         counts' = [d \in Datum |-> IF d \in S THEN 1 ELSE counts[d]]
  PROVE  Promise!SpecNext \/ counts' = counts
<1>1. w[1] \in Call
  BY WorkerElim
<1>2. Running(w[1])
  BY StatusOfRunning
<1>3. CASE S = {}
  BY <1>3 DEF FillInv, TypeOK
<1>4. CASE S # {}
  <2>1. S \in SUBSET {d \in Promise!Entries(w[1]) : counts[d] = 0}
    BY DEF Entries, Promise!Entries
  <2>2. Promise!Add(w[1])
    BY <1>1, <1>2, <1>4, <2>1 DEF Promise!Add, Status
  <2>3. QED
    BY <1>1, <2>2 DEF Promise!SpecNext, Promise!Work
<1>5. QED
  BY <1>3, <1>4

LEMMA ThreadPromise ==
  ASSUME FillInv, EndInv, NEW w \in Worker, Thread(w)
  PROVE  Status' = Status /\ (Promise!SpecNext \/ counts' = counts)
<1>1. Status' = Status /\ wpc[w] \notin {"new", "done", "dead"}
  BY ThreadMoves DEF Status, Running
<1>2. CASE FillEntry(w)
  <2>1. PICK d \in rest[w] : InsertEntry(w, d)
    BY <1>2 DEF FillEntry
  <2>2. CASE InPlace(w)
    <3>1. d \in Entries(w) /\ d \in Datum /\ Owner[d] = w
      BY DEF FillInv, RestInv, Entries
    <3>2. counts[d] = 0
      BY <2>2, <3>1 DEF FillInv, ContentInv, Counted
    <3>3. counts' = [e \in Datum |-> IF e \in {d} THEN 1 ELSE counts[e]]
      BY <2>1, <2>2, <3>1, <3>2 DEF InsertEntry, FillInv, TypeOK
    <3>4. Promise!SpecNext \/ counts' = counts
      BY <1>1, <3>1, <3>2, <3>3, Adding
    <3>5. QED
      BY <1>1, <3>4
  <2>3. CASE ~InPlace(w)
    BY <1>1, <2>1, <2>3 DEF InsertEntry
  <2>4. QED
    BY <2>2, <2>3
<1>3. CASE Merge(w)
  <2>1. /\ wpc[w] = "merge"
        /\ counts' = [d \in Datum |-> counts[d] + localCounts[w][d]]
    BY <1>3 DEF Merge, Go
  <2>2. ~InPlace(w) /\ rest[w] = {}
    BY <2>1 DEF FillInv, RestInv
  <2>3. \A d \in Datum : localCounts[w][d] = IF d \in Entries(w) THEN 1 ELSE 0
    BY <2>1, <2>2 DEF FillInv, LocalInv
  <2>4. \A d \in Entries(w) : counts[d] = 0
    BY <2>1, <2>2 DEF FillInv, ContentInv, Counted, Entries
  <2>5. counts' = [d \in Datum |-> IF d \in Entries(w) THEN 1 ELSE counts[d]]
    <3>1. ASSUME NEW d \in Datum
          PROVE  counts[d] + localCounts[w][d] = IF d \in Entries(w) THEN 1 ELSE counts[d]
      BY <2>3, <2>4 DEF FillInv, TypeOK
    <3>2. QED
      BY <2>1, <3>1
  <2>6. Promise!SpecNext \/ counts' = counts
    BY <1>1, <2>4, <2>5, Adding
  <2>7. QED
    BY <1>1, <2>6
<1>4. CASE ~FillEntry(w) /\ ~Merge(w)
  <2>1. counts' = counts
    BY <1>4 DEF Thread, Copy, Reset, Reject, FillEnd, Acquire, MergeFail,
       Release, hist
  <2>2. QED
    BY <1>1, <2>1
<1>5. QED
  BY <1>2, <1>3, <1>4

\* A fill whose sections are all usable takes no step that FillSpec does not
\* allow, whatever its threads do: the safety half of ImplementsFillSpec.
THEOREM KeepsThePromise ==
  ASSUME Usable
  PROVE  Spec => Promise!SafeSpec
<1>1. Init => Alive /\ Promise!SpecInit
  BY DEF Init, Alive, Promise!SpecInit, NoCounts, Running
<1>2. FillInv /\ EndInv /\ Alive /\ [Next]_vars
        => Alive' /\ [Promise!SpecNext]_(Promise!specVars)
  <2> SUFFICES ASSUME FillInv, EndInv, Alive, [Next]_vars
               PROVE  /\ Alive'
                      /\ Promise!SpecNext \/ (Status' = Status /\ counts' = counts)
    BY DEF Promise!specVars, Status
  <2>1. Alive'
    BY Usable, AliveStep
  <2>2. CASE \E c \in Call : Caller(c)
    BY <2>1, <2>2, CallerPromise
  <2>3. CASE \E w \in Worker : Thread(w)
    BY <2>1, <2>3, ThreadPromise
  <2>4. CASE Finished \/ UNCHANGED vars
    BY <2>1, <2>4 DEF Finished, vars, hist, Status, Running
  <2>5. QED
    BY <2>2, <2>3, <2>4 DEF Next
<1>3. QED
  BY <1>1, <1>2, EndInvariance, PTL DEF Spec, Promise!SafeSpec

-----------------------------------------------------------------------------
(* Growing and merging any category axis *)

LEMMA DisjointSizes ==
  ASSUME NEW S, NEW T, S \subseteq Cat, T \subseteq Cat, S \cap T = {}
  PROVE  Cardinality(S \cup T) = Cardinality(S) + Cardinality(T)
<1>1. /\ IsFiniteSet(S) /\ Cardinality(S) \in Nat
      /\ IsFiniteSet(T) /\ Cardinality(T) \in Nat
  BY PartSizes
<1>2. Cardinality(S \cup T) =
        Cardinality(S) + Cardinality(T) - Cardinality(S \cap T)
  BY <1>1, FS_Union
<1>3. Cardinality(S \cap T) = 0
  BY FS_EmptySet
<1> QED BY <1>1, <1>2, <1>3

-----------------------------------------------------------------------------
(* Ranks *)

\* The position of k among the members of S in the order of their bins.
UpTo(S, b, k) == {j \in S : b[j] <= b[k]}

LEMMA RanksDiffer ==
  ASSUME NEW b \in Axis, NEW S, S \subseteq Cat, NEW j \in S, NEW k \in S,
         b[j] < b[k]
  PROVE  Cardinality(UpTo(S, b, j)) # Cardinality(UpTo(S, b, k))
<1>1. b[j] \in Nat /\ b[k] \in Nat /\ \A i \in S : b[i] \in Nat
  BY DEF Axis
<1>2. UpTo(S, b, j) \subseteq UpTo(S, b, k)
  BY <1>1 DEF UpTo
<1>3. k \in UpTo(S, b, k) /\ k \notin UpTo(S, b, j)
  BY <1>1 DEF UpTo
<1>4. IsFiniteSet(UpTo(S, b, k))
  BY PartSizes DEF UpTo
<1> QED BY <1>2, <1>3, <1>4, FS_Subset

\* Members with different bins have the ranks from 1 to their number.
LEMMA Ranks ==
  ASSUME NEW b \in Axis, NEW S, S \subseteq Cat,
         \A j, k \in S : b[j] = b[k] => j = k
  PROVE  /\ \A j, k \in S :
              Cardinality(UpTo(S, b, j)) = Cardinality(UpTo(S, b, k)) => j = k
         /\ {Cardinality(UpTo(S, b, k)) : k \in S} = 1 .. Cardinality(S)
<1> DEFINE f == [k \in S |-> Cardinality(UpTo(S, b, k))]
           N == 1 .. Cardinality(S)
<1>1. IsFiniteSet(S) /\ Cardinality(S) \in Nat
  BY PartSizes
<1>2. \A k \in S : f[k] \in N
  <2> SUFFICES ASSUME NEW k \in S PROVE f[k] \in N
    OBVIOUS
  <2>1. UpTo(S, b, k) \in SUBSET S /\ k \in UpTo(S, b, k)
    BY DEF UpTo, Axis
  <2>2. Cardinality(UpTo(S, b, k)) <= Cardinality(S)
    BY <1>1, <2>1, FS_Subset
  <2>3. /\ Cardinality(UpTo(S, b, k)) \in Nat
        /\ Cardinality(UpTo(S, b, k)) # 0
    BY <1>1, <2>1, FS_Subset, FS_EmptySet, FS_CardinalityType
  <2> QED BY <1>1, <2>2, <2>3
<1>3. \A j, k \in S : f[j] = f[k] => j = k
  <2> SUFFICES ASSUME NEW j \in S, NEW k \in S, f[j] = f[k] PROVE j = k
    OBVIOUS
  <2>1. b[j] \in Nat /\ b[k] \in Nat
    BY DEF Axis
  <2>2. ~(b[j] < b[k]) /\ ~(b[k] < b[j])
    BY RanksDiffer
  <2> QED BY <2>1, <2>2
<1>4. IsFiniteSet(N) /\ Cardinality(N) = Cardinality(S)
  BY <1>1, FS_Interval
<1> HIDE DEF N
<1>5. f \in Injection(S, N)
  BY <1>2, <1>3 DEF Injection, IsInjective
<1>6. f \in Surjection(S, N)
  BY <1>4, <1>5, FS_Injection
<1>7. {f[k] : k \in S} = N
  <2>1. \A n \in N : \E k \in S : f[k] = n
    BY <1>6 DEF Surjection
  <2> HIDE DEF f
  <2> QED BY <1>2, <2>1
<1> QED BY <1>3, <1>7 DEF N

-----------------------------------------------------------------------------
(* Growing *)

\* Filling a category puts it on the axis, and nothing else.
LEMMA GrowAdds ==
  ASSUME NEW a \in Axis, NEW k \in Cat
  PROVE  OnAxis(Grow(a, k)) = OnAxis(a) \cup {k}
<1>1. Size(a) \in Nat
  BY PartSizes DEF Size, OnAxis
<1> QED BY <1>1 DEF Grow, OnAxis, Axis

\* An axis without gaps has none after it has grown.
THEOREM GrowingLeavesNoGap ==
  ASSUME NEW a \in Axis, WellFormed(a), NEW k \in Cat
  PROVE  WellFormed(Grow(a, k))
<1>1. CASE a[k] # 0
  BY <1>1 DEF Grow
<1>2. CASE a[k] = 0
  <2> DEFINE g == Grow(a, k)
             n == Size(a)
  <2>1. /\ n \in Nat /\ g = [a EXCEPT ![k] = n + 1]
    BY <1>2, PartSizes DEF Grow, Size, OnAxis
  <2>2. g[k] = n + 1 /\ \A j \in OnAxis(a) : g[j] = a[j]
    BY <1>2, <2>1 DEF Axis, OnAxis
  <2>3. k \notin OnAxis(a) /\ IsFiniteSet(OnAxis(a)) /\ OnAxis(g) = OnAxis(a) \cup {k}
    BY <1>2, PartSizes, GrowAdds DEF OnAxis
  <2>4. Size(g) = n + 1
    BY <2>3, FS_AddElement DEF Size
  <2>5. {a[j] : j \in OnAxis(a)} = 1 .. n /\ \A j \in OnAxis(a) : a[j] \in 1 .. n
    BY DEF WellFormed
  <2> HIDE DEF g, n
  <2>6. {g[j] : j \in OnAxis(g)} = {a[j] : j \in OnAxis(a)} \cup {n + 1}
    BY <2>2, <2>3
  <2>7. {g[j] : j \in OnAxis(g)} = 1 .. Size(g)
    <3>1. 1 .. (n + 1) = (1 .. n) \cup {n + 1}
      BY <2>1
    <3> QED BY <2>4, <2>5, <2>6, <3>1
  <2>8. \A i, j \in OnAxis(g) : g[i] = g[j] => i = j
    BY <2>1, <2>2, <2>3, <2>5 DEF WellFormed
  <2> QED BY <2>7, <2>8 DEF WellFormed, g
<1> QED BY <1>1, <1>2

-----------------------------------------------------------------------------
(* Merging *)

New(a, b) == OnAxis(b) \ OnAxis(a)

LEMMA MergedBins ==
  ASSUME NEW a \in Axis, NEW b \in Axis
  PROVE  /\ Size(a) \in Nat
         /\ \A k \in Cat : Cardinality(UpTo(New(a, b), b, k)) \in Nat
         /\ \A k \in New(a, b) :
              MergeAxes(a, b)[k] = Size(a) + Cardinality(UpTo(New(a, b), b, k))
         /\ \A k \in Cat \ New(a, b) : MergeAxes(a, b)[k] = a[k]
<1>1. Size(a) \in Nat /\ \A k \in Cat : Cardinality(UpTo(New(a, b), b, k)) \in Nat
  BY PartSizes DEF Size, New, OnAxis, UpTo
<1>2. New(a, b) \subseteq Cat
  BY DEF New, OnAxis
<1> QED BY <1>1, <1>2 DEF MergeAxes, New, UpTo

\* A merged axis has the categories of both.
LEMMA MergeUnites ==
  ASSUME NEW a \in Axis, NEW b \in Axis, WellFormed(b)
  PROVE  OnAxis(MergeAxes(a, b)) = OnAxis(a) \cup OnAxis(b)
<1>1. New(a, b) \subseteq Cat /\ \A j, k \in New(a, b) : b[j] = b[k] => j = k
  BY DEF New, OnAxis, WellFormed
<1>2. \A k \in New(a, b) :
        Cardinality(UpTo(New(a, b), b, k)) \in 1 .. Cardinality(New(a, b))
  BY <1>1, Ranks
<1>3. \A k \in New(a, b) : MergeAxes(a, b)[k] # 0
  BY <1>1, <1>2, MergedBins, PartSizes
<1>4. \A k \in Cat \ New(a, b) : MergeAxes(a, b)[k] = a[k]
  BY MergedBins
<1> QED BY <1>3, <1>4 DEF OnAxis, New

\* Two axes without gaps merge into one: the new categories follow in the
\* order they had.
THEOREM MergingLeavesNoGap ==
  ASSUME NEW a \in Axis, NEW b \in Axis, WellFormed(a), WellFormed(b)
  PROVE  WellFormed(MergeAxes(a, b))
<1> DEFINE m == MergeAxes(a, b)
           S == New(a, b)
           n == Size(a)
           r(k) == Cardinality(UpTo(S, b, k))
           s == Cardinality(S)
<1>1. /\ S \subseteq Cat /\ \A j, k \in S : b[j] = b[k] => j = k
      /\ OnAxis(m) = OnAxis(a) \cup S /\ OnAxis(a) \cap S = {}
      /\ OnAxis(a) \subseteq Cat \ S
  BY MergeUnites DEF New, OnAxis, WellFormed
<1>2. /\ IsFiniteSet(S) /\ s \in Nat /\ n \in Nat /\ IsFiniteSet(OnAxis(a))
  BY <1>1, PartSizes DEF Size
<1>3. Size(m) = n + s
  <2>1. Cardinality(OnAxis(a) \cup S) = Cardinality(OnAxis(a)) + Cardinality(S)
    BY <1>1, DisjointSizes DEF OnAxis
  <2> QED BY <1>1, <2>1 DEF Size
<1>4. /\ \A j, k \in S : r(j) = r(k) => j = k
      /\ {r(k) : k \in S} = 1 .. s
  BY <1>1, Ranks
<1>5. /\ \A k \in S : m[k] = n + r(k)
      /\ \A k \in OnAxis(a) : m[k] = a[k]
  BY <1>1, MergedBins
<1>6. /\ {a[k] : k \in OnAxis(a)} = 1 .. n
      /\ \A k \in OnAxis(a) : a[k] \in 1 .. n
      /\ \A j, k \in OnAxis(a) : a[j] = a[k] => j = k
  BY DEF WellFormed
<1>7. \A k \in S : r(k) \in 1 .. s
  BY <1>4
<1> HIDE DEF m, S, n, r, s
<1>8. {m[k] : k \in OnAxis(m)} = 1 .. (n + s)
  <2>1. ASSUME NEW i \in 1 .. n PROVE \E k \in OnAxis(m) : m[k] = i
    BY <1>1, <1>5, <1>6
  <2>2. ASSUME NEW i \in 1 .. s PROVE \E k \in OnAxis(m) : m[k] = n + i
    BY <1>1, <1>4, <1>5
  <2>3. ASSUME NEW i \in 1 .. (n + s) PROVE \E k \in OnAxis(m) : m[k] = i
    <3>1. CASE i <= n
      BY <1>2, <2>1, <3>1
    <3>2. CASE i > n
      <4>1. i - n \in 1 .. s /\ n + (i - n) = i
        BY <1>2, <3>2
      <4> QED BY <2>2, <4>1
    <3> QED BY <1>2, <3>1, <3>2
  <2>4. ASSUME NEW k \in OnAxis(m) PROVE m[k] \in 1 .. (n + s)
    <3>1. CASE k \in S
      BY <1>2, <1>5, <1>7, <3>1
    <3>2. CASE k \in OnAxis(a)
      BY <1>2, <1>5, <1>6, <3>2
    <3> QED BY <1>1, <3>1, <3>2
  <2> QED BY <2>3, <2>4
<1>9. ASSUME NEW j \in OnAxis(m), NEW k \in OnAxis(m), m[j] = m[k]
      PROVE  j = k
  <2>1. CASE j \in S /\ k \in S
    <3>1. r(j) \in Nat /\ r(k) \in Nat
      BY <1>2, <1>7, <2>1
    <3>2. r(j) = r(k)
      BY <1>2, <1>5, <1>9, <2>1, <3>1
    <3> QED BY <1>4, <2>1, <3>2
  <2>2. CASE j \in OnAxis(a) /\ k \in OnAxis(a)
    BY <1>5, <1>6, <1>9, <2>2
  <2>3. CASE j \in S /\ k \in OnAxis(a)
    BY <1>2, <1>5, <1>6, <1>7, <1>9, <2>3
  <2>4. CASE j \in OnAxis(a) /\ k \in S
    BY <1>2, <1>5, <1>6, <1>7, <1>9, <2>4
  <2> QED BY <1>1, <2>1, <2>2, <2>3, <2>4
<1> QED BY <1>3, <1>8, <1>9 DEF WellFormed, m
-----------------------------------------------------------------------------
(* The axis of the histogram and those of the threads *)

Keys(S) == {Key[d] : d \in S}
CountedEntries == {d \in Datum : counts[d] > 0}
Inserted(w) == Entries(w) \ rest[w]

GapFree ==
  WellFormed(axis) /\ \A w \in Worker : WellFormed(localAxis[w])

\* The categories of the histogram are those of its content.  A private copy
\* has the categories it has met, and others only if the histogram has them.
KnownInv ==
  Grows =>
    /\ OnAxis(axis) = OnAxis(InitAxis) \cup Keys(CountedEntries)
    /\ \A w \in Worker : ~InPlace(w) =>
         /\ Keys(Inserted(w)) \subseteq OnAxis(localAxis[w])
         /\ OnAxis(localAxis[w]) \subseteq OnAxis(axis) \cup Keys(Inserted(w))

AxisInv == GapFree /\ KnownInv

LEMMA InsertGapFree ==
  ASSUME NEW a \in Axis, WellFormed(a), NEW d \in Datum
  PROVE  WellFormed(Insert(a, d))
BY ConstantsAssumption, GrowingLeavesNoGap DEF Insert

LEMMA InsertAdds ==
  ASSUME NEW a \in Axis, NEW d \in Datum, Grows
  PROVE  OnAxis(Insert(a, d)) = OnAxis(a) \cup {Key[d]}
BY ConstantsAssumption, GrowAdds DEF Insert

\* Only copies, insertions and merges touch content, axes or what is left to
\* be inserted.
LEMMA AxisMoves ==
  ASSUME FillInv, [Next]_vars
  PROVE  \/ UNCHANGED <<counts, axis, localAxis, rest>>
         \/ \E w \in Worker : Copy(w) \/ FillEntry(w) \/ Merge(w)
<1> USE DEF hist, local
<1>1. ASSUME NEW c \in Call, Caller(c)
      PROVE  UNCHANGED <<counts, axis, localAxis, rest>>
  BY <1>1 DEF Caller, EnterDirect, EnterMean, EnterThreaded, StartThread,
              JoinThread, DirectReturn
<1>2. ASSUME NEW w \in Worker, Thread(w)
      PROVE  \/ UNCHANGED <<counts, axis, localAxis, rest>>
             \/ Copy(w) \/ FillEntry(w) \/ Merge(w)
  BY <1>2 DEF Thread, Reset, Reject, FillEnd, Acquire, MergeFail, Release
<1>3. CASE Finished \/ UNCHANGED vars
  BY <1>3 DEF Finished, vars
<1> QED BY <1>1, <1>2, <1>3 DEF Next

LEMMA GapFreeStep ==
  ASSUME FillInv, GapFree, [Next]_vars
  PROVE  GapFree'
<1> USE DEF GapFree
<1>1. axis \in Axis /\ localAxis \in [Worker -> Axis]
  BY DEF FillInv, TypeOK
<1>2. CASE UNCHANGED <<counts, axis, localAxis, rest>>
  BY <1>2 DEF WellFormed
<1>3. ASSUME NEW w \in Worker, Copy(w) PROVE GapFree'
  <2>1. axis' = axis /\ localAxis' = [localAxis EXCEPT ![w] = axis]
    BY <1>3 DEF Copy, hist
  <2>2. \A v \in Worker : localAxis'[v] \in {axis, localAxis[v]}
    BY <1>1, <2>1
  <2> QED BY <2>1, <2>2
<1>4. ASSUME NEW w \in Worker, FillEntry(w) PROVE GapFree'
  <2>1. PICK d \in rest[w] : InsertEntry(w, d)
    BY <1>4 DEF FillEntry
  <2>2. d \in Datum
    BY <2>1 DEF FillInv, TypeOK
  <2>3. \/ axis' = Insert(axis, d) /\ localAxis' = localAxis
        \/ axis' = axis /\ localAxis' = [localAxis EXCEPT ![w] = Insert(@, d)]
    BY <2>1 DEF InsertEntry, local
  <2>4. axis' \in {axis, Insert(axis, d)}
    BY <2>3
  <2>5. \A v \in Worker : localAxis'[v] \in {localAxis[v], Insert(localAxis[v], d)}
    BY <1>1, <2>3
  <2>6. WellFormed(axis')
    BY <1>1, <2>2, <2>4, InsertGapFree
  <2>7. ASSUME NEW v \in Worker PROVE WellFormed(localAxis'[v])
    BY <1>1, <2>2, <2>5, InsertGapFree
  <2> QED BY <2>6, <2>7
<1>5. ASSUME NEW w \in Worker, Merge(w) PROVE GapFree'
  <2>1. axis' = MergeAxes(axis, localAxis[w]) /\ localAxis' = localAxis
    BY <1>5 DEF Merge, local
  <2> QED BY <1>1, <2>1, MergingLeavesNoGap
<1> QED BY <1>2, <1>3, <1>4, <1>5, AxisMoves

LEMMA KnownStep ==
  ASSUME FillInv, GapFree, KnownInv, [Next]_vars
  PROVE  KnownInv'
<1>0. /\ storage' = storage /\ (Grows' <=> Grows)
      /\ \A w : InPlace(w)' <=> InPlace(w)
  BY StorageFixed, InPlaceFixed DEF Grows
<1> SUFFICES ASSUME Grows
             PROVE  /\ OnAxis(axis') = OnAxis(InitAxis) \cup Keys(CountedEntries')
                    /\ \A w \in Worker : ~InPlace(w) =>
                         /\ Keys(Inserted(w)') \subseteq OnAxis(localAxis'[w])
                         /\ OnAxis(localAxis'[w]) \subseteq
                              OnAxis(axis') \cup Keys(Inserted(w)')
  BY <1>0 DEF KnownInv, OnAxis, Keys
<1>1. /\ axis \in Axis /\ localAxis \in [Worker -> Axis]
      /\ counts \in [Datum -> Nat] /\ rest \in [Worker -> SUBSET Datum]
  BY DEF FillInv, TypeOK
<1>2. /\ OnAxis(axis) = OnAxis(InitAxis) \cup Keys(CountedEntries)
      /\ \A w \in Worker : ~InPlace(w) =>
           /\ Keys(Inserted(w)) \subseteq OnAxis(localAxis[w])
           /\ OnAxis(localAxis[w]) \subseteq OnAxis(axis) \cup Keys(Inserted(w))
  BY DEF KnownInv
<1>3. CASE UNCHANGED <<counts, axis, localAxis, rest>>
  <2>1. CountedEntries' = CountedEntries /\ \A w \in Worker : Inserted(w)' = Inserted(w)
    BY <1>3 DEF CountedEntries, Inserted, Entries
  <2> QED BY <1>2, <1>3, <2>1
<1>4. ASSUME NEW w \in Worker, Copy(w)
      PROVE  /\ OnAxis(axis') = OnAxis(InitAxis) \cup Keys(CountedEntries')
             /\ \A v \in Worker : ~InPlace(v) =>
                  /\ Keys(Inserted(v)') \subseteq OnAxis(localAxis'[v])
                  /\ OnAxis(localAxis'[v]) \subseteq
                       OnAxis(axis') \cup Keys(Inserted(v)')
  <2>1. /\ UNCHANGED <<counts, axis, rest>> /\ wpc[w] = "copy"
        /\ localAxis' = [localAxis EXCEPT ![w] = axis]
    BY <1>4 DEF Copy, hist, Go
  <2>2. Inserted(w) = {} /\ Keys(Inserted(w)) = {}
    BY <2>1 DEF FillInv, RestInv, Inserted, Keys
  <2>3. CountedEntries' = CountedEntries /\ \A v \in Worker : Inserted(v)' = Inserted(v)
    BY <2>1 DEF CountedEntries, Inserted, Entries
  <2>4. localAxis'[w] = axis /\ \A v \in Worker : v # w => localAxis'[v] = localAxis[v]
    BY <1>1, <2>1
  <2>5. ASSUME NEW v \in Worker, ~InPlace(v)
        PROVE  /\ Keys(Inserted(v)) \subseteq OnAxis(localAxis'[v])
               /\ OnAxis(localAxis'[v]) \subseteq OnAxis(axis) \cup Keys(Inserted(v))
    BY <1>2, <2>2, <2>4, <2>5
  <2> QED BY <1>2, <2>1, <2>3, <2>5
<1>5. ASSUME NEW w \in Worker, FillEntry(w)
      PROVE  /\ OnAxis(axis') = OnAxis(InitAxis) \cup Keys(CountedEntries')
             /\ \A v \in Worker : ~InPlace(v) =>
                  /\ Keys(Inserted(v)') \subseteq OnAxis(localAxis'[v])
                  /\ OnAxis(localAxis'[v]) \subseteq
                       OnAxis(axis') \cup Keys(Inserted(v)')
  <2>1. PICK d \in rest[w] : InsertEntry(w, d)
    BY <1>5 DEF FillEntry
  <2>2. d \in Entries(w) /\ d \in Datum
    BY <2>1 DEF FillInv, RestInv, TypeOK
  <2>3. rest' = [rest EXCEPT ![w] = @ \ {d}]
    BY <2>1 DEF InsertEntry
  <2>4. /\ Inserted(w)' = Inserted(w) \cup {d}
        /\ \A v \in Worker : v # w => Inserted(v)' = Inserted(v)
    BY <1>1, <2>1, <2>2, <2>3 DEF Inserted, Entries
  <2>5. Keys(Inserted(w)') = Keys(Inserted(w)) \cup {Key[d]}
    BY <2>4 DEF Keys
  <2>6. CASE InPlace(w)
    <3>1. /\ counts' = [counts EXCEPT ![d] = @ + 1]
          /\ axis' = Insert(axis, d) /\ localAxis' = localAxis
      BY <2>1, <2>6 DEF InsertEntry, local
    <3>2. CountedEntries' = CountedEntries \cup {d}
      BY <1>1, <2>2, <3>1 DEF CountedEntries
    <3>3. Keys(CountedEntries') = Keys(CountedEntries) \cup {Key[d]}
      BY <3>2 DEF Keys
    <3>4. OnAxis(axis') = OnAxis(axis) \cup {Key[d]}
      BY <1>1, <2>2, <3>1, InsertAdds
    <3>5. \A v \in Worker : ~InPlace(v) => Inserted(v)' = Inserted(v)
      BY <2>4, <2>6
    <3> QED BY <1>2, <3>1, <3>3, <3>4, <3>5
  <2>7. CASE ~InPlace(w)
    <3>1. /\ counts' = counts /\ axis' = axis
          /\ localAxis' = [localAxis EXCEPT ![w] = Insert(@, d)]
      BY <2>1, <2>7 DEF InsertEntry
    <3>2. CountedEntries' = CountedEntries
      BY <3>1 DEF CountedEntries
    <3>3. OnAxis(localAxis'[w]) = OnAxis(localAxis[w]) \cup {Key[d]}
      BY <1>1, <2>2, <3>1, InsertAdds
    <3>4. \A v \in Worker : v # w => localAxis'[v] = localAxis[v]
      BY <1>1, <3>1
    <3>5. ASSUME NEW v \in Worker, ~InPlace(v)
          PROVE  /\ Keys(Inserted(v)') \subseteq OnAxis(localAxis'[v])
                 /\ OnAxis(localAxis'[v]) \subseteq OnAxis(axis) \cup Keys(Inserted(v)')
      <4>1. CASE v = w
        BY <1>2, <2>5, <2>7, <3>3, <4>1
      <4>2. CASE v # w
        BY <1>2, <2>4, <3>4, <3>5, <4>2
      <4> QED BY <4>1, <4>2
    <3> QED BY <1>2, <3>1, <3>2, <3>5
  <2> QED BY <2>6, <2>7
<1>6. ASSUME NEW w \in Worker, Merge(w)
      PROVE  /\ OnAxis(axis') = OnAxis(InitAxis) \cup Keys(CountedEntries')
             /\ \A v \in Worker : ~InPlace(v) =>
                  /\ Keys(Inserted(v)') \subseteq OnAxis(localAxis'[v])
                  /\ OnAxis(localAxis'[v]) \subseteq
                       OnAxis(axis') \cup Keys(Inserted(v)')
  <2>1. /\ wpc[w] = "merge" /\ rest' = rest /\ localAxis' = localAxis
        /\ counts' = [d \in Datum |-> counts[d] + localCounts[w][d]]
        /\ axis' = MergeAxes(axis, localAxis[w])
    BY <1>6 DEF Merge, Go, local
  <2>2. ~InPlace(w) /\ rest[w] = {}
    BY <2>1 DEF FillInv, RestInv
  <2>3. Inserted(w) = Entries(w) /\ \A v \in Worker : Inserted(v)' = Inserted(v)
    BY <2>1, <2>2 DEF Inserted, Entries
  <2>4. \A d \in Datum : localCounts[w][d] = IF d \in Entries(w) THEN 1 ELSE 0
    BY <2>1, <2>2 DEF FillInv, LocalInv
  <2>5. CountedEntries' = CountedEntries \cup Entries(w)
    <3>1. \A d \in Datum :
            counts'[d] = counts[d] + (IF d \in Entries(w) THEN 1 ELSE 0)
      BY <2>1, <2>4
    <3>2. \A d \in Datum : counts[d] \in Nat
      BY <1>1
    <3>3. \A d \in Datum : counts'[d] > 0 <=> counts[d] > 0 \/ d \in Entries(w)
      BY <3>1, <3>2
    <3> QED BY <3>3 DEF CountedEntries, Entries
  <2>6. Keys(CountedEntries') = Keys(CountedEntries) \cup Keys(Entries(w))
    BY <2>5 DEF Keys
  <2>7. OnAxis(axis') = OnAxis(axis) \cup OnAxis(localAxis[w])
    BY <1>1, <2>1, MergeUnites DEF GapFree
  <2>8. OnAxis(axis') = OnAxis(axis) \cup Keys(Entries(w))
    BY <1>2, <2>2, <2>3, <2>7
  <2> QED BY <1>2, <2>1, <2>3, <2>6, <2>8
<1> QED BY <1>3, <1>4, <1>5, <1>6, AxisMoves

\* Whatever order the threads copy, meet new categories and merge in, the
\* histogram ends up with the categories of its entries in bins without gaps,
\* as an unthreaded fill would leave it.
THEOREM CategoriesOfTheContent == Spec => []AxisMatchesContent
<1>1. Init => AxisInv
  <2> SUFFICES ASSUME Init PROVE GapFree /\ KnownInv
    BY DEF AxisInv
  <2>1. GapFree
    BY InitAxisAssumption DEF Init, GapFree
  <2>2. CountedEntries = {} /\ \A w \in Worker : Inserted(w) = {}
    BY DEF Init, CountedEntries, NoCounts, Inserted
  <2>3. KnownInv
    BY <2>2 DEF Init, KnownInv, Keys
  <2> QED BY <2>1, <2>3
<1>2. FillInv /\ AxisInv /\ [Next]_vars => AxisInv'
  BY GapFreeStep, KnownStep DEF AxisInv
<1>3. AxisInv => AxisMatchesContent
  BY DEF AxisInv, GapFree, KnownInv, Keys, CountedEntries, AxisMatchesContent
<1> QED BY <1>1, <1>2, <1>3, Invariance, PTL DEF Spec
=============================================================================
