---------------------------- MODULE ThreadedFill -----------------------------
(***************************************************************************)
(* Histogram.fill (hist.py 392-493): one histogram, filled by one or more  *)
(* calls, each of which may split its entries over threads.                *)
(*                                                                         *)
(* A step is what runs without another Python thread being able to touch   *)
(* the same object: the calls that keep the GIL (__copy__, reset, +=) are  *)
(* one step, the inner loop of the C++ fill, which releases the GIL        *)
(* (fill.hpp 157, 179), takes one step per entry.                          *)
(*                                                                         *)
(* The content is abstracted to what the properties tell apart: how many   *)
(* times each entry has been counted (its bin follows from its category),  *)
(* the bins of one category axis, and the identity of the C++ axes vector, *)
(* which a merging += replaces while the Python-side self.axes still       *)
(* refers to the old one.                                                  *)
(***************************************************************************)
EXTENDS Integers, FiniteSets, GrowingAxis

CONSTANTS
  Call,        \* the calls of fill on this histogram
  Threads,     \* the threads argument of each call, None being 1
  Datum,       \* the entries, numbered in the order of the arrays
  Owner,       \* <<call, section>> each entry is in after array_split
  Key,         \* the category of each entry
  Broken,      \* sections that C++ fill rejects (unequal lengths, bad type)
  Weighted,    \* the calls with a weight argument
  Storages,    \* the kinds of storage the histogram may have
  Growth,      \* does the category axis grow, except with atomic storage?
  Mergeable,   \* can += merge two grown axes of this type?
  Concurrent,  \* do user threads overlap their calls?
  InitAxis     \* the category axis before the first call

Worker == {w \in Call \X (UNION {1 .. Threads[c] : c \in Call}) :
             w[2] <= Threads[w[1]]}

\* Storages whose cells are accumulators, and which keep their own variance.
Accumulating == {"weight", "mean"}

ASSUME ConstantsAssumption ==
  /\ IsFiniteSet(Call)
  /\ Threads \in [Call -> Nat \ {0}]
  /\ Datum \subseteq Nat
  /\ Owner \in [Datum -> Worker]
  /\ Key \in [Datum -> Cat]
  /\ Broken \subseteq Worker
  /\ Weighted \subseteq Call
  /\ Storages \subseteq {"count", "weight", "atomic", "mean"}
  /\ Growth \in BOOLEAN /\ Mergeable \in BOOLEAN /\ Concurrent \in BOOLEAN
  /\ InitAxis \in Axis

\* A category axis is made from a list without repetitions.
ASSUME InitAxisAssumption == WellFormed(InitAxis)

\* Only the atomic storage may be filled in place by two threads at once: it
\* alone comes with the guarantee (docs/usage/storage.rst 65-66).
ASSUME UsageAssumption ==
  Concurrent => \/ Storages = {"atomic"}
                \/ \A c \in Call : Threads[c] > 1

VARIABLES
  counts,         \* self._hist: how many times each entry has been counted
  axis,           \* self._hist: its category axis
  axesRef,        \* self._hist: identity of the vector that holds its axes
  storage,        \* self._hist._storage_type
  pyAxesRef,      \* the vector the Axis objects in self.axes refer to
  varianceKnown,  \* self._variance_known
  cpc,            \* where each call is
  next,           \* index of the thread the call starts or joins next
  wpc,            \* where each thread is
  rest,           \* the entries each thread has not inserted yet
  localCounts,    \* local_hist of each thread
  localAxis,
  lock            \* sum_lock of each call: the thread that holds it, 0 if none

hist == <<counts, axis, axesRef, storage>>
local == <<localCounts, localAxis>>
vars == <<hist, pyAxesRef, varianceKnown, cpc, next, wpc, rest, local, lock>>

NoCounts == [d \in Datum |-> 0]
Entries(w) == {d \in Datum : Owner[d] = w}

\* The threads that insert into self._hist itself: all of them when it is
\* atomic, and the caller when fill is not threaded.
InPlace(w) == storage = "atomic" \/ Threads[w[1]] = 1

Running(c) == cpc[c] \in {"direct", "start", "join"}

Init ==
  /\ counts = NoCounts
  /\ axis = InitAxis
  /\ axesRef = 0 /\ pyAxesRef = 0
  /\ storage \in Storages
  /\ varianceKnown = TRUE
  /\ cpc = [c \in Call |-> "idle"]
  /\ next = [c \in Call |-> 1]
  /\ wpc = [w \in Worker |-> "new"]
  /\ rest = [w \in Worker |-> Entries(w)]
  /\ localCounts = [w \in Worker |-> NoCounts]
  /\ localAxis = [w \in Worker |-> InitAxis]
  /\ lock = [c \in Call |-> 0]
-----------------------------------------------------------------------------
(* The calling thread *)

\* Variant with the storage test inverted.
NoteWeightInverted(c) ==
  varianceKnown' = (varianceKnown
                    /\ ~(c \in Weighted /\ storage \in Accumulating))

\* A weight makes the variance unknown, before anything else can fail.
NoteWeight(c) ==
  varianceKnown' = (varianceKnown
                    /\ ~(c \in Weighted /\ storage \notin Accumulating))

CanEnter(c) ==
  /\ cpc[c] = "idle"
  /\ Concurrent \/ \A b \in Call : ~Running(b)

\* threads is None or 1: self._hist.fill in the calling thread.
EnterDirect(c) ==
  /\ CanEnter(c)
  /\ Threads[c] = 1
  /\ NoteWeight(c)
  /\ cpc' = [cpc EXCEPT ![c] = "direct"]
  /\ wpc' = [wpc EXCEPT ![<<c, 1>>] = "fill"]
  /\ UNCHANGED <<hist, pyAxesRef, next, rest, local, lock>>

\* Mean storages raise RuntimeError: entries cannot be summed afterwards.
EnterMean(c) ==
  /\ CanEnter(c)
  /\ Threads[c] > 1
  /\ storage = "mean"
  /\ NoteWeight(c)
  /\ cpc' = [cpc EXCEPT ![c] = "raised"]
  /\ UNCHANGED <<hist, pyAxesRef, next, wpc, rest, local, lock>>

EnterThreaded(c) ==
  /\ CanEnter(c)
  /\ Threads[c] > 1
  /\ storage # "mean"
  /\ NoteWeight(c)
  /\ cpc' = [cpc EXCEPT ![c] = "start"]
  /\ UNCHANGED <<hist, pyAxesRef, next, wpc, rest, local, lock>>

\* Variant in which the joins go on from the last index of the starts.
StartThreadKeepIndex(c) ==
  /\ cpc[c] = "start"
  /\ wpc' = [wpc EXCEPT ![<<c, next[c]>>] =
               IF storage = "atomic" THEN "fill" ELSE "copy"]
  /\ next' = [next EXCEPT ![c] = @ + 1]
  /\ cpc' = [cpc EXCEPT ![c] = IF next[c] < Threads[c] THEN @ ELSE "join"]
  /\ UNCHANGED <<hist, pyAxesRef, varianceKnown, rest, local, lock>>

\* for thread in thread_list: thread.start(), then the joins begin.
StartThread(c) ==
  /\ cpc[c] = "start"
  /\ wpc' = [wpc EXCEPT ![<<c, next[c]>>] =
               IF storage = "atomic" THEN "fill" ELSE "copy"]
  /\ IF next[c] < Threads[c]
     THEN /\ next' = [next EXCEPT ![c] = @ + 1]
          /\ UNCHANGED cpc
     ELSE /\ next' = [next EXCEPT ![c] = 1]
          /\ cpc' = [cpc EXCEPT ![c] = "join"]
  /\ UNCHANGED <<hist, pyAxesRef, varianceKnown, rest, local, lock>>

\* Variant that does not wait for the thread.
JoinThreadNoWait(c) ==
  /\ cpc[c] = "join"
  /\ IF next[c] < Threads[c]
     THEN /\ next' = [next EXCEPT ![c] = @ + 1]
          /\ UNCHANGED cpc
     ELSE /\ cpc' = [cpc EXCEPT ![c] = "done"]
          /\ UNCHANGED next
  /\ UNCHANGED <<hist, pyAxesRef, varianceKnown, wpc, rest, local, lock>>

\* for thread in thread_list: thread.join(); return self.  A thread that
\* ended with an exception joins like any other.
JoinThread(c) ==
  /\ cpc[c] = "join"
  /\ wpc[<<c, next[c]>>] \in {"done", "dead"}
  /\ IF next[c] < Threads[c]
     THEN /\ next' = [next EXCEPT ![c] = @ + 1]
          /\ UNCHANGED cpc
     ELSE /\ cpc' = [cpc EXCEPT ![c] = "done"]
          /\ UNCHANGED next
  /\ UNCHANGED <<hist, pyAxesRef, varianceKnown, wpc, rest, local, lock>>

\* The unthreaded fill returns self or lets its exception through.
DirectReturn(c) ==
  /\ cpc[c] = "direct"
  /\ wpc[<<c, 1>>] \in {"done", "dead"}
  /\ cpc' = [cpc EXCEPT ![c] =
               IF wpc[<<c, 1>>] = "done" THEN "done" ELSE "raised"]
  /\ UNCHANGED <<hist, pyAxesRef, varianceKnown, next, wpc, rest, local, lock>>
-----------------------------------------------------------------------------
(* The threads: fun(weight, sample, *args) *)

Go(w, from, to) == wpc[w] = from /\ wpc' = [wpc EXCEPT ![w] = to]

\* local_hist = self._hist.__copy__()
Copy(w) ==
  /\ Go(w, "copy", "reset")
  /\ localCounts' = [localCounts EXCEPT ![w] = counts]
  /\ localAxis' = [localAxis EXCEPT ![w] = axis]
  /\ UNCHANGED <<hist, pyAxesRef, varianceKnown, cpc, next, rest, lock>>

\* Variant without the reset: the copy keeps the content it was made from.
ResetForgotten(w) ==
  /\ Go(w, "reset", "fill")
  /\ UNCHANGED <<hist, pyAxesRef, varianceKnown, cpc, next, rest, local, lock>>

\* local_hist.reset() empties the cells and keeps the axes.
Reset(w) ==
  /\ Go(w, "reset", "fill")
  /\ localCounts' = [localCounts EXCEPT ![w] = NoCounts]
  /\ UNCHANGED <<hist, pyAxesRef, varianceKnown, cpc, next, rest, localAxis,
                 lock>>

\* An unusable section is rejected before its first entry is inserted.
Reject(w) ==
  /\ Go(w, "fill", "dead")
  /\ w \in Broken
  /\ UNCHANGED <<hist, pyAxesRef, varianceKnown, cpc, next, rest, local, lock>>

\* The atomic storage is not used with an axis that grows (README.md 102).
Grows == Growth /\ storage # "atomic"
Insert(a, d) == IF Grows THEN Grow(a, Key[d]) ELSE a

\* An entry goes into self._hist or into local_hist.
InsertEntry(w, d) ==
  /\ rest' = [rest EXCEPT ![w] = @ \ {d}]
  /\ IF InPlace(w)
     THEN /\ counts' = [counts EXCEPT ![d] = @ + 1]
          /\ axis' = Insert(axis, d)
          /\ UNCHANGED local
     ELSE /\ localCounts' = [localCounts EXCEPT ![w][d] = @ + 1]
          /\ localAxis' = [localAxis EXCEPT ![w] = Insert(@, d)]
          /\ UNCHANGED <<counts, axis>>

\* One turn of the loop of the C++ fill, in the order of the arrays.
FillEntry(w) ==
  /\ wpc[w] = "fill"
  /\ w \notin Broken
  /\ \E d \in rest[w] : (\A e \in rest[w] : d <= e) /\ InsertEntry(w, d)
  /\ UNCHANGED <<axesRef, storage, pyAxesRef, varianceKnown, cpc, next, wpc,
                 lock>>

\* Variant that leaves the loop with entries still to be inserted.
FillEndEarly(w) ==
  /\ Go(w, "fill", IF InPlace(w) THEN "done" ELSE "acquire")
  /\ w \notin Broken
  /\ UNCHANGED <<hist, pyAxesRef, varianceKnown, cpc, next, rest, local, lock>>

FillEnd(w) ==
  /\ Go(w, "fill", IF InPlace(w) THEN "done" ELSE "acquire")
  /\ w \notin Broken
  /\ rest[w] = {}
  /\ UNCHANGED <<hist, pyAxesRef, varianceKnown, cpc, next, rest, local, lock>>

\* with sum_lock:
Acquire(w) ==
  /\ Go(w, "acquire", "merge")
  /\ lock[w[1]] = 0
  /\ lock' = [lock EXCEPT ![w[1]] = w[2]]
  /\ UNCHANGED <<hist, pyAxesRef, varianceKnown, cpc, next, rest, local>>

\* Variant that merges the other way round, local_hist + self._hist.
MergeSwapped(w) ==
  /\ Go(w, "merge", "release")
  /\ localAxis[w] = axis \/ Mergeable
  /\ counts' = [d \in Datum |-> localCounts[w][d] + counts[d]]
  /\ axis' = MergeAxes(localAxis[w], axis)
  /\ axesRef' = IF localAxis[w] = axis THEN axesRef ELSE axesRef + 1
  /\ UNCHANGED <<storage, pyAxesRef, varianceKnown, cpc, next, rest, local,
                 lock>>

\* self._hist += local_hist.  Equal axes add cell by cell; otherwise the
\* library builds a histogram over the merged axes and moves it into
\* self._hist, axes vector included.
Merge(w) ==
  /\ Go(w, "merge", "release")
  /\ localAxis[w] = axis \/ Mergeable
  /\ counts' = [d \in Datum |-> counts[d] + localCounts[w][d]]
  /\ axis' = MergeAxes(axis, localAxis[w])
  /\ axesRef' = IF localAxis[w] = axis THEN axesRef ELSE axesRef + 1
  /\ UNCHANGED <<storage, pyAxesRef, varianceKnown, cpc, next, rest, local,
                 lock>>

\* Variant in which += has added the cells when it raises.
MergeFailLate(w) ==
  /\ Go(w, "merge", "unwind")
  /\ localAxis[w] # axis /\ ~Mergeable
  /\ counts' = [d \in Datum |-> counts[d] + localCounts[w][d]]
  /\ UNCHANGED <<axis, axesRef, storage, pyAxesRef, varianceKnown, cpc, next,
                 rest, local, lock>>

\* += raises "axes not mergable" and leaves self._hist as it was.
MergeFail(w) ==
  /\ Go(w, "merge", "unwind")
  /\ localAxis[w] # axis /\ ~Mergeable
  /\ UNCHANGED <<hist, pyAxesRef, varianceKnown, cpc, next, rest, local, lock>>

\* Variant that releases the lock only when += succeeded.
ReleaseOnSuccess(w) ==
  /\ \/ /\ Go(w, "release", "done")
        /\ lock' = [lock EXCEPT ![w[1]] = 0]
     \/ /\ Go(w, "unwind", "dead")
        /\ UNCHANGED lock
  /\ UNCHANGED <<hist, pyAxesRef, varianceKnown, cpc, next, rest, local>>

\* Leaving the with block, normally or by an exception.
Release(w) ==
  /\ \/ Go(w, "release", "done")
     \/ Go(w, "unwind", "dead")
  /\ lock' = [lock EXCEPT ![w[1]] = 0]
  /\ UNCHANGED <<hist, pyAxesRef, varianceKnown, cpc, next, rest, local>>
-----------------------------------------------------------------------------
Caller(c) ==
  \/ EnterDirect(c) \/ EnterMean(c) \/ EnterThreaded(c)
  \/ StartThread(c) \/ JoinThread(c) \/ DirectReturn(c)

Thread(w) ==
  \/ Copy(w) \/ Reset(w) \/ Reject(w) \/ FillEntry(w) \/ FillEnd(w)
  \/ Acquire(w) \/ Merge(w) \/ MergeFail(w) \/ Release(w)

\* All calls are over; user code goes on elsewhere.
Finished ==
  /\ \A c \in Call : cpc[c] \in {"done", "raised"}
  /\ UNCHANGED vars

Next ==
  \/ \E c \in Call : Caller(c)
  \/ \E w \in Worker : Thread(w)
  \/ Finished

Spec == Init /\ [][Next]_vars

\* The operating system and the GIL's switch interval let every thread that
\* can run do so in the end; user code need not call fill.
Fairness ==
  /\ \A c \in Call :
       WF_vars(StartThread(c) \/ JoinThread(c) \/ DirectReturn(c))
  /\ \A w \in Worker : WF_vars(Thread(w))

FairSpec == Spec /\ Fairness
-----------------------------------------------------------------------------
(* Correctness *)

CallerStates == {"idle", "direct", "start", "join", "done", "raised"}
ThreadStates == {"new", "copy", "reset", "fill", "acquire", "merge",
                 "release", "unwind", "done", "dead"}

\* Type invariant; next always names a thread of its call.
TypeOK ==
  /\ counts \in [Datum -> Nat]
  /\ axis \in Axis
  /\ axesRef \in Nat /\ pyAxesRef \in Nat
  /\ storage \in Storages
  /\ varianceKnown \in BOOLEAN
  /\ cpc \in [Call -> CallerStates]
  /\ next \in [Call -> Nat \ {0}] /\ \A c \in Call : next[c] <= Threads[c]
  /\ wpc \in [Worker -> ThreadStates]
  /\ rest \in [Worker -> SUBSET Datum]
  /\ localCounts \in [Worker -> [Datum -> Nat]]
  /\ localAxis \in [Worker -> Axis]
  /\ lock \in [Call -> Nat]

\* No entry is ever counted twice: a thread's private copy starts from the
\* content of self._hist (possibly with other threads' entries in it), and
\* adding it back must not add that content again (hist.py 476-480).
NothingTwice == \A d \in Datum : counts[d] <= 1

\* When fill returns and none of its threads died, every entry of the call
\* has been counted, as an unthreaded fill would have done.
ReturnedComplete ==
  \A c \in Call :
    (cpc[c] = "done" /\ \A w \in Worker : w[1] = c => wpc[w] # "dead")
      => \A d \in Datum : Owner[d][1] = c => counts[d] = 1

\* After fill has returned or raised, no thread of the call can touch the
\* histogram any more and its lock is free (the joins, hist.py 490-491, and
\* the with block, 479).
QuietAfterReturn ==
  \A c \in Call :
    cpc[c] \in {"done", "raised"} =>
      /\ lock[c] = 0
      /\ \A w \in Worker : w[1] = c => wpc[w] \in {"new", "done", "dead"}

\* A thread or unthreaded call that died has counted none of its entries,
\* wherever it failed: fill adds a section whole or not at all.
DeadCountNothing ==
  \A w \in Worker : wpc[w] = "dead" => \A d \in Entries(w) : counts[d] = 0

\* The category axis holds its initial categories and those of the counted
\* entries, no more and no less, in bins without gaps or sharing: whatever
\* axis each thread started from, merging loses and invents no category.
AxisMatchesContent ==
  /\ WellFormed(axis)
  /\ Grows => OnAxis(axis) =
       OnAxis(InitAxis) \cup {Key[d] : d \in {e \in Datum : counts[e] > 0}}

\* A histogram that holds an entry filled with a weight, and whose storage
\* keeps no variance of its own, does not claim to know its variance
\* (hist.py 416-425), even while the threads are running.
WeightedEntriesSpoilVariance ==
  \A d \in Datum :
    (counts[d] > 0 /\ Owner[d][1] \in Weighted /\ storage \notin Accumulating)
      => ~varianceKnown

\* With private copies, a thread's section appears in self._hist in one step,
\* whole: a section that fails half way leaves nothing behind, and two
\* concurrent merges, even under different locks, do not tear each other.
SectionsAppearWhole ==
  [][\A w \in Worker : ~InPlace(w) =>
       \/ \A d \in Entries(w) : counts'[d] = counts[d]
       \/ \A d \in Entries(w) : counts'[d] = counts[d] + 1]_vars

\* A category keeps the bin it has, so that indices held by the user stay
\* right while the axis grows in several threads.
BinsKept == [][KeepsBins(axis, axis')]_vars

\* Every call of fill that has begun ends: no thread waits for ever on
\* sum_lock, not even when the += inside the with block raised.
FillTerminates == \A c \in Call : Running(c) ~> cpc[c] \in {"done", "raised"}

\* A fill whose sections are all usable implements the promise of FillSpec.
Promise == INSTANCE FillSpec
  WITH CallOf <- [d \in Datum |-> Owner[d][1]],
       status <- [c \in Call |-> IF Running(c) THEN "running" ELSE cpc[c]]
ImplementsFillSpec == Promise!FairSpec

\* "Addition may change the axes if they can grow" (hist.py 324): after a
\* call, self.axes refers to the axes the histogram really has.
AxesCurrent == \A c \in Call : cpc[c] = "done" => pyAxesRef = axesRef
=============================================================================
