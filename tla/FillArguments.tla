---------------------------- MODULE FillArguments ----------------------------
(***************************************************************************)
(* What Histogram.fill (hist.py 392-493) does with its arguments: which    *)
(* element of the one array meets which element of the others, unthreaded  *)
(* and cut into a section per thread, and when it raises.                  *)
(*                                                                         *)
(* An argument is abstracted to its form, None, a scalar, or an array of   *)
(* some length, and an entry to the positions its values come from.  How   *)
(* the threads interleave is the subject of ThreadedFill; here a fill is   *)
(* one step.                                                               *)
(***************************************************************************)
EXTENDS Integers, Sequences, FiniteSets, ArraySplit

CONSTANTS
  CpuCount,    \* what cpu_count() returns
  Requests     \* the calls: [rank, args, weight, sample, threads, mean]

\* The forms of an argument; n >= 0 is an array of length n.
Absent == -2
Scalar == -1
Form == Nat \cup {Absent, Scalar}
IsArray(f) == f >= 0

\* A call: the number of axes of the histogram, the arguments, how many
\* threads (None is 1, the same code path), and whether the storage takes
\* samples.
Request == [rank : Nat \ {0}, args : Seq(Form \ {Absent}), weight : Form,
            sample : Form, threads : Nat, mean : BOOLEAN]

ASSUME ArgumentsAssumption ==
  /\ CpuCount \in Nat \ {0}
  /\ Requests \subseteq Request

VARIABLES
  request,
  outcome,     \* "pending", "returned" or "raised"
  counted      \* <<section, entry>> for every entry that has been counted

vars == <<request, outcome, counted>>
-----------------------------------------------------------------------------
(* One call of the C++ fill *)

\* The slots of a request: 1..n the positional arguments, 0 the weight and
\* -1 the sample.
Slots(r) == -1 .. Len(r.args)
FormOf(r, s) ==
  IF s = -1 THEN r.sample ELSE IF s = 0 THEN r.weight ELSE r.args[s]

ArrayArgs(r) == {s \in 1 .. Len(r.args) : IsArray(r.args[s])}

\* Number of entries: scalars broadcast to the arrays, and are one entry
\* where there is no array.
Total(r) == IF ArrayArgs(r) = {} THEN 1
            ELSE r.args[CHOOSE s \in ArrayArgs(r) : TRUE]

\* get_vargs, get_weight and fill_impl, and the length check of the library.
Rejects(r) ==
  \/ Len(r.args) # r.rank
  \/ IF r.mean THEN ~IsArray(r.sample) ELSE r.sample # Absent
  \/ \E s \in Slots(r) : IsArray(FormOf(r, s)) /\ FormOf(r, s) # Total(r)

\* The entry at position k.
EntryAt(r, k) == [s \in Slots(r) |-> IF IsArray(FormOf(r, s)) THEN k ELSE 0]

Given(r) == {EntryAt(r, k) : k \in 0 .. Total(r) - 1}
-----------------------------------------------------------------------------
(* Cutting the arguments *)

Workers(r) == IF r.threads = 0 THEN CpuCount ELSE r.threads

Cut(f, t, i) == IF IsArray(f) THEN SectionLen(f, t, i) ELSE f

\* Variant that hands the whole array of weights to every thread.
SectionRequestWholeWeights(r, i) ==
  [r EXCEPT !.args = [s \in DOMAIN r.args |-> Cut(r.args[s], Workers(r), i)],
            !.sample = Cut(r.sample, Workers(r), i)]

\* The arguments of thread i: arrays are cut by np.array_split, a scalar or
\* missing weight and sample are repeated for every thread.
SectionRequest(r, i) ==
  [r EXCEPT !.args = [s \in DOMAIN r.args |-> Cut(r.args[s], Workers(r), i)],
            !.weight = Cut(r.weight, Workers(r), i),
            !.sample = Cut(r.sample, Workers(r), i)]

\* The entry at position k of section i.
SectionEntry(r, i, k) ==
  [s \in Slots(r) |-> IF IsArray(FormOf(r, s))
                      THEN SectionStart(FormOf(r, s), Workers(r), i) + k
                      ELSE 0]

\* A section that C++ fill rejects counts nothing, and its exception ends in
\* the thread.
SectionCount(r, i) ==
  IF Rejects(SectionRequest(r, i)) THEN {}
  ELSE {<<i, SectionEntry(r, i, k)>> :
          k \in 0 .. Total(SectionRequest(r, i)) - 1}

\* Mean storages raise RuntimeError; np.array_split raises on a scalar.
CannotCut(r) ==
  \/ r.mean
  \/ \E s \in 1 .. Len(r.args) : ~IsArray(r.args[s])
-----------------------------------------------------------------------------
Init ==
  /\ request \in Requests
  /\ outcome = "pending"
  /\ counted = {}

Raise ==
  /\ outcome = "pending"
  /\ IF request.threads = 1 THEN Rejects(request) ELSE CannotCut(request)
  /\ outcome' = "raised"
  /\ UNCHANGED <<request, counted>>

FillDirect ==
  /\ outcome = "pending"
  /\ request.threads = 1
  /\ ~Rejects(request)
  /\ counted' = {<<1, e>> : e \in Given(request)}
  /\ outcome' = "returned"
  /\ UNCHANGED request

FillSections ==
  /\ outcome = "pending"
  /\ request.threads # 1
  /\ ~CannotCut(request)
  /\ counted' = UNION {SectionCount(request, i) : i \in 1 .. Workers(request)}
  /\ outcome' = "returned"
  /\ UNCHANGED request

Next == Raise \/ FillDirect \/ FillSections

Spec == Init /\ [][Next]_vars
-----------------------------------------------------------------------------
(* Correctness *)

\* A fill that returns for arguments that unthreaded fill accepts has counted
\* exactly the given entries, each of them once and with the weight of its
\* own position, whatever the number of threads, the lengths and the forms
\* of the weight (hist.py 445-457; tests/test_threaded_fill.py 30-67).
ThreadsMakeNoDifference ==
  (outcome = "returned" /\ ~Rejects(request)) =>
    /\ {ce[2] : ce \in counted} = Given(request)
    /\ Cardinality(counted) = Total(request)

\* Arrays of different lengths are an error, as are other arguments that do
\* not fit the histogram (tests/test_histogram.py 916-919, 1042-1043): fill
\* raises for them, whatever the number of threads.
MismatchRaises == outcome = "returned" => ~Rejects(request)
=============================================================================
