------------------------------ MODULE FillSpec -------------------------------
(***************************************************************************)
(* What Histogram.fill promises its callers, however many threads it uses: *)
(* the entries of a call are added to the histogram, each exactly once, in *)
(* some order and grouping; fill returns when all of them have been added. *)
(* A call that the storage does not support raises and adds nothing.       *)
(***************************************************************************)
EXTENDS Integers

CONSTANTS
  Call,        \* the calls of fill on one histogram
  Datum,       \* the entries passed to all calls together
  CallOf       \* the call each entry belongs to

VARIABLES
  counts,      \* how many times each entry has been counted
  status       \* of each call

specVars == <<counts, status>>

Entries(c) == {d \in Datum : CallOf[d] = c}

SpecInit ==
  /\ counts = [d \in Datum |-> 0]
  /\ status = [c \in Call |-> "idle"]

Begin(c) ==
  /\ status[c] = "idle"
  /\ status' = [status EXCEPT ![c] = "running"]
  /\ UNCHANGED counts

Raise(c) ==
  /\ status[c] = "idle"
  /\ status' = [status EXCEPT ![c] = "raised"]
  /\ UNCHANGED counts

Add(c) ==
  /\ status[c] = "running"
  /\ \E S \in SUBSET {d \in Entries(c) : counts[d] = 0} :
        /\ S # {}
        /\ counts' = [d \in Datum |-> IF d \in S THEN 1 ELSE counts[d]]
  /\ UNCHANGED status

Finish(c) ==
  /\ status[c] = "running"
  /\ \A d \in Entries(c) : counts[d] = 1
  /\ status' = [status EXCEPT ![c] = "done"]
  /\ UNCHANGED counts

Work(c) == Add(c) \/ Finish(c)

SpecNext == \E c \in Call : Begin(c) \/ Raise(c) \/ Work(c)

SafeSpec == SpecInit /\ [][SpecNext]_specVars

FairSpec == SafeSpec /\ \A c \in Call : WF_specVars(Work(c))
=============================================================================
