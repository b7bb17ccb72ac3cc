-------------------------- MODULE Unpickling_proofs --------------------------
(***************************************************************************)
(* Theorems about Archive, ClassRegistry, PartClasses and Unpickling, for  *)
(* objects of any types and any process that opens them.                   *)
(*                                                                         *)
(* First the archive: what is loaded from a tuple is what was saved to it, *)
(* slot for slot, loading never lacks the slot that it wants, and a state  *)
(* of any generation is read as what it says.  The invariant says that     *)
(* loading repeats what saving did: there is a sequence of the stacks that *)
(* saving had, and before slot k is loaded the stack of loading is the one *)
(* that saving had before it wrote slot k, but for the values.             *)
(*                                                                         *)
(* Then the classes: what a cast makes of the parts of a histogram.  The   *)
(* invariant says that the classes are a tree, that those of               *)
(* boost_histogram stay as they were made but for types added to theirs,   *)
(* and that those of libraries take nothing but what these brought along.  *)
(***************************************************************************)
EXTENDS Unpickling, SequenceTheorems, FiniteSetTheorems, ArithmeticTheorems
-----------------------------------------------------------------------------
(* Sequences of anything *)

LEMMA FunctionIsSequence ==
  ASSUME NEW n \in Nat, NEW f, f = [i \in 1 .. n |-> f[i]]
  PROVE  f \in Seq(ToSet(f)) /\ Sequence(f) /\ Len(f) = n /\ DOMAIN f = 1 .. n
<1>1. DOMAIN f = 1 .. n
  OBVIOUS
<1>2. \A i \in 1 .. n : f[i] \in ToSet(f)
  BY <1>1 DEF ToSet
<1>3. f \in [1 .. n -> ToSet(f)]
  BY <1>1, <1>2
<1>4. f \in Seq(ToSet(f))
  BY <1>3, SeqDef
<1>5. Len(f) \in Nat /\ DOMAIN f = 1 .. Len(f)
  BY <1>4, LenProperties
<1>6. Len(f) = n
  BY <1>1, <1>5
<1> QED BY <1>1, <1>4, <1>6 DEF Sequence

LEMMA SequenceFacts ==
  ASSUME NEW s, Sequence(s)
  PROVE  /\ s \in Seq(ToSet(s))
         /\ Len(s) \in Nat
         /\ DOMAIN s = 1 .. Len(s)
<1>1. PICK n \in Nat : n = Len(s)
  BY DEF Sequence
<1>2. s = [i \in 1 .. n |-> s[i]]
  BY <1>1 DEF Sequence
<1> QED BY <1>1, <1>2, FunctionIsSequence

LEMMA InSequences ==
  ASSUME NEW S, NEW s \in Seq(S)
  PROVE  /\ Sequence(s)
         /\ Len(s) \in Nat /\ DOMAIN s = 1 .. Len(s)
         /\ s = <<>> <=> Len(s) = 0
<1>1. /\ Len(s) \in Nat
      /\ s \in [1 .. Len(s) -> S]
      /\ DOMAIN s = 1 .. Len(s)
  BY LenProperties
<1>2. s = [i \in 1 .. Len(s) |-> s[i]]
  BY <1>1
<1>3. s = <<>> <=> Len(s) = 0
  BY EmptySeq, <1>1
<1> QED BY <1>1, <1>2, <1>3 DEF Sequence

LEMMA TwoSequences ==
  ASSUME NEW s, Sequence(s), NEW t, Sequence(t)
  PROVE  \E S : s \in Seq(S) /\ t \in Seq(S)
<1>1. s \in Seq(ToSet(s)) /\ t \in Seq(ToSet(t))
  BY SequenceFacts
<1>2. PICK S : S = ToSet(s) \cup ToSet(t)
  OBVIOUS
<1>3. ToSet(s) \subseteq S /\ ToSet(t) \subseteq S
  BY <1>2
<1> QED BY <1>1, <1>3, SeqMonotonic

LEMMA EmptySequence ==
  Sequence(<<>>) /\ Len(<<>>) = 0
<1>1. <<>> \in Seq({}) /\ Len(<<>>) = 0
  BY EmptySeq
<1> QED BY <1>1, InSequences

LEMMA IsEmpty ==
  ASSUME NEW s, Sequence(s)
  PROVE  s = <<>> <=> Len(s) = 0
BY SequenceFacts, InSequences

LEMMA SameSequence ==
  ASSUME NEW s, Sequence(s), NEW t, Sequence(t), Len(s) = Len(t),
         \A i \in 1 .. Len(s) : s[i] = t[i]
  PROVE  s = t
<1>1. PICK S : s \in Seq(S) /\ t \in Seq(S)
  BY TwoSequences
<1> QED BY <1>1, SeqEqual

LEMMA Singleton ==
  ASSUME NEW e
  PROVE  /\ Sequence(<<e>>) /\ Len(<<e>>) = 1 /\ <<e>>[1] = e
         /\ <<e>> # <<>> /\ Head(<<e>>) = e /\ Tail(<<e>>) = <<>>
<1>1. <<e>> \in Seq({e})
  OBVIOUS
<1>2. Len(<<e>>) = 1 /\ <<e>>[1] = e /\ <<e>> # <<>>
  OBVIOUS
<1>3. Head(<<e>>) = e /\ Tail(<<e>>) = <<>>
  OBVIOUS
<1> QED BY <1>1, <1>2, <1>3, InSequences

LEMMA Joined ==
  ASSUME NEW s, Sequence(s), NEW t, Sequence(t)
  PROVE  /\ Sequence(s \o t)
         /\ Len(s \o t) = Len(s) + Len(t)
         /\ \A i \in 1 .. Len(s) : (s \o t)[i] = s[i]
         /\ \A i \in 1 .. Len(t) : (s \o t)[Len(s) + i] = t[i]
<1>1. PICK S : s \in Seq(S) /\ t \in Seq(S)
  BY TwoSequences
<1>2. Len(s) \in Nat /\ Len(t) \in Nat
  BY SequenceFacts
<1>3. /\ s \o t \in Seq(S)
      /\ Len(s \o t) = Len(s) + Len(t)
      /\ \A i \in 1 .. Len(s) + Len(t) : (s \o t)[i] =
            IF i <= Len(s) THEN s[i] ELSE t[i - Len(s)]
  BY <1>1, ConcatProperties
<1>4. \A i \in 1 .. Len(s) : (s \o t)[i] = s[i]
  BY <1>2, <1>3
<1>5. ASSUME NEW i \in 1 .. Len(t) PROVE (s \o t)[Len(s) + i] = t[i]
  <2>1. Len(s) + i \in 1 .. Len(s) + Len(t) /\ ~(Len(s) + i <= Len(s))
    BY <1>2
  <2>2. (Len(s) + i) - Len(s) = i
    BY <1>2
  <2> QED BY <1>3, <2>1, <2>2
<1>6. Sequence(s \o t)
  BY <1>3, InSequences
<1> QED BY <1>3, <1>4, <1>5, <1>6

LEMMA JoinedNothing ==
  ASSUME NEW s, Sequence(s)
  PROVE  s \o <<>> = s /\ <<>> \o s = s
BY SequenceFacts, ConcatEmptySeq

LEMMA Appended ==
  ASSUME NEW s, Sequence(s), NEW e
  PROVE  /\ Append(s, e) = s \o <<e>>
         /\ Sequence(Append(s, e))
         /\ Len(Append(s, e)) = Len(s) + 1
         /\ \A i \in 1 .. Len(s) : Append(s, e)[i] = s[i]
         /\ Append(s, e)[Len(s) + 1] = e
<1>1. PICK S : s \in Seq(S) /\ <<e>> \in Seq(S)
  BY TwoSequences, Singleton
<1>2. e \in S
  BY <1>1, Singleton, ElementOfSeq
<1>3. /\ Append(s, e) \in Seq(S)
      /\ Len(Append(s, e)) = Len(s) + 1
      /\ \A i \in 1 .. Len(s) : Append(s, e)[i] = s[i]
      /\ Append(s, e)[Len(s) + 1] = e
  BY <1>1, <1>2, AppendProperties
<1>4. Append(s, e) = s \o <<e>>
  BY <1>1, <1>2, AppendIsConcat
<1>5. Sequence(Append(s, e))
  BY <1>3, InSequences
<1> QED BY <1>3, <1>4, <1>5

LEMMA HeadAndTail ==
  ASSUME NEW s, Sequence(s), s # <<>>
  PROVE  /\ Head(s) = s[1] /\ Len(s) \in Nat \ {0}
         /\ Sequence(Tail(s)) /\ Len(Tail(s)) = Len(s) - 1
         /\ \A i \in 1 .. Len(s) - 1 : Tail(s)[i] = s[i + 1]
<1>1. PICK S : s \in Seq(S)
  BY TwoSequences
<1>2. Len(s) \in Nat \ {0}
  BY <1>1, EmptySeq
<1>3. Head(s) = s[1]
  BY <1>1, <1>2
<1>4. /\ Tail(s) \in Seq(S)
      /\ Len(Tail(s)) = Len(s) - 1
      /\ \A i \in 1 .. Len(Tail(s)) : Tail(s)[i] = s[i + 1]
  BY <1>1, HeadTailProperties
<1>5. Sequence(Tail(s))
  BY <1>4, InSequences
<1> QED BY <1>2, <1>3, <1>4, <1>5

(* Beginnings *)

LEMMA BeginsWithItself ==
  ASSUME NEW s, Sequence(s), NEW t, Sequence(t)
  PROVE  IsPrefix(s, s) /\ IsPrefix(s, s \o t) /\ IsPrefix(<<>>, s)
<1>1. PICK S : s \in Seq(S) /\ t \in Seq(S)
  BY TwoSequences
<1>2. Len(s) \in Nat /\ Len(t) \in Nat /\ Len(s \o t) = Len(s) + Len(t)
  BY Joined, SequenceFacts
<1>3. IsPrefix(s, s)
  BY <1>2 DEF IsPrefix
<1>4. SubSeq(s \o t, 1, Len(s)) = SubSeq(s, 1, Len(s))
  <2>1. CASE Len(s) = 0
    <3>1. SubSeq(s \o t, 1, 0) = <<>> /\ SubSeq(s, 1, 0) = <<>>
      BY SubSeqEmpty
    <3> QED BY <2>1, <3>1
  <2>2. CASE Len(s) # 0
    <3>1. 1 \in 1 .. Len(s) /\ Len(s) \in 1 .. Len(s)
      BY <1>2, <2>2
    <3> QED BY <1>1, <3>1, SubSeqOfConcat1
  <2> QED BY <2>1, <2>2
<1>5. IsPrefix(s, s \o t)
  BY <1>2, <1>4 DEF IsPrefix
<1>6. IsPrefix(<<>>, s)
  <2>1. Len(<<>>) = 0
    BY EmptySequence
  <2>2. SubSeq(<<>>, 1, 0) = <<>> /\ SubSeq(s, 1, 0) = <<>>
    BY SubSeqEmpty
  <2> QED BY <1>2, <2>1, <2>2 DEF IsPrefix
<1> QED BY <1>3, <1>5, <1>6

LEMMA StillABeginning ==
  ASSUME NEW r, Sequence(r), NEW s, Sequence(s), NEW t, Sequence(t), IsPrefix(r, s)
  PROVE  IsPrefix(r, s \o t)
<1>1. PICK S : s \in Seq(S) /\ t \in Seq(S)
  BY TwoSequences
<1>2. Len(r) \in Nat /\ Len(s) \in Nat /\ Len(t) \in Nat /\ Len(s \o t) = Len(s) + Len(t)
  BY Joined, SequenceFacts
<1>3. Len(r) <= Len(s) /\ SubSeq(r, 1, Len(r)) = SubSeq(s, 1, Len(r))
  BY DEF IsPrefix
<1>4. SubSeq(s \o t, 1, Len(r)) = SubSeq(s, 1, Len(r))
  <2>1. CASE Len(r) = 0
    <3>1. SubSeq(s \o t, 1, 0) = <<>> /\ SubSeq(s, 1, 0) = <<>>
      BY SubSeqEmpty
    <3> QED BY <2>1, <3>1
  <2>2. CASE Len(r) # 0
    <3>1. 1 \in 1 .. Len(s) /\ Len(r) \in 1 .. Len(s)
      BY <1>2, <1>3, <2>2
    <3> QED BY <1>1, <3>1, SubSeqOfConcat1
  <2> QED BY <2>1, <2>2
<1> QED BY <1>2, <1>3, <1>4 DEF IsPrefix

-----------------------------------------------------------------------------
(* The cells of a storage *)

LEMMA NamedDivision ==
  ASSUME NEW x \in Int, NEW n \in Int, n > 0,
         NEW q \in Int, q = x \div n, NEW r \in Int, r = x % n
  PROVE  x = n * q + r /\ 0 <= r /\ r < n
OBVIOUS

LEMMA SameQuotient ==
  ASSUME NEW n \in Nat, NEW p \in Int, NEW q \in Int, NEW r \in Int, NEW s \in Int,
         0 <= r, r < n, 0 <= s, s < n, n * p + r = n * q + s
  PROVE  p = q /\ r = s
<1>1. n * (p - q) = s - r
  OBVIOUS
<1>2. CASE p - q >= 1
  <2>1. n * (p - q) >= n
    <3>1. PICK d \in Nat : p - q = d + 1
      BY <1>2
    <3>2. n * (d + 1) = n * d + n /\ n * d >= 0
      OBVIOUS
    <3> QED BY <3>1, <3>2
  <2> QED BY <1>1, <2>1
<1>3. CASE p - q <= -1
  <2>1. n * (p - q) <= -n
    <3>1. PICK d \in Nat : p - q = -d - 1
      BY <1>3
    <3>2. n * (-d - 1) = -(n * d) - n /\ n * d >= 0
      OBVIOUS
    <3> QED BY <3>1, <3>2
  <2> QED BY <1>1, <2>1
<1>4. CASE p = q
  BY <1>4
<1> QED BY <1>2, <1>3, <1>4

LEMMA Division ==
  ASSUME NEW n \in Nat \ {0}, NEW q \in Nat, NEW r \in 0 .. n - 1
  PROVE  (n * q + r) \div n = q /\ (n * q + r) % n = r
<1>1. PICK x \in Int : x = n * q + r
  OBVIOUS
<1>2. x \div n \in Int /\ x % n \in Int
  OBVIOUS
<1>3. PICK p \in Int : p = x \div n
  BY <1>2
<1>4. PICK s \in Int : s = x % n
  BY <1>2
<1>5. x = n * p + s /\ 0 <= s /\ s < n
  BY <1>3, <1>4, NamedDivision
<1>6. p = q /\ s = r
  BY <1>1, <1>5, SameQuotient
<1> QED BY <1>1, <1>3, <1>4, <1>6

\* Memory that is cut into cells after it was made flat has the cells again.
LEMMA CellsComeBack ==
  ASSUME NEW n \in Nat \ {0}, NEW cells, Sequence(cells),
         \A i \in DOMAIN cells : Sequence(cells[i]) /\ Len(cells[i]) = n
  PROVE  FromFlat(Flat(cells, n), n) = cells
<1> DEFINE flat == Flat(cells, n)
<1>1. PICK m \in Nat : m = Len(cells) /\ DOMAIN cells = 1 .. m
  BY SequenceFacts
<1>2. m * n \in Nat /\ (m * n) \div n = m
  <2>1. n * m + 0 = m * n /\ 0 \in 0 .. n - 1 /\ m * n \in Nat
    OBVIOUS
  <2>2. (n * m + 0) \div n = m
    BY <2>1, Division
  <2> QED BY <2>1, <2>2
<1>3. PICK size \in Nat : size = m * n
  BY <1>2
<1>4. flat = [k \in 1 .. size |-> cells[((k - 1) \div n) + 1][((k - 1) % n) + 1]]
  BY <1>1, <1>3 DEF Flat
<1> HIDE DEF flat
<1>5. Len(flat) = size
  <2>1. flat = [k \in 1 .. size |-> flat[k]]
    BY <1>4
  <2> QED BY <2>1, FunctionIsSequence
<1>6. FromFlat(flat, n) = [i \in 1 .. m |-> [j \in 1 .. n |-> flat[(i - 1) * n + j]]]
  BY <1>2, <1>3, <1>5 DEF FromFlat
<1>7. ASSUME NEW i \in 1 .. m, NEW j \in 1 .. n
      PROVE  flat[(i - 1) * n + j] = cells[i][j]
  <2>1. PICK q \in Nat : q = i - 1
    OBVIOUS
  <2>2. PICK r \in 0 .. n - 1 : r = j - 1
    OBVIOUS
  <2>3. (n * q + r) \div n = q /\ (n * q + r) % n = r
    BY Division
  <2>4. PICK k \in Int : k = q * n + j
    OBVIOUS
  <2>5. k - 1 = n * q + r
    BY <2>2, <2>4
  <2>6. k \in 1 .. size
    <3>1. (q + 1) * n <= m * n /\ (q + 1) * n = q * n + n /\ q * n >= 0
      <4>1. PICK d \in Nat : m = (q + 1) + d
        BY <2>1
      <4>2. m * n = (q + 1) * n + d * n /\ d * n >= 0
        BY <4>1
      <4>3. (q + 1) * n = q * n + n /\ q * n \in Nat
        OBVIOUS
      <4>4. (q + 1) * n \in Int /\ d * n \in Int /\ m * n \in Int
        OBVIOUS
      <4> QED BY <4>2, <4>3, <4>4
    <3> QED BY <1>3, <2>4, <3>1
  <2>7. flat[k] = cells[((k - 1) \div n) + 1][((k - 1) % n) + 1]
    BY <1>4, <2>6
  <2>8. ((k - 1) \div n) + 1 = i /\ ((k - 1) % n) + 1 = j
    BY <2>1, <2>2, <2>3, <2>5
  <2> QED BY <2>1, <2>4, <2>7, <2>8
<1>8. ASSUME NEW i \in 1 .. m
      PROVE  [j \in 1 .. n |-> flat[(i - 1) * n + j]] = cells[i]
  <2>1. Len(cells[i]) = n /\ cells[i] = [j \in 1 .. n |-> cells[i][j]]
    BY <1>1 DEF Sequence
  <2>2. [j \in 1 .. n |-> flat[(i - 1) * n + j]] = [j \in 1 .. n |-> cells[i][j]]
    BY <1>7
  <2> QED BY <2>1, <2>2
<1>9. FromFlat(flat, n) = [i \in 1 .. m |-> cells[i]]
  BY <1>6, <1>8, Zenon
<1>10. cells = [i \in 1 .. m |-> cells[i]]
  BY <1>1 DEF Sequence
<1> QED BY <1>9, <1>10 DEF flat

-----------------------------------------------------------------------------
(* The stack of what is to be loaded, of the stack of what was to be saved *)

RoomOf(t) == [type |-> t.type, path |-> t.path]
Rooms(s) == [i \in DOMAIN s |-> RoomOf(s[i])]

LEMMA RoomsFacts ==
  ASSUME NEW s, Sequence(s)
  PROVE  /\ Sequence(Rooms(s)) /\ Len(Rooms(s)) = Len(s)
         /\ \A i \in 1 .. Len(s) : Rooms(s)[i] = RoomOf(s[i])
         /\ Rooms(s) = <<>> <=> s = <<>>
<1>1. PICK n \in Nat : n = Len(s) /\ DOMAIN s = 1 .. n
  BY SequenceFacts
<1>2. Rooms(s) = [i \in 1 .. n |-> RoomOf(s[i])]
  BY <1>1 DEF Rooms
<1>3. \A i \in 1 .. n : Rooms(s)[i] = RoomOf(s[i])
  BY <1>2
<1>4. Rooms(s) = [i \in 1 .. n |-> Rooms(s)[i]]
  BY <1>2
<1>5. Sequence(Rooms(s)) /\ Len(Rooms(s)) = n
  BY <1>4, FunctionIsSequence
<1>6. (Rooms(s) = <<>> <=> Len(Rooms(s)) = 0) /\ (s = <<>> <=> Len(s) = 0)
  BY <1>5, IsEmpty
<1> QED BY <1>1, <1>3, <1>5, <1>6

LEMMA RoomsOfJoined ==
  ASSUME NEW s, Sequence(s), NEW t, Sequence(t)
  PROVE  Rooms(s \o t) = Rooms(s) \o Rooms(t)
<1>1. Len(s) \in Nat /\ Len(t) \in Nat
  BY SequenceFacts
<1>2. /\ Sequence(s \o t) /\ Len(s \o t) = Len(s) + Len(t)
      /\ \A i \in 1 .. Len(s) : (s \o t)[i] = s[i]
      /\ \A i \in 1 .. Len(t) : (s \o t)[Len(s) + i] = t[i]
  BY Joined
<1>3. /\ Sequence(Rooms(s)) /\ Len(Rooms(s)) = Len(s)
      /\ \A i \in 1 .. Len(s) : Rooms(s)[i] = RoomOf(s[i])
  BY RoomsFacts
<1>4. /\ Sequence(Rooms(t)) /\ Len(Rooms(t)) = Len(t)
      /\ \A i \in 1 .. Len(t) : Rooms(t)[i] = RoomOf(t[i])
  BY RoomsFacts
<1>5. /\ Sequence(Rooms(s \o t)) /\ Len(Rooms(s \o t)) = Len(s) + Len(t)
      /\ \A i \in 1 .. Len(s) + Len(t) : Rooms(s \o t)[i] = RoomOf((s \o t)[i])
  BY <1>2, RoomsFacts
<1>6. /\ Sequence(Rooms(s) \o Rooms(t)) /\ Len(Rooms(s) \o Rooms(t)) = Len(s) + Len(t)
      /\ \A i \in 1 .. Len(s) : (Rooms(s) \o Rooms(t))[i] = Rooms(s)[i]
      /\ \A i \in 1 .. Len(t) : (Rooms(s) \o Rooms(t))[Len(s) + i] = Rooms(t)[i]
  <2>1. PICK a : a = Rooms(s)
    OBVIOUS
  <2>2. PICK b : b = Rooms(t)
    OBVIOUS
  <2>3. Sequence(a) /\ Len(a) = Len(s) /\ Sequence(b) /\ Len(b) = Len(t)
    BY <1>3, <1>4, <2>1, <2>2
  <2>4. /\ Sequence(a \o b) /\ Len(a \o b) = Len(a) + Len(b)
        /\ \A i \in 1 .. Len(a) : (a \o b)[i] = a[i]
        /\ \A i \in 1 .. Len(b) : (a \o b)[Len(a) + i] = b[i]
    <3>1. \A x, y : Sequence(x) /\ Sequence(y) => Sequence(x \o y)
      BY Joined
    <3>2. \A x, y : Sequence(x) /\ Sequence(y) => Len(x \o y) = Len(x) + Len(y)
      BY Joined
    <3>3. \A x, y : Sequence(x) /\ Sequence(y) => \A i \in 1 .. Len(x) : (x \o y)[i] = x[i]
      BY Joined
    <3>4. \A x, y : Sequence(x) /\ Sequence(y) =>
          \A i \in 1 .. Len(y) : (x \o y)[Len(x) + i] = y[i]
      BY Joined
    <3>5. Sequence(a \o b)
      BY <2>3, <3>1
    <3>6. Len(a \o b) = Len(a) + Len(b)
      BY <2>3, <3>2
    <3>7. \A i \in 1 .. Len(a) : (a \o b)[i] = a[i]
      BY <2>3, <3>3
    <3>8. \A i \in 1 .. Len(b) : (a \o b)[Len(a) + i] = b[i]
      BY <2>3, <3>4, Zenon
    <3> QED BY <3>5, <3>6, <3>7, <3>8
  <2> QED BY <2>1, <2>2, <2>3, <2>4
<1>7. ASSUME NEW i \in 1 .. Len(s) + Len(t)
      PROVE  Rooms(s \o t)[i] = (Rooms(s) \o Rooms(t))[i]
  <2>1. CASE i \in 1 .. Len(s)
    BY <1>2, <1>3, <1>5, <1>6, <2>1
  <2>2. CASE i \notin 1 .. Len(s)
    <3>1. PICK j \in 1 .. Len(t) : i = Len(s) + j
      <4>1. i - Len(s) \in 1 .. Len(t) /\ i = Len(s) + (i - Len(s))
        BY <1>1, <2>2
      <4> QED BY <4>1
    <3>2. Rooms(s \o t)[i] = RoomOf(t[j])
      BY <1>2, <1>5, <3>1
    <3>3. (Rooms(s) \o Rooms(t))[i] = RoomOf(t[j])
      BY <1>4, <1>6, <3>1
    <3> QED BY <3>2, <3>3
  <2> QED BY <2>1, <2>2
<1> QED BY <1>5, <1>6, <1>7, SameSequence

LEMMA RoomsOfTail ==
  ASSUME NEW s, Sequence(s), s # <<>>
  PROVE  /\ Rooms(s) # <<>>
         /\ Head(Rooms(s)) = RoomOf(Head(s))
         /\ Tail(Rooms(s)) = Rooms(Tail(s))
<1>1. /\ Head(s) = s[1] /\ Len(s) \in Nat \ {0}
      /\ Sequence(Tail(s)) /\ Len(Tail(s)) = Len(s) - 1
      /\ \A i \in 1 .. Len(s) - 1 : Tail(s)[i] = s[i + 1]
  BY HeadAndTail
<1>2. /\ Sequence(Rooms(s)) /\ Len(Rooms(s)) = Len(s)
      /\ \A i \in 1 .. Len(s) : Rooms(s)[i] = RoomOf(s[i])
      /\ Rooms(s) # <<>>
  BY RoomsFacts
<1>3. /\ Head(Rooms(s)) = Rooms(s)[1]
      /\ Sequence(Tail(Rooms(s))) /\ Len(Tail(Rooms(s))) = Len(s) - 1
      /\ \A i \in 1 .. Len(s) - 1 : Tail(Rooms(s))[i] = Rooms(s)[i + 1]
  BY <1>2, HeadAndTail, Zenon
<1>4. /\ Sequence(Rooms(Tail(s))) /\ Len(Rooms(Tail(s))) = Len(s) - 1
      /\ \A i \in 1 .. Len(s) - 1 : Rooms(Tail(s))[i] = RoomOf(Tail(s)[i])
  BY <1>1, RoomsFacts, Zenon
<1>5. ASSUME NEW i \in 1 .. Len(s) - 1
      PROVE  Tail(Rooms(s))[i] = Rooms(Tail(s))[i]
  <2>1. i + 1 \in 1 .. Len(s)
    BY <1>1
  <2> QED BY <1>1, <1>2, <1>3, <1>4, <2>1
<1>6. Tail(Rooms(s)) = Rooms(Tail(s))
  BY <1>3, <1>4, <1>5, SameSequence
<1>7. Head(Rooms(s)) = RoomOf(Head(s))
  BY <1>1, <1>2, <1>3
<1> QED BY <1>2, <1>6, <1>7

LEMMA RoomsOfOne ==
  ASSUME NEW p
  PROVE  Rooms(<<p>>) = <<RoomOf(p)>>
<1>1. Sequence(<<p>>) /\ Len(<<p>>) = 1 /\ <<p>>[1] = p
  BY Singleton
<1>2. /\ Sequence(Rooms(<<p>>)) /\ Len(Rooms(<<p>>)) = 1
      /\ \A i \in 1 .. 1 : Rooms(<<p>>)[i] = RoomOf(<<p>>[i])
  BY <1>1, RoomsFacts
<1>3. PICK q : q = RoomOf(p)
  OBVIOUS
<1>4. Sequence(<<q>>) /\ Len(<<q>>) = 1 /\ <<q>>[1] = q
  BY Singleton
<1>5. PICK r : r = Rooms(<<p>>)
  OBVIOUS
<1>6. Sequence(r) /\ Len(r) = 1 /\ r[1] = q
  BY <1>1, <1>2, <1>3, <1>5
<1>7. \A i \in 1 .. Len(r) : r[i] = <<q>>[i]
  BY <1>4, <1>6
<1>8. r = <<q>>
  BY <1>4, <1>6, <1>7, SameSequence
<1> QED BY <1>3, <1>5, <1>8

-----------------------------------------------------------------------------
(* What one step of saving writes of t: a slot and its entries; the parts of t *)
(* are left. *)

PartOf(t, type, i, value) == [type |-> type, path |-> Append(t.path, i), value |-> value]
EntryOf(t, contents) == <<<<t.path, contents>>>>
CellEntriesOf(t) == [i \in DOMAIN t.value |-> <<Append(t.path, i), t.value[i]>>]

SlotWith(kind, contents) == [kind |-> kind, is |-> contents]

WrittenSlot(t, slot, entries, parts) ==
  \E kind \in Slots :
    /\ t.type.sort = kind /\ slot = SlotWith(kind, t.value)
    /\ entries = EntryOf(t, t.value) /\ parts = <<>>

WrittenVector(t, slot, entries, parts) ==
  /\ t.type.sort = "vector" /\ slot = SlotWith("number", <<Len(t.value)>>)
  /\ entries = EntryOf(t, <<Len(t.value)>>)
  /\ parts = [i \in DOMAIN t.value |-> PartOf(t, t.type.of, i, t.value[i])]

WrittenClass(t, slot, entries, parts) ==
  /\ t.type.sort = "class" /\ slot = SlotWith("number", <<0>>)
  /\ entries = EntryOf(t, <<0>>)
  /\ parts = [i \in DOMAIN t.value |-> PartOf(t, t.type.members[i], i, t.value[i])]

WrittenVariant(t, slot, entries, parts) ==
  /\ t.type.sort = "variant" /\ slot = SlotWith("number", <<t.value.which>>)
  /\ entries = EntryOf(t, <<t.value.which>>)
  /\ parts = <<PartOf(t, t.type.cases[t.value.which], 1, t.value.is)>>

WrittenDoubles(t, slot, entries, parts) ==
  /\ t.type.sort = "doubles" /\ slot = SlotWith("array", Flat(t.value, t.type.width))
  /\ entries = CellEntriesOf(t) /\ parts = <<>>

Written(t, slot, entries, parts) ==
  \/ WrittenSlot(t, slot, entries, parts)
  \/ WrittenVector(t, slot, entries, parts)
  \/ WrittenClass(t, slot, entries, parts)
  \/ WrittenVariant(t, slot, entries, parts)
  \/ WrittenDoubles(t, slot, entries, parts)

Piece(t) == <<t.type, t.value>> \in Pieces
AllPieces(s) == Sequence(s) /\ \A i \in 1 .. Len(s) : Piece(s[i])

\* A step of saving, from one stack and one history to the next.
Follows(stack, next, slot, log, longer) ==
  /\ stack # <<>>
  /\ \E entries, parts :
       /\ Written(Head(stack), slot, entries, parts)
       /\ next = parts \o Tail(stack) /\ longer = log \o entries

LEMMA PieceFits ==
  ASSUME NEW t, Piece(t)
  PROVE  Fits(t.type, t.value) /\ Parts(t.type, t.value) \subseteq Pieces
<1>1. PICK p \in Pieces : p = <<t.type, t.value>>
  BY DEF Piece
<1>2. Fits(p[1], p[2]) /\ Parts(p[1], p[2]) \subseteq Pieces
  BY PiecesAssumption
<1> QED BY <1>1, <1>2

LEMMA PartsArePieces ==
  ASSUME NEW t, Piece(t), NEW slot, NEW entries, NEW parts,
         Written(t, slot, entries, parts)
  PROVE  AllPieces(parts) /\ Sequence(entries)
<1>1. Fits(t.type, t.value) /\ Parts(t.type, t.value) \subseteq Pieces
  BY PieceFits
<1>2. CASE WrittenSlot(t, slot, entries, parts)
  <2>1. parts = <<>> /\ entries = EntryOf(t, t.value)
    BY <1>2 DEF WrittenSlot
  <2>2. AllPieces(parts)
    BY <2>1, EmptySequence DEF AllPieces
  <2>3. Sequence(entries)
    BY <2>1, Singleton DEF EntryOf
  <2> QED BY <2>2, <2>3
<1>3. CASE WrittenVector(t, slot, entries, parts)
  <2>1. /\ t.type.sort = "vector" /\ entries = EntryOf(t, <<Len(t.value)>>)
        /\ parts = [i \in DOMAIN t.value |-> PartOf(t, t.type.of, i, t.value[i])]
    BY <1>3 DEF WrittenVector
  <2>2. Sequence(t.value)
    BY <1>1, <2>1 DEF Fits
  <2>3. PICK n \in Nat : DOMAIN t.value = 1 .. n
    BY <2>2, SequenceFacts
  <2>4. \A i \in 1 .. n : parts[i] = PartOf(t, t.type.of, i, t.value[i])
    BY <2>1, <2>3
  <2>5. parts = [i \in 1 .. n |-> parts[i]]
    BY <2>1, <2>3
  <2>6. Sequence(parts) /\ Len(parts) = n
    BY <2>5, FunctionIsSequence
  <2>7. ASSUME NEW i \in 1 .. n PROVE Piece(parts[i])
    <3>0. parts[i] = PartOf(t, t.type.of, i, t.value[i])
      BY <2>4
    <3>1. parts[i].type = t.type.of /\ parts[i].value = t.value[i]
      BY <3>0 DEF PartOf
    <3>2. <<t.type.of, t.value[i]>> \in Parts(t.type, t.value)
      BY <2>1, <2>3 DEF Parts
    <3> QED BY <1>1, <3>1, <3>2 DEF Piece
  <2>8. AllPieces(parts)
    BY <2>6, <2>7 DEF AllPieces
  <2>9. Sequence(entries)
    BY <2>1, Singleton DEF EntryOf
  <2> QED BY <2>8, <2>9
<1>4. CASE WrittenClass(t, slot, entries, parts)
  <2>1. /\ t.type.sort = "class" /\ entries = EntryOf(t, <<0>>)
        /\ parts = [i \in DOMAIN t.value |-> PartOf(t, t.type.members[i], i, t.value[i])]
    BY <1>4 DEF WrittenClass
  <2>2. Sequence(t.value)
    BY <1>1, <2>1 DEF Fits
  <2>3. PICK n \in Nat : DOMAIN t.value = 1 .. n
    BY <2>2, SequenceFacts
  <2>4. \A i \in 1 .. n : parts[i] = PartOf(t, t.type.members[i], i, t.value[i])
    BY <2>1, <2>3
  <2>5. parts = [i \in 1 .. n |-> parts[i]]
    BY <2>1, <2>3
  <2>6. Sequence(parts) /\ Len(parts) = n
    BY <2>5, FunctionIsSequence
  <2>7. ASSUME NEW i \in 1 .. n PROVE Piece(parts[i])
    <3>0. parts[i] = PartOf(t, t.type.members[i], i, t.value[i])
      BY <2>4
    <3>1. parts[i].type = t.type.members[i] /\ parts[i].value = t.value[i]
      BY <3>0 DEF PartOf
    <3>2. <<t.type.members[i], t.value[i]>> \in Parts(t.type, t.value)
      BY <2>1, <2>3 DEF Parts
    <3> QED BY <1>1, <3>1, <3>2 DEF Piece
  <2>8. AllPieces(parts)
    BY <2>6, <2>7 DEF AllPieces
  <2>9. Sequence(entries)
    BY <2>1, Singleton DEF EntryOf
  <2> QED BY <2>8, <2>9
<1>5. CASE WrittenVariant(t, slot, entries, parts)
  <2>1. /\ t.type.sort = "variant" /\ entries = EntryOf(t, <<t.value.which>>)
        /\ parts = <<PartOf(t, t.type.cases[t.value.which], 1, t.value.is)>>
    BY <1>5 DEF WrittenVariant
  <2>2. PICK p : p = PartOf(t, t.type.cases[t.value.which], 1, t.value.is)
    OBVIOUS
  <2>3. p.type = t.type.cases[t.value.which] /\ p.value = t.value.is
    BY <2>2 DEF PartOf
  <2>4. <<t.type.cases[t.value.which], t.value.is>> \in Parts(t.type, t.value)
    BY <2>1 DEF Parts
  <2>5. Piece(p)
    BY <1>1, <2>3, <2>4 DEF Piece
  <2>6. Sequence(<<p>>) /\ Len(<<p>>) = 1 /\ <<p>>[1] = p
    BY Singleton
  <2>7. AllPieces(<<p>>)
    BY <2>5, <2>6 DEF AllPieces
  <2>8. Sequence(entries)
    BY <2>1, Singleton DEF EntryOf
  <2> QED BY <2>1, <2>2, <2>7, <2>8
<1>6. CASE WrittenDoubles(t, slot, entries, parts)
  <2>1. t.type.sort = "doubles" /\ entries = CellEntriesOf(t) /\ parts = <<>>
    BY <1>6 DEF WrittenDoubles
  <2>2. Sequence(t.value)
    BY <1>1, <2>1 DEF Fits
  <2>3. PICK n \in Nat : DOMAIN t.value = 1 .. n
    BY <2>2, SequenceFacts
  <2>4. entries = [i \in 1 .. n |-> <<Append(t.path, i), t.value[i]>>]
    BY <2>1, <2>3 DEF CellEntriesOf
  <2>5. entries = [i \in 1 .. n |-> entries[i]]
    BY <2>4
  <2>6. Sequence(entries)
    BY <2>5, FunctionIsSequence
  <2>7. AllPieces(parts)
    BY <2>1, EmptySequence DEF AllPieces
  <2> QED BY <2>6, <2>7
<1> QED BY <1>2, <1>3, <1>4, <1>5, <1>6 DEF Written

LEMMA PiecesJoined ==
  ASSUME NEW s, AllPieces(s), NEW t, AllPieces(t)
  PROVE  AllPieces(s \o t)
<1>1. /\ Sequence(s) /\ \A i \in 1 .. Len(s) : Piece(s[i])
      /\ Sequence(t) /\ \A i \in 1 .. Len(t) : Piece(t[i])
  BY DEF AllPieces
<1>2. Len(s) \in Nat /\ Len(t) \in Nat
  BY <1>1, SequenceFacts
<1>3. /\ Sequence(s \o t) /\ Len(s \o t) = Len(s) + Len(t)
      /\ \A i \in 1 .. Len(s) : (s \o t)[i] = s[i]
      /\ \A i \in 1 .. Len(t) : (s \o t)[Len(s) + i] = t[i]
  BY <1>1, Joined
<1>4. ASSUME NEW i \in 1 .. Len(s) + Len(t) PROVE Piece((s \o t)[i])
  <2>1. CASE i \in 1 .. Len(s)
    BY <1>1, <1>3, <2>1
  <2>2. CASE i \notin 1 .. Len(s)
    <3>1. PICK j \in 1 .. Len(t) : i = Len(s) + j
      <4>1. i - Len(s) \in 1 .. Len(t) /\ i = Len(s) + (i - Len(s))
        BY <1>2, <2>2
      <4> QED BY <4>1
    <3> QED BY <1>1, <1>3, <3>1
  <2> QED BY <2>1, <2>2
<1> QED BY <1>3, <1>4 DEF AllPieces

-----------------------------------------------------------------------------
(* Saving writes *)

LEMMA SavingWrites ==
  ASSUME Save
  PROVE  /\ phase = "saving" /\ todo # <<>>
         /\ UNCHANGED <<object, phase, cur, loaded>>
         /\ \E slot, entries, parts :
              /\ Written(Head(todo), slot, entries, parts)
              /\ tup' = Append(tup, slot)
              /\ todo' = parts \o Tail(todo)
              /\ saved' = saved \o entries
<1> DEFINE Wrote == \E slot, entries, parts :
                      /\ Written(Head(todo), slot, entries, parts)
                      /\ tup' = Append(tup, slot)
                      /\ todo' = parts \o Tail(todo)
                      /\ saved' = saved \o entries
<1>0. ASSUME NEW kind, NEW contents, NEW entries, NEW parts,
             Put(kind, contents, entries, parts),
             Written(Head(todo), SlotWith(kind, contents), entries, parts)
      PROVE  Wrote /\ UNCHANGED <<object, phase, cur, loaded>>
  <2>1. /\ tup' = Append(tup, SlotWith(kind, contents))
        /\ todo' = parts \o Tail(todo) /\ saved' = saved \o entries
        /\ UNCHANGED <<object, phase, cur, loaded>>
    BY <1>0 DEF Put, SlotWith
  <2> QED BY <1>0, <2>1
<1> HIDE DEF Wrote
<1>1. CASE SaveSlot
  <2>1. PICK kind \in Slots : /\ Saving(kind)
                              /\ Put(kind, Top.value, Entry(Top.value), <<>>)
    BY <1>1 DEF SaveSlot
  <2>2. phase = "saving" /\ todo # <<>> /\ Top.type.sort = kind
    BY <2>1 DEF Saving, Sort
  <2>3. WrittenSlot(Head(todo), SlotWith(kind, Top.value), Entry(Top.value), <<>>)
    BY <2>2 DEF WrittenSlot, Entry, EntryOf, Top
  <2> QED BY <1>0, <2>1, <2>2, <2>3 DEF Written, Wrote
<1>2. CASE SaveVector
  <2> DEFINE size == <<Len(Top.value)>>
             parts == [i \in DOMAIN Top.value |-> Part(Top.type.of, i, Top.value[i])]
  <2>1. /\ phase = "saving" /\ todo # <<>> /\ Top.type.sort = "vector"
        /\ Put("number", size, Entry(size), parts)
    BY <1>2 DEF SaveVector, Saving, Sort
  <2>2. WrittenVector(Head(todo), SlotWith("number", size), Entry(size), parts)
    BY <2>1 DEF WrittenVector, Entry, EntryOf, Top, Part, PartOf, Place
  <2> HIDE DEF size, parts
  <2> QED BY <1>0, <2>1, <2>2 DEF Written, Wrote
<1>3. CASE SaveClass
  <2> DEFINE version == <<0>>
             parts == [i \in DOMAIN Top.value |-> Part(Top.type.members[i], i, Top.value[i])]
  <2>1. /\ phase = "saving" /\ todo # <<>> /\ Top.type.sort = "class"
        /\ Put("number", version, Entry(version), parts)
    BY <1>3 DEF SaveClass, Saving, Sort
  <2>2. WrittenClass(Head(todo), SlotWith("number", version), Entry(version), parts)
    BY <2>1 DEF WrittenClass, Entry, EntryOf, Top, Part, PartOf, Place
  <2> HIDE DEF version, parts
  <2> QED BY <1>0, <2>1, <2>2 DEF Written, Wrote
<1>4. CASE SaveVariant
  <2> DEFINE which == <<Top.value.which>>
             parts == <<Part(Top.type.cases[Top.value.which], 1, Top.value.is)>>
  <2>1. /\ phase = "saving" /\ todo # <<>> /\ Top.type.sort = "variant"
        /\ Put("number", which, Entry(which), parts)
    BY <1>4 DEF SaveVariant, Saving, Sort
  <2>2. WrittenVariant(Head(todo), SlotWith("number", which), Entry(which), parts)
    BY <2>1 DEF WrittenVariant, Entry, EntryOf, Top, Part, PartOf, Place
  <2> HIDE DEF which, parts
  <2> QED BY <1>0, <2>1, <2>2 DEF Written, Wrote
<1>5. CASE SaveDoubles
  <2> DEFINE flat == Flat(Top.value, Top.type.width)
             entries == CellEntries(Top.value)
  <2>1. /\ phase = "saving" /\ todo # <<>> /\ Top.type.sort = "doubles"
        /\ Put("array", flat, entries, <<>>)
    BY <1>5 DEF SaveDoubles, Saving, Sort
  <2>2. WrittenDoubles(Head(todo), SlotWith("array", flat), entries, <<>>)
    BY <2>1 DEF WrittenDoubles, CellEntries, CellEntriesOf, Top, Place
  <2> HIDE DEF flat, entries
  <2> QED BY <1>0, <2>1, <2>2 DEF Written, Wrote
<1> QED BY <1>1, <1>2, <1>3, <1>4, <1>5 DEF Save, Wrote

-----------------------------------------------------------------------------
(* Loading reads what was written *)

LEMMA LoadingReads ==
  ASSUME NEW t, Piece(t), NEW slot, NEW entries, NEW parts,
         Written(t, slot, entries, parts),
         Head(todo) = RoomOf(t), tup[cur] = slot, Load
  PROVE  /\ phase = "loading" /\ todo # <<>> /\ cur <= Len(tup)
         /\ UNCHANGED <<object, phase, tup, saved>>
         /\ cur' = cur + 1
         /\ loaded' = loaded \o entries
         /\ todo' = Rooms(parts) \o Tail(todo)
<1> DEFINE Got(e, p) ==
             /\ cur <= Len(tup)
             /\ UNCHANGED <<object, phase, tup, saved>>
             /\ cur' = cur + 1
             /\ loaded' = loaded \o e
             /\ todo' = p \o Tail(todo)
<1>0. ASSUME NEW kind, NEW e, NEW p, Get(kind, e, p) PROVE Got(e, p)
  BY <1>0 DEF Get
<1> HIDE DEF Got
<1>1. Top.type = t.type /\ Top.path = t.path
  BY DEF Top, RoomOf
<1>2. Fits(t.type, t.value)
  BY PieceFits
<1>3. Contents = slot.is
  BY DEF Contents
<1>4. ASSUME Got(entries, Rooms(parts)), phase = "loading", todo # <<>>
      PROVE  /\ phase = "loading" /\ todo # <<>> /\ cur <= Len(tup)
             /\ UNCHANGED <<object, phase, tup, saved>>
             /\ cur' = cur + 1
             /\ loaded' = loaded \o entries
             /\ todo' = Rooms(parts) \o Tail(todo)
  BY <1>4 DEF Got
<1>5. CASE LoadSlot
  <2>1. PICK kind \in Slots : Loading(kind) /\ Get(kind, Entry(Contents), <<>>)
    BY <1>5 DEF LoadSlot
  <2>2. phase = "loading" /\ todo # <<>> /\ t.type.sort = kind /\ Got(Entry(Contents), <<>>)
    BY <1>0, <1>1, <2>1 DEF Loading, Sort
  <2>3. WrittenSlot(t, slot, entries, parts)
    BY <2>2 DEF Written, WrittenVector, WrittenClass, WrittenVariant, WrittenDoubles, Slots
  <2>4. parts = <<>> /\ entries = EntryOf(t, t.value) /\ slot.is = t.value
    BY <2>3 DEF WrittenSlot, SlotWith
  <2>5. Rooms(parts) = <<>>
    BY <2>4, EmptySequence, RoomsFacts
  <2>6. Entry(Contents) = entries
    BY <1>1, <1>3, <2>4 DEF Entry, EntryOf
  <2> QED BY <1>4, <2>2, <2>5, <2>6
<1>6. CASE LoadVector
  <2> DEFINE rooms == [i \in 1 .. Contents[1] |-> Room(Top.type.of, i)]
  <2>1. Loading("vector") /\ Get("number", Entry(Contents), rooms)
    BY <1>6 DEF LoadVector
  <2>2. phase = "loading" /\ todo # <<>> /\ t.type.sort = "vector"
        /\ Got(Entry(Contents), rooms)
    BY <1>0, <1>1, <2>1 DEF Loading, Sort
  <2>3. WrittenVector(t, slot, entries, parts)
    BY <2>2 DEF Written, WrittenSlot, WrittenClass, WrittenVariant, WrittenDoubles, Slots
  <2>4. PICK n \in Nat : n = Len(t.value) /\ DOMAIN t.value = 1 .. n
    <3>1. Sequence(t.value)
      BY <1>2, <2>2 DEF Fits
    <3> QED BY <3>1, SequenceFacts
  <2>5. /\ parts = [i \in 1 .. n |-> PartOf(t, t.type.of, i, t.value[i])]
        /\ entries = EntryOf(t, <<n>>) /\ slot.is = <<n>>
    BY <2>3, <2>4 DEF WrittenVector, SlotWith
  <2>6. Rooms(parts) = [i \in 1 .. n |-> Room(Top.type.of, i)]
    BY <1>1, <2>5 DEF Rooms, RoomOf, PartOf, Room, Place
  <2>7. Contents[1] = n
    BY <1>3, <2>5
  <2>8. rooms = Rooms(parts)
    BY <2>6, <2>7
  <2>9. Entry(Contents) = entries
    BY <1>1, <1>3, <2>5 DEF Entry, EntryOf
  <2> HIDE DEF rooms
  <2> QED BY <1>4, <2>2, <2>8, <2>9
<1>7. CASE LoadClass
  <2> DEFINE rooms == [i \in DOMAIN Top.type.members |-> Room(Top.type.members[i], i)]
  <2>1. Loading("class") /\ Get("number", Entry(Contents), rooms)
    BY <1>7 DEF LoadClass
  <2>2. phase = "loading" /\ todo # <<>> /\ t.type.sort = "class"
        /\ Got(Entry(Contents), rooms)
    BY <1>0, <1>1, <2>1 DEF Loading, Sort
  <2>3. WrittenClass(t, slot, entries, parts)
    BY <2>2 DEF Written, WrittenSlot, WrittenVector, WrittenVariant, WrittenDoubles, Slots
  <2>4. DOMAIN t.value = DOMAIN t.type.members
    BY <1>2, <2>2 DEF Fits
  <2>5. /\ parts = [i \in DOMAIN t.type.members |->
                   PartOf(t, t.type.members[i], i, t.value[i])]
        /\ entries = EntryOf(t, <<0>>) /\ slot.is = <<0>>
    BY <2>3, <2>4 DEF WrittenClass, SlotWith
  <2>6. Rooms(parts) = [i \in DOMAIN t.type.members |-> Room(Top.type.members[i], i)]
    BY <1>1, <2>5 DEF Rooms, RoomOf, PartOf, Room, Place
  <2>8. rooms = Rooms(parts)
    BY <1>1, <2>6
  <2>9. Entry(Contents) = entries
    BY <1>1, <1>3, <2>5 DEF Entry, EntryOf
  <2> HIDE DEF rooms
  <2> QED BY <1>4, <2>2, <2>8, <2>9
<1>8. CASE LoadVariant
  <2> DEFINE rooms == <<Room(Top.type.cases[Contents[1]], 1)>>
  <2>1. Loading("variant") /\ Get("number", Entry(Contents), rooms)
    BY <1>8 DEF LoadVariant
  <2>2. phase = "loading" /\ todo # <<>> /\ t.type.sort = "variant"
        /\ Got(Entry(Contents), rooms)
    BY <1>0, <1>1, <2>1 DEF Loading, Sort
  <2>3. WrittenVariant(t, slot, entries, parts)
    BY <2>2 DEF Written, WrittenSlot, WrittenVector, WrittenClass, WrittenDoubles, Slots
  <2>4. PICK w : w = t.value.which
    OBVIOUS
  <2>5. PICK p : p = PartOf(t, t.type.cases[w], 1, t.value.is)
    OBVIOUS
  <2>6. parts = <<p>> /\ entries = EntryOf(t, <<w>>) /\ slot.is = <<w>>
    BY <2>3, <2>4, <2>5 DEF WrittenVariant, SlotWith
  <2>7. Rooms(<<p>>) = <<RoomOf(p)>>
    BY RoomsOfOne
  <2>8. RoomOf(p) = Room(Top.type.cases[Contents[1]], 1)
    <3>1. Contents[1] = w
      BY <1>3, <2>6
    <3> QED BY <1>1, <2>5, <3>1 DEF RoomOf, PartOf, Room, Place
  <2>9. rooms = Rooms(parts)
    BY <2>6, <2>7, <2>8
  <2>10. Entry(Contents) = entries
    BY <1>1, <1>3, <2>6 DEF Entry, EntryOf
  <2> HIDE DEF rooms
  <2> QED BY <1>4, <2>2, <2>9, <2>10
<1>9. CASE LoadDoubles
  <2> DEFINE cells == CellEntries(FromFlat(Contents, Top.type.width))
  <2>1. Loading("doubles") /\ Get("array", cells, <<>>)
    BY <1>9 DEF LoadDoubles
  <2>2. phase = "loading" /\ todo # <<>> /\ t.type.sort = "doubles" /\ Got(cells, <<>>)
    BY <1>0, <1>1, <2>1 DEF Loading, Sort
  <2>3. WrittenDoubles(t, slot, entries, parts)
    BY <2>2 DEF Written, WrittenSlot, WrittenVector, WrittenClass, WrittenVariant, Slots
  <2>4. /\ parts = <<>> /\ entries = CellEntriesOf(t)
        /\ slot.is = Flat(t.value, t.type.width)
    BY <2>3 DEF WrittenDoubles, SlotWith
  <2>5. FromFlat(Contents, Top.type.width) = t.value
    <3>1. /\ t.type.width \in Nat \ {0} /\ Sequence(t.value)
          /\ \A i \in DOMAIN t.value :
               Sequence(t.value[i]) /\ Len(t.value[i]) = t.type.width
      BY <1>2, <2>2 DEF Fits
    <3>2. FromFlat(Flat(t.value, t.type.width), t.type.width) = t.value
      BY <3>1, CellsComeBack
    <3> QED BY <1>1, <1>3, <2>4, <3>2
  <2>6. cells = entries
    BY <1>1, <2>4, <2>5 DEF CellEntries, CellEntriesOf, Place
  <2>7. Rooms(parts) = <<>>
    BY <2>4, EmptySequence, RoomsFacts
  <2> HIDE DEF cells
  <2> QED BY <1>4, <2>2, <2>6, <2>7
<1> QED BY <1>5, <1>6, <1>7, <1>8, <1>9 DEF Load

-----------------------------------------------------------------------------
(* The inductive invariant *)

\* Before slot k + 1 of the tuple was written, the stack of saving was stack[k]
\* and its history log[k].
Recorded(stack, log) ==
  /\ object \in DOMAIN Objects
  /\ Sequence(tup) /\ Sequence(saved)
  /\ \A k \in 0 .. Len(tup) :
       AllPieces(stack[k]) /\ Sequence(log[k]) /\ IsPrefix(log[k], saved)
  /\ \A k \in 0 .. Len(tup) - 1 :
       Follows(stack[k], stack[k + 1], tup[k + 1], log[k], log[k + 1])
  /\ stack[0] = <<[type |-> Objects[object].type, path |-> <<>>,
                   value |-> Objects[object].value]>>
  /\ log[0] = <<>>

WhileSaving(stack, log) ==
  /\ phase = "saving"
  /\ stack[Len(tup)] = todo /\ log[Len(tup)] = saved
  /\ cur = 1 /\ loaded = <<>>

\* Loading has the rooms of the stack that saving had at this slot.
WhileLoading(stack, log) ==
  /\ phase \in {"loading", "done"}
  /\ stack[Len(tup)] = <<>> /\ log[Len(tup)] = saved
  /\ cur \in 1 .. Len(tup) + 1
  /\ todo = Rooms(stack[cur - 1]) /\ loaded = log[cur - 1]
  /\ phase = "done" => cur = Len(tup) + 1

ArchiveInv ==
  \E stack, log :
    Recorded(stack, log) /\ (WhileSaving(stack, log) \/ WhileLoading(stack, log))

Longer(g, f, n, e) == (\A k \in 0 .. n : g[k] = f[k]) /\ g[n + 1] = e

LEMMA Extended ==
  ASSUME NEW n \in Nat, NEW f, NEW e
  PROVE  \E g : Longer(g, f, n, e)
<1>1. PICK g : g = [k \in 0 .. n + 1 |-> IF k = n + 1 THEN e ELSE f[k]]
  OBVIOUS
<1>2. \A k \in 0 .. n : k \in 0 .. n + 1 /\ k # n + 1
  OBVIOUS
<1>3. n + 1 \in 0 .. n + 1
  OBVIOUS
<1>4. \A k \in 0 .. n : g[k] = f[k]
  BY <1>1, <1>2
<1> QED BY <1>1, <1>3, <1>4 DEF Longer

LEMMA InitEstablishes ==
  Init => ArchiveInv
<1> SUFFICES ASSUME Init PROVE ArchiveInv
  OBVIOUS
<1>1. PICK item : item = [type |-> Objects[object].type, path |-> <<>>,
                          value |-> Objects[object].value]
  OBVIOUS
<1>2. /\ object \in DOMAIN Objects /\ phase = "saving" /\ todo = <<item>>
      /\ tup = <<>> /\ cur = 1 /\ saved = <<>> /\ loaded = <<>>
  BY <1>1 DEF Init
<1>3. PICK stack : stack = [k \in {0} |-> <<item>>]
  OBVIOUS
<1>4. PICK log : log = [k \in {0} |-> <<>>]
  OBVIOUS
<1>5. Len(tup) = 0 /\ Sequence(tup) /\ Sequence(saved)
  BY <1>2, EmptySequence
<1>6. AllPieces(<<item>>)
  <2>1. item.type = Objects[object].type /\ item.value = Objects[object].value
    BY <1>1
  <2>2. Piece(item)
    BY <1>2, <2>1, PiecesAssumption DEF Piece
  <2>3. Sequence(<<item>>) /\ Len(<<item>>) = 1 /\ <<item>>[1] = item
    BY Singleton
  <2> QED BY <2>2, <2>3 DEF AllPieces
<1>7. IsPrefix(<<>>, saved)
  BY <1>2, EmptySequence, BeginsWithItself
<1>8. stack[0] = <<item>> /\ log[0] = <<>>
  BY <1>3, <1>4
<1>9. Recorded(stack, log)
  <2>1. \A k \in 0 .. Len(tup) : k = 0
    BY <1>5
  <2>2. \A k \in 0 .. Len(tup) :
          AllPieces(stack[k]) /\ Sequence(log[k]) /\ IsPrefix(log[k], saved)
    BY <1>6, <1>7, <1>8, <2>1, EmptySequence
  <2>3. 0 .. Len(tup) - 1 = {}
    BY <1>5
  <2> QED BY <1>1, <1>2, <1>5, <1>8, <2>2, <2>3 DEF Recorded
<1>10. WhileSaving(stack, log)
  BY <1>2, <1>5, <1>8 DEF WhileSaving
<1> QED BY <1>9, <1>10 DEF ArchiveInv

\* A step of saving is recorded, and the histories before it still begin the
\* new one.
LEMMA SavePreserves ==
  ASSUME ArchiveInv, Save
  PROVE  ArchiveInv'
<1>1. PICK stack, log :
        Recorded(stack, log) /\ (WhileSaving(stack, log) \/ WhileLoading(stack, log))
  BY DEF ArchiveInv
<1>2. /\ phase = "saving" /\ todo # <<>>
      /\ UNCHANGED <<object, phase, cur, loaded>>
  BY SavingWrites
<1>3. PICK slot, entries, parts :
        /\ Written(Head(todo), slot, entries, parts)
        /\ tup' = Append(tup, slot)
        /\ todo' = parts \o Tail(todo)
        /\ saved' = saved \o entries
  BY SavingWrites
<1>4. WhileSaving(stack, log)
  BY <1>1, <1>2 DEF WhileLoading
<1>5. PICK n \in Nat : n = Len(tup) /\ Sequence(tup) /\ Sequence(saved)
  BY <1>1, SequenceFacts DEF Recorded
<1>6. \A k \in 0 .. n : AllPieces(stack[k]) /\ Sequence(log[k]) /\ IsPrefix(log[k], saved)
  BY <1>1, <1>5 DEF Recorded
<1>7. \A k \in 0 .. n - 1 :
        Follows(stack[k], stack[k + 1], tup[k + 1], log[k], log[k + 1])
  BY <1>1, <1>5 DEF Recorded
<1>8. stack[n] = todo /\ log[n] = saved
  BY <1>4, <1>5 DEF WhileSaving
<1>9. AllPieces(todo)
  BY <1>5, <1>6, <1>8
<1>10. Head(todo) = todo[1] /\ Len(todo) \in Nat \ {0} /\ Sequence(Tail(todo))
       /\ Len(Tail(todo)) = Len(todo) - 1
       /\ \A i \in 1 .. Len(todo) - 1 : Tail(todo)[i] = todo[i + 1]
  BY <1>2, <1>9, HeadAndTail DEF AllPieces
<1>11. Piece(Head(todo))
  BY <1>9, <1>10 DEF AllPieces
<1>12. AllPieces(parts) /\ Sequence(entries)
  BY <1>3, <1>11, PartsArePieces
<1>13. AllPieces(Tail(todo))
  <2>1. ASSUME NEW i \in 1 .. Len(todo) - 1 PROVE Piece(Tail(todo)[i])
    <3>1. i + 1 \in 1 .. Len(todo)
      BY <1>10
    <3> QED BY <1>9, <1>10, <3>1 DEF AllPieces
  <2> QED BY <1>10, <2>1 DEF AllPieces
<1>14. AllPieces(parts \o Tail(todo))
  BY <1>12, <1>13, PiecesJoined
<1>15. PICK next : (\A k \in 0 .. n : next[k] = stack[k]) /\ next[n + 1] = parts \o Tail(todo)
  <2>1. PICK e : e = parts \o Tail(todo)
    OBVIOUS
  <2>2. \E next : Longer(next, stack, n, e)
    BY Extended
  <2> QED BY <2>1, <2>2 DEF Longer
<1>16. PICK longer : (\A k \in 0 .. n : longer[k] = log[k]) /\ longer[n + 1] = saved \o entries
  <2>1. PICK e : e = saved \o entries
    OBVIOUS
  <2>2. \E longer : Longer(longer, log, n, e)
    BY Extended
  <2> QED BY <2>1, <2>2 DEF Longer
<1>17. /\ Sequence(tup') /\ Len(tup') = n + 1 /\ tup'[n + 1] = slot
       /\ \A k \in 1 .. n : tup'[k] = tup[k]
  BY <1>3, <1>5, Appended, ZenonT(30)
<1>18. Sequence(saved') /\ IsPrefix(saved', saved')
       /\ \A r : Sequence(r) /\ IsPrefix(r, saved) => IsPrefix(r, saved')
  <2>1. Sequence(saved \o entries)
    BY <1>5, <1>12, Joined
  <2>2. PICK s : s = saved \o entries
    OBVIOUS
  <2>3. IsPrefix(s, s)
    BY <2>1, <2>2, BeginsWithItself
  <2>4. \A r : Sequence(r) /\ IsPrefix(r, saved) => IsPrefix(r, saved \o entries)
    BY <1>5, <1>12, StillABeginning
  <2> QED BY <1>3, <2>1, <2>2, <2>3, <2>4
<1>19. ASSUME NEW k \in 0 .. n + 1
       PROVE  AllPieces(next[k]) /\ Sequence(longer[k]) /\ IsPrefix(longer[k], saved')
  <2>1. CASE k = n + 1
    BY <1>3, <1>14, <1>15, <1>16, <1>18, <2>1
  <2>2. CASE k \in 0 .. n
    BY <1>6, <1>15, <1>16, <1>18, <2>2
  <2> QED BY <2>1, <2>2
<1>20. ASSUME NEW k \in 0 .. n
       PROVE  Follows(next[k], next[k + 1], tup'[k + 1], longer[k], longer[k + 1])
  <2>1. CASE k = n
    <3>1. /\ next[k] = todo /\ next[k + 1] = parts \o Tail(todo)
          /\ longer[k] = saved /\ longer[k + 1] = saved \o entries
          /\ tup'[k + 1] = slot
      BY <1>8, <1>15, <1>16, <1>17, <2>1
    <3>2. Follows(todo, parts \o Tail(todo), slot, saved, saved \o entries)
      BY <1>2, <1>3 DEF Follows
    <3> QED BY <3>1, <3>2
  <2>2. CASE k # n
    <3>1. k \in 0 .. n - 1 /\ k + 1 \in 0 .. n /\ k + 1 \in 1 .. n
      BY <2>2
    <3>2. /\ next[k] = stack[k] /\ next[k + 1] = stack[k + 1]
          /\ longer[k] = log[k] /\ longer[k + 1] = log[k + 1]
          /\ tup'[k + 1] = tup[k + 1]
      BY <1>15, <1>16, <1>17, <3>1
    <3> QED BY <1>7, <3>1, <3>2
  <2> QED BY <2>1, <2>2
<1>21. Recorded(next, longer)'
  <2>1. /\ object' = object /\ object \in DOMAIN Objects
        /\ stack[0] = <<[type |-> Objects[object].type, path |-> <<>>,
                         value |-> Objects[object].value]>>
        /\ log[0] = <<>>
    BY <1>1, <1>2 DEF Recorded
  <2>2. next[0] = stack[0] /\ longer[0] = log[0]
    BY <1>15, <1>16
  <2>3. (n + 1) - 1 = n
    OBVIOUS
  <2> QED BY <1>17, <1>18, <1>19, <1>20, <2>1, <2>2, <2>3 DEF Recorded
<1>22. WhileSaving(next, longer)'
  BY <1>2, <1>3, <1>4, <1>15, <1>16, <1>17 DEF WhileSaving
<1> QED BY <1>21, <1>22 DEF ArchiveInv

LEMMA StartLoadingPreserves ==
  ASSUME ArchiveInv, StartLoading
  PROVE  ArchiveInv'
<1>1. PICK stack, log :
        Recorded(stack, log) /\ (WhileSaving(stack, log) \/ WhileLoading(stack, log))
  BY DEF ArchiveInv
<1>2. /\ phase = "saving" /\ todo = <<>> /\ phase' = "loading"
      /\ UNCHANGED <<object, tup, cur, saved, loaded>>
      /\ todo' = <<[type |-> Objects[object].type, path |-> <<>>]>>
  BY DEF StartLoading
<1>3. WhileSaving(stack, log)
  BY <1>1, <1>2 DEF WhileLoading
<1>4. PICK n \in Nat : n = Len(tup)
  BY <1>1, SequenceFacts DEF Recorded
<1>5. PICK item : item = [type |-> Objects[object].type, path |-> <<>>,
                          value |-> Objects[object].value]
  OBVIOUS
<1>6. stack[0] = <<item>> /\ log[0] = <<>>
  BY <1>1, <1>5 DEF Recorded
<1>7. RoomOf(item) = [type |-> Objects[object].type, path |-> <<>>]
  BY <1>5 DEF RoomOf
<1>8. todo' = Rooms(stack[0])
  BY <1>2, <1>6, <1>7, RoomsOfOne
<1>9. stack[n] = <<>> /\ log[n] = saved /\ cur = 1 /\ loaded = <<>>
  BY <1>2, <1>3, <1>4 DEF WhileSaving
<1>10. cur' = 1 /\ 1 \in 1 .. n + 1 /\ Len(tup') = n
  BY <1>2, <1>4, <1>9
<1>11. WhileLoading(stack, log)'
  <2>1. cur' - 1 = 0
    BY <1>10
  <2>2. phase' \in {"loading", "done"} /\ phase' # "done"
    BY <1>2
  <2>3. loaded' = <<>> /\ saved' = saved
    BY <1>2, <1>9
  <2> QED BY <1>6, <1>8, <1>9, <1>10, <2>1, <2>2, <2>3 DEF WhileLoading
<1>12. Recorded(stack, log)'
  BY <1>1, <1>2 DEF Recorded
<1> QED BY <1>11, <1>12 DEF ArchiveInv

LEMMA LoadPreserves ==
  ASSUME ArchiveInv, Load
  PROVE  ArchiveInv'
<1>1. PICK stack, log :
        Recorded(stack, log) /\ (WhileSaving(stack, log) \/ WhileLoading(stack, log))
  BY DEF ArchiveInv
<1>2. phase = "loading" /\ todo # <<>>
  BY DEF Load, LoadSlot, LoadVector, LoadClass, LoadVariant, LoadDoubles, Loading
<1>3. WhileLoading(stack, log)
  BY <1>1, <1>2 DEF WhileSaving
<1>4. PICK n \in Nat : n = Len(tup)
  BY <1>1, SequenceFacts DEF Recorded
<1>5. PICK k \in 0 .. n : cur = k + 1
  <2>1. cur \in 1 .. n + 1
    BY <1>3, <1>4 DEF WhileLoading
  <2>2. cur - 1 \in 0 .. n /\ cur = (cur - 1) + 1
    BY <2>1
  <2> QED BY <2>2
<1>6. /\ stack[n] = <<>> /\ log[n] = saved
      /\ todo = Rooms(stack[k]) /\ loaded = log[k]
  <2>1. cur - 1 = k
    BY <1>5
  <2> QED BY <1>3, <1>4, <2>1 DEF WhileLoading
<1>7. AllPieces(stack[k])
  BY <1>1, <1>4 DEF Recorded
<1>8. stack[k] # <<>>
  BY <1>2, <1>6, EmptySequence, RoomsFacts
<1>9. k \in 0 .. n - 1
  <2>1. k # n
    BY <1>6, <1>8
  <2> QED BY <2>1
<1>10. PICK s : s = stack[k]
  OBVIOUS
<1>11. Follows(s, stack[k + 1], tup[k + 1], log[k], log[k + 1])
  BY <1>1, <1>4, <1>9, <1>10 DEF Recorded
<1>12. PICK entries, parts :
         /\ Written(Head(s), tup[k + 1], entries, parts)
         /\ stack[k + 1] = parts \o Tail(s) /\ log[k + 1] = log[k] \o entries
  BY <1>11 DEF Follows
<1>13. Sequence(s) /\ s # <<>> /\ Piece(Head(s)) /\ Sequence(Tail(s))
  <2>1. AllPieces(s) /\ s # <<>>
    BY <1>7, <1>8, <1>10
  <2>2. Sequence(s) /\ \A i \in 1 .. Len(s) : Piece(s[i])
    BY <2>1 DEF AllPieces
  <2>3. Head(s) = s[1] /\ Len(s) \in Nat \ {0} /\ Sequence(Tail(s))
    BY <2>1, <2>2, HeadAndTail
  <2>4. Piece(s[1])
    BY <2>2, <2>3
  <2> QED BY <2>1, <2>2, <2>3, <2>4
<1>14. Head(todo) = RoomOf(Head(s)) /\ Tail(todo) = Rooms(Tail(s))
  BY <1>6, <1>10, <1>13, RoomsOfTail
<1>15. tup[cur] = tup[k + 1]
  BY <1>5
<1>16. /\ UNCHANGED <<object, phase, tup, saved>>
       /\ cur' = cur + 1
       /\ loaded' = loaded \o entries
       /\ todo' = Rooms(parts) \o Tail(todo)
  BY <1>12, <1>13, <1>14, <1>15, LoadingReads
<1>17. AllPieces(parts)
  BY <1>12, <1>13, PartsArePieces
<1>18. todo' = Rooms(stack[k + 1])
  <2>1. Sequence(parts)
    BY <1>17 DEF AllPieces
  <2>2. Rooms(parts \o Tail(s)) = Rooms(parts) \o Rooms(Tail(s))
    BY <1>13, <2>1, RoomsOfJoined
  <2> QED BY <1>12, <1>14, <1>16, <2>2
<1>19. loaded' = log[k + 1]
  BY <1>6, <1>12, <1>16
<1>20. WhileLoading(stack, log)'
  <2>1. Len(tup') = n /\ cur' \in 1 .. n + 1 /\ cur' - 1 = k + 1
    BY <1>4, <1>5, <1>9, <1>16
  <2>2. phase' = "loading" /\ saved' = saved
    BY <1>2, <1>16
  <2> QED BY <1>6, <1>18, <1>19, <2>1, <2>2 DEF WhileLoading
<1>21. Recorded(stack, log)'
  BY <1>1, <1>16 DEF Recorded
<1> QED BY <1>20, <1>21 DEF ArchiveInv

LEMMA ReturnPreserves ==
  ASSUME ArchiveInv, Return
  PROVE  ArchiveInv'
<1>1. PICK stack, log :
        Recorded(stack, log) /\ (WhileSaving(stack, log) \/ WhileLoading(stack, log))
  BY DEF ArchiveInv
<1>2. /\ phase = "loading" /\ todo = <<>> /\ phase' = "done"
      /\ UNCHANGED <<object, todo, tup, cur, saved, loaded>>
  BY DEF Return
<1>3. WhileLoading(stack, log)
  BY <1>1, <1>2 DEF WhileSaving
<1>4. PICK n \in Nat : n = Len(tup)
  BY <1>1, SequenceFacts DEF Recorded
<1>5. PICK k \in 0 .. n : cur = k + 1
  <2>1. cur \in 1 .. n + 1
    BY <1>3, <1>4 DEF WhileLoading
  <2>2. cur - 1 \in 0 .. n /\ cur = (cur - 1) + 1
    BY <2>1
  <2> QED BY <2>2
<1>6. todo = Rooms(stack[k])
  <2>1. cur - 1 = k
    BY <1>5
  <2> QED BY <1>3, <1>4, <2>1 DEF WhileLoading
<1>7. AllPieces(stack[k])
  BY <1>1, <1>4 DEF Recorded
<1>8. stack[k] = <<>>
  BY <1>2, <1>6, <1>7, RoomsFacts DEF AllPieces
<1>9. k = n
  <2>1. CASE k \in 0 .. n - 1
    <3>1. Follows(stack[k], stack[k + 1], tup[k + 1], log[k], log[k + 1])
      BY <1>1, <1>4, <2>1 DEF Recorded
    <3> QED BY <1>8, <3>1 DEF Follows
  <2> QED BY <2>1
<1>10. cur' = Len(tup') + 1
  BY <1>2, <1>4, <1>5, <1>9
<1>11. WhileLoading(stack, log)'
  BY <1>2, <1>3, <1>10 DEF WhileLoading
<1>12. Recorded(stack, log)'
  BY <1>1, <1>2 DEF Recorded
<1> QED BY <1>11, <1>12 DEF ArchiveInv

LEMMA NextPreserves ==
  ArchiveInv /\ [Next]_vars => ArchiveInv'
<1> SUFFICES ASSUME ArchiveInv, [Next]_vars PROVE ArchiveInv'
  OBVIOUS
<1>1. CASE Save
  BY <1>1, SavePreserves
<1>2. CASE StartLoading
  BY <1>2, StartLoadingPreserves
<1>3. CASE Load
  BY <1>3, LoadPreserves
<1>4. CASE Return
  BY <1>4, ReturnPreserves
<1>5. CASE UNCHANGED vars
  BY <1>5 DEF vars, ArchiveInv, Recorded, WhileSaving, WhileLoading
<1> QED BY <1>1, <1>2, <1>3, <1>4, <1>5 DEF Next

\* Whatever is pickled, the invariant holds.
THEOREM ArchiveInvariant == Spec => []ArchiveInv
BY InitEstablishes, NextPreserves, PTL DEF Spec

LEMMA InvImpliesLoaded ==
  ArchiveInv => LoadedAsSaved
<1> SUFFICES ASSUME ArchiveInv PROVE LoadedAsSaved
  OBVIOUS
<1>1. PICK stack, log :
        Recorded(stack, log) /\ (WhileSaving(stack, log) \/ WhileLoading(stack, log))
  BY DEF ArchiveInv
<1>2. PICK n \in Nat : n = Len(tup) /\ Sequence(saved)
  BY <1>1, SequenceFacts DEF Recorded
<1>3. CASE WhileSaving(stack, log)
  <2>1. loaded = <<>> /\ phase # "done"
    BY <1>3 DEF WhileSaving
  <2>2. IsPrefix(<<>>, saved)
    BY <1>2, EmptySequence, BeginsWithItself
  <2> QED BY <2>1, <2>2 DEF LoadedAsSaved
<1>4. CASE WhileLoading(stack, log)
  <2>1. PICK k \in 0 .. n : cur = k + 1 /\ loaded = log[k]
    <3>1. cur \in 1 .. n + 1 /\ loaded = log[cur - 1]
      BY <1>2, <1>4 DEF WhileLoading
    <3>2. cur - 1 \in 0 .. n /\ cur = (cur - 1) + 1
      BY <3>1
    <3> QED BY <3>1, <3>2
  <2>2. IsPrefix(loaded, saved)
    BY <1>1, <1>2, <2>1 DEF Recorded
  <2>3. ASSUME phase = "done" PROVE loaded = saved /\ cur = n + 1
    <3>1. cur = n + 1 /\ log[n] = saved
      BY <1>2, <1>4, <2>3 DEF WhileLoading
    <3>2. k = n
      BY <2>1, <3>1
    <3> QED BY <2>1, <3>1, <3>2
  <2> QED BY <1>2, <2>2, <2>3 DEF LoadedAsSaved
<1> QED BY <1>1, <1>3, <1>4

\* The slot that a sort of type is loaded from.
Wanted(sort) ==
  CASE sort \in Slots -> sort
    [] sort = "doubles" -> "array"
    [] OTHER -> "number"

GoesOn ==
  phase = "loading" /\ todo # <<>> =>
    /\ cur <= Len(tup) /\ tup[cur].kind = Wanted(Sort)
    /\ Sort = "variant" => Contents[1] \in DOMAIN Top.type.cases

LEMMA InvImpliesGoesOn ==
  ArchiveInv => GoesOn
<1> SUFFICES ASSUME ArchiveInv, phase = "loading", todo # <<>>
             PROVE  /\ cur <= Len(tup) /\ tup[cur].kind = Wanted(Sort)
                    /\ Sort = "variant" => Contents[1] \in DOMAIN Top.type.cases
  BY DEF GoesOn
<1>1. PICK stack, log : Recorded(stack, log) /\ WhileLoading(stack, log)
  BY DEF ArchiveInv, WhileSaving
<1>2. PICK n \in Nat : n = Len(tup)
  BY <1>1, SequenceFacts DEF Recorded
<1>3. PICK k \in 0 .. n : cur = k + 1 /\ todo = Rooms(stack[k])
  <2>1. cur \in 1 .. n + 1 /\ todo = Rooms(stack[cur - 1])
    BY <1>1, <1>2 DEF WhileLoading
  <2>2. cur - 1 \in 0 .. n /\ cur = (cur - 1) + 1
    BY <2>1
  <2> QED BY <2>1, <2>2
<1>4. Sequence(stack[k]) /\ stack[n] = <<>>
  BY <1>1, <1>2 DEF Recorded, WhileLoading, AllPieces
<1>5. stack[k] # <<>>
  BY <1>3, EmptySequence, RoomsFacts
<1>6. k \in 0 .. n - 1
  <2>1. k # n
    BY <1>4, <1>5
  <2> QED BY <2>1
<1>7. Follows(stack[k], stack[k + 1], tup[k + 1], log[k], log[k + 1])
  BY <1>1, <1>2, <1>6 DEF Recorded
<1>8. PICK t, entries, parts : t = Head(stack[k]) /\ Written(t, tup[k + 1], entries, parts)
  BY <1>7 DEF Follows
<1>9. Sort = t.type.sort /\ Top.type = t.type
  <2>1. Head(todo) = RoomOf(t)
    BY <1>3, <1>4, <1>5, <1>8, RoomsOfTail
  <2> QED BY <2>1 DEF Sort, Top, RoomOf
<1>10. tup[k + 1].kind = Wanted(t.type.sort)
  BY <1>8 DEF Written, WrittenSlot, WrittenVector, WrittenClass, WrittenVariant,
              WrittenDoubles, SlotWith, Slots, Wanted
<1>11. ASSUME t.type.sort = "variant"
       PROVE  Contents[1] \in DOMAIN t.type.cases
  <2>1. WrittenVariant(t, tup[k + 1], entries, parts)
    BY <1>8, <1>11 DEF Written, WrittenSlot, WrittenVector, WrittenClass, WrittenDoubles, Slots
  <2>2. PICK w : w = t.value.which
    OBVIOUS
  <2>3. tup[k + 1].is = <<w>>
    BY <2>1, <2>2 DEF WrittenVariant, SlotWith
  <2>4. Contents[1] = w
    BY <1>3, <2>3 DEF Contents
  <2>5. Piece(t)
    <3>1. AllPieces(stack[k])
      BY <1>1, <1>2, <1>6 DEF Recorded
    <3>2. PICK s : s = stack[k]
      OBVIOUS
    <3>3. Sequence(s) /\ s # <<>> /\ t = Head(s)
      BY <1>4, <1>5, <1>8, <3>2
    <3>4. Len(s) \in Nat \ {0} /\ Head(s) = s[1]
      BY <3>3, SequenceFacts
    <3> QED BY <3>1, <3>2, <3>3, <3>4 DEF AllPieces
  <2>6. w \in DOMAIN t.type.cases
    BY <1>11, <2>2, <2>5, PieceFits DEF Fits
  <2> QED BY <2>4, <2>6
<1> QED BY <1>2, <1>3, <1>6, <1>9, <1>10, <1>11

-----------------------------------------------------------------------------
(* Opening pickles *)

\* A state opened is read once the C++ histogram is loaded, when nothing is
\* saved or loaded any more.
OpenedInv ==
  /\ opened # <<>> => phase = "done"
  /\ \A k \in DOMAIN opened : StateRead(opened[k])

NextOrNot == [Next]_vars

LEMMA OpeningSteps ==
  ASSUME [UnpicklingNext]_<<vars, classes, opened>>
  PROVE  NextOrNot
BY DEF NextOrNot, UnpicklingNext, SetState, vars

\* The archive, as part of a process that opens what it has loaded.
LEMMA ArchiveInvariantOpening == UnpicklingSpec => []ArchiveInv
<1>1. UnpicklingInit => ArchiveInv
  BY InitEstablishes DEF UnpicklingInit
<1>2. ASSUME ArchiveInv, [UnpicklingNext]_<<vars, classes, opened>> PROVE ArchiveInv'
  BY <1>2, OpeningSteps, NextPreserves DEF NextOrNot
<1> QED BY <1>1, <1>2, PTL DEF UnpicklingSpec

\* Whatever object is pickled, loading gives back, from the first slot on, what
\* was saved, each piece in its place, and at the end all of it.
THEOREM LoadsWhatWasSaved == UnpicklingSpec => []LoadedAsSaved
BY ArchiveInvariantOpening, InvImpliesLoaded, PTL

\* Loading never comes to the end of the tuple early, nor to a slot of another
\* kind than it wants, nor to a number of a variant that has no such case: it cannot fail before the object is whole.
THEOREM LoadingGoesOn == UnpicklingSpec => []GoesOn
BY ArchiveInvariantOpening, InvImpliesGoesOn, PTL

LEMMA DoneStays ==
  ASSUME phase = "done", Next
  PROVE  FALSE
BY SavingWrites DEF Next, StartLoading, Return, Load, LoadSlot, LoadVector, LoadClass,
   LoadVariant, LoadDoubles, Loading

LEMMA KnownRead ==
  ASSUME NEW state \in States \cup ClassicStates, NEW known,
         known = IF state.known = <<>> THEN TRUE ELSE state.known[1]
  PROVE  known # (state.known = <<FALSE>>)
<1>1. state.known \in {<<TRUE>>, <<FALSE>>, <<>>}
  BY DEF States, ClassicStates
<1>2. PICK no : no = FALSE
  OBVIOUS
<1>3. CASE state.known = <<>>
  <2>1. <<>> # <<FALSE>>
    BY Singleton
  <2>2. ~(state.known = <<FALSE>>)
    BY <1>3, <2>1
  <2> QED BY <1>3, <2>2, Zenon
<1>4. CASE state.known = <<TRUE>>
  <2>1. <<TRUE>>[1] = TRUE /\ <<FALSE>>[1] = FALSE /\ <<TRUE>> # <<>>
    BY Singleton
  <2>2. ~(state.known = <<FALSE>>)
    BY <1>4, <2>1, Zenon
  <2>3. known = TRUE
    BY <1>4, <2>1, Zenon
  <2> QED BY <2>2, <2>3, Zenon
<1>5. CASE state.known = <<FALSE>>
  <2>1. <<FALSE>>[1] = FALSE /\ <<FALSE>> # <<>>
    BY Singleton
  <2>2. known = FALSE
    BY <1>5, <2>1, Zenon
  <2> QED BY <1>5, <2>2, Zenon
<1> QED BY <1>1, <1>3, <1>4, <1>5

LEMMA DictRead ==
  ASSUME NEW state, NEW i, loaded = saved
  PROVE  AxisDict(state, i) = InDict(Slot(saved, MetadataPath(i)))
BY DEF AxisDict, MetadataIn, InDict, Raw

LEMMA SetStateReads ==
  ASSUME ArchiveInv, OpenedInv, object \in DOMAIN Objects,
         NEW family, NEW state \in Files[object], SetState(family, state)
  PROVE  OpenedInv'
<1>1. phase = "done" /\ UNCHANGED <<classes, vars>>
  BY DEF SetState
<1>2. loaded = saved
  BY <1>1, InvImpliesLoaded DEF LoadedAsSaved
<1>3. state \in States \cup ClassicStates
  BY FilesAssumption
<1> DEFINE made == [family |-> family, state |-> state,
                    raises |-> TooNew(state),
                    known |-> IF state.known = <<>> THEN TRUE ELSE state.known[1],
                    label |-> IF state.label = <<>> THEN "None" ELSE state.label[1],
                    axes |-> GenerateAxes(family, state)]
<1>0. PICK h : h = made
  OBVIOUS
<1>4. opened' = <<h>>
  BY <1>0, Zenon DEF SetState
<1>5. /\ h.state = state /\ h.raises = TooNew(state)
      /\ h.known = IF state.known = <<>> THEN TRUE ELSE state.known[1]
      /\ h.label = IF state.label = <<>> THEN "None" ELSE state.label[1]
      /\ h.axes = GenerateAxes(family, state)
  BY <1>0, Zenon
<1> HIDE DEF made
<1>6. h.known # (h.state.known = <<FALSE>>)
  <2>1. h.known # (state.known = <<FALSE>>)
    BY <1>3, <1>5, KnownRead
  <2> QED BY <1>5, <2>1, Zenon
<1>7. ASSUME NEW i \in DOMAIN Axes
      PROVE  h.axes[i].dict = InDict(Slot(saved, MetadataPath(i)))
  <2>1. h.axes[i] = AxisOf(family, state, i)
    BY <1>5, Zenon DEF GenerateAxes
  <2>2. AxisOf(family, state, i).dict = AxisDict(state, i)
    BY Zenon DEF AxisOf, ConvertCpp
  <2> QED BY <1>2, <2>1, <2>2, DictRead, Zenon
<1>8. h.raises <=> TooNew(h.state)
  BY <1>5, Zenon
<1>9. StateRead(h)
  BY <1>5, <1>6, <1>7, <1>8, Zenon DEF StateRead
<1>10. StateRead(h)'
  <2>1. saved' = saved /\ object' = object
    BY <1>1 DEF vars
  <2> QED BY <1>9, <2>1, Zenon DEF StateRead, Axes, MetadataPath
<1>11. DOMAIN <<h>> = {1} /\ <<h>>[1] = h
  OBVIOUS
<1>12. phase' = "done"
  BY <1>1 DEF vars
<1>13. ASSUME NEW k \in DOMAIN opened' PROVE StateRead(opened[k])'
  <2>1. k = 1
    BY <1>4, <1>11
  <2>2. opened'[k] = h
    BY <1>4, <1>11, <2>1
  <2> QED BY <1>10, <2>2, Zenon DEF StateRead
<1> QED BY <1>12, <1>13, Zenon DEF OpenedInv

LEMMA OpenedUnchanged ==
  ASSUME OpenedInv, UNCHANGED <<object, phase, saved, opened>>
  PROVE  OpenedInv'
<1>1. ASSUME NEW k \in DOMAIN opened' PROVE StateRead(opened[k])'
  <2>1. StateRead(opened[k])
    BY <1>1 DEF OpenedInv
  <2> QED BY <2>1, Zenon DEF StateRead, Axes, MetadataPath
<1> QED BY <1>1, Zenon DEF OpenedInv

LEMMA OpeningPreserves ==
  ASSUME ArchiveInv, OpenedInv, [UnpicklingNext]_<<vars, classes, opened>>
  PROVE  OpenedInv'
<1>1. CASE Next /\ UNCHANGED <<classes, opened>>
  <2>1. phase # "done"
    BY <1>1, DoneStays
  <2>2. opened = <<>> /\ opened' = <<>>
    BY <1>1, <2>1 DEF OpenedInv
  <2>3. DOMAIN <<>> = {}
    OBVIOUS
  <2> QED BY <2>2, <2>3 DEF OpenedInv
<1>2. CASE UNCHANGED <<vars, opened>>
  BY <1>2, OpenedUnchanged DEF vars
<1>3. ASSUME NEW family, NEW state \in Files[object], SetState(family, state)
      PROVE  OpenedInv'
  <2>1. object \in DOMAIN Objects
    BY DEF ArchiveInv, Recorded
  <2> QED BY <1>3, <2>1, SetStateReads
<1> QED BY <1>1, <1>2, <1>3 DEF UnpicklingNext

LEMMA StatesAreRead == UnpicklingSpec => []OpenedInv
<1>1. UnpicklingInit => OpenedInv
  <2>1. DOMAIN <<>> = {}
    OBVIOUS
  <2> QED BY <2>1 DEF UnpicklingInit, OpenedInv
<1>2. ASSUME ArchiveInv, OpenedInv, [UnpicklingNext]_<<vars, classes, opened>>
      PROVE  OpenedInv'
  BY <1>2, OpeningPreserves
<1> QED BY <1>1, <1>2, ArchiveInvariantOpening, PTL DEF UnpicklingSpec
-----------------------------------------------------------------------------
(* Classes and what they inherit *)

\* The classes refer to those from earlier statements.
Tree(cs) ==
  /\ Len(cs) \in Nat /\ DOMAIN cs = 1 .. Len(cs)
  /\ \A c \in 1 .. Len(cs) : cs[c].parent \in 0 .. c - 1

\* What a class has of its parent, step by step.
StepByStep(f, cs, V, b, G) ==
  /\ f \in [0 .. Len(cs) -> V]
  /\ f[0] = b
  /\ \A c \in 1 .. Len(cs) : f[c] = G[<<c, f[cs[c].parent]>>]

LEMMA FromParents ==
  ASSUME NEW cs, Tree(cs), NEW V, NEW b \in V,
         NEW G \in [(1 .. Len(cs)) \X V -> V]
  PROVE  \E f : StepByStep(f, cs, V, b, G)
<1> DEFINE S == 0 .. Len(cs)
           H == [p \in S \X [S -> V] |->
             IF p[1] = 0 THEN b ELSE G[<<p[1], p[2][cs[p[1]].parent]>>]]
           r == [c \in S |-> c]
<1>1. /\ Len(cs) \in Nat /\ 0 \in S /\ S \subseteq Nat /\ Len(cs) + 1 \in Nat
      /\ \A c \in S \ {0} : cs[c].parent \in S /\ cs[c].parent < c
      /\ 1 .. Len(cs) = S \ {0}
  BY DEF Tree
<1>2. ASSUME NEW c \in S, NEW f \in [S -> V]
      PROVE  H[<<c, f>>] = IF c = 0 THEN b ELSE G[<<c, f[cs[c].parent]>>]
  OBVIOUS
<1>3. r \in [S -> Nat] /\ \A c \in S : r[c] = c
  BY <1>1
<1> HIDE DEF r, H, S
<1>4. \A c \in S : \A f \in [S -> V] : H[<<c, f>>] \in V
  <2> TAKE c \in S
  <2> TAKE f \in [S -> V]
  <2>1. CASE c = 0
    BY <1>2, <2>1
  <2>2. CASE c # 0
    BY <1>1, <1>2, <2>2
  <2> QED BY <2>1, <2>2
<1>5. \A c \in S : \A f, g \in [S -> V] :
        (\A d \in S : r[d] < r[c] => f[d] = g[d]) => H[<<c, f>>] = H[<<c, g>>]
  <2> TAKE c \in S
  <2> TAKE f, g \in [S -> V]
  <2> HAVE \A d \in S : r[d] < r[c] => f[d] = g[d]
  <2>1. CASE c = 0
    BY <1>2, <2>1
  <2>2. CASE c # 0
    <3>1. f[cs[c].parent] = g[cs[c].parent]
      BY <1>1, <1>3, <2>2
    <3>2. H[<<c, f>>] = G[<<c, f[cs[c].parent]>>]
      BY <1>2, <2>2
    <3>3. H[<<c, g>>] = G[<<c, g[cs[c].parent]>>]
      BY <1>2, <2>2
    <3> QED BY <3>1, <3>2, <3>3
  <2> QED BY <2>1, <2>2
<1>6. \A c \in S : r[c] < Len(cs) + 1
  BY <1>1, <1>3 DEF S
<1>7. GoesDown(H, S, V, r)
  BY <1>4, <1>5 DEF GoesDown
<1>8. PICK f \in [S -> V] : \A c \in S : f[c] = H[<<c, f>>]
  <2>1. \E f : Solution(f, H, S, V)
    BY <1>1, <1>3, <1>6, <1>7, Recursion
  <2> QED BY <2>1 DEF Solution
<1>9. f[0] = b /\ \A c \in 1 .. Len(cs) : f[c] = G[<<c, f[cs[c].parent]>>]
  BY <1>1, <1>2, <1>8
<1> QED BY <1>9 DEF S, StepByStep

\* There is only one such thing.
LEMMA FromParentsOnly ==
  ASSUME NEW cs, Tree(cs), NEW f, NEW g, f[0] = g[0],
         \A c \in 1 .. Len(cs) : f[cs[c].parent] = g[cs[c].parent] => f[c] = g[c]
  PROVE  \A c \in 0 .. Len(cs) : f[c] = g[c]
<1> DEFINE B == {c \in 0 .. Len(cs) : f[c] # g[c]}
<1> SUFFICES ASSUME B # {} PROVE FALSE
  OBVIOUS
<1>1. B \in SUBSET Nat
  BY DEF Tree
<1>2. PICK c \in B : \A d \in B : c <= d
  BY <1>1, LeastNumber
<1>3. c \in 1 .. Len(cs) /\ cs[c].parent \in 0 .. c - 1
  BY DEF Tree
<1>4. cs[c].parent \notin B /\ cs[c].parent \in 0 .. Len(cs)
  BY <1>2, <1>3 DEF Tree
<1> QED BY <1>3, <1>4

LEMMA HolderIs ==
  ASSUME NEW cs, Tree(cs)
  PROVE  /\ Holder(cs)[0] = 0
         /\ \A c \in 1 .. Len(cs) :
              /\ Holder(cs)[c] \in 0 .. Len(cs)
              /\ Holder(cs)[c] = IF cs[c].types # NoTypes THEN c
                                 ELSE Holder(cs)[cs[c].parent]
<1> DEFINE S == 0 .. Len(cs)
           R(up) == up = [c \in S |->
             IF c = NoClass \/ cs[c].types # NoTypes THEN c ELSE up[cs[c].parent]]
           it == CHOOSE up : R(up)
           G == [p \in (1 .. Len(cs)) \X S |->
             IF cs[p[1]].types # NoTypes THEN p[1] ELSE p[2]]
<1>1. /\ Len(cs) \in Nat /\ 0 \in S
      /\ \A c \in S : c # 0 => c \in 1 .. Len(cs) /\ cs[c].parent \in S
      /\ 1 .. Len(cs) \subseteq S /\ \A c \in 1 .. Len(cs) : cs[c].parent \in S
  BY DEF Tree
<1>2. G \in [(1 .. Len(cs)) \X S -> S]
  BY <1>1
<1>3. ASSUME NEW c \in 1 .. Len(cs), NEW d \in S
      PROVE  G[<<c, d>>] = IF cs[c].types # NoTypes THEN c ELSE d
  OBVIOUS
<1> HIDE DEF G
<1>4. PICK f \in [S -> S] :
        /\ f[0] = 0
        /\ \A c \in 1 .. Len(cs) : f[c] = G[<<c, f[cs[c].parent]>>]
  <2>1. \E f : StepByStep(f, cs, S, 0, G)
    <3> HIDE DEF S
    <3>1. \A V : \A b \in V : \A g \in [(1 .. Len(cs)) \X V -> V] :
            \E f : StepByStep(f, cs, V, b, g)
      BY FromParents
    <3> QED BY <1>1, <1>2, <3>1
  <2> QED BY <2>1 DEF StepByStep
<1>5. \A c \in 1 .. Len(cs) :
        f[c] = IF cs[c].types # NoTypes THEN c ELSE f[cs[c].parent]
  BY <1>1, <1>3, <1>4
<1> HIDE DEF S
<1>6. R(f)
  BY <1>1, <1>4, <1>5 DEF NoClass
<1>7. R(it)
  BY <1>6, Zenon
<1>8. Holder(cs) = it
  BY DEF Holder, S
<1> HIDE DEF it
<1>9. /\ it[0] = 0
      /\ \A c \in 1 .. Len(cs) :
           it[c] = IF cs[c].types # NoTypes THEN c ELSE it[cs[c].parent]
  BY <1>1, <1>7 DEF NoClass
<1>10. \A c \in S : it[c] = f[c]
  <2>1. it[0] = f[0]
    BY <1>4, <1>9
  <2>2. \A c \in 1 .. Len(cs) : it[cs[c].parent] = f[cs[c].parent] => it[c] = f[c]
    BY <1>5, <1>9
  <2> QED BY <2>1, <2>2, FromParentsOnly DEF S
<1> QED BY <1>1, <1>4, <1>8, <1>9, <1>10 DEF S

LEMMA BasesAre ==
  ASSUME NEW cs, Tree(cs)
  PROVE  /\ WalkBases(cs)[0] = {}
         /\ \A c \in 1 .. Len(cs) :
              WalkBases(cs)[c] = cs[c].bases \cup WalkBases(cs)[cs[c].parent]
<1> DEFINE S == 0 .. Len(cs)
           V == SUBSET UNION {cs[c].bases : c \in 1 .. Len(cs)}
           R(up) == up = [c \in S |->
             IF c = NoClass THEN {} ELSE cs[c].bases \cup up[cs[c].parent]]
           it == CHOOSE up : R(up)
           G == [p \in (1 .. Len(cs)) \X V |-> cs[p[1]].bases \cup p[2]]
<1>1. /\ Len(cs) \in Nat /\ 0 \in S
      /\ \A c \in S : c # 0 => c \in 1 .. Len(cs) /\ cs[c].parent \in S
      /\ \A c \in 1 .. Len(cs) : c \in S /\ c # 0 /\ cs[c].parent \in S
  BY DEF Tree
<1>2. G \in [(1 .. Len(cs)) \X V -> V] /\ {} \in V
  OBVIOUS
<1>3. ASSUME NEW c \in 1 .. Len(cs), NEW d \in V
      PROVE  G[<<c, d>>] = cs[c].bases \cup d
  OBVIOUS
<1> HIDE DEF G, V
<1>4. PICK f \in [S -> V] :
        /\ f[0] = {}
        /\ \A c \in 1 .. Len(cs) : f[c] = G[<<c, f[cs[c].parent]>>]
  <2>1. \E f : StepByStep(f, cs, V, {}, G)
    <3>1. \A b \in V : \A g \in [(1 .. Len(cs)) \X V -> V] :
            \E f : StepByStep(f, cs, V, b, g)
      BY FromParents
    <3> QED BY <1>2, <3>1
  <2> QED BY <2>1 DEF StepByStep
<1>5. \A c \in 1 .. Len(cs) : f[c] = cs[c].bases \cup f[cs[c].parent]
  BY <1>1, <1>3, <1>4
<1> HIDE DEF S
<1>6. R(f)
  BY <1>1, <1>4, <1>5 DEF NoClass
<1>7. R(it)
  BY <1>6, Zenon
<1>8. WalkBases(cs) = it
  BY DEF WalkBases, S
<1> HIDE DEF it
<1>9. /\ it[0] = {}
      /\ \A c \in 1 .. Len(cs) : it[c] = cs[c].bases \cup it[cs[c].parent]
  BY <1>1, <1>7 DEF NoClass
<1> QED BY <1>8, <1>9

LEMMA DescentIs ==
  ASSUME NEW cs, Tree(cs), NEW a
  PROVE  /\ ~DescendsFrom(cs, 0, a)
         /\ \A c \in 1 .. Len(cs) :
              DescendsFrom(cs, c, a) <=> c = a \/ DescendsFrom(cs, cs[c].parent, a)
<1> DEFINE S == 0 .. Len(cs)
           R(down) == down = [d \in S |->
             d # NoClass /\ (d = a \/ down[cs[d].parent])]
           it == CHOOSE down : R(down)
           G == [p \in (1 .. Len(cs)) \X BOOLEAN |-> p[1] = a \/ p[2]]
<1>1. /\ Len(cs) \in Nat /\ 0 \in S
      /\ \A c \in S : c # 0 => c \in 1 .. Len(cs) /\ cs[c].parent \in S
      /\ \A c \in 1 .. Len(cs) : c \in S /\ c # 0 /\ cs[c].parent \in S
  BY DEF Tree
<1>2. G \in [(1 .. Len(cs)) \X BOOLEAN -> BOOLEAN]
  OBVIOUS
<1>3. ASSUME NEW c \in 1 .. Len(cs), NEW b \in BOOLEAN
      PROVE  G[<<c, b>>] <=> c = a \/ b
  OBVIOUS
<1> HIDE DEF G
<1>4. PICK f \in [S -> BOOLEAN] :
        /\ f[0] = FALSE
        /\ \A c \in 1 .. Len(cs) : f[c] = G[<<c, f[cs[c].parent]>>]
  <2>1. \E f : StepByStep(f, cs, BOOLEAN, FALSE, G)
    <3>1. \A V : \A b \in V : \A g \in [(1 .. Len(cs)) \X V -> V] :
            \E f : StepByStep(f, cs, V, b, g)
      BY FromParents
    <3> QED BY <1>2, <3>1
  <2> QED BY <2>1 DEF StepByStep
<1>5. \A c \in 1 .. Len(cs) : f[c] <=> c = a \/ f[cs[c].parent]
  BY <1>1, <1>3, <1>4
<1> HIDE DEF S
<1>6. R(f)
  <2>1. f = [d \in S |-> f[d]]
    OBVIOUS
  <2>2. ASSUME NEW d \in S PROVE f[d] = (d # NoClass /\ (d = a \/ f[cs[d].parent]))
    BY <1>1, <1>4, <1>5 DEF NoClass
  <2> QED BY <2>1, <2>2, Zenon
<1>7. R(it)
  BY <1>6, Zenon
<1>8. \A c : DescendsFrom(cs, c, a) = it[c]
  BY Zenon DEF DescendsFrom, S
<1> HIDE DEF it
<1>9. \A d \in S : it[d] = (d # NoClass /\ (d = a \/ it[cs[d].parent]))
  BY <1>7, Zenon
<1>10. it[0] = FALSE /\ \A c \in 1 .. Len(cs) : it[c] = (c = a \/ it[cs[c].parent])
  BY <1>1, <1>9 DEF NoClass
<1> QED BY <1>8, <1>10

LEMMA TreeInduction ==
  ASSUME NEW cs, Tree(cs), NEW P, 0 \in P,
         \A c \in 1 .. Len(cs) : cs[c].parent \in P => c \in P
  PROVE  0 .. Len(cs) \subseteq P
<1> DEFINE B == {c \in 0 .. Len(cs) : c \notin P}
<1> SUFFICES ASSUME B # {} PROVE FALSE
  OBVIOUS
<1>1. B \in SUBSET Nat
  BY DEF Tree
<1>2. PICK c \in B : \A d \in B : c <= d
  BY <1>1, LeastNumber
<1>3. c \in 1 .. Len(cs) /\ cs[c].parent \in 0 .. c - 1
  BY DEF Tree
<1>4. cs[c].parent \notin B /\ cs[c].parent \in 0 .. Len(cs)
  BY <1>2, <1>3 DEF Tree
<1> QED BY <1>3, <1>4

LEMMA DescendsItself ==
  ASSUME NEW cs, Tree(cs), NEW c \in 1 .. Len(cs)
  PROVE  DescendsFrom(cs, c, c)
BY DescentIs

LEMMA DescendsLater ==
  ASSUME NEW cs, Tree(cs), NEW a
  PROVE  \A c \in 0 .. Len(cs) : DescendsFrom(cs, c, a) => a \in 1 .. c
<1> DEFINE P == {c \in 0 .. Len(cs) : DescendsFrom(cs, c, a) => a \in 1 .. c}
<1>1. Len(cs) \in Nat
  BY DEF Tree
<1>2. 0 \in P
  BY <1>1, DescentIs
<1>3. ASSUME NEW c \in 1 .. Len(cs), cs[c].parent \in P PROVE c \in P
  <2>1. DescendsFrom(cs, c, a) <=> c = a \/ DescendsFrom(cs, cs[c].parent, a)
    BY DescentIs
  <2>2. cs[c].parent \in 0 .. c - 1
    BY DEF Tree
  <2> QED BY <1>1, <1>3, <2>1, <2>2
<1> HIDE DEF P
<1>4. 0 .. Len(cs) \subseteq P
  BY <1>2, <1>3, TreeInduction
<1> QED BY <1>4 DEF P

LEMMA DescendsOn ==
  ASSUME NEW cs, Tree(cs), NEW a \in 1 .. Len(cs), NEW b, DescendsFrom(cs, a, b)
  PROVE  \A c \in 0 .. Len(cs) : DescendsFrom(cs, c, a) => DescendsFrom(cs, c, b)
<1> DEFINE P == {c \in 0 .. Len(cs) : DescendsFrom(cs, c, a) => DescendsFrom(cs, c, b)}
<1>1. 0 \in P
  BY DescentIs DEF Tree
<1>2. ASSUME NEW c \in 1 .. Len(cs), cs[c].parent \in P PROVE c \in P
  <2>1. DescendsFrom(cs, c, a) <=> c = a \/ DescendsFrom(cs, cs[c].parent, a)
    BY DescentIs
  <2>2. DescendsFrom(cs, c, b) <=> c = b \/ DescendsFrom(cs, cs[c].parent, b)
    BY DescentIs
  <2> QED BY <1>2, <2>1, <2>2 DEF Tree
<1> HIDE DEF P
<1>3. 0 .. Len(cs) \subseteq P
  BY <1>1, <1>2, TreeInduction
<1> QED BY <1>3 DEF P

LEMMA DescentChain ==
  ASSUME NEW cs, Tree(cs), NEW a \in 1 .. Len(cs), NEW b \in 1 .. Len(cs)
  PROVE  \A c \in 0 .. Len(cs) :
           DescendsFrom(cs, c, a) /\ DescendsFrom(cs, c, b)
             => DescendsFrom(cs, a, b) \/ DescendsFrom(cs, b, a)
<1> DEFINE P == {c \in 0 .. Len(cs) :
                   DescendsFrom(cs, c, a) /\ DescendsFrom(cs, c, b)
                     => DescendsFrom(cs, a, b) \/ DescendsFrom(cs, b, a)}
<1>1. 0 \in P
  BY DescentIs DEF Tree
<1>2. ASSUME NEW c \in 1 .. Len(cs), cs[c].parent \in P PROVE c \in P
  <2>1. DescendsFrom(cs, c, a) <=> c = a \/ DescendsFrom(cs, cs[c].parent, a)
    BY DescentIs
  <2>2. DescendsFrom(cs, c, b) <=> c = b \/ DescendsFrom(cs, cs[c].parent, b)
    BY DescentIs
  <2> QED BY <1>2, <2>1, <2>2 DEF Tree
<1> HIDE DEF P
<1>3. 0 .. Len(cs) \subseteq P
  BY <1>1, <1>2, TreeInduction
<1> QED BY <1>3 DEF P

\* Two classes with one parent have no descendants in common.
LEMMA BranchesApart ==
  ASSUME NEW cs, Tree(cs), NEW a \in 1 .. Len(cs), NEW b \in 1 .. Len(cs), a # b,
         cs[a].parent = cs[b].parent, NEW c \in 1 .. Len(cs),
         DescendsFrom(cs, c, a)
  PROVE  ~DescendsFrom(cs, c, b)
<1> SUFFICES ASSUME DescendsFrom(cs, c, b) PROVE FALSE
  OBVIOUS
<1>1. DescendsFrom(cs, a, b) \/ DescendsFrom(cs, b, a)
  <2>1. c \in 0 .. Len(cs)
    BY DEF Tree
  <2> QED BY <2>1, DescentChain
<1>2. PICK p : p = cs[a].parent /\ p \in 0 .. a - 1 /\ p \in 0 .. b - 1 /\ p \in 0 .. Len(cs)
  BY DEF Tree
<1>3. DescendsFrom(cs, p, b) \/ DescendsFrom(cs, p, a)
  BY <1>1, <1>2, DescentIs
<1> QED BY <1>2, <1>3, DescendsLater DEF Tree

LEMMA HolderFound ==
  ASSUME NEW cs, Tree(cs)
  PROVE  \A c \in 1 .. Len(cs) :
           IF Holder(cs)[c] = 0
           THEN \A a \in 1 .. Len(cs) : DescendsFrom(cs, c, a) => cs[a].types = NoTypes
           ELSE /\ Holder(cs)[c] \in 1 .. Len(cs)
                /\ DescendsFrom(cs, c, Holder(cs)[c])
                /\ cs[Holder(cs)[c]].types # NoTypes
<1> DEFINE Q(c) ==
             IF Holder(cs)[c] = 0
             THEN \A a \in 1 .. Len(cs) : DescendsFrom(cs, c, a) => cs[a].types = NoTypes
             ELSE /\ Holder(cs)[c] \in 1 .. Len(cs)
                  /\ DescendsFrom(cs, c, Holder(cs)[c])
                  /\ cs[Holder(cs)[c]].types # NoTypes
           P == {c \in 0 .. Len(cs) : Q(c)}
<1>1. 0 \in P
  BY DescentIs, HolderIs DEF Tree
<1>2. ASSUME NEW c \in 1 .. Len(cs), cs[c].parent \in P PROVE c \in P
  <2>0. c \in 0 .. Len(cs) /\ c # 0
    BY DEF Tree
  <2>1. \A a : DescendsFrom(cs, c, a) <=> c = a \/ DescendsFrom(cs, cs[c].parent, a)
    BY DescentIs
  <2>2. Holder(cs)[c] = IF cs[c].types # NoTypes THEN c ELSE Holder(cs)[cs[c].parent]
    BY HolderIs
  <2>3. Q(cs[c].parent)
    BY <1>2
  <2>4. CASE cs[c].types # NoTypes
    BY <2>0, <2>1, <2>2, <2>4
  <2>5. CASE cs[c].types = NoTypes
    BY <2>0, <2>1, <2>2, <2>3, <2>5
  <2> QED BY <2>4, <2>5
<1> HIDE DEF P
<1>3. 0 .. Len(cs) \subseteq P
  BY <1>1, <1>2, TreeInduction
<1>4. \A c \in 1 .. Len(cs) : c \in P
  BY <1>3 DEF Tree
<1> QED BY <1>4 DEF P

LEMMA BasesFound ==
  ASSUME NEW cs, Tree(cs), NEW t
  PROVE  \A c \in 1 .. Len(cs) :
           t \in WalkBases(cs)[c]
             <=> \E a \in 1 .. Len(cs) : DescendsFrom(cs, c, a) /\ t \in cs[a].bases
<1> DEFINE Q(c) ==
             t \in WalkBases(cs)[c]
               <=> \E a \in 1 .. Len(cs) : DescendsFrom(cs, c, a) /\ t \in cs[a].bases
           P == {c \in 0 .. Len(cs) : Q(c)}
<1>1. 0 \in P
  BY DescentIs, BasesAre DEF Tree
<1>2. ASSUME NEW c \in 1 .. Len(cs), cs[c].parent \in P PROVE c \in P
  <2>0. c \in 0 .. Len(cs)
    BY DEF Tree
  <2>1. \A a : DescendsFrom(cs, c, a) <=> c = a \/ DescendsFrom(cs, cs[c].parent, a)
    BY DescentIs
  <2>2. WalkBases(cs)[c] = cs[c].bases \cup WalkBases(cs)[cs[c].parent]
    BY BasesAre
  <2>3. Q(cs[c].parent)
    BY <1>2
  <2> QED BY <2>0, <2>1, <2>2, <2>3
<1> HIDE DEF P
<1>3. 0 .. Len(cs) \subseteq P
  BY <1>1, <1>2, TreeInduction
<1>4. \A c \in 1 .. Len(cs) : c \in P
  BY <1>3 DEF Tree
<1> QED BY <1>4 DEF P

-----------------------------------------------------------------------------
(* Flattened sequences *)

\* The beginnings of the flattened sequence.
Flattens(fl, seqs, T) ==
  /\ fl \in [0 .. Len(seqs) -> Seq(T)]
  /\ fl[0] = <<>>
  /\ \A i \in 1 .. Len(seqs) : fl[i] = fl[i - 1] \o seqs[i]
  /\ FlattenSeq(seqs) = fl[Len(seqs)]

LEMMA FlattenIs ==
  ASSUME NEW T, NEW seqs \in Seq(Seq(T))
  PROVE  \E fl : Flattens(fl, seqs, T)
<1>1. PICK m \in Nat : m = Len(seqs)
  OBVIOUS
<1>2. <<>> \in Seq(T) /\ \A i \in 1 .. m : seqs[i] \in Seq(T)
  BY <1>1
<1>3. CASE m = 0
  <2>1. seqs = <<>> /\ FlattenSeq(seqs) = <<>>
    <3>1. seqs = <<>>
      BY <1>1, <1>3, EmptySeq
    <3>2. Len(seqs) = 0
      BY <1>1, <1>3
    <3>3. FlattenSeq(seqs) = seqs
      BY <3>2, Zenon DEF FlattenSeq
    <3> QED BY <3>1, <3>3
  <2>2. PICK fl : fl = [i \in 0 .. 0 |-> <<>>]
    OBVIOUS
  <2>3. Flattens(fl, seqs, T)
    BY <1>1, <1>2, <1>3, <2>1, <2>2 DEF Flattens
  <2> QED BY <2>3
<1>4. CASE m # 0
  <2> DEFINE S == 1 .. m
             V == Seq(T)
             R(fl) == fl = [i \in S |-> IF i = 1 THEN seqs[i] ELSE fl[i - 1] \o seqs[i]]
             it == CHOOSE fl : R(fl)
             r == [i \in S |-> i]
             H == [p \in S \X [S -> V] |->
               IF p[1] = 1 THEN seqs[p[1]] ELSE p[2][p[1] - 1] \o seqs[p[1]]]
  <2>1. r \in [S -> Nat] /\ \A i \in S : r[i] = i
    OBVIOUS
  <2>2. ASSUME NEW i \in S, NEW f \in [S -> V]
        PROVE  /\ i = 1 => H[<<i, f>>] = seqs[i]
               /\ i # 1 => H[<<i, f>>] = f[i - 1] \o seqs[i]
    OBVIOUS
  <2>3. \A i \in S : i # 1 => i - 1 \in S /\ i - 1 < i
    BY <1>1
  <2> HIDE DEF r, H
  <2>4. \A i \in S : \A f \in [S -> V] : H[<<i, f>>] \in V
    <3> TAKE i \in S
    <3> TAKE f \in [S -> V]
    <3>1. CASE i = 1
      BY <1>2, <2>2, <3>1
    <3>2. CASE i # 1
      <4>1. f[i - 1] \in Seq(T) /\ seqs[i] \in Seq(T)
        BY <1>2, <2>3, <3>2
      <4>2. f[i - 1] \o seqs[i] \in Seq(T)
        BY <4>1, ConcatProperties
      <4> QED BY <2>2, <3>2, <4>2
    <3> QED BY <3>1, <3>2
  <2>5. \A i \in S : \A f, g \in [S -> V] :
          (\A d \in S : r[d] < r[i] => f[d] = g[d]) => H[<<i, f>>] = H[<<i, g>>]
    <3> TAKE i \in S
    <3> TAKE f, g \in [S -> V]
    <3> HAVE \A d \in S : r[d] < r[i] => f[d] = g[d]
    <3>1. CASE i = 1
      BY <2>2, <3>1
    <3>2. CASE i # 1
      <4>1. f[i - 1] = g[i - 1]
        BY <2>1, <2>3, <3>2
      <4>2. H[<<i, f>>] = f[i - 1] \o seqs[i]
        BY <2>2, <3>2
      <4>3. H[<<i, g>>] = g[i - 1] \o seqs[i]
        BY <2>2, <3>2
      <4> QED BY <4>1, <4>2, <4>3
    <3> QED BY <3>1, <3>2
  <2>6. GoesDown(H, S, V, r)
    BY <2>4, <2>5 DEF GoesDown
  <2>7. PICK f \in [S -> V] : \A i \in S : f[i] = H[<<i, f>>]
    <3>1. m + 1 \in Nat /\ \A i \in S : r[i] < m + 1
      BY <2>1
    <3>2. \E f : Solution(f, H, S, V)
      <4> HIDE DEF S, V
      <4>1. <<>> \in V
        BY <1>2 DEF V
      <4> QED BY <2>1, <2>6, <3>1, <4>1, Recursion
    <3> QED BY <3>2 DEF Solution
  <2>8. \A i \in S : f[i] = IF i = 1 THEN seqs[i] ELSE f[i - 1] \o seqs[i]
    BY <2>2, <2>7
  <2>9. R(f)
    <3> HIDE DEF S
    <3>1. f = [i \in S |-> f[i]]
      OBVIOUS
    <3> QED BY <2>8, <3>1, Zenon
  <2>10. R(it)
    BY <2>9, Zenon
  <2>11. FlattenSeq(seqs) = it[m]
    BY <1>1, <1>4 DEF FlattenSeq
  <2> HIDE DEF it
  <2>12. \A i \in S : it[i] = IF i = 1 THEN seqs[i] ELSE it[i - 1] \o seqs[i]
    BY <2>10, Zenon
  <2> HIDE DEF R
  <2>13. \A i \in S : it[i] = f[i]
    <3> DEFINE B == {i \in S : it[i] # f[i]}
    <3> SUFFICES ASSUME B # {} PROVE FALSE
      OBVIOUS
    <3>1. B \in SUBSET Nat
      OBVIOUS
    <3>2. PICK i \in B : \A d \in B : i <= d
      BY <3>1, LeastNumber
    <3>3. CASE i = 1
      BY <2>8, <2>12, <3>3
    <3>4. CASE i # 1
      <4>1. it[i - 1] = f[i - 1]
        BY <2>3, <3>2, <3>4
      <4> QED BY <2>8, <2>12, <3>4, <4>1
    <3> QED BY <3>3, <3>4
  <2>14. PICK fl : fl = [i \in 0 .. m |-> IF i = 0 THEN <<>> ELSE f[i]]
    OBVIOUS
  <2>15. fl \in [0 .. m -> Seq(T)]
    BY <1>2, <2>14
  <2>16. ASSUME NEW i \in 1 .. m PROVE fl[i] = fl[i - 1] \o seqs[i]
    <3>1. CASE i = 1
      <4>1. fl[0] = <<>> /\ fl[1] = seqs[1]
        <5>1. 0 \in 0 .. m /\ 1 \in 0 .. m /\ 1 \in S
          BY <1>4
        <5>2. f[1] = seqs[1]
          BY <2>8, <5>1
        <5> QED BY <2>14, <5>1, <5>2
      <4>2. <<>> \o seqs[1] = seqs[1]
        BY <1>2, <1>4, ConcatEmptySeq
      <4>3. i - 1 = 0
        BY <3>1
      <4> QED BY <3>1, <4>1, <4>2, <4>3, Zenon
    <3>2. CASE i # 1
      <4>1. fl[i] = f[i] /\ fl[i - 1] = f[i - 1]
        BY <2>14, <3>2
      <4> QED BY <2>8, <3>2, <4>1
    <3> QED BY <3>1, <3>2
  <2>17. fl[0] = <<>> /\ FlattenSeq(seqs) = fl[m]
    BY <1>4, <2>11, <2>13, <2>14
  <2> QED BY <1>1, <2>15, <2>16, <2>17 DEF Flattens
<1> QED BY <1>3, <1>4

Steps(fl, seqs, T, m) ==
  /\ fl[0] = <<>> /\ FlattenSeq(seqs) = fl[m]
  /\ \A i \in 1 .. m : fl[i] = fl[i - 1] \o seqs[i] /\ seqs[i] \in Seq(T)
  /\ \A i \in 0 .. m : fl[i] \in Seq(T)

LEMMA FlattenSteps ==
  ASSUME NEW T, NEW seqs \in Seq(Seq(T)), NEW m \in Nat, m = Len(seqs)
  PROVE  \E fl : Steps(fl, seqs, T, m)
<1>0. PICK fl : Flattens(fl, seqs, T)
  BY FlattenIs
<1>1. fl[0] = <<>> /\ FlattenSeq(seqs) = fl[m]
  BY <1>0 DEF Flattens
<1>2. \A i \in 1 .. m : fl[i] = fl[i - 1] \o seqs[i]
  BY <1>0 DEF Flattens
<1>3. \A i \in 0 .. m : fl[i] \in Seq(T)
  BY <1>0 DEF Flattens
<1>4. \A i \in 1 .. m : seqs[i] \in Seq(T)
  OBVIOUS
<1> QED BY <1>1, <1>2, <1>3, <1>4 DEF Steps

LEMMA FlattenType ==
  ASSUME NEW T, NEW seqs \in Seq(Seq(T))
  PROVE  FlattenSeq(seqs) \in Seq(T)
<1>1. PICK fl : Flattens(fl, seqs, T)
  BY FlattenIs
<1>2. Len(seqs) \in 0 .. Len(seqs)
  OBVIOUS
<1> QED BY <1>1, <1>2 DEF Flattens

Meets(s, S) == \E k \in DOMAIN s : s[k] \in S

IsFirst(x, s, S) ==
  x \in S /\ \E k \in DOMAIN s : s[k] = x /\ \A j \in DOMAIN s : s[j] \in S => k <= j
IsLast(x, s, S) ==
  x \in S /\ \E k \in DOMAIN s : s[k] = x /\ \A j \in DOMAIN s : s[j] \in S => j <= k

LEMMA JoinedAt ==
  ASSUME NEW T, NEW a \in Seq(T), NEW b \in Seq(T)
  PROVE  /\ Len(a) \in Nat /\ DOMAIN a = 1 .. Len(a)
         /\ Len(b) \in Nat /\ DOMAIN b = 1 .. Len(b)
         /\ DOMAIN (a \o b) = 1 .. Len(a) + Len(b)
         /\ \A i \in 1 .. Len(a) : (a \o b)[i] = a[i]
         /\ \A i \in 1 .. Len(b) : (a \o b)[Len(a) + i] = b[i]
         /\ \A i \in 1 .. Len(a) + Len(b) : i > Len(a) =>
              i - Len(a) \in 1 .. Len(b) /\ (a \o b)[i] = b[i - Len(a)]
<1>1. /\ a \o b \in Seq(T)
      /\ Len(a \o b) = Len(a) + Len(b)
      /\ \A i \in 1 .. Len(a) + Len(b) : (a \o b)[i] =
            IF i <= Len(a) THEN a[i] ELSE b[i - Len(a)]
  BY ConcatProperties
<1>2. /\ Len(a) \in Nat /\ DOMAIN a = 1 .. Len(a)
      /\ Len(b) \in Nat /\ DOMAIN b = 1 .. Len(b)
      /\ DOMAIN (a \o b) = 1 .. Len(a) + Len(b)
  BY <1>1, LenProperties
<1>3. \A i \in 1 .. Len(a) : (a \o b)[i] = a[i]
  BY <1>1, <1>2
<1>4. ASSUME NEW i \in 1 .. Len(b) PROVE (a \o b)[Len(a) + i] = b[i]
  <2>1. /\ Len(a) + i \in 1 .. Len(a) + Len(b) /\ ~(Len(a) + i <= Len(a))
        /\ (Len(a) + i) - Len(a) = i
    BY <1>2
  <2> QED BY <1>1, <2>1
<1>5. \A i \in 1 .. Len(a) + Len(b) : i > Len(a) =>
        i - Len(a) \in 1 .. Len(b) /\ (a \o b)[i] = b[i - Len(a)]
  BY <1>1, <1>2
<1> QED BY <1>2, <1>3, <1>4, <1>5

LEMMA JoinedMeets ==
  ASSUME NEW T, NEW a \in Seq(T), NEW b \in Seq(T), NEW S
  PROVE  Meets(a \o b, S) <=> Meets(a, S) \/ Meets(b, S)
<1>0. PICK ab : ab = a \o b
  OBVIOUS
<1>1. /\ Len(a) \in Nat /\ DOMAIN a = 1 .. Len(a)
      /\ Len(b) \in Nat /\ DOMAIN b = 1 .. Len(b)
      /\ DOMAIN ab = 1 .. Len(a) + Len(b)
      /\ \A i \in 1 .. Len(a) : ab[i] = a[i]
      /\ \A i \in 1 .. Len(b) : ab[Len(a) + i] = b[i]
      /\ \A i \in 1 .. Len(a) + Len(b) : i > Len(a) =>
           i - Len(a) \in 1 .. Len(b) /\ ab[i] = b[i - Len(a)]
  BY <1>0, JoinedAt
<1>2. ASSUME Meets(ab, S) PROVE Meets(a, S) \/ Meets(b, S)
  <2>1. PICK k \in 1 .. Len(a) + Len(b) : ab[k] \in S
    BY <1>1, <1>2 DEF Meets
  <2>2. CASE k <= Len(a)
    BY <1>1, <2>1, <2>2 DEF Meets
  <2>3. CASE k > Len(a)
    BY <1>1, <2>1, <2>3 DEF Meets
  <2> QED BY <1>1, <2>2, <2>3
<1>3. ASSUME Meets(a, S) PROVE Meets(ab, S)
  <2>1. PICK k \in 1 .. Len(a) : a[k] \in S
    BY <1>1, <1>3 DEF Meets
  <2>2. k \in DOMAIN ab
    BY <1>1
  <2> QED BY <1>1, <2>1, <2>2 DEF Meets
<1>4. ASSUME Meets(b, S) PROVE Meets(ab, S)
  <2>1. PICK k \in 1 .. Len(b) : b[k] \in S
    BY <1>1, <1>4 DEF Meets
  <2>2. Len(a) + k \in DOMAIN ab
    BY <1>1
  <2> QED BY <1>1, <2>1, <2>2 DEF Meets
<1> QED BY <1>0, <1>2, <1>3, <1>4

LEMMA FirstMeets ==
  ASSUME NEW T, NEW s \in Seq(T), NEW S
  PROVE  /\ Meets(s, S) <=> \E x : IsFirst(x, s, S)
         /\ \A x, y : IsFirst(x, s, S) /\ IsFirst(y, s, S) => x = y
<1>1. Len(s) \in Nat /\ DOMAIN s = 1 .. Len(s)
  BY LenProperties
<1>2. ASSUME Meets(s, S) PROVE \E x : IsFirst(x, s, S)
  <2>1. PICK K : K = {k \in 1 .. Len(s) : s[k] \in S}
    OBVIOUS
  <2>2. K \in SUBSET Nat /\ K # {}
    BY <1>1, <1>2, <2>1 DEF Meets
  <2>3. PICK k \in K : \A j \in K : k <= j
    BY <2>2, LeastNumber
  <2>4. IsFirst(s[k], s, S)
    BY <1>1, <2>1, <2>3 DEF IsFirst
  <2> QED BY <2>4
<1>3. ASSUME NEW x, IsFirst(x, s, S) PROVE Meets(s, S)
  BY <1>3 DEF IsFirst, Meets
<1>4. ASSUME NEW x, NEW y, IsFirst(x, s, S), IsFirst(y, s, S) PROVE x = y
  <2>1. PICK k \in 1 .. Len(s) : s[k] = x /\ \A j \in 1 .. Len(s) : s[j] \in S => k <= j
    BY <1>1, <1>4 DEF IsFirst
  <2>2. PICK l \in 1 .. Len(s) : s[l] = y /\ \A j \in 1 .. Len(s) : s[j] \in S => l <= j
    BY <1>1, <1>4 DEF IsFirst
  <2>3. x \in S /\ y \in S
    BY <1>4 DEF IsFirst
  <2>4. k <= l /\ l <= k
    BY <2>1, <2>2, <2>3
  <2>5. k = l
    BY <1>1, <2>4
  <2> QED BY <2>1, <2>2, <2>5
<1> QED BY <1>2, <1>3, <1>4

LEMMA JoinedFirst ==
  ASSUME NEW T, NEW a \in Seq(T), NEW b \in Seq(T), NEW S, NEW x
  PROVE  IsFirst(x, a \o b, S)
           <=> IsFirst(x, a, S) \/ (~Meets(a, S) /\ IsFirst(x, b, S))
<1>0. PICK ab : ab = a \o b /\ ab \in Seq(T)
  BY ConcatProperties
<1>1. /\ Len(a) \in Nat /\ DOMAIN a = 1 .. Len(a)
      /\ Len(b) \in Nat /\ DOMAIN b = 1 .. Len(b)
      /\ DOMAIN ab = 1 .. Len(a) + Len(b)
      /\ \A i \in 1 .. Len(a) : ab[i] = a[i]
      /\ \A i \in 1 .. Len(b) : ab[Len(a) + i] = b[i]
      /\ \A i \in 1 .. Len(a) + Len(b) : i > Len(a) =>
           i - Len(a) \in 1 .. Len(b) /\ ab[i] = b[i - Len(a)]
  BY <1>0, JoinedAt
<1>2. ASSUME NEW y, IsFirst(y, a, S) PROVE IsFirst(y, ab, S)
  <2>1. PICK k \in 1 .. Len(a) : a[k] = y /\ \A j \in 1 .. Len(a) : a[j] \in S => k <= j
    BY <1>1, <1>2 DEF IsFirst
  <2>2. y \in S /\ k \in DOMAIN ab /\ ab[k] = y
    BY <1>1, <1>2, <2>1 DEF IsFirst
  <2>3. ASSUME NEW j \in 1 .. Len(a) + Len(b), ab[j] \in S PROVE k <= j
    <3>1. CASE j <= Len(a)
      BY <1>1, <2>1, <2>3, <3>1
    <3>2. CASE j > Len(a)
      BY <1>1, <3>2
    <3> QED BY <1>1, <3>1, <3>2
  <2> QED BY <1>1, <2>2, <2>3 DEF IsFirst
<1>3. ASSUME NEW y, ~Meets(a, S), IsFirst(y, b, S) PROVE IsFirst(y, ab, S)
  <2>1. PICK k \in 1 .. Len(b) : b[k] = y /\ \A j \in 1 .. Len(b) : b[j] \in S => k <= j
    BY <1>1, <1>3 DEF IsFirst
  <2>2. y \in S /\ Len(a) + k \in DOMAIN ab /\ ab[Len(a) + k] = y
    BY <1>1, <1>3, <2>1 DEF IsFirst
  <2>3. ASSUME NEW j \in 1 .. Len(a) + Len(b), ab[j] \in S PROVE Len(a) + k <= j
    <3>1. CASE j <= Len(a)
      BY <1>1, <1>3, <2>3, <3>1 DEF Meets
    <3>2. CASE j > Len(a)
      <4>1. j - Len(a) \in 1 .. Len(b) /\ b[j - Len(a)] \in S
        BY <1>1, <2>3, <3>2
      <4>2. k <= j - Len(a)
        BY <2>1, <4>1
      <4> QED BY <1>1, <4>2
    <3> QED BY <1>1, <3>1, <3>2
  <2> QED BY <1>1, <2>2, <2>3 DEF IsFirst
<1>4. ASSUME IsFirst(x, ab, S)
      PROVE  IsFirst(x, a, S) \/ (~Meets(a, S) /\ IsFirst(x, b, S))
  <2>1. Meets(ab, S)
    BY <1>4 DEF IsFirst, Meets
  <2>2. Meets(a, S) \/ (~Meets(a, S) /\ Meets(b, S))
    BY <1>0, <2>1, JoinedMeets
  <2>3. CASE Meets(a, S)
    <3>1. PICK y : IsFirst(y, a, S)
      BY <2>3, FirstMeets
    <3>2. x = y
      BY <1>0, <1>2, <1>4, <3>1, FirstMeets
    <3> QED BY <3>1, <3>2
  <2>4. CASE ~Meets(a, S) /\ Meets(b, S)
    <3>1. PICK y : IsFirst(y, b, S)
      BY <2>4, FirstMeets
    <3>2. x = y
      BY <1>0, <1>3, <1>4, <2>4, <3>1, FirstMeets
    <3> QED BY <2>4, <3>1, <3>2
  <2> QED BY <2>2, <2>3, <2>4
<1> QED BY <1>0, <1>2, <1>3, <1>4

LEMMA JoinedLast ==
  ASSUME NEW T, NEW a \in Seq(T), NEW b \in Seq(T), NEW S, NEW x
  PROVE  /\ IsLast(x, b, S) => IsLast(x, a \o b, S)
         /\ ~Meets(b, S) /\ IsLast(x, a, S) => IsLast(x, a \o b, S)
<1>0. PICK ab : ab = a \o b
  OBVIOUS
<1>1. /\ Len(a) \in Nat /\ DOMAIN a = 1 .. Len(a)
      /\ Len(b) \in Nat /\ DOMAIN b = 1 .. Len(b)
      /\ DOMAIN ab = 1 .. Len(a) + Len(b)
      /\ \A i \in 1 .. Len(a) : ab[i] = a[i]
      /\ \A i \in 1 .. Len(b) : ab[Len(a) + i] = b[i]
      /\ \A i \in 1 .. Len(a) + Len(b) : i > Len(a) =>
           i - Len(a) \in 1 .. Len(b) /\ ab[i] = b[i - Len(a)]
  BY <1>0, JoinedAt
<1>2. ASSUME ~Meets(b, S), IsLast(x, a, S) PROVE IsLast(x, ab, S)
  <2>1. PICK k \in 1 .. Len(a) : a[k] = x /\ \A j \in 1 .. Len(a) : a[j] \in S => j <= k
    BY <1>1, <1>2 DEF IsLast
  <2>2. x \in S /\ k \in DOMAIN ab /\ ab[k] = x
    BY <1>1, <1>2, <2>1 DEF IsLast
  <2>3. ASSUME NEW j \in 1 .. Len(a) + Len(b), ab[j] \in S PROVE j <= k
    <3>1. CASE j <= Len(a)
      BY <1>1, <2>1, <2>3, <3>1
    <3>2. CASE j > Len(a)
      BY <1>1, <1>2, <2>3, <3>2 DEF Meets
    <3> QED BY <1>1, <3>1, <3>2
  <2> QED BY <1>1, <2>2, <2>3 DEF IsLast
<1>3. ASSUME IsLast(x, b, S) PROVE IsLast(x, ab, S)
  <2>1. PICK k \in 1 .. Len(b) : b[k] = x /\ \A j \in 1 .. Len(b) : b[j] \in S => j <= k
    BY <1>1, <1>3 DEF IsLast
  <2>2. x \in S /\ Len(a) + k \in DOMAIN ab /\ ab[Len(a) + k] = x
    BY <1>1, <1>3, <2>1 DEF IsLast
  <2>3. ASSUME NEW j \in 1 .. Len(a) + Len(b), ab[j] \in S PROVE j <= Len(a) + k
    <3>1. CASE j <= Len(a)
      BY <1>1, <3>1
    <3>2. CASE j > Len(a)
      <4>1. j - Len(a) \in 1 .. Len(b) /\ b[j - Len(a)] \in S
        BY <1>1, <2>3, <3>2
      <4>2. j - Len(a) <= k
        BY <2>1, <4>1
      <4> QED BY <1>1, <4>2
    <3> QED BY <1>1, <3>1, <3>2
  <2> QED BY <1>1, <2>2, <2>3 DEF IsLast
<1> QED BY <1>0, <1>2, <1>3

LEMMA FlattenMeets ==
  ASSUME NEW T, NEW seqs \in Seq(Seq(T)), NEW S
  PROVE  Meets(FlattenSeq(seqs), S) <=> \E i \in 1 .. Len(seqs) : Meets(seqs[i], S)
<1>2. PICK m \in Nat : m = Len(seqs)
  OBVIOUS
<1>1. PICK fl : Steps(fl, seqs, T, m)
  BY <1>2, FlattenSteps
<1>3. /\ fl[0] = <<>> /\ FlattenSeq(seqs) = fl[m]
      /\ \A i \in 1 .. m : fl[i] = fl[i - 1] \o seqs[i] /\ seqs[i] \in Seq(T)
      /\ \A i \in 0 .. m : fl[i] \in Seq(T)
  BY <1>1 DEF Steps
<1> DEFINE P(k) == Meets(fl[k], S) <=> \E i \in 1 .. k : Meets(seqs[i], S)
           N == {k \in Nat : k <= m => P(k)}
<1>4. 0 \in N
  <2>1. ~Meets(<<>>, S)
    BY DEF Meets
  <2> QED BY <1>3, <2>1
<1>5. ASSUME NEW k \in N \cap Nat PROVE k + 1 \in N
  <2> SUFFICES ASSUME k + 1 <= m PROVE P(k + 1)
    BY <1>5
  <2>1. k + 1 \in 1 .. m /\ k \in 0 .. m /\ (k + 1) - 1 = k /\ P(k)
    BY <1>5
  <2>2. fl[k + 1] = fl[k] \o seqs[k + 1] /\ fl[k] \in Seq(T) /\ seqs[k + 1] \in Seq(T)
    BY <1>3, <2>1
  <2>3. Meets(fl[k + 1], S) <=> Meets(fl[k], S) \/ Meets(seqs[k + 1], S)
    BY <2>2, JoinedMeets
  <2>4. 1 .. k + 1 = (1 .. k) \cup {k + 1}
    OBVIOUS
  <2> QED BY <2>1, <2>3, <2>4
<1> HIDE DEF N
<1>6. Nat \subseteq N
  BY <1>4, <1>5, NumberInduction
<1>7. m \in N
  BY <1>6
<1> QED BY <1>2, <1>3, <1>7 DEF N

SameFirst(s, t, S) == \A x : IsFirst(x, s, S) <=> IsFirst(x, t, S)

LEMMA SameFirstJoined ==
  ASSUME NEW T, NEW a \in Seq(T), NEW b \in Seq(T), NEW c \in Seq(T), NEW d \in Seq(T),
         NEW S, SameFirst(a, c, S), SameFirst(b, d, S)
  PROVE  SameFirst(a \o b, c \o d, S)
<1>1. \A x : IsFirst(x, a, S) <=> IsFirst(x, c, S)
  BY DEF SameFirst
<1>2. \A x : IsFirst(x, b, S) <=> IsFirst(x, d, S)
  BY DEF SameFirst
<1>3. Meets(a, S) <=> Meets(c, S)
  BY <1>1, FirstMeets
<1>4. \A x : IsFirst(x, a \o b, S)
               <=> IsFirst(x, a, S) \/ (~Meets(a, S) /\ IsFirst(x, b, S))
  BY JoinedFirst
<1>5. \A x : IsFirst(x, c \o d, S)
               <=> IsFirst(x, c, S) \/ (~Meets(c, S) /\ IsFirst(x, d, S))
  BY JoinedFirst
<1> QED BY <1>1, <1>2, <1>3, <1>4, <1>5, Zenon DEF SameFirst

LEMMA FirstAlone ==
  ASSUME NEW T, NEW a \in Seq(T), NEW b \in Seq(T), NEW S, ~Meets(b, S)
  PROVE  SameFirst(a, a \o b, S)
<1>1. \A x : ~IsFirst(x, b, S)
  BY FirstMeets
<1>2. \A x : IsFirst(x, a \o b, S)
               <=> IsFirst(x, a, S) \/ (~Meets(a, S) /\ IsFirst(x, b, S))
  BY JoinedFirst
<1> QED BY <1>1, <1>2 DEF SameFirst

\* More pieces do not change what is first if it is in none of them.
LEMMA FlattenFirst ==
  ASSUME NEW T, NEW seqs \in Seq(Seq(T)), NEW more \in Seq(Seq(T)), NEW S,
         Len(seqs) <= Len(more),
         \A i \in 1 .. Len(seqs) : SameFirst(seqs[i], more[i], S),
         \A i \in 1 .. Len(more) : i > Len(seqs) => ~Meets(more[i], S)
  PROVE  SameFirst(FlattenSeq(seqs), FlattenSeq(more), S)
<1>3. PICK m \in Nat : m = Len(seqs)
  OBVIOUS
<1>4. PICK n \in Nat : n = Len(more)
  OBVIOUS
<1>1. PICK fl : Steps(fl, seqs, T, m)
  BY <1>3, FlattenSteps
<1>2. PICK gl : Steps(gl, more, T, n)
  BY <1>4, FlattenSteps
<1>5. /\ fl[0] = <<>> /\ FlattenSeq(seqs) = fl[m]
      /\ \A i \in 1 .. m : fl[i] = fl[i - 1] \o seqs[i] /\ seqs[i] \in Seq(T)
      /\ \A i \in 0 .. m : fl[i] \in Seq(T)
  BY <1>1 DEF Steps
<1>6. /\ gl[0] = <<>> /\ FlattenSeq(more) = gl[n]
      /\ \A i \in 1 .. n : gl[i] = gl[i - 1] \o more[i] /\ more[i] \in Seq(T)
      /\ \A i \in 0 .. n : gl[i] \in Seq(T)
  BY <1>2 DEF Steps
<1>7. m <= n
  BY <1>3, <1>4
<1> DEFINE at(k) == IF k <= m THEN k ELSE m
           P(k) == SameFirst(fl[at(k)], gl[k], S)
           N == {k \in Nat : k <= n => P(k)}
<1>8. 0 \in N
  <2>1. SameFirst(<<>>, <<>>, S)
    BY DEF SameFirst
  <2>2. at(0) = 0
    OBVIOUS
  <2> QED BY <1>5, <1>6, <2>1, <2>2
<1>9. ASSUME NEW k \in N \cap Nat PROVE k + 1 \in N
  <2> SUFFICES ASSUME k + 1 <= n PROVE P(k + 1)
    BY <1>9
  <2>1. k + 1 \in 1 .. n /\ k \in 0 .. n /\ (k + 1) - 1 = k /\ P(k)
    BY <1>9
  <2>2. gl[k + 1] = gl[k] \o more[k + 1] /\ gl[k] \in Seq(T) /\ more[k + 1] \in Seq(T)
    BY <1>6, <2>1
  <2>3. CASE k + 1 <= m
    <3>1. k + 1 \in 1 .. m /\ k \in 0 .. m /\ at(k) = k /\ at(k + 1) = k + 1
      BY <2>3
    <3>2. fl[k + 1] = fl[k] \o seqs[k + 1] /\ fl[k] \in Seq(T) /\ seqs[k + 1] \in Seq(T)
      BY <1>5, <2>1, <3>1
    <3>3. SameFirst(fl[k], gl[k], S) /\ SameFirst(seqs[k + 1], more[k + 1], S)
      BY <1>3, <2>1, <3>1
    <3>4. SameFirst(fl[k] \o seqs[k + 1], gl[k] \o more[k + 1], S)
      BY <2>2, <3>2, <3>3, SameFirstJoined
    <3> QED BY <2>2, <3>1, <3>2, <3>4
  <2>4. CASE ~(k + 1 <= m)
    <3>1. at(k) = m /\ at(k + 1) = m
      BY <2>4
    <3>2. ~Meets(more[k + 1], S)
      BY <1>3, <1>4, <2>1, <2>4
    <3>3. SameFirst(gl[k], gl[k + 1], S)
      BY <2>2, <3>2, FirstAlone
    <3>4. SameFirst(fl[m], gl[k], S)
      BY <2>1, <3>1
    <3>5. SameFirst(fl[m], gl[k + 1], S)
      BY <3>3, <3>4, Zenon DEF SameFirst
    <3> QED BY <3>1, <3>5
  <2> QED BY <2>3, <2>4
<1> HIDE DEF N
<1>10. Nat \subseteq N
  BY <1>8, <1>9, NumberInduction
<1>11. P(n)
  <2>1. n \in N
    BY <1>10
  <2> QED BY <2>1 DEF N
<1>12. at(n) = m
  BY <1>7
<1> QED BY <1>5, <1>6, <1>11, <1>12

\* What is last in the only piece that has any.
LEMMA FlattenLast ==
  ASSUME NEW T, NEW seqs \in Seq(Seq(T)), NEW S, NEW x,
         NEW d \in 1 .. Len(seqs), IsLast(x, seqs[d], S),
         \A i \in 1 .. Len(seqs) : i # d => ~Meets(seqs[i], S)
  PROVE  IsLast(x, FlattenSeq(seqs), S)
<1>2. PICK m \in Nat : m = Len(seqs)
  OBVIOUS
<1>1. PICK fl : Steps(fl, seqs, T, m)
  BY <1>2, FlattenSteps
<1>3. /\ fl[0] = <<>> /\ FlattenSeq(seqs) = fl[m]
      /\ \A i \in 1 .. m : fl[i] = fl[i - 1] \o seqs[i] /\ seqs[i] \in Seq(T)
      /\ \A i \in 0 .. m : fl[i] \in Seq(T)
  BY <1>1 DEF Steps
<1> DEFINE P(k) == IsLast(x, fl[k], S)
           N == {k \in Nat : d <= k /\ k <= m => P(k)}
<1>4. 0 \in N
  BY <1>2
<1>5. ASSUME NEW k \in N \cap Nat PROVE k + 1 \in N
  <2> SUFFICES ASSUME d <= k + 1, k + 1 <= m PROVE P(k + 1)
    BY <1>5
  <2>1. k + 1 \in 1 .. m /\ k \in 0 .. m /\ (k + 1) - 1 = k
    OBVIOUS
  <2>2. fl[k + 1] = fl[k] \o seqs[k + 1] /\ fl[k] \in Seq(T) /\ seqs[k + 1] \in Seq(T)
    BY <1>3, <2>1
  <2>3. CASE d = k + 1
    BY <2>2, <2>3, JoinedLast
  <2>4. CASE d # k + 1
    <3>1. P(k)
      BY <1>2, <1>5, <2>4
    <3>2. ~Meets(seqs[k + 1], S)
      BY <1>2, <2>1, <2>4
    <3> QED BY <2>2, <3>1, <3>2, JoinedLast
  <2> QED BY <2>3, <2>4
<1> HIDE DEF N
<1>6. Nat \subseteq N
  BY <1>4, <1>5, NumberInduction
<1>7. m \in N
  BY <1>6
<1> QED BY <1>2, <1>3, <1>7 DEF N

-----------------------------------------------------------------------------
(* The walk over the subclasses *)

Branches(cs, w, c) ==
  [d \in DOMAIN cs |-> IF IsSubclass(cs, d, c) THEN Append(w[d], d) ELSE <<>>]

Walks(w, cs) ==
  /\ w \in [1 .. Len(cs) -> Seq(1 .. Len(cs))]
  /\ \A c \in 1 .. Len(cs) : w[c] = FlattenSeq(Branches(cs, w, c))
  /\ \A c \in 1 .. Len(cs) : w[c] = WalkSubclasses(cs, c)

\* Induction from the derived classes to those they derive from.
LEMMA TreeDown ==
  ASSUME NEW cs, Tree(cs), NEW P,
         \A c \in 1 .. Len(cs) :
           (\A d \in 1 .. Len(cs) : cs[d].parent = c => d \in P) => c \in P
  PROVE  1 .. Len(cs) \subseteq P
<1>1. PICK n \in Nat : n = Len(cs)
  BY Zenon DEF Tree
<1> DEFINE B == {k \in Nat : \E c \in 1 .. n : c \notin P /\ k = n - c}
<1> SUFFICES ASSUME B # {} PROVE FALSE
  <2>1. ASSUME NEW c \in 1 .. n, c \notin P PROVE n - c \in B
    BY <2>1
  <2> QED BY <1>1, <2>1
<1>2. PICK k \in B : \A j \in B : k <= j
  BY LeastNumber
<1>3. PICK c \in 1 .. n : c \notin P /\ k = n - c
  BY <1>2
<1>4. PICK d \in 1 .. n : cs[d].parent = c /\ d \notin P
  BY <1>1, <1>3
<1>5. c \in 0 .. d - 1
  BY <1>1, <1>4 DEF Tree
<1>6. n - d \in B
  BY <1>4
<1>7. k <= n - d
  BY <1>2, <1>6, Zenon
<1> QED BY <1>3, <1>5, <1>7

LEMMA BranchesType ==
  ASSUME NEW cs, Tree(cs), NEW w \in [1 .. Len(cs) -> Seq(1 .. Len(cs))], NEW c
  PROVE  /\ Branches(cs, w, c) \in Seq(Seq(1 .. Len(cs)))
         /\ Len(Branches(cs, w, c)) = Len(cs)
         /\ \A d \in 1 .. Len(cs) : Branches(cs, w, c)[d] =
              IF IsSubclass(cs, d, c) THEN Append(w[d], d) ELSE <<>>
<1>1. PICK n \in Nat : n = Len(cs) /\ DOMAIN cs = 1 .. n
  BY Zenon DEF Tree
<1>2. PICK b : b = Branches(cs, w, c)
  OBVIOUS
<1>3. b = [d \in 1 .. n |-> IF IsSubclass(cs, d, c) THEN Append(w[d], d) ELSE <<>>]
  BY <1>1, <1>2 DEF Branches
<1>4. \A d \in 1 .. n : b[d] = IF IsSubclass(cs, d, c) THEN Append(w[d], d) ELSE <<>>
  BY <1>3
<1>5. ASSUME NEW d \in 1 .. n PROVE b[d] \in Seq(1 .. n)
  <2>1. w[d] \in Seq(1 .. n)
    BY <1>1
  <2>2. Append(w[d], d) \in Seq(1 .. n) /\ <<>> \in Seq(1 .. n)
    BY <2>1, AppendProperties
  <2> QED BY <1>4, <2>2
<1>6. b \in [1 .. n -> Seq(1 .. n)]
  <2>1. b = [d \in 1 .. n |-> b[d]]
    BY <1>3
  <2> QED BY <1>5, <2>1
<1>7. b \in Seq(Seq(1 .. n)) /\ Len(b) = n
  <2>1. b \in Seq(Seq(1 .. n))
    BY <1>6, SeqDef
  <2>2. Len(b) \in Nat /\ DOMAIN b = 1 .. Len(b) /\ DOMAIN b = 1 .. n
    BY <1>6, <2>1, LenProperties
  <2>3. PICK l \in Nat : l = Len(b)
    BY <2>2, Zenon
  <2>4. 1 .. l = 1 .. n
    BY <2>2, <2>3, Zenon
  <2>5. l = n
    <3>1. CASE l = 0
      BY <2>4, <3>1
    <3>2. CASE l # 0
      <4>1. l \in 1 .. n
        BY <2>4, <3>2
      <4>2. n \in 1 .. l
        BY <2>4, <4>1
      <4> QED BY <4>1, <4>2
    <3> QED BY <3>1, <3>2
  <2> QED BY <2>1, <2>3, <2>5
<1> QED BY <1>1, <1>2, <1>4, <1>7

\* The branches of a class depend on those of its subclasses only.
LEMMA SameBranches ==
  ASSUME NEW cs, Tree(cs), NEW c, NEW f, NEW g,
         \A d \in 1 .. Len(cs) : cs[d].parent = c => f[d] = g[d]
  PROVE  Branches(cs, f, c) = Branches(cs, g, c)
<1>1. \A d \in DOMAIN cs : (IF IsSubclass(cs, d, c) THEN Append(f[d], d) ELSE <<>>)
                           = (IF IsSubclass(cs, d, c) THEN Append(g[d], d) ELSE <<>>)
  BY DEF Tree, IsSubclass
<1> QED BY <1>1, Zenon DEF Branches

LEMMA WalkIs ==
  ASSUME NEW cs, Tree(cs)
  PROVE  \E w : Walks(w, cs)
<1>1. PICK n \in Nat : n = Len(cs) /\ DOMAIN cs = 1 .. n
  BY Zenon DEF Tree
<1> DEFINE S == 1 .. n
           V == Seq(1 .. n)
           R(w) == w = [c \in S |-> FlattenSeq(Branches(cs, w, c))]
           it == CHOOSE w : R(w)
           r == [c \in S |-> n - c]
           H == [p \in S \X [S -> V] |-> FlattenSeq(Branches(cs, p[2], p[1]))]
<1>2. r \in [S -> Nat] /\ \A c \in S : r[c] = n - c
  OBVIOUS
<1>3. \A c \in S : \A f \in [S -> V] : H[<<c, f>>] = FlattenSeq(Branches(cs, f, c))
  OBVIOUS
<1> HIDE DEF r, H
<1>4. \A c \in S : \A f \in [S -> V] : H[<<c, f>>] \in V
  <2> TAKE c \in S
  <2> TAKE f \in [S -> V]
  <2>1. Branches(cs, f, c) \in Seq(Seq(1 .. n))
    BY <1>1, BranchesType
  <2>2. FlattenSeq(Branches(cs, f, c)) \in V
    BY <2>1, FlattenType
  <2> QED BY <1>3, <2>2
<1>5. \A c \in S : \A f, g \in [S -> V] :
        (\A d \in S : r[d] < r[c] => f[d] = g[d]) => H[<<c, f>>] = H[<<c, g>>]
  <2> TAKE c \in S
  <2> TAKE f, g \in [S -> V]
  <2> HAVE \A d \in S : r[d] < r[c] => f[d] = g[d]
  <2>1. ASSUME NEW d \in 1 .. n, cs[d].parent = c PROVE f[d] = g[d]
    <3>1. c \in 0 .. d - 1
      BY <1>1, <2>1 DEF Tree
    <3> QED BY <1>2, <3>1
  <2>2. Branches(cs, f, c) = Branches(cs, g, c)
    BY <1>1, <2>1, SameBranches
  <2>3. H[<<c, f>>] = FlattenSeq(Branches(cs, f, c))
    BY <1>3
  <2>4. H[<<c, g>>] = FlattenSeq(Branches(cs, g, c))
    BY <1>3
  <2> QED BY <2>2, <2>3, <2>4
<1>6. GoesDown(H, S, V, r)
  BY <1>4, <1>5 DEF GoesDown
<1>7. PICK f \in [S -> V] : \A c \in S : f[c] = H[<<c, f>>]
  <2>1. \A c \in S : r[c] < n
    BY <1>2
  <2>2. \E f : Solution(f, H, S, V)
    <3>1. <<>> \in V
      OBVIOUS
    <3> HIDE DEF S, V
    <3> QED BY <1>2, <1>6, <2>1, <3>1, Recursion
  <2> QED BY <2>2 DEF Solution
<1>8. \A c \in S : f[c] = FlattenSeq(Branches(cs, f, c))
  BY <1>3, <1>7
<1>9. R(f)
  <2> HIDE DEF S
  <2>1. f = [c \in S |-> f[c]]
    OBVIOUS
  <2> QED BY <1>8, <2>1, Zenon
<1>10. R(it)
  BY <1>9, Zenon
<1>11. \A c : WalkSubclasses(cs, c) = it[c]
  BY <1>1, Zenon DEF WalkSubclasses, Branches
<1> HIDE DEF it
<1>12. \A c \in S : it[c] = FlattenSeq(Branches(cs, it, c))
  BY <1>10, Zenon
<1> HIDE DEF R
<1>13. \A c \in S : it[c] = f[c]
  <2> DEFINE P == {c \in S : it[c] = f[c]}
  <2>1. ASSUME NEW c \in 1 .. n, \A d \in 1 .. n : cs[d].parent = c => d \in P
        PROVE  c \in P
    <3>1. \A d \in 1 .. n : cs[d].parent = c => it[d] = f[d]
      BY <2>1
    <3>2. Branches(cs, it, c) = Branches(cs, f, c)
      BY <1>1, <3>1, SameBranches
    <3> QED BY <1>8, <1>12, <3>2
  <2> HIDE DEF P
  <2>2. 1 .. n \subseteq P
    BY <1>1, <2>1, TreeDown
  <2> QED BY <2>2 DEF P
<1>14. Walks(f, cs)
  BY <1>1, <1>8, <1>11, <1>13 DEF Walks
<1> QED BY <1>14

\* Who derives from a class derives from one of its subclasses.
LEMMA ByBranch ==
  ASSUME NEW cs, Tree(cs), NEW c \in 1 .. Len(cs)
  PROVE  \A e \in 1 .. Len(cs) :
           DescendsFrom(cs, e, c) /\ e # c
             <=> \E d \in 1 .. Len(cs) : cs[d].parent = c /\ DescendsFrom(cs, e, d)
<1> DEFINE Q(e) == DescendsFrom(cs, e, c) /\ e # c
             <=> \E d \in 1 .. Len(cs) : cs[d].parent = c /\ DescendsFrom(cs, e, d)
           P == {e \in 0 .. Len(cs) : Q(e)}
<1>1. 0 \in P
  BY DescentIs DEF Tree
<1>2. ASSUME NEW e \in 1 .. Len(cs), cs[e].parent \in P PROVE e \in P
  <2>0. e \in 0 .. Len(cs) /\ cs[e].parent \in 0 .. e - 1
    BY DEF Tree
  <2>1. \A a : DescendsFrom(cs, e, a) <=> e = a \/ DescendsFrom(cs, cs[e].parent, a)
    BY DescentIs
  <2>2. Q(cs[e].parent)
    BY <1>2
  <2>3. ASSUME DescendsFrom(cs, e, c), e # c
        PROVE  \E d \in 1 .. Len(cs) : cs[d].parent = c /\ DescendsFrom(cs, e, d)
    <3>1. DescendsFrom(cs, cs[e].parent, c)
      BY <2>1, <2>3
    <3>2. CASE cs[e].parent = c
      BY <2>1, <3>2
    <3>3. CASE cs[e].parent # c
      BY <2>1, <2>2, <3>1, <3>3
    <3> QED BY <3>2, <3>3
  <2>4. ASSUME NEW d \in 1 .. Len(cs), cs[d].parent = c, DescendsFrom(cs, e, d)
        PROVE  DescendsFrom(cs, e, c) /\ e # c
    <3>1. d \in 1 .. e /\ c \in 0 .. d - 1
      BY <2>0, <2>4, DescendsLater DEF Tree
    <3>2. e # c
      BY <2>0, <3>1
    <3>3. DescendsFrom(cs, d, c)
      BY <2>4, DescentIs, DescendsItself
    <3> QED BY <2>0, <2>4, <3>2, <3>3, DescendsOn
  <2> QED BY <2>0, <2>3, <2>4
<1> HIDE DEF P
<1>3. 0 .. Len(cs) \subseteq P
  BY <1>1, <1>2, TreeInduction
<1>4. \A e \in 1 .. Len(cs) : e \in P
  BY <1>3 DEF Tree
<1> QED BY <1>4 DEF P

\* Classes that exist derive from classes that exist.
BasesExist(cs) ==
  \A c \in 1 .. Len(cs) : cs[c].exists /\ cs[c].parent # 0 => cs[cs[c].parent].exists

LEMMA AncestorsExist ==
  ASSUME NEW cs, Tree(cs), BasesExist(cs), NEW a \in 1 .. Len(cs)
  PROVE  \A c \in 0 .. Len(cs) :
           DescendsFrom(cs, c, a) /\ cs[c].exists => cs[a].exists
<1> DEFINE P == {c \in 0 .. Len(cs) :
                   DescendsFrom(cs, c, a) /\ cs[c].exists => cs[a].exists}
<1>1. 0 \in P
  BY DescentIs DEF Tree
<1>2. ASSUME NEW c \in 1 .. Len(cs), cs[c].parent \in P PROVE c \in P
  <2>1. DescendsFrom(cs, c, a) <=> c = a \/ DescendsFrom(cs, cs[c].parent, a)
    BY DescentIs
  <2>2. CASE cs[c].parent = 0
    BY <1>2, <2>1, <2>2, DescentIs DEF Tree
  <2>3. CASE cs[c].parent # 0
    BY <1>2, <2>1, <2>3 DEF Tree, BasesExist
  <2> QED BY <2>2, <2>3
<1> HIDE DEF P
<1>3. 0 .. Len(cs) \subseteq P
  BY <1>1, <1>2, TreeInduction
<1> QED BY <1>3 DEF P

\* The subclasses of a class that exist, and theirs.
Below(cs, c) ==
  {e \in 1 .. Len(cs) : cs[e].exists /\ e # c /\ DescendsFrom(cs, e, c)}

\* A branch has those that derive from its class, and the class.
LEMMA BranchMeets ==
  ASSUME NEW cs, Tree(cs), NEW w, Walks(w, cs), NEW d \in 1 .. Len(cs), NEW S
  PROVE  Meets(Append(w[d], d), S) <=> Meets(w[d], S) \/ d \in S
<1>1. PICK n \in Nat : n = Len(cs)
  BY Zenon DEF Tree
<1>2. w[d] \in Seq(1 .. n) /\ <<d>> \in Seq(1 .. n)
  BY <1>1 DEF Walks
<1>3. Append(w[d], d) = w[d] \o <<d>>
  BY <1>1, <1>2, AppendIsConcat
<1>4. Meets(w[d] \o <<d>>, S) <=> Meets(w[d], S) \/ Meets(<<d>>, S)
  BY <1>2, JoinedMeets
<1>5. DOMAIN <<d>> = {1} /\ <<d>>[1] = d
  OBVIOUS
<1>6. Meets(<<d>>, S) <=> d \in S
  BY <1>5 DEF Meets
<1> QED BY <1>3, <1>4, <1>6

LEMMA WalkMeets ==
  ASSUME NEW cs, Tree(cs), BasesExist(cs), NEW w, Walks(w, cs), NEW S
  PROVE  \A c \in 1 .. Len(cs) : Meets(w[c], S) <=> Below(cs, c) \cap S # {}
<1> DEFINE P == {c \in 1 .. Len(cs) : Meets(w[c], S) <=> Below(cs, c) \cap S # {}}
<1>1. ASSUME NEW c \in 1 .. Len(cs),
             \A d \in 1 .. Len(cs) : cs[d].parent = c => d \in P
      PROVE  c \in P
  <2>1. PICK b : b = Branches(cs, w, c)
    OBVIOUS
  <2>2. PICK n \in Nat : n = Len(cs)
    BY Zenon DEF Tree
  <2>3. /\ b \in Seq(Seq(1 .. n)) /\ Len(b) = n
        /\ \A d \in 1 .. n : b[d] =
             IF IsSubclass(cs, d, c) THEN Append(w[d], d) ELSE <<>>
    BY <2>1, <2>2, BranchesType DEF Walks
  <2>4. Meets(w[c], S) <=> \E d \in 1 .. n : Meets(b[d], S)
    <3>1. w[c] = FlattenSeq(b)
      BY <2>1 DEF Walks
    <3> QED BY <2>3, <3>1, FlattenMeets
  <2>5. ASSUME NEW d \in 1 .. n
        PROVE  Meets(b[d], S)
                 <=> IsSubclass(cs, d, c) /\ (d \in S \/ Below(cs, d) \cap S # {})
    <3>1. CASE IsSubclass(cs, d, c)
      <4>1. b[d] = Append(w[d], d)
        BY <2>3, <3>1
      <4>2. Meets(b[d], S) <=> Meets(w[d], S) \/ d \in S
        BY <2>2, <4>1, BranchMeets
      <4>3. d \in P
        BY <1>1, <2>2, <3>1 DEF IsSubclass
      <4> QED BY <3>1, <4>2, <4>3
    <3>2. CASE ~IsSubclass(cs, d, c)
      <4>1. b[d] = <<>>
        BY <2>3, <3>2
      <4>2. ~Meets(<<>>, S)
        BY DEF Meets
      <4> QED BY <3>2, <4>1, <4>2
    <3> QED BY <3>1, <3>2
  <2>6. ASSUME NEW e \in Below(cs, c) \cap S
        PROVE  \E d \in 1 .. n : Meets(b[d], S)
    <3>1. e \in 1 .. n /\ cs[e].exists /\ e # c /\ DescendsFrom(cs, e, c) /\ e \in S
      BY <2>2 DEF Below
    <3>2. PICK d \in 1 .. n : cs[d].parent = c /\ DescendsFrom(cs, e, d)
      BY <2>2, <3>1, ByBranch
    <3>3. cs[d].exists
      BY <2>2, <3>1, <3>2, AncestorsExist
    <3>4. d = e \/ e \in Below(cs, d)
      BY <2>2, <3>1, <3>2 DEF Below
    <3>5. d \in S \/ Below(cs, d) \cap S # {}
      BY <3>1, <3>4
    <3>6. IsSubclass(cs, d, c)
      BY <3>2, <3>3 DEF IsSubclass
    <3> QED BY <2>5, <3>5, <3>6
  <2>7. ASSUME NEW d \in 1 .. n, Meets(b[d], S) PROVE Below(cs, c) \cap S # {}
    <3>1. /\ IsSubclass(cs, d, c)
          /\ d \in S \/ Below(cs, d) \cap S # {}
      BY <2>5, <2>7
    <3>2. PICK e \in 1 .. n : e \in S /\ cs[e].exists /\ DescendsFrom(cs, e, d)
      <4>1. CASE d \in S
        BY <2>2, <3>1, <4>1, DescendsItself DEF IsSubclass
      <4>2. CASE Below(cs, d) \cap S # {}
        BY <2>2, <4>2 DEF Below
      <4> QED BY <3>1, <4>1, <4>2
    <3>3. DescendsFrom(cs, e, c) /\ e # c
      BY <2>2, <3>1, <3>2, ByBranch DEF IsSubclass
    <3>4. e \in Below(cs, c)
      BY <2>2, <3>2, <3>3 DEF Below
    <3> QED BY <3>2, <3>4
  <2> QED BY <2>4, <2>6, <2>7
<1> HIDE DEF P
<1>2. 1 .. Len(cs) \subseteq P
  BY <1>1, TreeDown
<1> QED BY <1>2 DEF P

\* What is last in the only branch that has any.
LEMMA OneBranch ==
  ASSUME NEW cs, Tree(cs), BasesExist(cs), NEW w, Walks(w, cs), NEW S, NEW x,
         NEW p \in 1 .. Len(cs), NEW d \in 1 .. Len(cs), IsSubclass(cs, d, p),
         IsLast(x, Append(w[d], d), S),
         \A e \in Below(cs, p) \cap S : DescendsFrom(cs, e, d)
  PROVE  IsLast(x, w[p], S)
<1>1. PICK b : b = Branches(cs, w, p)
  OBVIOUS
<1>2. PICK n \in Nat : n = Len(cs)
  BY Zenon DEF Tree
<1>3. /\ b \in Seq(Seq(1 .. n)) /\ Len(b) = n
      /\ \A i \in 1 .. n : b[i] =
           IF IsSubclass(cs, i, p) THEN Append(w[i], i) ELSE <<>>
  BY <1>1, <1>2, BranchesType DEF Walks
<1>4. w[p] = FlattenSeq(b)
  BY <1>1 DEF Walks
<1>5. ASSUME NEW i \in 1 .. n, i # d PROVE ~Meets(b[i], S)
  <2> SUFFICES ASSUME Meets(b[i], S) PROVE FALSE
    OBVIOUS
  <2>1. IsSubclass(cs, i, p)
    <3>1. ~Meets(<<>>, S)
      BY DEF Meets
    <3> QED BY <1>3, <3>1
  <2>2. Meets(w[i], S) \/ i \in S
    BY <1>2, <1>3, <2>1, BranchMeets
  <2>3. PICK e \in 1 .. n : e \in S /\ cs[e].exists /\ DescendsFrom(cs, e, i)
    <3>1. CASE i \in S
      BY <1>2, <2>1, <3>1, DescendsItself DEF IsSubclass
    <3>2. CASE Meets(w[i], S)
      <4>1. Below(cs, i) \cap S # {}
        BY <1>2, <3>2, WalkMeets
      <4> QED BY <1>2, <4>1 DEF Below
    <3> QED BY <2>2, <3>1, <3>2
  <2>4. e \in Below(cs, p) \cap S
    <3>1. DescendsFrom(cs, e, p) /\ e # p
      BY <1>2, <2>1, <2>3, ByBranch DEF IsSubclass
    <3> QED BY <1>2, <2>3, <3>1 DEF Below
  <2>5. DescendsFrom(cs, e, d)
    BY <2>4
  <2> QED BY <1>2, <1>5, <2>1, <2>3, <2>5, BranchesApart DEF IsSubclass
<1>6. IsLast(x, b[d], S)
  BY <1>2, <1>3
<1>7. IsLast(x, FlattenSeq(b), S)
  BY <1>2, <1>3, <1>5, <1>6, FlattenLast
<1> QED BY <1>4, <1>7

-----------------------------------------------------------------------------
(* The classes of boost_histogram *)

LEMMA TypesFacts ==
  /\ \A ts : OwnTypes(ts) # NoTypes /\ OwnTypes(ts)[1] = ts
BY Singleton, Zenon DEF OwnTypes, NoTypes

LEMMA StorageNamesAre ==
  /\ Len(StorageNames) = 7 /\ DOMAIN StorageNames = 1 .. 7
  /\ StorageNames[1] = "int64" /\ StorageNames[2] = "double"
  /\ StorageNames[3] = "atomic_int64" /\ StorageNames[4] = "unlimited"
  /\ StorageNames[5] = "weight" /\ StorageNames[6] = "mean"
  /\ StorageNames[7] = "weighted_mean"
<1>1. Len(StorageNames) = 7 /\ DOMAIN StorageNames = 1 .. 7
  BY DEF StorageNames
<1> QED BY <1>1 DEF StorageNames

StorageParts == [k \in DOMAIN StorageNames |-> StoragePart(StorageNames[k])]

Placed(ab, a, b, m, n) ==
  /\ DOMAIN ab = 1 .. m + n /\ Len(ab) = m + n
  /\ \A i \in 1 .. m : ab[i] = a[i]
  /\ \A i \in 1 .. n : ab[m + i] = b[i]

LEMMA JoinedAs ==
  ASSUME NEW T, NEW a \in Seq(T), NEW b \in Seq(T), NEW ab, ab = a \o b
  PROVE  Placed(ab, a, b, Len(a), Len(b))
<1>1. /\ DOMAIN ab = 1 .. Len(a) + Len(b)
      /\ \A i \in 1 .. Len(a) : ab[i] = a[i]
      /\ \A i \in 1 .. Len(b) : ab[Len(a) + i] = b[i]
  BY JoinedAt
<1>2. Len(ab) = Len(a) + Len(b)
  BY ConcatProperties
<1> QED BY <1>1, <1>2 DEF Placed

LEMMA BoostClassesAre ==
  /\ BoostClasses = [c \in 1 .. 19 |-> BoostClasses[c]]
  /\ Len(BoostClasses) = 19 /\ BuiltIn = 1 .. 19
  /\ BoostClasses[1] = Base /\ BoostClasses[9] = Base /\ BoostClasses[12] = Base
  /\ BoostClasses[2] = BoostClass(Axis, OwnTypes(RegularTypes))
  /\ BoostClasses[3] = BoostClass(Axis, OwnTypes(VariableTypes))
  /\ BoostClasses[4] = BoostClass(Axis, OwnTypes(IntegerTypes))
  /\ BoostClasses[5] = BoostClass(Axis, NoTypes)
  /\ BoostClasses[6] = BoostClass(BaseCategory, OwnTypes(CategoryTypes("category_str")))
  /\ BoostClasses[7] = BoostClass(BaseCategory, OwnTypes(CategoryTypes("category_int")))
  /\ BoostClasses[8] = BoostClass(Axis, OwnTypes({Cpp("boolean", {})}))
  /\ BoostClasses[10] = BoostClass(AxisTransform, OwnTypes({Cpp("pow", {})}))
  /\ BoostClasses[11] = BoostClass(AxisTransform, OwnTypes({Cpp("func_transform", {})}))
  /\ \A k \in 1 .. 7 : BoostClasses[12 + k] = StoragePart(StorageNames[k])
<1> DEFINE first ==
      <<Base,
        BoostClass(Axis, OwnTypes(RegularTypes)), BoostClass(Axis, OwnTypes(VariableTypes)),
        BoostClass(Axis, OwnTypes(IntegerTypes)), BoostClass(Axis, NoTypes),
        BoostClass(BaseCategory, OwnTypes(CategoryTypes("category_str"))),
        BoostClass(BaseCategory, OwnTypes(CategoryTypes("category_int"))),
        BoostClass(Axis, OwnTypes({Cpp("boolean", {})})),
        Base,
        BoostClass(AxisTransform, OwnTypes({Cpp("pow", {})})),
        BoostClass(AxisTransform, OwnTypes({Cpp("func_transform", {})})),
        Base>>
<1>1. PICK T : T = ToSet(first) \cup ToSet(StorageParts)
  OBVIOUS
<1>2. DOMAIN first = 1 .. 12 /\ Len(first) = 12
  OBVIOUS
<1>3. /\ first[1] = Base /\ first[9] = Base /\ first[12] = Base
      /\ first[2] = BoostClass(Axis, OwnTypes(RegularTypes))
      /\ first[3] = BoostClass(Axis, OwnTypes(VariableTypes))
      /\ first[4] = BoostClass(Axis, OwnTypes(IntegerTypes))
      /\ first[5] = BoostClass(Axis, NoTypes)
      /\ first[6] = BoostClass(BaseCategory, OwnTypes(CategoryTypes("category_str")))
      /\ first[7] = BoostClass(BaseCategory, OwnTypes(CategoryTypes("category_int")))
      /\ first[8] = BoostClass(Axis, OwnTypes({Cpp("boolean", {})}))
      /\ first[10] = BoostClass(AxisTransform, OwnTypes({Cpp("pow", {})}))
      /\ first[11] = BoostClass(AxisTransform, OwnTypes({Cpp("func_transform", {})}))
  OBVIOUS
<1>4. first = [k \in 1 .. 12 |-> first[k]]
  OBVIOUS
<1>5. BoostClasses = first \o StorageParts
  BY DEF BoostClasses, StorageParts
<1> HIDE DEF first
<1>6. first \in Seq(ToSet(first))
  BY <1>4, FunctionIsSequence
<1>7. /\ StorageParts \in Seq(ToSet(StorageParts)) /\ Len(StorageParts) = 7
      /\ \A k \in 1 .. 7 : StorageParts[k] = StoragePart(StorageNames[k])
  <2>1. StorageParts = [k \in 1 .. 7 |-> StoragePart(StorageNames[k])]
    BY StorageNamesAre DEF StorageParts
  <2>2. \A k \in 1 .. 7 : StorageParts[k] = StoragePart(StorageNames[k])
    BY <2>1
  <2>3. StorageParts = [k \in 1 .. 7 |-> StorageParts[k]]
    BY <2>1
  <2> QED BY <2>2, <2>3, FunctionIsSequence
<1>8. first \in Seq(T) /\ StorageParts \in Seq(T)
  BY <1>1, <1>6, <1>7, SeqMonotonic
<1>9. PICK a : a = first
  OBVIOUS
<1>10. PICK b : b = StorageParts
  OBVIOUS
<1>11. a \in Seq(T) /\ b \in Seq(T) /\ Len(a) = 12 /\ Len(b) = 7
  BY <1>2, <1>7, <1>8, <1>9, <1>10
<1>12. Placed(BoostClasses, a, b, Len(a), Len(b))
  BY <1>5, <1>8, <1>9, <1>10, JoinedAs
<1>13. Placed(BoostClasses, a, b, 12, 7)
  BY <1>11, <1>12, Zenon
<1>14. /\ DOMAIN BoostClasses = 1 .. 19 /\ Len(BoostClasses) = 19
       /\ \A i \in 1 .. 12 : BoostClasses[i] = a[i]
       /\ \A i \in 1 .. 7 : BoostClasses[12 + i] = b[i]
  BY <1>13 DEF Placed
<1>15. BoostClasses = [c \in 1 .. 19 |-> BoostClasses[c]]
  <2>1. BoostClasses \in Seq(T)
    BY <1>5, <1>8, ConcatProperties
  <2>2. PICK n \in Nat : BoostClasses \in [1 .. n -> T]
    BY <2>1, SeqDef
  <2>3. DOMAIN BoostClasses = 1 .. n /\ BoostClasses = [c \in 1 .. n |-> BoostClasses[c]]
    BY <2>2
  <2> QED BY <1>14, <2>3, Zenon
<1> QED BY <1>3, <1>7, <1>9, <1>10, <1>14, <1>15, SMTT(30) DEF BuiltIn

-----------------------------------------------------------------------------
(* The classes of a process *)

IsClass(r) ==
  r = [parent |-> r.parent, family |-> r.family, bases |-> r.bases,
       types |-> r.types, bound |-> r.bound, exists |-> r.exists]

\* A set of types that libraries have added theirs to.
Added(types, own) == \E ts \in SUBSET NewTypes : types = OwnTypes(own \cup ts)

\* A class of boost_histogram, as it was made but for types added to its own.
Kept(r, b) ==
  /\ r.parent = b.parent /\ r.family = b.family /\ r.bases = b.bases
  /\ r.bound
  /\ IF b.types = NoTypes THEN r.types = NoTypes ELSE Added(r.types, b.types[1])

\* A class of a library.
Derives(r) ==
  /\ r.parent # 0 /\ r.bases = {}
  /\ r.types = NoTypes \/ Added(r.types, {})

WellMade(cs) ==
  /\ cs = [c \in 1 .. Len(cs) |-> cs[c]]
  /\ Tree(cs) /\ Len(cs) >= 19
  /\ \A c \in 1 .. 19 : Kept(cs[c], BoostClasses[c])
  /\ \A c \in 1 .. Len(cs) : c > 19 => Derives(cs[c])
  /\ \A c \in 1 .. Len(cs) :
       /\ IsClass(cs[c])
       /\ cs[c].bound => cs[c].exists
       /\ cs[c].parent # 0 => cs[cs[c].parent].bound

ClassInv == WellMade(classes)

LEMMA MadeClass ==
  ASSUME NEW p, NEW family, NEW bases, NEW types,
         NEW r, r = MakeClass(p, family, bases, types)
  PROVE  /\ IsClass(r) /\ r.parent = p /\ r.family = family /\ r.bases = bases
         /\ r.types = types /\ r.bound /\ r.exists
BY DEF MakeClass, IsClass

IsMadeOf(r, parent, family, bases, types) ==
  /\ IsClass(r) /\ r.bound /\ r.exists
  /\ r.parent = parent /\ r.family = family /\ r.bases = bases /\ r.types = types

LEMMA BoostMade ==
  /\ \A c \in {1, 9, 12} : IsMadeOf(BoostClasses[c], 0, "", {}, NoTypes)
  /\ IsMadeOf(BoostClasses[2], 1, Main, {}, OwnTypes(RegularTypes))
  /\ IsMadeOf(BoostClasses[3], 1, Main, {}, OwnTypes(VariableTypes))
  /\ IsMadeOf(BoostClasses[4], 1, Main, {}, OwnTypes(IntegerTypes))
  /\ IsMadeOf(BoostClasses[5], 1, Main, {}, NoTypes)
  /\ IsMadeOf(BoostClasses[6], 5, Main, {}, OwnTypes(CategoryTypes("category_str")))
  /\ IsMadeOf(BoostClasses[7], 5, Main, {}, OwnTypes(CategoryTypes("category_int")))
  /\ IsMadeOf(BoostClasses[8], 1, Main, {}, OwnTypes({Cpp("boolean", {})}))
  /\ IsMadeOf(BoostClasses[10], 9, Main, {}, OwnTypes({Cpp("pow", {})}))
  /\ IsMadeOf(BoostClasses[11], 9, Main, {}, OwnTypes({Cpp("func_transform", {})}))
  /\ \A k \in 1 .. 7 :
       IsMadeOf(BoostClasses[12 + k], 12, Main, {Cpp(StorageNames[k], {})}, NoTypes)
<1>0. ASSUME NEW r, NEW p, NEW family, NEW bases, NEW types,
             r = MakeClass(p, family, bases, types)
      PROVE  IsMadeOf(r, p, family, bases, types)
  BY <1>0, MadeClass DEF IsMadeOf
<1>1. ASSUME NEW r, NEW parent, NEW types, r = BoostClass(parent, types)
      PROVE  IsMadeOf(r, parent, Main, {}, types)
  BY <1>0, <1>1 DEF BoostClass
<1>2. ASSUME NEW r, r = Base
      PROVE  IsMadeOf(r, 0, "", {}, NoTypes)
  BY <1>0, <1>2, Zenon DEF Base, NoClass
<1>3. ASSUME NEW r, NEW of, r = StoragePart(of)
      PROVE  IsMadeOf(r, 12, Main, {Cpp(of, {})}, NoTypes)
  BY <1>0, <1>3 DEF StoragePart, Storage
<1>4. \A c \in {1, 9, 12} : IsMadeOf(BoostClasses[c], 0, "", {}, NoTypes)
  BY <1>2, BoostClassesAre, Zenon
<1>5. /\ IsMadeOf(BoostClasses[2], 1, Main, {}, OwnTypes(RegularTypes))
      /\ IsMadeOf(BoostClasses[3], 1, Main, {}, OwnTypes(VariableTypes))
      /\ IsMadeOf(BoostClasses[4], 1, Main, {}, OwnTypes(IntegerTypes))
      /\ IsMadeOf(BoostClasses[5], 1, Main, {}, NoTypes)
      /\ IsMadeOf(BoostClasses[6], 5, Main, {}, OwnTypes(CategoryTypes("category_str")))
      /\ IsMadeOf(BoostClasses[7], 5, Main, {}, OwnTypes(CategoryTypes("category_int")))
      /\ IsMadeOf(BoostClasses[8], 1, Main, {}, OwnTypes({Cpp("boolean", {})}))
      /\ IsMadeOf(BoostClasses[10], 9, Main, {}, OwnTypes({Cpp("pow", {})}))
      /\ IsMadeOf(BoostClasses[11], 9, Main, {}, OwnTypes({Cpp("func_transform", {})}))
  BY <1>1, BoostClassesAre, Zenon DEF Axis, BaseCategory, AxisTransform
<1>6. \A k \in 1 .. 7 :
        IsMadeOf(BoostClasses[12 + k], 12, Main, {Cpp(StorageNames[k], {})}, NoTypes)
  BY <1>3, BoostClassesAre
<1> QED BY <1>4, <1>5, <1>6, Zenon

\* The numbers of the classes of boost_histogram.
LEMMA BoostNumbers ==
  ASSUME NEW c \in 1 .. 19
  PROVE  \/ c \in {1, 9, 12}
         \/ c \in {2, 3, 4, 5, 6, 7, 8, 10, 11}
         \/ \E k \in 1 .. 7 : c = 12 + k
<1>1. CASE c <= 12
  BY <1>1
<1>2. CASE c > 12
  <2>1. c - 12 \in 1 .. 7 /\ c = 12 + (c - 12)
    BY <1>2
  <2> QED BY <2>1
<1> QED BY <1>1, <1>2

GoesBefore(c) ==
  /\ IsClass(BoostClasses[c]) /\ BoostClasses[c].bound /\ BoostClasses[c].exists
  /\ BoostClasses[c].parent \in 0 .. c - 1
  /\ BoostClasses[c].types = NoTypes
       \/ BoostClasses[c].types = OwnTypes(BoostClasses[c].types[1])

LEMMA BoostBefore == \A c \in 1 .. 19 : GoesBefore(c)
<1>1. ASSUME NEW c, NEW p, p \in 0 .. c - 1, NEW family, NEW bases, NEW types,
             IsMadeOf(BoostClasses[c], p, family, bases, types),
             types = NoTypes \/ \E ts : types = OwnTypes(ts)
      PROVE  GoesBefore(c)
  <2>1. PICK r : r = BoostClasses[c]
    OBVIOUS
  <2>2. IsClass(r) /\ r.bound /\ r.exists /\ r.parent = p /\ r.types = types
    BY <1>1, <2>1 DEF IsMadeOf
  <2>3. types = NoTypes \/ types = OwnTypes(types[1])
    BY <1>1, TypesFacts, Zenon
  <2>4. /\ IsClass(r) /\ r.bound /\ r.exists /\ r.parent \in 0 .. c - 1
        /\ r.types = NoTypes \/ r.types = OwnTypes(r.types[1])
    BY <1>1, <2>2, <2>3, Zenon
  <2> QED BY <2>1, <2>4, Zenon DEF GoesBefore
<1>3. \A c \in {1, 9, 12} : GoesBefore(c)
  <2>1. \A c \in {1, 9, 12} : 0 \in 0 .. c - 1
    OBVIOUS
  <2> QED BY <1>1, <2>1, BoostMade, Zenon
<1>4. \A c \in {2, 3, 4, 5, 8} : GoesBefore(c)
  <2>1. \A c \in {2, 3, 4, 5, 8} : 1 \in 0 .. c - 1
    OBVIOUS
  <2> QED BY <1>1, <2>1, BoostMade, Zenon
<1>5. \A c \in {6, 7} : GoesBefore(c)
  <2>1. \A c \in {6, 7} : 5 \in 0 .. c - 1
    OBVIOUS
  <2> QED BY <1>1, <2>1, BoostMade, Zenon
<1>6. \A c \in {10, 11} : GoesBefore(c)
  <2>1. \A c \in {10, 11} : 9 \in 0 .. c - 1
    OBVIOUS
  <2> QED BY <1>1, <2>1, BoostMade, Zenon
<1>7. \A k \in 1 .. 7 : GoesBefore(12 + k)
  <2>1. \A k \in 1 .. 7 : 12 \in 0 .. (12 + k) - 1
    OBVIOUS
  <2> QED BY <1>1, <2>1, BoostMade, Zenon
<1>8. TAKE c \in 1 .. 19
<1>9. CASE c \in {1, 9, 12}
  BY <1>3, <1>9
<1>10. CASE c \in {2, 3, 4, 5, 6, 7, 8, 10, 11}
  BY <1>4, <1>5, <1>6, <1>10
<1>11. CASE \E k \in 1 .. 7 : c = 12 + k
  BY <1>7, <1>11
<1> QED BY <1>9, <1>10, <1>11, BoostNumbers

LEMMA InitMakes ==
  ASSUME InitClasses
  PROVE  ClassInv
<1>1. /\ classes = BoostClasses /\ Len(classes) = 19 /\ DOMAIN classes = 1 .. 19
  BY BoostClassesAre DEF InitClasses, BuiltIn
<1>2. Tree(classes)
  BY <1>1, BoostBefore DEF Tree, GoesBefore
<1>3. ASSUME NEW c \in 1 .. 19 PROVE Kept(classes[c], BoostClasses[c])
  <2>1. BoostClasses[c].types # NoTypes
          => Added(BoostClasses[c].types, BoostClasses[c].types[1])
    <3> SUFFICES ASSUME BoostClasses[c].types # NoTypes
                 PROVE  Added(BoostClasses[c].types, BoostClasses[c].types[1])
      OBVIOUS
    <3>1. PICK own : own = BoostClasses[c].types[1]
      OBVIOUS
    <3>2. BoostClasses[c].types = OwnTypes(own)
      BY <3>1, BoostBefore DEF GoesBefore
    <3>3. own \cup {} = own /\ {} \in SUBSET NewTypes
      OBVIOUS
    <3> QED BY <3>1, <3>2, <3>3 DEF Added
  <2> QED BY <1>1, <2>1, BoostBefore DEF Kept, GoesBefore
<1>4. ASSUME NEW c \in 1 .. 19, classes[c].parent # 0
      PROVE  classes[classes[c].parent].bound
  <2>1. classes[c].parent \in 1 .. 19
    BY <1>1, <1>4, BoostBefore DEF GoesBefore
  <2> QED BY <1>1, <2>1, BoostBefore DEF GoesBefore
<1>5. classes = [c \in 1 .. Len(classes) |-> classes[c]]
  BY <1>1, BoostClassesAre, Zenon
<1>6. \A c \in 1 .. Len(classes) :
        /\ IsClass(classes[c])
        /\ classes[c].bound => classes[c].exists
        /\ classes[c].parent # 0 => classes[classes[c].parent].bound
  BY <1>1, <1>4, BoostBefore DEF GoesBefore
<1>7. /\ Len(classes) >= 19
      /\ \A c \in 1 .. Len(classes) : c > 19 => Derives(classes[c])
  BY <1>1
<1> QED BY <1>2, <1>3, <1>5, <1>6, <1>7, Zenon DEF ClassInv, WellMade
-----------------------------------------------------------------------------
(* What the steps of a process do to its classes *)

\* A class as it was, but for types added to those of its own.
Grown(r, s) ==
  /\ IsClass(s)
  /\ s.parent = r.parent /\ s.family = r.family /\ s.bases = r.bases
  /\ s.bound = r.bound /\ s.exists = r.exists
  /\ s.types = r.types \/ (r.types # NoTypes /\ Added(s.types, r.types[1]))

Fresh(cs, r) ==
  /\ IsClass(r) /\ Derives(r) /\ r.exists
  /\ r.parent \in 1 .. Len(cs) /\ cs[r.parent].bound

Adds(cs, ds) ==
  /\ Len(ds) = Len(cs) + 1 /\ ds = [c \in 1 .. Len(ds) |-> ds[c]]
  /\ \A c \in 1 .. Len(cs) : Grown(cs[c], ds[c])
  /\ Fresh(cs, ds[Len(cs) + 1])

Lost(r, s) ==
  /\ IsClass(s)
  /\ s.parent = r.parent /\ s.family = r.family /\ s.bases = r.bases
  /\ s.bound = r.bound /\ s.types = r.types /\ ~s.exists

Loses(cs, ds, c) ==
  /\ Len(ds) = Len(cs) /\ ds = [d \in 1 .. Len(ds) |-> ds[d]]
  /\ c \in 1 .. Len(cs) /\ ~cs[c].bound /\ Lost(cs[c], ds[c])
  /\ \A d \in 1 .. Len(cs) : d # c => ds[d] = cs[d]

LEMMA ClassChanges ==
  ASSUME NEW r, IsClass(r), NEW x
  PROVE  /\ [r EXCEPT !.types = x] = [parent |-> r.parent, family |-> r.family,
              bases |-> r.bases, types |-> x, bound |-> r.bound, exists |-> r.exists]
         /\ [r EXCEPT !.bound = x] = [parent |-> r.parent, family |-> r.family,
              bases |-> r.bases, types |-> r.types, bound |-> x, exists |-> r.exists]
         /\ [r EXCEPT !.exists = x] = [parent |-> r.parent, family |-> r.family,
              bases |-> r.bases, types |-> r.types, bound |-> r.bound, exists |-> x]
BY DEF IsClass

ClassOf(r, parent, family, bases, types, bound, exists) ==
  /\ IsClass(r)
  /\ r.parent = parent /\ r.family = family /\ r.bases = bases /\ r.types = types
  /\ r.bound = bound /\ r.exists = exists

LEMMA ClassOfRecord ==
  ASSUME NEW r, NEW p, NEW f, NEW b, NEW t, NEW n, NEW e,
         r = [parent |-> p, family |-> f, bases |-> b, types |-> t, bound |-> n,
              exists |-> e]
  PROVE  ClassOf(r, p, f, b, t, n, e)
BY DEF ClassOf, IsClass

LEMMA ClassChanged ==
  ASSUME NEW r, NEW p, NEW f, NEW b, NEW t, NEW n, NEW e,
         ClassOf(r, p, f, b, t, n, e), NEW x
  PROVE  /\ ClassOf([r EXCEPT !.types = x], p, f, b, x, n, e)
         /\ ClassOf([r EXCEPT !.bound = x], p, f, b, t, x, e)
         /\ ClassOf([r EXCEPT !.exists = x], p, f, b, t, n, x)
<1>1. IsClass(r) /\ r.parent = p /\ r.family = f /\ r.bases = b /\ r.types = t
      /\ r.bound = n /\ r.exists = e
  BY DEF ClassOf
<1> QED BY <1>1, ClassChanges, ClassOfRecord

LEMMA TypesChanged ==
  ASSUME NEW r, NEW p, NEW f, NEW b, NEW t, NEW n, NEW e,
         ClassOf(r, p, f, b, t, n, e), NEW x, NEW s, s = [r EXCEPT !.types = x]
  PROVE  ClassOf(s, p, f, b, x, n, e)
BY ClassChanged, Zenon

LEMMA BoundChanged ==
  ASSUME NEW r, NEW p, NEW f, NEW b, NEW t, NEW n, NEW e,
         ClassOf(r, p, f, b, t, n, e), NEW x, NEW s, s = [r EXCEPT !.bound = x]
  PROVE  ClassOf(s, p, f, b, t, x, e)
BY ClassChanged, Zenon

LEMMA ExistsChanged ==
  ASSUME NEW r, NEW p, NEW f, NEW b, NEW t, NEW n, NEW e,
         ClassOf(r, p, f, b, t, n, e), NEW x, NEW s, s = [r EXCEPT !.exists = x]
  PROVE  ClassOf(s, p, f, b, t, n, x)
BY ClassChanged, Zenon

LEMMA ClassItself ==
  ASSUME NEW r, IsClass(r)
  PROVE  ClassOf(r, r.parent, r.family, r.bases, r.types, r.bound, r.exists)
BY DEF ClassOf

-----------------------------------------------------------------------------
(* A class statement *)

\* One of the classes changes.
ChangedAt(cs, ds, n, at, r) ==
  /\ ds = [c \in 1 .. n |-> ds[c]] /\ ds[at] = r
  /\ \A c \in 1 .. n : c # at => ds[c] = cs[c]

LEMMA TypesChangedAt ==
  ASSUME NEW n, NEW cs, cs = [c \in 1 .. n |-> cs[c]], NEW at \in 1 .. n,
         NEW x, NEW ds, ds = [cs EXCEPT ![at].types = x]
  PROVE  ChangedAt(cs, ds, n, at, [cs[at] EXCEPT !.types = x])
BY DEF ChangedAt

LEMMA BoundChangedAt ==
  ASSUME NEW n, NEW cs, cs = [c \in 1 .. n |-> cs[c]], NEW at \in 1 .. n,
         NEW ds, ds = [cs EXCEPT ![at].bound = FALSE]
  PROVE  ChangedAt(cs, ds, n, at, [cs[at] EXCEPT !.bound = FALSE])
BY DEF ChangedAt

LEMMA ExistsChangedAt ==
  ASSUME NEW n, NEW cs, cs = [c \in 1 .. n |-> cs[c]], NEW at \in 1 .. n,
         NEW x, NEW ds, ds = [cs EXCEPT ![at].exists = x]
  PROVE  ChangedAt(cs, ds, n, at, [cs[at] EXCEPT !.exists = x])
BY DEF ChangedAt

\* The classes before one of them is registered.
OneMore(cs, ds, n, p, family) ==
  /\ Len(ds) = n + 1 /\ DOMAIN ds = 1 .. n + 1
  /\ ds = [c \in 1 .. n + 1 |-> ds[c]]
  /\ \A c \in 1 .. n : ds[c] = cs[c]
  /\ ClassOf(ds[n + 1], p, family, {}, NoTypes, TRUE, TRUE)
  /\ p \in 1 .. n /\ cs[p].bound

LEMMA DerivedIs ==
  ASSUME ClassInv, NEW p, CanDerive(p), NEW family, NEW cs, cs = Derived(p, family),
         NEW n \in Nat, n = Len(classes)
  PROVE  OneMore(classes, cs, n, p, family)
<1>1. classes = [c \in 1 .. n |-> classes[c]] /\ DOMAIN classes = 1 .. n
  BY DEF ClassInv, WellMade, Tree
<1>2. PICK r : r = MakeClass(p, family, {}, NoTypes)
  OBVIOUS
<1>3. PICK T : T = ToSet(classes) \cup {r}
  OBVIOUS
<1>4. classes \in Seq(T) /\ r \in T
  <2>1. classes \in Seq(ToSet(classes))
    BY <1>1, FunctionIsSequence
  <2> QED BY <1>3, <2>1, SeqMonotonic
<1>5. cs = Append(classes, r)
  BY <1>2 DEF Derived
<1>6. /\ cs \in Seq(T) /\ Len(cs) = n + 1
      /\ \A c \in 1 .. n : cs[c] = classes[c]
      /\ cs[n + 1] = r
  BY <1>4, <1>5, AppendProperties
<1>7. PICK m \in Nat : cs \in [1 .. m -> T]
  BY <1>6, SeqDef
<1>8. DOMAIN cs = 1 .. m /\ cs = [c \in 1 .. m |-> cs[c]]
  BY <1>7
<1>9. DOMAIN cs = 1 .. n + 1
  BY <1>6, LenProperties
<1>10. cs = [c \in 1 .. n + 1 |-> cs[c]]
  BY <1>8, <1>9, Zenon
<1>11. ClassOf(cs[n + 1], p, family, {}, NoTypes, TRUE, TRUE)
  BY <1>2, <1>6, ClassOfRecord DEF MakeClass
<1> QED BY <1>1, <1>6, <1>9, <1>10, <1>11 DEF CanDerive, OneMore

LEMMA GrownItself ==
  ASSUME NEW r, IsClass(r)
  PROVE  Grown(r, r)
BY DEF Grown

LEMMA GrownTypes ==
  ASSUME NEW r, IsClass(r), r.types # NoTypes, NEW ts \in SUBSET NewTypes,
         NEW s, s = [r EXCEPT !.types = OwnTypes(r.types[1] \cup ts)]
  PROVE  Grown(r, s)
<1>1. PICK x : x = OwnTypes(r.types[1] \cup ts)
  OBVIOUS
<1>2. ClassOf(s, r.parent, r.family, r.bases, x, r.bound, r.exists)
  BY <1>1, ClassChanged, ClassItself
<1>3. Added(x, r.types[1])
  BY <1>1 DEF Added
<1> QED BY <1>2, <1>3 DEF ClassOf, Grown

LEMMA DerivedTree ==
  ASSUME ClassInv, NEW p, CanDerive(p), NEW family, NEW cs, cs = Derived(p, family)
  PROVE  Tree(cs)
<1>1. PICK n \in Nat : n = Len(classes)
  BY DEF ClassInv, WellMade, Tree
<1>2. /\ Len(cs) = n + 1 /\ DOMAIN cs = 1 .. n + 1
      /\ \A c \in 1 .. n : cs[c] = classes[c]
      /\ cs[n + 1].parent = p /\ p \in 1 .. n
  <2>1. OneMore(classes, cs, n, p, family)
    BY <1>1, DerivedIs
  <2> QED BY <2>1 DEF ClassOf, OneMore
<1>3. \A c \in 1 .. n : classes[c].parent \in 0 .. c - 1
  BY <1>1 DEF ClassInv, WellMade, Tree
<1>4. ASSUME NEW c \in 1 .. n + 1 PROVE cs[c].parent \in 0 .. c - 1
  <2>1. CASE c = n + 1
    BY <1>2, <2>1
  <2>2. CASE c # n + 1
    <3>1. c \in 1 .. n
      BY <2>2
    <3> QED BY <1>2, <1>3, <3>1, Zenon
  <2> QED BY <2>1, <2>2
<1> QED BY <1>2, <1>4 DEF Tree

LEMMA DeriveAdds ==
  ASSUME ClassInv, NEW p, NEW family, Derive(p, family)
  PROVE  Adds(classes, classes')
<1>1. PICK n \in Nat : n = Len(classes)
  BY DEF ClassInv, WellMade, Tree
<1>2. PICK cs : cs = Derived(p, family)
  OBVIOUS
<1>3. CanDerive(p) /\ classes' = cs
  BY <1>2 DEF Derive
<1>4. /\ Len(cs) = n + 1 /\ cs = [c \in 1 .. n + 1 |-> cs[c]]
      /\ \A c \in 1 .. n : cs[c] = classes[c]
      /\ ClassOf(cs[n + 1], p, family, {}, NoTypes, TRUE, TRUE)
      /\ p \in 1 .. n /\ classes[p].bound
  <2>1. OneMore(classes, cs, n, p, family)
    BY <1>1, <1>2, <1>3, DerivedIs
  <2> QED BY <2>1 DEF OneMore
<1>5. ASSUME NEW c \in 1 .. n PROVE Grown(classes[c], cs[c])
  <2>1. IsClass(classes[c])
    BY <1>1 DEF ClassInv, WellMade
  <2> QED BY <1>4, <2>1, GrownItself
<1>6. Fresh(classes, cs[n + 1])
  <2>1. p # 0
    BY <1>4
  <2> QED BY <1>1, <1>4, <2>1, Zenon DEF Fresh, ClassOf, Derives
<1>7. Adds(classes, cs)
  <2>1. cs = [c \in 1 .. Len(cs) |-> cs[c]]
    BY <1>4, Zenon
  <2> QED BY <1>1, <1>4, <1>5, <1>6, <2>1 DEF Adds
<1> QED BY <1>3, <1>7

\* A class that registers types in a set of its own.
LEMMA OwnSetAdds ==
  ASSUME ClassInv, NEW p, CanDerive(p), NEW family, NEW ts \in SUBSET NewTypes,
         NEW cs, cs = Derived(p, family),
         NEW ds, ds = [cs EXCEPT ![Newest].types = OwnTypes(ts)]
  PROVE  Adds(classes, ds)
<1>1. PICK n \in Nat : n = Len(classes)
  BY DEF ClassInv, WellMade, Tree
<1>2. /\ Len(cs) = n + 1 /\ cs = [c \in 1 .. n + 1 |-> cs[c]]
      /\ \A c \in 1 .. n : cs[c] = classes[c]
      /\ ClassOf(cs[n + 1], p, family, {}, NoTypes, TRUE, TRUE)
      /\ p \in 1 .. n /\ classes[p].bound /\ DOMAIN cs = 1 .. n + 1
  <2>1. OneMore(classes, cs, n, p, family)
    BY <1>1, DerivedIs
  <2> QED BY <2>1 DEF OneMore
<1>3. /\ \A c \in 1 .. n : ds[c] = cs[c]
      /\ ds[n + 1] = [cs[n + 1] EXCEPT !.types = OwnTypes(ts)]
      /\ ds = [c \in 1 .. n + 1 |-> ds[c]]
  <2>1. n + 1 \in 1 .. n + 1 /\ Newest = n + 1
    BY <1>1 DEF Newest
  <2>2. ChangedAt(cs, ds, n + 1, n + 1, [cs[n + 1] EXCEPT !.types = OwnTypes(ts)])
    BY <1>2, <2>1, TypesChangedAt, Zenon
  <2>3. \A c \in 1 .. n : c # n + 1 /\ c \in 1 .. n + 1
    OBVIOUS
  <2> QED BY <2>2, <2>3, Zenon DEF ChangedAt
<1>4. ASSUME NEW c \in 1 .. n PROVE Grown(classes[c], ds[c])
  <2>1. IsClass(classes[c])
    BY <1>1 DEF ClassInv, WellMade
  <2> QED BY <1>2, <1>3, <2>1, GrownItself
<1>5. PICK x : x = OwnTypes(ts)
  OBVIOUS
<1>6. ClassOf(ds[n + 1], p, family, {}, x, TRUE, TRUE)
  <2>1. ds[n + 1] = [cs[n + 1] EXCEPT !.types = x]
    BY <1>3, <1>5, Zenon
  <2> QED BY <1>2, <2>1, TypesChanged, Zenon
<1>7. Added(x, {})
  <2>1. {} \cup ts = ts
    OBVIOUS
  <2> QED BY <1>5, <2>1 DEF Added
<1>8. Fresh(classes, ds[n + 1])
  BY <1>1, <1>2, <1>6, <1>7 DEF Fresh, ClassOf, Derives
<1>9. Len(ds) = n + 1
  BY <1>3, FunctionIsSequence
<1>10. ds = [c \in 1 .. Len(ds) |-> ds[c]]
  BY <1>3, <1>9, Zenon
<1> QED BY <1>1, <1>4, <1>8, <1>9, <1>10 DEF Adds

\* A class that registers types in a set that it inherits, or fails to.
Enlarges(cs, ds, h, ts) ==
  LET es == [cs EXCEPT ![h].types = OwnTypes(cs[h].types[1] \cup ts)]
  IN ds = es \/ ds = [es EXCEPT ![Newest].bound = FALSE]

LEMMA InheritedSetAdds ==
  ASSUME ClassInv, NEW p, CanDerive(p), NEW family, NEW ts \in SUBSET NewTypes,
         NEW cs, cs = Derived(p, family), NEW h \in 1 .. Len(classes),
         cs[h].types # NoTypes, NEW ds, Enlarges(cs, ds, h, ts)
  PROVE  Adds(classes, ds)
<1>10. PICK types : types = OwnTypes(cs[h].types[1] \cup ts)
  OBVIOUS
<1>11. PICK es : es = [cs EXCEPT ![h].types = types]
  OBVIOUS
<1>12. ds = es \/ ds = [es EXCEPT ![Newest].bound = FALSE]
  BY <1>10, <1>11, Zenon DEF Enlarges
<1>1. PICK n \in Nat : n = Len(classes)
  BY DEF ClassInv, WellMade, Tree
<1>2. /\ Len(cs) = n + 1 /\ cs = [c \in 1 .. n + 1 |-> cs[c]]
      /\ \A c \in 1 .. n : cs[c] = classes[c]
      /\ ClassOf(cs[n + 1], p, family, {}, NoTypes, TRUE, TRUE)
      /\ p \in 1 .. n /\ classes[p].bound /\ DOMAIN cs = 1 .. n + 1
  <2>1. OneMore(classes, cs, n, p, family)
    BY <1>1, DerivedIs
  <2> QED BY <2>1 DEF OneMore
<1>3. /\ \A c \in 1 .. n : c # h => es[c] = cs[c]
      /\ es[n + 1] = cs[n + 1]
      /\ es[h] = [cs[h] EXCEPT !.types = types]
      /\ es = [c \in 1 .. n + 1 |-> es[c]]
  <2>1. /\ h \in 1 .. n + 1 /\ n + 1 \in 1 .. n + 1 /\ n + 1 # h
        /\ \A c \in 1 .. n : c \in 1 .. n + 1
    BY <1>1
  <2>2. ChangedAt(cs, es, n + 1, h, [cs[h] EXCEPT !.types = types])
    <3>1. h \in 1 .. n + 1
      BY <2>1
    <3>2. cs = [c \in 1 .. n + 1 |-> cs[c]]
      BY <1>2
    <3> QED BY <1>11, <3>1, <3>2, TypesChangedAt, Zenon
  <2> QED BY <2>1, <2>2, Zenon DEF ChangedAt
<1>4. /\ \A c \in 1 .. n : ds[c] = es[c]
      /\ ds[n + 1] = es[n + 1] \/ ds[n + 1] = [es[n + 1] EXCEPT !.bound = FALSE]
      /\ ds = [c \in 1 .. n + 1 |-> ds[c]]
  <2>1. CASE ds = es
    BY <1>3, <2>1, Zenon
  <2>2. CASE ds = [es EXCEPT ![Newest].bound = FALSE]
    <3>1. n + 1 \in 1 .. n + 1 /\ Newest = n + 1
      BY <1>1 DEF Newest
    <3>2. ChangedAt(es, ds, n + 1, n + 1, [es[n + 1] EXCEPT !.bound = FALSE])
      <4>1. ds = [es EXCEPT ![n + 1].bound = FALSE]
        BY <2>2, <3>1, Zenon
      <4>2. n + 1 \in 1 .. n + 1
        BY <3>1
      <4>3. es = [c \in 1 .. n + 1 |-> es[c]]
        BY <1>3
      <4> QED BY <4>1, <4>2, <4>3, BoundChangedAt, Zenon
    <3>3. \A c \in 1 .. n : c # n + 1 /\ c \in 1 .. n + 1
      OBVIOUS
    <3> QED BY <3>2, <3>3, Zenon DEF ChangedAt
  <2> QED BY <1>12, <2>1, <2>2
<1>5. ASSUME NEW c \in 1 .. n PROVE Grown(classes[c], ds[c])
  <2>1. IsClass(classes[c])
    BY <1>1 DEF ClassInv, WellMade
  <2>2. CASE c # h
    BY <1>2, <1>3, <1>4, <2>1, <2>2, GrownItself
  <2>3. CASE c = h
    <3>1. classes[c] = cs[h] /\ ds[c] = [cs[h] EXCEPT !.types = types]
      BY <1>2, <1>3, <1>4, <2>3, Zenon
    <3>2. ds[c] = [cs[h] EXCEPT !.types = OwnTypes(cs[h].types[1] \cup ts)]
      BY <1>10, <3>1, Zenon
    <3> QED BY <2>1, <3>1, <3>2, GrownTypes, Zenon
  <2> QED BY <2>2, <2>3
<1>6. \E b : ClassOf(ds[n + 1], p, family, {}, NoTypes, b, TRUE)
  <2>1. PICK r : r = es[n + 1]
    OBVIOUS
  <2>2. ClassOf(r, p, family, {}, NoTypes, TRUE, TRUE)
    BY <1>2, <1>3, <2>1, Zenon
  <2>3. CASE ds[n + 1] = r
    BY <2>2, <2>3
  <2>4. CASE ds[n + 1] = [r EXCEPT !.bound = FALSE]
    <3>1. ClassOf(ds[n + 1], p, family, {}, NoTypes, FALSE, TRUE)
      BY <2>2, <2>4, BoundChanged, Zenon
    <3> QED BY <3>1, Zenon
  <2> QED BY <1>4, <2>1, <2>3, <2>4, Zenon
<1>7. Fresh(classes, ds[n + 1])
  BY <1>1, <1>2, <1>6 DEF Fresh, ClassOf, Derives
<1>8. Len(ds) = n + 1
  BY <1>4, FunctionIsSequence
<1>9. ds = [c \in 1 .. Len(ds) |-> ds[c]]
  BY <1>4, <1>8, Zenon
<1> QED BY <1>1, <1>5, <1>7, <1>8, <1>9 DEF Adds

\* What is known of one class: it comes from boost_histogram or derives, and
\* its parent comes before it and has a name.
LEMMA OneClass ==
  ASSUME NEW cs, WellMade(cs), NEW c \in 1 .. Len(cs)
  PROVE  /\ c <= 19 => c \in 1 .. 19 /\ Kept(cs[c], BoostClasses[c])
         /\ c > 19 => Derives(cs[c])
         /\ c <= 19 \/ c > 19
         /\ cs[c].bound => cs[c].exists
         /\ cs[c].parent # 0 => cs[c].parent \in 1 .. Len(cs) /\ cs[cs[c].parent].bound
<1>1. /\ Len(cs) \in Nat /\ cs[c].parent \in 0 .. c - 1
      /\ \A d \in 1 .. 19 : Kept(cs[d], BoostClasses[d])
      /\ c > 19 => Derives(cs[c])
      /\ cs[c].bound => cs[c].exists
      /\ cs[c].parent # 0 => cs[cs[c].parent].bound
  BY Zenon DEF WellMade, Tree
<1>2. /\ c <= 19 => c \in 1 .. 19
      /\ c <= 19 \/ c > 19
      /\ cs[c].parent # 0 => cs[c].parent \in 1 .. Len(cs)
  <2>1. \A n \in Nat : \A k \in 1 .. n : \A p \in 0 .. k - 1 :
          /\ k <= 19 => k \in 1 .. 19
          /\ k <= 19 \/ k > 19
          /\ p # 0 => p \in 1 .. n
    OBVIOUS
  <2> QED BY <1>1, <2>1, Zenon
<1> QED BY <1>1, <1>2, Zenon

\* A class has its types as a set, if it has any.
LEMMA HasTypes ==
  ASSUME NEW cs, WellMade(cs), NEW c \in 1 .. Len(cs), cs[c].types # NoTypes
  PROVE  \E ts : cs[c].types = OwnTypes(ts)
<1>1. CASE c <= 19
  <2>1. Kept(cs[c], BoostClasses[c])
    BY <1>1, OneClass, Zenon
  <2>2. Added(cs[c].types, BoostClasses[c].types[1])
    BY <2>1, Zenon DEF Kept
  <2> QED BY <2>2, Zenon DEF Added
<1>2. CASE c > 19
  <2>1. Derives(cs[c])
    BY <1>2, OneClass, Zenon
  <2> QED BY <2>1, Zenon DEF Derives, Added
<1> QED BY <1>1, <1>2, OneClass, Zenon

LEMMA RegisteredAdds ==
  ASSUME ClassInv, NEW p, NEW family, NEW ts \in SUBSET NewTypes,
         DeriveRegistered(p, family, ts)
  PROVE  Adds(classes, classes')
<1>1. PICK n \in Nat : n = Len(classes)
  BY DEF ClassInv, WellMade, Tree
<1>2. PICK cs : cs = Derived(p, family)
  OBVIOUS
<1>3. CanDerive(p)
  BY DEF DeriveRegistered
<1>4. PICK h : h = Holder(cs)[Newest]
  OBVIOUS
<1>5. PICK held : held = IF h = NoClass THEN {} ELSE cs[h].types[1]
  OBVIOUS
<1>6. PICK at : at = IF h = NoClass THEN Newest ELSE h
  OBVIOUS
<1>7. \/ /\ ts \cap held = {}
         /\ classes' = [cs EXCEPT ![at].types = OwnTypes(held \cup ts)]
      \/ /\ ts \cap held # {}
         /\ \E added \in SUBSET (ts \ held) :
              classes' = [cs EXCEPT ![at].types = OwnTypes(held \cup added),
                                    ![Newest].bound = FALSE]
  BY <1>2, <1>4, <1>5, <1>6, Zenon DEF DeriveRegistered
<1>8. /\ Len(cs) = n + 1 /\ cs = [c \in 1 .. n + 1 |-> cs[c]]
      /\ \A c \in 1 .. n : cs[c] = classes[c]
      /\ cs[n + 1].types = NoTypes
      /\ Tree(cs) /\ Newest = n + 1
  <2>1. Tree(cs)
    BY <1>2, <1>3, DerivedTree
  <2>2. /\ Len(cs) = n + 1 /\ cs = [c \in 1 .. n + 1 |-> cs[c]]
        /\ \A c \in 1 .. n : cs[c] = classes[c]
        /\ ClassOf(cs[n + 1], p, family, {}, NoTypes, TRUE, TRUE)
    <3>1. OneMore(classes, cs, n, p, family)
      BY <1>1, <1>2, <1>3, DerivedIs
    <3> QED BY <3>1 DEF OneMore
  <2>3. cs[n + 1].types = NoTypes
    BY <2>2 DEF ClassOf
  <2> QED BY <1>1, <2>1, <2>2, <2>3 DEF Newest
<1>9. CASE h = NoClass
  <2>1. held = {} /\ at = Newest
    BY <1>5, <1>6, <1>9
  <2>2. PICK own : own = OwnTypes(ts)
    OBVIOUS
  <2>3. ts \cap held = {} /\ held \cup ts = ts
    BY <2>1
  <2>4. classes' = [cs EXCEPT ![Newest].types = OwnTypes(ts)]
    BY <1>7, <2>1, <2>3, Zenon
  <2> QED BY <1>2, <1>3, <2>4, OwnSetAdds
<1>10. CASE h # NoClass
  <2>1. h \in 1 .. n + 1 /\ cs[h].types # NoTypes
    <3>1. n + 1 \in 1 .. Len(cs)
      BY <1>8
    <3> QED BY <1>4, <1>8, <1>10, <3>1, HolderFound DEF NoClass
  <2>2. h \in 1 .. n
    <3>1. h # n + 1
      BY <1>8, <2>1
    <3> QED BY <2>1, <3>1
  <2>3. held = cs[h].types[1] /\ at = h
    BY <1>5, <1>6, <1>10
  <2>4. PICK us \in SUBSET NewTypes :
          \/ classes' = [cs EXCEPT ![h].types = OwnTypes(cs[h].types[1] \cup us)]
          \/ classes' = [cs EXCEPT ![h].types = OwnTypes(cs[h].types[1] \cup us),
                                   ![Newest].bound = FALSE]
    <3>1. CASE /\ ts \cap held = {}
               /\ classes' = [cs EXCEPT ![at].types = OwnTypes(held \cup ts)]
      BY <2>3, <3>1, Zenon
    <3>2. CASE \E added \in SUBSET (ts \ held) :
                 classes' = [cs EXCEPT ![at].types = OwnTypes(held \cup added),
                                       ![Newest].bound = FALSE]
      <4>1. PICK added \in SUBSET (ts \ held) :
               classes' = [cs EXCEPT ![at].types = OwnTypes(held \cup added),
                                     ![Newest].bound = FALSE]
        BY <3>2
      <4>2. added \in SUBSET NewTypes
        OBVIOUS
      <4> QED BY <2>3, <4>1, <4>2, Zenon
    <3> QED BY <1>7, <3>1, <3>2
  <2>7. h \in 1 .. Len(classes)
    BY <1>1, <2>2
  <2>8. PICK ds : ds = classes'
    OBVIOUS
  <2>9. Enlarges(cs, ds, h, us)
    BY <2>4, <2>8, Zenon DEF Enlarges
  <2>10. Adds(classes, ds)
    BY <1>2, <1>3, <2>1, <2>7, <2>9, InheritedSetAdds, Zenon
  <2> QED BY <2>8, <2>10
<1> QED BY <1>9, <1>10

LEMMA HiddenAdds ==
  ASSUME ClassInv, NEW p, NEW family, DeriveHidden(p, family)
  PROVE  Adds(classes, classes')
<1>1. PICK cs : cs = Derived(p, family)
  OBVIOUS
<1>2. PICK ds : ds = classes'
  OBVIOUS
<1>3. CanDerive(p) /\ ds = [cs EXCEPT ![Newest].types = OwnTypes({})]
  BY <1>1, <1>2, Zenon DEF DeriveHidden
<1>4. {} \in SUBSET NewTypes
  OBVIOUS
<1>5. Adds(classes, ds)
  BY <1>1, <1>3, <1>4, OwnSetAdds, Zenon
<1> QED BY <1>2, <1>5

LEMMA StatementAdds ==
  ASSUME ClassInv, ClassStatement
  PROVE  Adds(classes, classes')
<1>1. PICK p \in LibraryClasses, family \in Libraries \cup {Main} :
         \/ Derive(p, family)
         \/ DeriveHidden(p, family)
         \/ \E ts \in (SUBSET NewTypes) \ {{}} : DeriveRegistered(p, family, ts)
  BY DEF ClassStatement
<1>2. CASE Derive(p, family)
  BY <1>2, DeriveAdds
<1>3. CASE DeriveHidden(p, family)
  BY <1>3, HiddenAdds
<1>4. CASE \E ts \in (SUBSET NewTypes) \ {{}} : DeriveRegistered(p, family, ts)
  <2>1. PICK ts \in SUBSET NewTypes : DeriveRegistered(p, family, ts)
    BY <1>4
  <2> QED BY <2>1, RegisteredAdds
<1> QED BY <1>1, <1>2, <1>3, <1>4

LEMMA CollectLoses ==
  ASSUME ClassInv, NEW c \in DOMAIN classes, Collect(c)
  PROVE  Loses(classes, classes', c)
<1>1. PICK n \in Nat : n = Len(classes)
  BY DEF ClassInv, WellMade, Tree
<1>2. /\ classes = [d \in 1 .. n |-> classes[d]] /\ DOMAIN classes = 1 .. n
      /\ IsClass(classes[c])
  BY <1>1 DEF ClassInv, WellMade, Tree
<1>3. PICK ds : ds = [classes EXCEPT ![c].exists = FALSE]
  OBVIOUS
<1>4. /\ \A d \in 1 .. n : d # c => ds[d] = classes[d]
      /\ ds[c] = [classes[c] EXCEPT !.exists = FALSE]
      /\ ds = [d \in 1 .. n |-> ds[d]]
  <2>1. ChangedAt(classes, ds, n, c, [classes[c] EXCEPT !.exists = FALSE])
    BY <1>2, <1>3, ExistsChangedAt, Zenon
  <2> QED BY <2>1, Zenon DEF ChangedAt
<1>5. PICK r : r = classes[c]
  OBVIOUS
<1>6. ClassOf(ds[c], r.parent, r.family, r.bases, r.types, r.bound, FALSE)
  <2>1. ClassOf(r, r.parent, r.family, r.bases, r.types, r.bound, r.exists)
    BY <1>2, <1>5, ClassItself
  <2> QED BY <1>4, <1>5, <2>1, ExistsChanged, Zenon
<1>7. Lost(classes[c], ds[c])
  BY <1>5, <1>6 DEF Lost, ClassOf
<1>8. Len(ds) = n /\ ds = [d \in 1 .. Len(ds) |-> ds[d]]
  <2>1. Len(ds) = n
    BY <1>4, FunctionIsSequence
  <2> QED BY <1>4, <2>1, Zenon
<1>9. ~classes[c].bound /\ classes' = ds
  BY <1>3 DEF Collect
<1>10. Loses(classes, ds, c)
  BY <1>1, <1>2, <1>4, <1>7, <1>8, <1>9 DEF Loses
<1> QED BY <1>9, <1>10

-----------------------------------------------------------------------------
(* The classes of a process are always well made *)

LEMMA AddedMore ==
  ASSUME NEW own, NEW x, Added(x, own), NEW y, Added(y, x[1])
  PROVE  Added(y, own)
<1>1. PICK ts \in SUBSET NewTypes : x = OwnTypes(own \cup ts)
  BY DEF Added
<1>2. PICK us \in SUBSET NewTypes : y = OwnTypes(x[1] \cup us)
  BY DEF Added
<1>3. x[1] = own \cup ts
  BY <1>1, TypesFacts
<1>4. x[1] \cup us = own \cup (ts \cup us) /\ ts \cup us \in SUBSET NewTypes
  BY <1>3
<1>5. y = OwnTypes(own \cup (ts \cup us))
  BY <1>2, <1>4, Zenon
<1> QED BY <1>4, <1>5, Zenon DEF Added

LEMMA KeptGrown ==
  ASSUME NEW r, NEW b, Kept(r, b), NEW s, Grown(r, s)
  PROVE  Kept(s, b)
<1>1. /\ s.parent = b.parent /\ s.family = b.family /\ s.bases = b.bases
      /\ s.bound
  BY DEF Kept, Grown
<1>2. CASE b.types = NoTypes
  BY <1>1, <1>2 DEF Kept, Grown
<1>3. CASE b.types # NoTypes
  <2>1. Added(r.types, b.types[1])
    BY <1>3, Zenon DEF Kept
  <2>2. Added(s.types, b.types[1])
    BY <2>1, AddedMore, Zenon DEF Grown
  <2> QED BY <1>1, <1>3, <2>2, Zenon DEF Kept
<1> QED BY <1>2, <1>3

LEMMA DerivesGrown ==
  ASSUME NEW r, Derives(r), NEW s, Grown(r, s)
  PROVE  Derives(s)
<1>1. s.parent # 0 /\ s.bases = {}
  BY DEF Derives, Grown
<1>2. s.types = NoTypes \/ Added(s.types, {})
  BY AddedMore, Zenon DEF Derives, Grown
<1> QED BY <1>1, <1>2 DEF Derives

LEMMA AddsWellMade ==
  ASSUME NEW cs, WellMade(cs), NEW ds, Adds(cs, ds)
  PROVE  WellMade(ds)
<1>1. PICK n \in Nat : n = Len(cs) /\ n >= 19
  BY DEF WellMade, Tree
<1>2. /\ Len(ds) = n + 1 /\ ds = [c \in 1 .. Len(ds) |-> ds[c]]
      /\ \A c \in 1 .. n : Grown(cs[c], ds[c])
      /\ Fresh(cs, ds[n + 1])
  BY <1>1 DEF Adds
<1>3. /\ ds[n + 1].parent \in 1 .. n
      /\ cs[ds[n + 1].parent].bound
      /\ IsClass(ds[n + 1]) /\ Derives(ds[n + 1]) /\ ds[n + 1].exists
  BY <1>1, <1>2 DEF Fresh
<1>4. \A c \in 1 .. n : /\ cs[c].parent \in 0 .. c - 1
                        /\ ds[c].parent = cs[c].parent
                        /\ ds[c].bound = cs[c].bound
                        /\ ds[c].exists = cs[c].exists
                        /\ IsClass(ds[c])
  BY <1>1, <1>2 DEF WellMade, Tree, Grown
<1>5. Tree(ds)
  <2>1. DOMAIN ds = 1 .. n + 1
    BY <1>2, Zenon
  <2>2. ASSUME NEW c \in 1 .. n + 1 PROVE ds[c].parent \in 0 .. c - 1
    <3>1. CASE c = n + 1
      BY <1>3, <3>1
    <3>2. CASE c # n + 1
      BY <1>4, <3>2
    <3> QED BY <3>1, <3>2
  <2> QED BY <1>2, <2>1, <2>2 DEF Tree
<1>6. ASSUME NEW c \in 1 .. 19 PROVE Kept(ds[c], BoostClasses[c])
  <2>1. Kept(cs[c], BoostClasses[c])
    BY Zenon DEF WellMade
  <2>2. Grown(cs[c], ds[c])
    BY <1>1, <1>2
  <2> QED BY <2>1, <2>2, KeptGrown
<1>7. ASSUME NEW c \in 1 .. n + 1, c > 19 PROVE Derives(ds[c])
  <2>1. CASE c = n + 1
    BY <1>3, <2>1
  <2>2. CASE c # n + 1
    <3>1. Derives(cs[c]) /\ Grown(cs[c], ds[c])
      BY <1>1, <1>2, <1>7, <2>2, OneClass
    <3> QED BY <3>1, DerivesGrown
  <2> QED BY <2>1, <2>2
<1>8. ASSUME NEW c \in 1 .. n + 1
      PROVE  /\ IsClass(ds[c])
             /\ ds[c].bound => ds[c].exists
             /\ ds[c].parent # 0 => ds[ds[c].parent].bound
  <2>1. CASE c = n + 1
    BY <1>3, <1>4, <2>1
  <2>2. CASE c # n + 1
    <3>1. c \in 1 .. n
      BY <2>2
    <3>2. /\ cs[c].bound => cs[c].exists
          /\ cs[c].parent # 0 => cs[cs[c].parent].bound
      BY <1>1, <3>1 DEF WellMade
    <3>3. cs[c].parent # 0 => cs[c].parent \in 1 .. n
      BY <1>4, <3>1
    <3> QED BY <1>4, <3>1, <3>2, <3>3
  <2> QED BY <2>1, <2>2
<1> QED BY <1>1, <1>2, <1>5, <1>6, <1>7, <1>8 DEF WellMade

LEMMA LosesWellMade ==
  ASSUME NEW cs, WellMade(cs), NEW ds, NEW l, Loses(cs, ds, l)
  PROVE  WellMade(ds)
<1>1. PICK n \in Nat : n = Len(cs) /\ n >= 19
  BY DEF WellMade, Tree
<1>2. /\ Len(ds) = n /\ ds = [c \in 1 .. Len(ds) |-> ds[c]]
      /\ l \in 1 .. n /\ ~cs[l].bound /\ Lost(cs[l], ds[l])
      /\ \A c \in 1 .. n : c # l => ds[c] = cs[c]
  BY <1>1 DEF Loses
<1>3. \A c \in 1 .. n : /\ cs[c].parent \in 0 .. c - 1
                        /\ ds[c].parent = cs[c].parent
                        /\ ds[c].family = cs[c].family
                        /\ ds[c].bases = cs[c].bases
                        /\ ds[c].types = cs[c].types
                        /\ ds[c].bound = cs[c].bound
                        /\ c # l => ds[c].exists = cs[c].exists
                        /\ IsClass(ds[c])
  BY <1>1, <1>2 DEF WellMade, Tree, Lost
<1>4. Tree(ds)
  <2>1. DOMAIN ds = 1 .. n
    BY <1>2, Zenon
  <2> QED BY <1>2, <1>3, <2>1 DEF Tree
<1>5. ASSUME NEW c \in 1 .. 19 PROVE Kept(ds[c], BoostClasses[c])
  <2>1. Kept(cs[c], BoostClasses[c])
    BY Zenon DEF WellMade
  <2> QED BY <1>1, <1>3, <2>1 DEF Kept
<1>6. ASSUME NEW c \in 1 .. n, c > 19 PROVE Derives(ds[c])
  <2>1. Derives(cs[c])
    BY <1>1, <1>6 DEF WellMade
  <2> QED BY <1>3, <2>1 DEF Derives
<1>7. ASSUME NEW c \in 1 .. n
      PROVE  /\ IsClass(ds[c])
             /\ ds[c].bound => ds[c].exists
             /\ ds[c].parent # 0 => ds[ds[c].parent].bound
  <2>1. /\ cs[c].bound => cs[c].exists
        /\ cs[c].parent # 0 => cs[cs[c].parent].bound
    BY <1>1 DEF WellMade
  <2>2. /\ cs[c].parent \in 0 .. c - 1 /\ ds[c].parent = cs[c].parent
        /\ \A d \in 1 .. n : ds[d].bound = cs[d].bound
    BY <1>3, Zenon
  <2>3. PICK p : p = cs[c].parent
    OBVIOUS
  <2>4. ds[c].parent = p /\ (p # 0 => p \in 1 .. n)
    BY <2>2, <2>3
  <2>5. p # 0 => ds[p].bound
    BY <2>1, <2>2, <2>3, <2>4, Zenon
  <2>6. ds[c].bound => ds[c].exists
    <3>1. CASE c = l
      BY <1>2, <2>2, <3>1, Zenon
    <3>2. CASE c # l
      BY <1>2, <2>1, <3>2, Zenon
    <3> QED BY <3>1, <3>2
  <2> QED BY <1>3, <2>4, <2>5, <2>6, Zenon
<1> QED BY <1>1, <1>2, <1>4, <1>5, <1>6, <1>7 DEF WellMade

LEMMA WellMadeBases ==
  ASSUME NEW cs, WellMade(cs)
  PROVE  BasesExist(cs)
<1>1. ASSUME NEW c \in 1 .. Len(cs), cs[c].parent # 0
      PROVE  cs[cs[c].parent].exists
  BY <1>1, OneClass, Zenon
<1> QED BY <1>1 DEF BasesExist

\* The classes of boost_histogram stay as they were made, but for types of
\* libraries that are added to theirs; the classes of libraries have no types
\* but those they brought along; and each class derives from an earlier one
\* that is still bound.
THEOREM UnpicklingClasses == UnpicklingSpec => []ClassInv
<1>1. UnpicklingInit => ClassInv
  BY InitMakes DEF UnpicklingInit
<1>2. ClassInv /\ [UnpicklingNext]_<<vars, classes, opened>> => ClassInv'
  <2> SUFFICES ASSUME ClassInv, [UnpicklingNext]_<<vars, classes, opened>>
               PROVE  ClassInv'
    OBVIOUS
  <2>1. CASE UNCHANGED classes
    BY <2>1 DEF ClassInv
  <2>2. CASE ClassStatement
    <3>1. Adds(classes, classes')
      BY <2>2, StatementAdds
    <3>2. WellMade(classes')
      BY <3>1, AddsWellMade DEF ClassInv
    <3> QED BY <3>2 DEF ClassInv
  <2>3. CASE CollectClass
    <3>1. PICK c \in DOMAIN classes : Collect(c)
      BY <2>3 DEF CollectClass
    <3>2. Loses(classes, classes', c)
      BY <3>1, CollectLoses
    <3>3. WellMade(classes')
      BY <3>2, LosesWellMade DEF ClassInv
    <3> QED BY <3>3 DEF ClassInv
  <2> QED BY <2>1, <2>2, <2>3 DEF UnpicklingNext, SetState
<1> QED BY <1>1, <1>2, PTL DEF UnpicklingSpec
-----------------------------------------------------------------------------
(* The C++ classes that the classes of boost_histogram stand for *)

TypedParts == {2, 3, 4, 6, 7, 8, 10, 11}
Parts12 == {12 + k : k \in 1 .. 7}

PartTypes(c) == BoostClasses[c].types[1]
StorageTypes(c) == BoostClasses[c].bases

\* The class of boost_histogram with a C++ class of a name.
KindOf(of) ==
  CASE of \in {"regular", "regular_numpy", "regular_pow", "regular_trans"} -> 2
    [] of = "variable" -> 3
    [] of = "integer" -> 4
    [] of = "category_str" -> 6
    [] of = "category_int" -> 7
    [] of = "boolean" -> 8
    [] of = "pow" -> 10
    [] of = "func_transform" -> 11
    [] of = "int64" -> 13
    [] of = "double" -> 14
    [] of = "atomic_int64" -> 15
    [] of = "unlimited" -> 16
    [] of = "weight" -> 17
    [] of = "mean" -> 18
    [] of = "weighted_mean" -> 19

LEMMA Kinds ==
  /\ \A of \in {"regular", "regular_numpy", "regular_pow", "regular_trans"} : KindOf(of) = 2
  /\ KindOf("variable") = 3 /\ KindOf("integer") = 4
  /\ KindOf("category_str") = 6 /\ KindOf("category_int") = 7
  /\ KindOf("boolean") = 8 /\ KindOf("pow") = 10 /\ KindOf("func_transform") = 11
  /\ \A k \in 1 .. 7 : KindOf(StorageNames[k]) = 12 + k
<1>1. ASSUME NEW k \in 1 .. 7 PROVE KindOf(StorageNames[k]) = 12 + k
  <2>1. k \in {1, 2, 3, 4, 5, 6, 7}
    OBVIOUS
  <2>2. /\ KindOf("int64") = 13 /\ KindOf("double") = 14
        /\ KindOf("atomic_int64") = 15 /\ KindOf("unlimited") = 16
        /\ KindOf("weight") = 17 /\ KindOf("mean") = 18 /\ KindOf("weighted_mean") = 19
    BY DEF KindOf
  <2> QED BY <2>1, <2>2, StorageNamesAre
<1> QED BY <1>1 DEF KindOf

LEMMA CppIs == \A of, os : Cpp(of, os).of = of /\ Cpp(of, os).options = os
BY DEF Cpp

LEMMA NamedTypes ==
  /\ \A t \in RegularTypes :
       t.of \in {"regular", "regular_numpy", "regular_pow", "regular_trans"}
  /\ \A t \in VariableTypes : t.of = "variable"
  /\ \A t \in IntegerTypes : t.of = "integer"
  /\ \A t \in CategoryTypes("category_str") : t.of = "category_str"
  /\ \A t \in CategoryTypes("category_int") : t.of = "category_int"
BY CppIs DEF RegularTypes, VariableTypes, IntegerTypes, CategoryTypes

LEMMA PartTypesAre ==
  /\ PartTypes(2) = RegularTypes /\ PartTypes(3) = VariableTypes
  /\ PartTypes(4) = IntegerTypes /\ PartTypes(6) = CategoryTypes("category_str")
  /\ PartTypes(7) = CategoryTypes("category_int") /\ PartTypes(8) = {Cpp("boolean", {})}
  /\ PartTypes(10) = {Cpp("pow", {})} /\ PartTypes(11) = {Cpp("func_transform", {})}
  /\ \A k \in 1 .. 7 : StorageTypes(12 + k) = {Cpp(StorageNames[k], {})}
<1>1. ASSUME NEW c, NEW p, NEW family, NEW bases, NEW ts,
             IsMadeOf(BoostClasses[c], p, family, bases, OwnTypes(ts))
      PROVE  PartTypes(c) = ts
  BY <1>1, TypesFacts, Zenon DEF IsMadeOf, PartTypes
<1>2. ASSUME NEW c, NEW p, NEW family, NEW bases, NEW types,
             IsMadeOf(BoostClasses[c], p, family, bases, types)
      PROVE  StorageTypes(c) = bases
  BY <1>2, Zenon DEF IsMadeOf, StorageTypes
<1> QED BY <1>1, <1>2, BoostMade, Zenon

LEMMA KindOfTypes ==
  /\ \A c \in TypedParts : \A t \in PartTypes(c) : KindOf(t.of) = c
  /\ \A k \in 1 .. 7 : \A t \in StorageTypes(12 + k) : KindOf(t.of) = 12 + k
<1>1. \A t \in PartTypes(2) : KindOf(t.of) = 2
  BY PartTypesAre, NamedTypes, Kinds
<1>2. \A t \in PartTypes(3) : KindOf(t.of) = 3
  BY PartTypesAre, NamedTypes, Kinds
<1>3. \A t \in PartTypes(4) : KindOf(t.of) = 4
  BY PartTypesAre, NamedTypes, Kinds
<1>4. \A t \in PartTypes(6) : KindOf(t.of) = 6
  BY PartTypesAre, NamedTypes, Kinds
<1>5. \A t \in PartTypes(7) : KindOf(t.of) = 7
  BY PartTypesAre, NamedTypes, Kinds
<1>6. \A t \in PartTypes(8) : KindOf(t.of) = 8
  BY PartTypesAre, CppIs, Kinds
<1>7. \A t \in PartTypes(10) : KindOf(t.of) = 10
  BY PartTypesAre, CppIs, Kinds
<1>8. \A t \in PartTypes(11) : KindOf(t.of) = 11
  BY PartTypesAre, CppIs, Kinds
<1>9. ASSUME NEW k \in 1 .. 7, NEW t \in StorageTypes(12 + k) PROVE KindOf(t.of) = 12 + k
  <2>1. t = Cpp(StorageNames[k], {})
    BY <1>9, PartTypesAre
  <2> QED BY <2>1, CppIs, Kinds
<1> QED BY <1>1, <1>2, <1>3, <1>4, <1>5, <1>6, <1>7, <1>8, <1>9 DEF TypedParts

\* Which classes of boost_histogram have types, and which have bases.
LEMMA TypedOrNot ==
  /\ \A c \in TypedParts : BoostClasses[c].types # NoTypes
  /\ \A c \in 1 .. 19 : BoostClasses[c].types # NoTypes => c \in TypedParts
  /\ \A c \in 1 .. 19 : BoostClasses[c].bases # {} => c \in Parts12
<1>1. ASSUME NEW c, NEW p, NEW family, NEW bases, NEW types,
             IsMadeOf(BoostClasses[c], p, family, bases, types)
      PROVE  BoostClasses[c].types = types /\ BoostClasses[c].bases = bases
  BY <1>1, Zenon DEF IsMadeOf
<1>2. \A c \in TypedParts : BoostClasses[c].types # NoTypes
  <2>1. ASSUME NEW c, NEW p, NEW family, NEW bases, NEW ts,
               IsMadeOf(BoostClasses[c], p, family, bases, OwnTypes(ts))
        PROVE  BoostClasses[c].types # NoTypes
    BY <1>1, <2>1, TypesFacts, Zenon
  <2> QED BY <2>1, BoostMade, Zenon DEF TypedParts
<1>3. \A c \in {1, 9, 12, 5} : BoostClasses[c].types = NoTypes /\ BoostClasses[c].bases = {}
  BY BoostMade, Zenon DEF IsMadeOf
<1>4. \A c \in {2, 3, 4, 6, 7, 8, 10, 11} : BoostClasses[c].bases = {}
  BY BoostMade, Zenon DEF IsMadeOf
<1>5. \A k \in 1 .. 7 : BoostClasses[12 + k].types = NoTypes
  BY BoostMade, ZenonT(30) DEF IsMadeOf
<1>6. ASSUME NEW c \in 1 .. 19
      PROVE  c \in {1, 9, 12, 5} \/ c \in TypedParts \/ \E k \in 1 .. 7 : c = 12 + k
  BY BoostNumbers DEF TypedParts
<1> QED BY <1>2, <1>3, <1>4, <1>5, <1>6 DEF TypedParts, Parts12

\* Libraries do not bring along what boost_histogram has.
LEMMA NotNew ==
  /\ \A c \in TypedParts : PartTypes(c) \cap NewTypes = {}
  /\ \A c \in 1 .. 19 : StorageTypes(c) \cap NewTypes = {}
BY NewTypesAssumption, TypedOrNot, BoostClassesAre DEF TypedParts, PartTypes, StorageTypes

-----------------------------------------------------------------------------
(* Which classes take the C++ classes of boost_histogram *)

LEMMA HeldBy ==
  ASSUME NEW cs, WellMade(cs), NEW class \in TypedParts, NEW t \in PartTypes(class),
         NEW d \in 1 .. Len(cs)
  PROVE  /\ cs[d].types # NoTypes => (t \in cs[d].types[1] <=> d = class)
         /\ t \notin cs[d].bases
<1>1. t \notin NewTypes /\ KindOf(t.of) = class
  BY NotNew, KindOfTypes
<1>2. CASE d <= 19
  <2>1. Kept(cs[d], BoostClasses[d]) /\ d \in 1 .. 19
    BY <1>2, OneClass, Zenon
  <2>2. ASSUME cs[d].types # NoTypes PROVE t \in cs[d].types[1] <=> d = class
    <3>1. BoostClasses[d].types # NoTypes /\ Added(cs[d].types, PartTypes(d))
      BY <2>1, <2>2, Zenon DEF Kept, PartTypes
    <3>2. PICK ts \in SUBSET NewTypes : cs[d].types = OwnTypes(PartTypes(d) \cup ts)
      BY <3>1, Zenon DEF Added
    <3>3. cs[d].types[1] = PartTypes(d) \cup ts
      BY <3>2, TypesFacts
    <3>4. t \in cs[d].types[1] <=> t \in PartTypes(d)
      BY <1>1, <3>3
    <3>5. d \in TypedParts
      BY <2>1, <3>1, TypedOrNot
    <3>6. t \in PartTypes(d) => KindOf(t.of) = d
      BY <3>5, KindOfTypes
    <3> QED BY <1>1, <3>4, <3>6
  <2>3. ASSUME t \in cs[d].bases PROVE FALSE
    <3>1. t \in StorageTypes(d)
      BY <2>1, <2>3, Zenon DEF Kept, StorageTypes
    <3>2. PICK k \in 1 .. 7 : d = 12 + k
      BY <2>1, <3>1, TypedOrNot DEF Parts12, StorageTypes
    <3>3. KindOf(t.of) = 12 + k
      BY <3>1, <3>2, KindOfTypes
    <3> QED BY <1>1, <3>3 DEF TypedParts
  <2> QED BY <2>2, <2>3
<1>3. CASE d > 19
  <2>1. Derives(cs[d])
    BY <1>3 DEF WellMade
  <2>2. d # class
    BY <1>3 DEF TypedParts
  <2>3. ASSUME cs[d].types # NoTypes PROVE t \notin cs[d].types[1]
    <3>1. PICK ts \in SUBSET NewTypes : cs[d].types = OwnTypes({} \cup ts)
      BY <2>1, <2>3, Zenon DEF Derives, Added
    <3>2. cs[d].types[1] = {} \cup ts
      BY <3>1, TypesFacts
    <3> QED BY <1>1, <3>2
  <2> QED BY <2>1, <2>2, <2>3 DEF Derives
<1> QED BY <1>2, <1>3 DEF WellMade, Tree

LEMMA BasedOn ==
  ASSUME NEW cs, WellMade(cs), NEW k \in 1 .. 7, NEW t \in StorageTypes(12 + k),
         NEW d \in 1 .. Len(cs)
  PROVE  /\ cs[d].types # NoTypes => t \notin cs[d].types[1]
         /\ t \in cs[d].bases <=> d = 12 + k
<1>1. t \notin NewTypes /\ KindOf(t.of) = 12 + k
  BY NotNew, KindOfTypes
<1>2. CASE d <= 19
  <2>1. Kept(cs[d], BoostClasses[d]) /\ d \in 1 .. 19
    BY <1>2, OneClass, Zenon
  <2>2. ASSUME cs[d].types # NoTypes PROVE t \notin cs[d].types[1]
    <3>1. BoostClasses[d].types # NoTypes /\ Added(cs[d].types, PartTypes(d))
      BY <2>1, <2>2, Zenon DEF Kept, PartTypes
    <3>2. PICK ts \in SUBSET NewTypes : cs[d].types = OwnTypes(PartTypes(d) \cup ts)
      BY <3>1, Zenon DEF Added
    <3>3. cs[d].types[1] = PartTypes(d) \cup ts
      BY <3>2, TypesFacts
    <3>4. t \in cs[d].types[1] <=> t \in PartTypes(d)
      BY <1>1, <3>3
    <3>5. d \in TypedParts
      BY <2>1, <3>1, TypedOrNot
    <3>6. t \in PartTypes(d) => KindOf(t.of) = d
      BY <3>5, KindOfTypes
    <3> QED BY <1>1, <3>4, <3>5, <3>6 DEF TypedParts
  <2>3. t \in cs[d].bases <=> t \in StorageTypes(d)
    BY <2>1, Zenon DEF Kept, StorageTypes
  <2>4. ASSUME t \in StorageTypes(d) PROVE d = 12 + k
    <3>1. PICK l \in 1 .. 7 : d = 12 + l
      BY <2>1, <2>4, TypedOrNot DEF Parts12, StorageTypes
    <3>2. KindOf(t.of) = 12 + l
      BY <2>4, <3>1, KindOfTypes
    <3> QED BY <1>1, <3>1, <3>2
  <2> QED BY <2>2, <2>3, <2>4
<1>3. CASE d > 19
  <2>1. Derives(cs[d])
    BY <1>3 DEF WellMade
  <2>2. d # 12 + k
    BY <1>3
  <2>3. ASSUME cs[d].types # NoTypes PROVE t \notin cs[d].types[1]
    <3>1. PICK ts \in SUBSET NewTypes : cs[d].types = OwnTypes({} \cup ts)
      BY <2>1, <2>3, Zenon DEF Derives, Added
    <3>2. cs[d].types[1] = {} \cup ts
      BY <3>1, TypesFacts
    <3> QED BY <1>1, <3>2
  <2> QED BY <2>1, <2>2, <2>3 DEF Derives
<1> QED BY <1>2, <1>3 DEF WellMade, Tree

\* The classes that a class of boost_histogram is handed down to.
Stands(cs, d, class) ==
  DescendsFrom(cs, d, class) /\ Holder(cs)[d] = Holder(cs)[class]

LEMMA TypedHolder ==
  ASSUME NEW cs, WellMade(cs), NEW class \in TypedParts
  PROVE  Holder(cs)[class] = class
<1>1. class \in 1 .. 19 /\ class \in 1 .. Len(cs)
  BY DEF TypedParts, WellMade, Tree
<1>2. Kept(cs[class], BoostClasses[class]) /\ BoostClasses[class].types # NoTypes
  BY <1>1, TypedOrNot DEF WellMade
<1>3. PICK ts : cs[class].types = OwnTypes(ts)
  BY <1>2, Zenon DEF Kept, Added
<1>4. cs[class].types # NoTypes
  BY <1>3, TypesFacts
<1> QED BY <1>1, <1>4, HolderIs DEF WellMade

LEMMA StorageHolder ==
  ASSUME NEW cs, WellMade(cs), NEW k \in 1 .. 7
  PROVE  Holder(cs)[12 + k] = 0
<1>1. /\ 12 + k \in 1 .. 19 /\ 12 + k \in 1 .. Len(cs)
      /\ 12 \in 1 .. 19 /\ 12 \in 1 .. Len(cs)
  BY DEF WellMade, Tree
<1>2. Kept(cs[12 + k], BoostClasses[12 + k]) /\ Kept(cs[12], BoostClasses[12])
  BY <1>1 DEF WellMade
<1>3. /\ BoostClasses[12 + k].types = NoTypes /\ BoostClasses[12 + k].parent = 12
      /\ BoostClasses[12].types = NoTypes /\ BoostClasses[12].parent = 0
  BY BoostMade, Zenon DEF IsMadeOf
<1>4. /\ cs[12 + k].types = NoTypes /\ cs[12 + k].parent = 12
      /\ cs[12].types = NoTypes /\ cs[12].parent = 0
  BY <1>2, <1>3, Zenon DEF Kept
<1>5. Tree(cs)
  BY DEF WellMade
<1>6. Holder(cs)[12] = Holder(cs)[0] /\ Holder(cs)[0] = 0
  BY <1>1, <1>4, <1>5, HolderIs
<1>7. Holder(cs)[12 + k] = Holder(cs)[12]
  BY <1>1, <1>4, <1>5, HolderIs
<1> QED BY <1>6, <1>7

LEMMA TypedTakes ==
  ASSUME NEW cs, WellMade(cs), NEW class \in TypedParts, NEW t \in PartTypes(class),
         NEW d \in 1 .. Len(cs)
  PROVE  Takes(cs, d, t) <=> Stands(cs, d, class)
<1>1. Tree(cs) /\ Holder(cs)[class] = class
  BY TypedHolder DEF WellMade
<1>2. PICK h : h = Holder(cs)[d]
  OBVIOUS
<1>3. class # 0
  BY DEF TypedParts
<1>4. CASE h = 0
  <2>1. \A a \in 1 .. Len(cs) : t \notin cs[a].bases
    BY HeldBy
  <2>2. t \notin WalkBases(cs)[d]
    BY <1>1, <2>1, BasesFound
  <2> QED BY <1>1, <1>2, <1>3, <1>4, <2>2 DEF Takes, Stands, NoClass
<1>5. CASE h # 0
  <2>1. h \in 1 .. Len(cs) /\ DescendsFrom(cs, d, h) /\ cs[h].types # NoTypes
    BY <1>1, <1>2, <1>5, HolderFound
  <2>2. t \in cs[h].types[1] <=> h = class
    BY <2>1, HeldBy
  <2> QED BY <1>1, <1>2, <1>5, <2>1, <2>2 DEF Takes, Stands, NoClass
<1> QED BY <1>4, <1>5

LEMMA StorageTakes ==
  ASSUME NEW cs, WellMade(cs), NEW k \in 1 .. 7, NEW t \in StorageTypes(12 + k),
         NEW d \in 1 .. Len(cs)
  PROVE  Takes(cs, d, t) <=> Stands(cs, d, 12 + k)
<1>1. Tree(cs) /\ Holder(cs)[12 + k] = 0
  BY StorageHolder DEF WellMade
<1>2. PICK h : h = Holder(cs)[d]
  OBVIOUS
<1>3. 12 + k \in 1 .. Len(cs)
  <2>1. Len(cs) \in Nat /\ Len(cs) >= 19
    BY Zenon DEF WellMade, Tree
  <2> QED BY <2>1
<1>4. CASE h = 0
  <2>1. \A a \in 1 .. Len(cs) : t \in cs[a].bases <=> a = 12 + k
    BY BasedOn
  <2>2. t \in WalkBases(cs)[d] <=> DescendsFrom(cs, d, 12 + k)
    BY <1>1, <1>3, <2>1, BasesFound
  <2> QED BY <1>1, <1>2, <1>4, <2>2 DEF Takes, Stands, NoClass
<1>5. CASE h # 0
  <2>1. h \in 1 .. Len(cs) /\ cs[h].types # NoTypes
    BY <1>1, <1>2, <1>5, HolderFound
  <2>2. t \notin cs[h].types[1]
    BY <2>1, BasedOn
  <2> QED BY <1>1, <1>2, <1>5, <2>2 DEF Takes, Stands, NoClass
<1> QED BY <1>4, <1>5

-----------------------------------------------------------------------------
(* What cast returns *)

Takers(cs, family, t) ==
  {d \in 1 .. Len(cs) : cs[d].family = family /\ Takes(cs, d, t)}

LEMMA LastMeets ==
  ASSUME NEW T, NEW s \in Seq(T), NEW S, Meets(s, S)
  PROVE  \E k \in DOMAIN s : s[k] \in S /\ \A j \in DOMAIN s : s[j] \in S => j <= k
<1>1. PICK n \in Nat : n = Len(s) /\ DOMAIN s = 1 .. n
  BY LenProperties
<1>2. PICK B : B = {m \in 0 .. n : \E k \in 1 .. n : m = n - k /\ s[k] \in S}
  OBVIOUS
<1>3. B \in SUBSET Nat /\ B # {}
  <2>1. PICK k \in 1 .. n : s[k] \in S
    BY <1>1 DEF Meets
  <2>2. n - k \in B
    BY <1>2, <2>1
  <2>3. \A m \in B : m \in Nat
    BY <1>2
  <2> QED BY <2>2, <2>3
<1>4. PICK m \in B : \A j \in B : m <= j
  BY <1>3, LeastNumber
<1>5. PICK k \in 1 .. n : m = n - k /\ s[k] \in S
  BY <1>2
<1>6. ASSUME NEW j \in 1 .. n, s[j] \in S PROVE j <= k
  <2>1. n - j \in B
    BY <1>2, <1>6
  <2>2. m <= n - j
    BY <1>4, <2>1
  <2> QED BY <1>5, <2>2
<1> QED BY <1>1, <1>5, <1>6

LEMMA PlaceFirst ==
  ASSUME NEW T, NEW s \in Seq(T), NEW S, NEW P, P = {k \in DOMAIN s : s[k] \in S},
         P # {}
  PROVE  IsFirst(s[Min(P)], s, S)
<1>1. DOMAIN s \subseteq Nat
  BY LenProperties
<1>2. P \in SUBSET Nat
  BY <1>1
<1>3. \E k \in P : \A j \in P : k <= j
  BY <1>2, LeastNumber
<1>4. Min(P) \in P /\ \A j \in P : Min(P) <= j
  BY <1>3, Zenon DEF Min
<1> QED BY <1>4 DEF IsFirst

LEMMA PlaceLast ==
  ASSUME NEW T, NEW s \in Seq(T), NEW S, NEW P, P = {k \in DOMAIN s : s[k] \in S},
         P # {}
  PROVE  IsLast(s[Max(P)], s, S)
<1>1. DOMAIN s \subseteq Nat /\ Meets(s, S)
  BY LenProperties DEF Meets
<1>2. PICK k \in DOMAIN s : s[k] \in S /\ \A j \in DOMAIN s : s[j] \in S => j <= k
  BY <1>1, LastMeets
<1>3. k \in P /\ \A j \in P : k >= j
  BY <1>1, <1>2
<1>4. Max(P) \in P /\ \A j \in P : Max(P) >= j
  BY <1>3, Zenon DEF Max
<1> QED BY <1>1, <1>4 DEF IsLast

LEMMA ValidIs ==
  ASSUME NEW cs, Tree(cs), NEW s \in Seq(1 .. Len(cs)), NEW t, NEW family
  PROVE  Valid(cs, s, t, family) = {i \in DOMAIN s : s[i] \in Takers(cs, family, t)}
<1>1. \A i \in DOMAIN s : s[i] \in 1 .. Len(cs)
  BY ElementOfSeq, LenProperties
<1> QED BY <1>1 DEF Valid, Takers

LEMMA CastIs ==
  ASSUME NEW cs, Tree(cs), NEW w, Walks(w, cs), NEW root \in 1 .. Len(cs),
         NEW t, NEW family
  PROVE  /\ Meets(w[root], Takers(cs, family, t))
              => IsFirst(Cast(cs, family, t, root), w[root], Takers(cs, family, t))
         /\ ~Meets(w[root], Takers(cs, family, t))
            /\ Meets(w[root], Takers(cs, Main, t))
              => IsLast(Cast(cs, family, t, root), w[root], Takers(cs, Main, t))
<1>1. PICK s : s = w[root]
  OBVIOUS
<1>2. s \in Seq(1 .. Len(cs)) /\ s = WalkSubclasses(cs, root)
  BY <1>1 DEF Walks
<1>3. PICK own : own = Valid(cs, s, t, family)
  OBVIOUS
<1>4. PICK fallback : fallback = Valid(cs, s, t, Main)
  OBVIOUS
<1>5. Cast(cs, family, t, root) =
        IF own # {} THEN s[Min(own)] ELSE IF fallback # {} THEN s[Max(fallback)] ELSE NoClass
  BY <1>2, <1>3, <1>4, Zenon DEF Cast
<1>6. /\ own = {i \in DOMAIN s : s[i] \in Takers(cs, family, t)}
      /\ fallback = {i \in DOMAIN s : s[i] \in Takers(cs, Main, t)}
  BY <1>2, <1>3, <1>4, ValidIs
<1>7. /\ own # {} <=> Meets(s, Takers(cs, family, t))
      /\ fallback # {} <=> Meets(s, Takers(cs, Main, t))
  BY <1>6 DEF Meets
<1>8. CASE own # {}
  BY <1>1, <1>2, <1>5, <1>6, <1>7, <1>8, PlaceFirst
<1>9. CASE own = {} /\ fallback # {}
  BY <1>1, <1>2, <1>5, <1>6, <1>7, <1>9, PlaceLast
<1> QED BY <1>1, <1>7, <1>8, <1>9

LEMMA WalkTakers ==
  ASSUME NEW cs, WellMade(cs), NEW root \in 1 .. Len(cs),
         NEW class \in 1 .. Len(cs), DescendsFrom(cs, class, root), class # root,
         NEW t, \A d \in 1 .. Len(cs) : Takes(cs, d, t) <=> Stands(cs, d, class),
         NEW w, Walks(w, cs), NEW family
  PROVE  Meets(w[root], Takers(cs, family, t))
           <=> \E d \in 1 .. Len(cs) :
                 cs[d].exists /\ cs[d].family = family /\ Stands(cs, d, class)
<1>1. PICK n \in Nat : n = Len(cs)
  BY DEF WellMade, Tree
<1>2. Tree(cs) /\ BasesExist(cs)
  BY WellMadeBases DEF WellMade
<1>3. Meets(w[root], Takers(cs, family, t)) <=> Below(cs, root) \cap Takers(cs, family, t) # {}
  BY <1>2, WalkMeets
<1>4. ASSUME NEW d \in Below(cs, root) \cap Takers(cs, family, t)
      PROVE  \E e \in 1 .. n : cs[e].exists /\ cs[e].family = family /\ Stands(cs, e, class)
  BY <1>1 DEF Below, Takers
<1>5. ASSUME NEW d \in 1 .. n, cs[d].exists, cs[d].family = family, Stands(cs, d, class)
      PROVE  d \in Below(cs, root) \cap Takers(cs, family, t)
  <2>1. DescendsFrom(cs, d, class) /\ d \in 0 .. n
    BY <1>5 DEF Stands
  <2>2. DescendsFrom(cs, d, root)
    BY <1>1, <1>2, <2>1, DescendsOn
  <2>3. class \in 1 .. d
    BY <1>1, <1>2, <2>1, DescendsLater
  <2>4. root \in 1 .. class
    <3>1. class \in 0 .. Len(cs)
      BY <1>1
    <3> QED BY <1>2, <3>1, DescendsLater
  <2>5. d # root
    BY <1>1, <2>3, <2>4
  <2> QED BY <1>1, <1>5, <2>2, <2>5 DEF Below, Takers
<1> QED BY <1>1, <1>3, <1>4, <1>5

LEMMA CastStands ==
  ASSUME ClassInv, NEW root \in 1 .. Len(classes), NEW class \in 1 .. Len(classes),
         DescendsFrom(classes, class, root), class # root,
         classes[class].family = Main, classes[class].exists,
         NEW t, \A d \in 1 .. Len(classes) :
                  Takes(classes, d, t) <=> Stands(classes, d, class),
         NEW family
  PROVE  /\ ComesBack(family, class, t, root)
         /\ Cast(classes, family, t, root) \in 1 .. Len(classes)
<1>1. PICK n \in Nat : n = Len(classes) /\ DOMAIN classes = 1 .. n
  BY DEF ClassInv, WellMade, Tree
<1>2. WellMade(classes) /\ Tree(classes) /\ BasesExist(classes)
  BY WellMadeBases DEF ClassInv, WellMade
<1>3. PICK w : Walks(w, classes)
  BY <1>2, WalkIs
<1>4. PICK s : s = w[root] /\ s \in Seq(1 .. n)
  BY <1>1, <1>3 DEF Walks
<1>5. PICK c : c = Cast(classes, family, t, root)
  OBVIOUS
<1>6. ASSUME NEW f
      PROVE  Meets(s, Takers(classes, f, t))
               <=> \E d \in 1 .. n : /\ classes[d].exists /\ classes[d].family = f
                                    /\ Stands(classes, d, class)
  BY <1>1, <1>2, <1>3, <1>4, WalkTakers
<1>7. \A f : \A d \in Takers(classes, f, t) :
         d \in 1 .. n /\ classes[d].family = f /\ Stands(classes, d, class)
  BY <1>1 DEF Takers
<1>8. PICK own : own = {d \in DOMAIN classes :
                          /\ classes[d].exists /\ classes[d].family = family
                          /\ DescendsFrom(classes, d, class)
                          /\ Holder(classes)[d] = Holder(classes)[class]}
  OBVIOUS
<1>9. own # {} <=> Meets(s, Takers(classes, family, t))
  BY <1>1, <1>6, <1>8 DEF Stands
<1>10. Meets(s, Takers(classes, Main, t))
  <2>1. DescendsFrom(classes, class, class)
    BY <1>2, DescendsItself
  <2>2. Stands(classes, class, class)
    BY <2>1 DEF Stands
  <2> QED BY <1>1, <1>6, <2>2
<1>11. /\ c \in 1 .. n /\ Stands(classes, c, class)
       /\ classes[c].family = IF own # {} THEN family ELSE Main
  <2>1. CASE own # {}
    <3>1. IsFirst(c, s, Takers(classes, family, t))
      BY <1>2, <1>3, <1>4, <1>5, <1>9, <2>1, CastIs
    <3>2. c \in Takers(classes, family, t)
      BY <3>1 DEF IsFirst
    <3> QED BY <1>7, <2>1, <3>2
  <2>2. CASE own = {}
    <3>1. IsLast(c, s, Takers(classes, Main, t))
      BY <1>2, <1>3, <1>4, <1>5, <1>9, <1>10, <2>2, CastIs
    <3>2. c \in Takers(classes, Main, t)
      BY <3>1 DEF IsLast
    <3> QED BY <1>7, <2>2, <3>2
  <2> QED BY <2>1, <2>2
<1>12. StandsFor(c, family, class)
  <2>1. c # NoClass /\ DescendsFrom(classes, c, class)
    BY <1>11 DEF Stands, NoClass
  <2> QED BY <1>8, <1>11, <2>1, Zenon DEF StandsFor
<1> QED BY <1>1, <1>5, <1>11, <1>12 DEF ComesBack

-----------------------------------------------------------------------------
(* The parts that programs make *)

\* What a class of boost_histogram, and its ancestors, are in a process.
MadeUnder(class, p) ==
  \E types, bases : IsMadeOf(BoostClasses[class], p, Main, bases, types)
IsPart(cs, class, p) ==
  /\ class \in 1 .. Len(cs) /\ cs[class].parent = p
  /\ cs[class].family = Main /\ cs[class].exists
  /\ DescendsFrom(cs, class, p)
  /\ p \in 1 .. Len(cs) /\ class # p

LEMMA PartIs ==
  ASSUME NEW cs, WellMade(cs), NEW class \in 1 .. 19, NEW p, MadeUnder(class, p), p # 0
  PROVE  IsPart(cs, class, p)
<1>0. PICK types, bases : IsMadeOf(BoostClasses[class], p, Main, bases, types)
  BY DEF MadeUnder
<1>1. Tree(cs) /\ class \in 1 .. Len(cs)
  BY DEF WellMade, Tree
<1>2. Kept(cs[class], BoostClasses[class])
  BY DEF WellMade
<1>3. cs[class].parent = p /\ cs[class].family = Main /\ cs[class].bound
  BY <1>0, <1>2, Zenon DEF Kept, IsMadeOf
<1>4. cs[class].exists
  BY <1>1, <1>3 DEF WellMade
<1>5. p \in 0 .. class - 1
  BY <1>1, <1>3 DEF Tree
<1>6. p \in 1 .. Len(cs) /\ class # p
  BY <1>1, <1>5 DEF Tree
<1>7. DescendsFrom(cs, class, p)
  BY <1>1, <1>3, <1>6, DescentIs, DescendsItself
<1> QED BY <1>1, <1>3, <1>4, <1>6, <1>7 DEF IsPart

LEMMA AxisIs ==
  ASSUME NEW cs, WellMade(cs), NEW class \in AxisClasses
  PROVE  /\ class \in TypedParts /\ class \in 1 .. Len(cs) /\ class # Axis
         /\ cs[class].family = Main /\ cs[class].exists
         /\ DescendsFrom(cs, class, Axis) /\ Axis \in 1 .. Len(cs)
<1>1. class \in {2, 3, 4, 6, 7, 8}
  BY DEF AxisClasses, Regular, Variable, Integer, StrCategory, IntCategory, Boolean
<1>2. class \in TypedParts /\ class # Axis /\ class \in 1 .. 19
  BY <1>1 DEF TypedParts, Axis
<1>3. CASE class \in {2, 3, 4, 8}
  <2>1. MadeUnder(class, 1)
    BY <1>3, BoostMade, Zenon DEF MadeUnder
  <2>2. IsPart(cs, class, 1)
    BY <1>2, <2>1, PartIs
  <2> QED BY <1>2, <2>2 DEF Axis, IsPart
<1>4. CASE class \in {6, 7}
  <2>1. MadeUnder(class, 5)
    BY <1>4, BoostMade, Zenon DEF MadeUnder
  <2>2. MadeUnder(5, 1)
    BY BoostMade, Zenon DEF MadeUnder
  <2>3. /\ class \in 1 .. Len(cs) /\ cs[class].family = Main
        /\ cs[class].exists /\ DescendsFrom(cs, class, 5)
        /\ 5 \in 1 .. Len(cs)
    BY <1>2, <2>1, PartIs DEF IsPart
  <2>4. DescendsFrom(cs, 5, 1) /\ 1 \in 1 .. Len(cs)
    BY <2>2, PartIs DEF IsPart
  <2>5. Tree(cs) /\ class \in 0 .. Len(cs)
    <3>1. Tree(cs) /\ Len(cs) \in Nat
      BY Zenon DEF WellMade, Tree
    <3> QED BY <2>3, <3>1
  <2>6. DescendsFrom(cs, class, 1)
    BY <2>3, <2>4, <2>5, DescendsOn
  <2> QED BY <1>2, <2>3, <2>4, <2>6 DEF Axis
<1> QED BY <1>1, <1>3, <1>4

LEMMA AxisComesBack ==
  ASSUME ClassInv, NEW class \in AxisClasses, NEW t \in PartTypes(class), NEW family
  PROVE  /\ ComesBack(family, class, t, Axis)
         /\ Cast(classes, family, t, Axis) \in 1 .. Len(classes)
<1>1. \A d \in 1 .. Len(classes) : Takes(classes, d, t) <=> Stands(classes, d, class)
  BY AxisIs, TypedTakes DEF ClassInv
<1> QED BY <1>1, AxisIs, CastStands DEF ClassInv

LEMMA TransformComesBack ==
  ASSUME ClassInv, NEW class \in {Pow, Function}, NEW t \in PartTypes(class), NEW family
  PROVE  ComesBack(family, class, t, AxisTransform)
<1>1. class \in {10, 11} /\ AxisTransform = 9
  BY DEF Pow, Function, AxisTransform
<1>2. class \in TypedParts /\ class \in 1 .. 19
  BY <1>1 DEF TypedParts
<1>3. MadeUnder(class, 9)
  BY <1>1, BoostMade, Zenon DEF MadeUnder
<1>6. IsPart(classes, class, 9)
  BY <1>2, <1>3, PartIs DEF ClassInv
<1>4. /\ class \in 1 .. Len(classes) /\ classes[class].family = Main
      /\ classes[class].exists /\ DescendsFrom(classes, class, 9)
      /\ 9 \in 1 .. Len(classes) /\ class # 9
  BY <1>6 DEF IsPart
<1>5. \A d \in 1 .. Len(classes) : Takes(classes, d, t) <=> Stands(classes, d, class)
  BY <1>2, TypedTakes DEF ClassInv
<1> QED BY <1>1, <1>4, <1>5, CastStands

LEMMA StorageComesBack ==
  ASSUME ClassInv, NEW k \in DOMAIN StorageNames, NEW family
  PROVE  ComesBack(family, StorageClass(k), Cpp(StorageNames[k], {}), Storage)
<1>1. k \in 1 .. 7 /\ StorageClass(k) = 12 + k /\ Storage = 12
  BY StorageNamesAre DEF StorageClass, Storage
<1>2. PICK class \in 1 .. 19 : class = 12 + k
  BY <1>1
<1>3. MadeUnder(class, 12)
  BY <1>1, <1>2, BoostMade, Zenon DEF MadeUnder
<1>9. IsPart(classes, class, 12)
  BY <1>1, <1>3, PartIs DEF ClassInv
<1>4. /\ class \in 1 .. Len(classes) /\ classes[class].family = Main
      /\ classes[class].exists /\ DescendsFrom(classes, class, 12)
      /\ 12 \in 1 .. Len(classes) /\ class # 12
  BY <1>9 DEF IsPart
<1>5. PICK t : t = Cpp(StorageNames[k], {})
  OBVIOUS
<1>6. t \in StorageTypes(12 + k)
  BY <1>1, <1>5, PartTypesAre
<1>7. \A d \in 1 .. Len(classes) : Takes(classes, d, t) <=> Stands(classes, d, class)
  BY <1>1, <1>2, <1>6, StorageTakes DEF ClassInv
<1>8. ComesBack(family, class, t, 12)
  BY <1>4, <1>7, CastStands
<1> QED BY <1>1, <1>2, <1>5, <1>8
-----------------------------------------------------------------------------
(* What constructors make, and what is printed of it *)

LEMMA FlowWords ==
  /\ "growth" \notin Flow /\ "circular" \notin Flow
  /\ "underflow" \in Flow /\ "overflow" \in Flow
  /\ Options = Flow \cup {"growth", "circular"}
  /\ "growth" # "circular" /\ "growth" # "overflow" /\ "circular" # "overflow"
BY DEF Flow, Options

LEMMA FlowProduced ==
  ASSUME NEW family \in {"regular", "variable"}, NEW os \in SUBSET Options,
         Accepts(family, os)
  PROVE  /\ os \subseteq Flow => Produced(family, os) = os
         /\ ~(os \subseteq Flow) =>
              \/ os = Flow \cup {"growth"} /\ Produced(family, os) = os
              \/ "circular" \in os /\ Produced(family, os) = {"circular", "overflow"}
<1>1. family # "category" /\ family # "transformed" /\ family # "integer"
  OBVIOUS
<1>2. \/ os \subseteq Flow
      \/ os = Flow \cup {"growth"}
      \/ os \in {{"circular", "overflow"}, Flow \cup {"circular"}}
  BY <1>1 DEF Accepts
<1>3. Produced(family, os) = IF "circular" \in os THEN {"circular", "overflow"} ELSE os
  BY <1>1, Zenon DEF Produced
<1> QED BY <1>2, <1>3, FlowWords

LEMMA IntegerProduced ==
  ASSUME NEW os \in SUBSET Options, Accepts("integer", os)
  PROVE  \/ os \subseteq Flow /\ Produced("integer", os) = os
         \/ "growth" \in os /\ Produced("integer", os) = {"growth"}
         \/ "circular" \in os /\ "growth" \notin os
              /\ Produced("integer", os) = {"circular"}
<1>1. \/ os \subseteq Flow
      \/ "growth" \in os /\ "circular" \notin os
      \/ "circular" \in os /\ "growth" \notin os
  BY DEF Accepts
<1>2. /\ "growth" \in os => Produced("integer", os) = {"growth"}
      /\ "growth" \notin os /\ "circular" \in os => Produced("integer", os) = {"circular"}
      /\ "growth" \notin os /\ "circular" \notin os => Produced("integer", os) = os
  <2>1. ASSUME "growth" \in os PROVE Produced("integer", os) = {"growth"}
    BY <1>1, <2>1, FlowWords DEF Produced
  <2>2. ASSUME "growth" \notin os, "circular" \in os
        PROVE  Produced("integer", os) = {"circular"}
    BY <2>2 DEF Produced
  <2>3. ASSUME "growth" \notin os, "circular" \notin os PROVE Produced("integer", os) = os
    BY <2>3 DEF Produced
  <2> QED BY <2>1, <2>2, <2>3
<1> QED BY <1>1, <1>2, FlowWords

LEMMA CategoryProduced ==
  ASSUME NEW os \in SUBSET Options, Accepts("category", os)
  PROVE  \/ os = {"growth"} /\ Produced("category", os) = {"growth"}
         \/ os = {} /\ Produced("category", os) = {"overflow"}
<1>1. os \subseteq {"growth"}
  BY DEF Accepts
<1>2. os = {} \/ os = {"growth"}
  BY <1>1
<1> QED BY <1>2 DEF Produced

LEMMA PrintedFlowIs ==
  ASSUME NEW cpp, "growth" \in cpp.options => "circular" \notin cpp.options
  PROVE  PrintedFlow(cpp) =
           IF "growth" \in cpp.options THEN Flow \cup {"growth"}
           ELSE IF "circular" \in cpp.options THEN Flow \cup {"circular"}
           ELSE cpp.options \cap Flow
<1>1. CASE "growth" \in cpp.options
  BY <1>1 DEF PrintedFlow
<1>2. CASE "growth" \notin cpp.options /\ "circular" \in cpp.options
  BY <1>2 DEF PrintedFlow
<1>3. CASE "growth" \notin cpp.options /\ "circular" \notin cpp.options
  BY <1>3 DEF PrintedFlow
<1> QED BY <1>1, <1>2, <1>3

\* The options that are printed are accepted again, and make the same.
Reprints(family, os, q) ==
  q \in SUBSET Options /\ Accepts(family, q) /\ Produced(family, q) = Produced(family, os)

LEMMA FlowAccepts ==
  ASSUME NEW family \in {"regular", "variable", "integer"}
  PROVE  /\ \A os \in SUBSET Flow : Accepts(family, os) /\ Produced(family, os) = os
         /\ Accepts(family, Flow \cup {"growth"})
         /\ Accepts(family, Flow \cup {"circular"})
         /\ family # "integer" =>
              /\ Produced(family, Flow \cup {"growth"}) = Flow \cup {"growth"}
              /\ Produced(family, Flow \cup {"circular"}) = {"circular", "overflow"}
         /\ family = "integer" =>
              /\ Produced(family, Flow \cup {"growth"}) = {"growth"}
              /\ Produced(family, Flow \cup {"circular"}) = {"circular"}
<1>1. family # "category" /\ family # "transformed"
  OBVIOUS
<1>2. \A os \in SUBSET Flow : "growth" \notin os /\ "circular" \notin os
  BY FlowWords
<1>3. \A os \in SUBSET Flow : Accepts(family, os) /\ Produced(family, os) = os
  BY <1>1, <1>2 DEF Accepts, Produced
<1>4. /\ "growth" \in Flow \cup {"growth"} /\ "circular" \notin Flow \cup {"growth"}
      /\ "circular" \in Flow \cup {"circular"} /\ "growth" \notin Flow \cup {"circular"}
  BY FlowWords
<1>5. Accepts(family, Flow \cup {"growth"}) /\ Accepts(family, Flow \cup {"circular"})
  BY <1>1, <1>4 DEF Accepts
<1>6. CASE family # "integer"
  BY <1>1, <1>3, <1>4, <1>5, <1>6 DEF Produced
<1>7. CASE family = "integer"
  BY <1>1, <1>3, <1>4, <1>5, <1>7 DEF Produced
<1> QED BY <1>6, <1>7

LEMMA FlowReprints ==
  ASSUME NEW family \in {"regular", "variable", "integer"}, NEW os \in SUBSET Options,
         Accepts(family, os), NEW of
  PROVE  Reprints(family, os, PrintedFlow(Cpp(of, Produced(family, os))))
<1>1. PICK po : po = Produced(family, os)
  OBVIOUS
<1>2. PICK q : q = PrintedFlow(Cpp(of, po))
  OBVIOUS
<1>4. \/ os \subseteq Flow /\ po = os
      \/ /\ "growth" \in po
         /\ po = IF family = "integer" THEN {"growth"} ELSE Flow \cup {"growth"}
      \/ /\ "growth" \notin po /\ "circular" \in po
         /\ po = IF family = "integer" THEN {"circular"} ELSE {"circular", "overflow"}
  <2>1. CASE family \in {"regular", "variable"}
    BY <1>1, <2>1, FlowProduced, FlowWords
  <2>2. CASE family = "integer"
    BY <1>1, <2>2, IntegerProduced, FlowWords
  <2> QED BY <2>1, <2>2
<1>3. q = IF "growth" \in po THEN Flow \cup {"growth"}
          ELSE IF "circular" \in po THEN Flow \cup {"circular"} ELSE po \cap Flow
  <2>1. PICK cpp : cpp = Cpp(of, po)
    OBVIOUS
  <2>2. cpp.options = po /\ q = PrintedFlow(cpp)
    BY <1>2, <2>1, CppIs
  <2>3. "growth" \in po => "circular" \notin po
    BY <1>4, FlowWords
  <2> QED BY <2>2, <2>3, PrintedFlowIs
<1>5. q \in SUBSET Options
  BY <1>3, FlowWords
<1>6. CASE os \subseteq Flow /\ po = os
  <2>1. q = os
    BY <1>3, <1>6, FlowWords
  <2> QED BY <1>1, <1>2, <2>1 DEF Reprints
<1>7. CASE "growth" \in po
  <2>1. q = Flow \cup {"growth"}
    BY <1>3, <1>7
  <2>2. Produced(family, q) = po
    BY <1>4, <1>7, <2>1, FlowAccepts, FlowWords
  <2> QED BY <1>1, <1>2, <1>5, <2>1, <2>2, FlowAccepts DEF Reprints
<1>8. CASE "growth" \notin po /\ "circular" \in po
  <2>1. q = Flow \cup {"circular"}
    BY <1>3, <1>8
  <2>2. Produced(family, q) = po
    BY <1>4, <1>8, <2>1, FlowAccepts, FlowWords
  <2> QED BY <1>1, <1>2, <1>5, <2>1, <2>2, FlowAccepts DEF Reprints
<1> QED BY <1>4, <1>6, <1>7, <1>8

LEMMA CategoryReprints ==
  ASSUME NEW os \in SUBSET Options, Accepts("category", os), NEW of
  PROVE  Reprints("category", os, PrintedCategory(Cpp(of, Produced("category", os))))
<1>1. PICK q : q = PrintedCategory(Cpp(of, Produced("category", os)))
  OBVIOUS
<1>2. q = Produced("category", os) \cap {"growth"}
  BY <1>1, CppIs, Zenon DEF PrintedCategory
<1>3. q = os
  BY <1>2, CategoryProduced, FlowWords
<1> QED BY <1>1, <1>3 DEF Reprints

LEMMA MadeIs ==
  \A o, t, c : /\ Made(o, t, c).options = o /\ Made(o, t, c).transform = t
              /\ Made(o, t, c).cpp = c
BY DEF Made

LEMMA PlainIs ==
  ASSUME NEW of, NEW family
  PROVE  /\ \A made \in Plain(of, family) : \E os \in SUBSET Options :
              /\ Accepts(family, os)
              /\ made.transform = NoClass /\ made.cpp = Cpp(of, Produced(family, os))
         /\ \A os \in SUBSET Options : Accepts(family, os) =>
              Made(os, NoClass, Cpp(of, Produced(family, os))) \in Plain(of, family)
BY MadeIs DEF Plain

LEMMA ConstructorIs ==
  /\ Constructor[2] = RegularAxes /\ Constructor[3] = VariableAxes
  /\ Constructor[4] = IntegerAxes /\ Constructor[6] = StrCategoryAxes
  /\ Constructor[7] = IntCategoryAxes /\ Constructor[8] = BooleanAxes
BY DEF Constructor, AxisClasses, Regular, Variable, Integer, StrCategory, IntCategory,
       Boolean

LEMMA PrintedIs ==
  ASSUME NEW cpp
  PROVE  /\ Printed(2, cpp) = PrintedFlow(cpp) /\ Printed(3, cpp) = PrintedFlow(cpp)
         /\ Printed(4, cpp) = PrintedFlow(cpp)
         /\ Printed(6, cpp) = PrintedCategory(cpp)
         /\ Printed(7, cpp) = PrintedCategory(cpp)
         /\ Printed(8, cpp) = {}
<1>1. ASSUME NEW class \in {2, 3, 4} PROVE Printed(class, cpp) = PrintedFlow(cpp)
  BY DEF Printed, StrCategory, IntCategory, Boolean
<1>2. ASSUME NEW class \in {6, 7} PROVE Printed(class, cpp) = PrintedCategory(cpp)
  BY DEF Printed, StrCategory, IntCategory, Boolean
<1>3. Printed(8, cpp) = {}
  BY DEF Printed, StrCategory, IntCategory, Boolean
<1> QED BY <1>1, <1>2, <1>3

LEMMA TransformInIs ==
  ASSUME NEW cpp
  PROVE  /\ cpp.of = "regular_pow" => TransformIn(cpp) = {Cpp("pow", {})}
         /\ cpp.of = "regular_trans" => TransformIn(cpp) = {Cpp("func_transform", {})}
         /\ cpp.of \notin {"regular_pow", "regular_trans"} => TransformIn(cpp) = {}
BY DEF TransformIn

\* An axis that a constructor makes is one of the class, is printed as a call
\* that makes it again, and has the transform that was passed.
RoundTrip(class, made) ==
  /\ made.cpp \in PartTypes(class)
  /\ Made(Printed(class, made.cpp), made.transform, made.cpp) \in Constructor[class]
  /\ \A t \in TransformIn(made.cpp) :
       made.transform \in {Pow, Function} /\ t \in PartTypes(made.transform)

LEMMA PlainRoundTrip ==
  ASSUME NEW of, of \notin {"regular_pow", "regular_trans"}, NEW family, NEW class,
         Plain(of, family) \subseteq Constructor[class],
         \A os \in SUBSET Options : Accepts(family, os) =>
           /\ Cpp(of, Produced(family, os)) \in PartTypes(class)
           /\ Reprints(family, os, Printed(class, Cpp(of, Produced(family, os)))),
         NEW made \in Plain(of, family)
  PROVE  RoundTrip(class, made)
<1>1. PICK os \in SUBSET Options :
         /\ Accepts(family, os)
         /\ made.transform = NoClass /\ made.cpp = Cpp(of, Produced(family, os))
  BY PlainIs
<1>2. PICK cpp : cpp = Cpp(of, Produced(family, os))
  OBVIOUS
<1>3. PICK q : q = Printed(class, cpp)
  OBVIOUS
<1>4. /\ cpp \in PartTypes(class) /\ q \in SUBSET Options /\ Accepts(family, q)
      /\ Produced(family, q) = Produced(family, os)
  BY <1>1, <1>2, <1>3, Zenon DEF Reprints
<1>5. Made(q, NoClass, Cpp(of, Produced(family, q))) \in Plain(of, family)
  BY <1>4, PlainIs
<1>6. Made(q, NoClass, cpp) \in Constructor[class]
  BY <1>2, <1>4, <1>5, Zenon
<1>7. TransformIn(cpp) = {}
  BY <1>2, CppIs, TransformInIs
<1> QED BY <1>1, <1>2, <1>3, <1>4, <1>6, <1>7 DEF RoundTrip

LEMMA FlowTypes ==
  ASSUME NEW family \in {"regular", "variable"}, NEW os \in SUBSET Options,
         Accepts(family, os)
  PROVE  Produced(family, os)
           \in (SUBSET Flow) \cup {Flow \cup {"growth"}, {"circular", "overflow"}}
BY FlowProduced

LEMMA RegularRoundTrip ==
  \A made \in Constructor[2] : RoundTrip(2, made)
<1>1. ASSUME NEW made \in Plain("regular", "regular") PROVE RoundTrip(2, made)
  <2>1. Plain("regular", "regular") \subseteq Constructor[2]
    BY ConstructorIs DEF RegularAxes
  <2>2. ASSUME NEW os \in SUBSET Options, Accepts("regular", os)
        PROVE  /\ Cpp("regular", Produced("regular", os)) \in PartTypes(2)
               /\ Reprints("regular", os,
                           Printed(2, Cpp("regular", Produced("regular", os))))
    <3>1. Cpp("regular", Produced("regular", os)) \in PartTypes(2)
      BY <2>2, FlowTypes, PartTypesAre DEF RegularTypes
    <3>2. Reprints("regular", os, PrintedFlow(Cpp("regular", Produced("regular", os))))
      BY <2>2, FlowReprints
    <3> QED BY <3>1, <3>2, PrintedIs, Zenon
  <2> QED BY <2>1, <2>2, PlainRoundTrip
<1>2. ASSUME NEW t \in {Pow, Function}
      PROVE  RoundTrip(2, Made(Flow, t, Cpp(Produce(t), Flow)))
  <2>1. t \in {10, 11} /\ Pow = 10 /\ Function = 11
    BY DEF Pow, Function
  <2>2. PICK of : of = Produce(t)
    OBVIOUS
  <2>3. /\ t = 10 => of = "regular_pow"
        /\ t = 11 => of = "regular_trans"
    BY <2>1, <2>2 DEF Produce, Pow, Function
  <2>4. PICK cpp : cpp = Cpp(of, Flow)
    OBVIOUS
  <2>5. cpp.of = of /\ cpp.options = Flow
    BY <2>4, CppIs
  <2>6. cpp \in PartTypes(2)
    BY <2>1, <2>3, <2>4, PartTypesAre DEF RegularTypes
  <2>7. Printed(2, cpp) = Flow
    BY <2>5, PrintedIs, PrintedFlowIs, FlowWords
  <2>8. Made(Flow, t, cpp) \in Constructor[2]
    BY <2>2, <2>4, ConstructorIs DEF RegularAxes
  <2>9. \A u \in TransformIn(cpp) : u \in PartTypes(t)
    BY <2>1, <2>3, <2>5, TransformInIs, PartTypesAre
  <2>10. PICK made : made = Made(Flow, t, cpp)
    OBVIOUS
  <2>11. made.transform = t /\ made.cpp = cpp
    BY <2>10, MadeIs
  <2>12. RoundTrip(2, made)
    BY <2>6, <2>7, <2>8, <2>9, <2>11 DEF RoundTrip
  <2> QED BY <2>2, <2>4, <2>10, <2>12
<1> QED BY <1>1, <1>2, ConstructorIs DEF RegularAxes

LEMMA VariableRoundTrip ==
  \A made \in Constructor[3] : RoundTrip(3, made)
<1>1. Plain("variable", "variable") = Constructor[3]
  BY ConstructorIs DEF VariableAxes
<1>2. ASSUME NEW os \in SUBSET Options, Accepts("variable", os)
      PROVE  /\ Cpp("variable", Produced("variable", os)) \in PartTypes(3)
             /\ Reprints("variable", os,
                         Printed(3, Cpp("variable", Produced("variable", os))))
  <2>1. Cpp("variable", Produced("variable", os)) \in PartTypes(3)
    BY <1>2, FlowTypes, PartTypesAre DEF VariableTypes
  <2>2. Reprints("variable", os, PrintedFlow(Cpp("variable", Produced("variable", os))))
    BY <1>2, FlowReprints
  <2> QED BY <2>1, <2>2, PrintedIs, Zenon
<1> QED BY <1>1, <1>2, PlainRoundTrip

LEMMA IntegerRoundTrip ==
  \A made \in Constructor[4] : RoundTrip(4, made)
<1>1. Plain("integer", "integer") = Constructor[4]
  BY ConstructorIs DEF IntegerAxes
<1>2. ASSUME NEW os \in SUBSET Options, Accepts("integer", os)
      PROVE  /\ Cpp("integer", Produced("integer", os)) \in PartTypes(4)
             /\ Reprints("integer", os,
                         Printed(4, Cpp("integer", Produced("integer", os))))
  <2>1. Produced("integer", os) \in (SUBSET Flow) \cup {{"growth"}, {"circular"}}
    BY <1>2, IntegerProduced
  <2>2. Cpp("integer", Produced("integer", os)) \in PartTypes(4)
    BY <2>1, PartTypesAre DEF IntegerTypes
  <2>3. Reprints("integer", os, PrintedFlow(Cpp("integer", Produced("integer", os))))
    BY <1>2, FlowReprints
  <2> QED BY <2>2, <2>3, PrintedIs, Zenon
<1> QED BY <1>1, <1>2, PlainRoundTrip

LEMMA CategoryRoundTrip ==
  ASSUME NEW class \in {6, 7}
  PROVE  \A made \in Constructor[class] : RoundTrip(class, made)
<1>1. PICK of \in {"category_str", "category_int"} :
         PartTypes(class) = CategoryTypes(of) /\ Constructor[class] = Plain(of, "category")
  BY ConstructorIs, PartTypesAre DEF StrCategoryAxes, IntCategoryAxes
<1>2. ASSUME NEW os \in SUBSET Options, Accepts("category", os)
      PROVE  /\ Cpp(of, Produced("category", os)) \in PartTypes(class)
             /\ Reprints("category", os, Printed(class, Cpp(of, Produced("category", os))))
  <2>1. Produced("category", os) \in {{"growth"}, {"overflow"}}
    BY <1>2, CategoryProduced
  <2>2. Cpp(of, Produced("category", os)) \in PartTypes(class)
    BY <1>1, <2>1 DEF CategoryTypes
  <2>3. Reprints("category", os, PrintedCategory(Cpp(of, Produced("category", os))))
    BY <1>2, CategoryReprints
  <2> QED BY <2>2, <2>3, PrintedIs, Zenon
<1> QED BY <1>1, <1>2, PlainRoundTrip

LEMMA BooleanRoundTrip ==
  \A made \in Constructor[8] : RoundTrip(8, made)
<1>1. PICK cpp : cpp = Cpp("boolean", {})
  OBVIOUS
<1>2. Constructor[8] = {Made({}, NoClass, cpp)}
  BY <1>1, ConstructorIs DEF BooleanAxes
<1>3. PICK made : made = Made({}, NoClass, cpp)
  OBVIOUS
<1>4. made.transform = NoClass /\ made.cpp = cpp
  BY <1>3, MadeIs
<1>5. Printed(8, cpp) = {} /\ TransformIn(cpp) = {} /\ cpp \in PartTypes(8)
  BY <1>1, CppIs, PrintedIs, TransformInIs, PartTypesAre
<1>6. RoundTrip(8, made)
  BY <1>2, <1>3, <1>4, <1>5 DEF RoundTrip
<1> QED BY <1>2, <1>3, <1>6

LEMMA AxisRoundTrip ==
  \A class \in AxisClasses : \A made \in Constructor[class] : RoundTrip(class, made)
<1>1. AxisClasses = {2, 3, 4, 6, 7, 8}
  BY DEF AxisClasses, Regular, Variable, Integer, StrCategory, IntCategory, Boolean
<1> QED BY <1>1, RegularRoundTrip, VariableRoundTrip, IntegerRoundTrip, CategoryRoundTrip,
           BooleanRoundTrip

LEMMA CppAxesAre ==
  \A ax \in CppAxes : ax[1] \in AxisClasses /\ ax[2] \in PartTypes(ax[1])
<1>1. ASSUME NEW class \in AxisClasses, NEW made \in Constructor[class]
      PROVE  made.cpp \in PartTypes(class)
  BY AxisRoundTrip DEF RoundTrip
<1>2. Regular \in AxisClasses /\ Cpp("regular_numpy", Flow) \in PartTypes(Regular)
  BY PartTypesAre DEF AxisClasses, Regular, RegularTypes
<1>3. ASSUME NEW ax \in CppAxes
      PROVE  \/ \E class \in AxisClasses : \E made \in Constructor[class] :
                  ax = <<class, made.cpp>>
             \/ ax = <<Regular, Cpp("regular_numpy", Flow)>>
  BY DEF CppAxes
<1> QED BY <1>1, <1>2, <1>3
-----------------------------------------------------------------------------
(* Parts come back *)

LEMMA AxisParents ==
  ASSUME NEW cs, WellMade(cs)
  PROVE  /\ \A c \in {2, 3, 4, 5, 8} : IsPart(cs, c, 1)
         /\ \A c \in {6, 7} : IsPart(cs, c, 5)
         /\ cs[1].parent = 0 /\ 1 \in 1 .. Len(cs)
<1>1. \A c \in {2, 3, 4, 5, 8} : MadeUnder(c, 1)
  BY BoostMade, Zenon DEF MadeUnder
<1>2. \A c \in {6, 7} : MadeUnder(c, 5)
  BY BoostMade, Zenon DEF MadeUnder
<1>3. Kept(cs[1], BoostClasses[1]) /\ 1 \in 1 .. Len(cs)
  BY DEF WellMade, Tree
<1>4. cs[1].parent = 0
  BY <1>3, BoostMade, Zenon DEF Kept, IsMadeOf
<1> QED BY <1>1, <1>2, <1>3, <1>4, PartIs

\* No class of axes that has a constructor derives from another.
LEMMA AxesApart ==
  ASSUME NEW cs, WellMade(cs), NEW a \in AxisClasses, NEW b \in AxisClasses,
         DescendsFrom(cs, a, b)
  PROVE  a = b
<1>1. a \in {2, 3, 4, 6, 7, 8} /\ b \in {2, 3, 4, 6, 7, 8}
  BY DEF AxisClasses, Regular, Variable, Integer, StrCategory, IntCategory, Boolean
<1>2. Tree(cs)
  BY DEF WellMade
<1>7. /\ ~DescendsFrom(cs, 0, b)
      /\ \A c \in 1 .. Len(cs) :
           DescendsFrom(cs, c, b) <=> c = b \/ DescendsFrom(cs, cs[c].parent, b)
  BY <1>2, DescentIs
<1>3. ~DescendsFrom(cs, 1, b)
  <2>1. cs[1].parent = 0 /\ 1 \in 1 .. Len(cs)
    BY AxisParents
  <2>2. DescendsFrom(cs, 1, b) <=> 1 = b \/ DescendsFrom(cs, cs[1].parent, b)
    BY <1>7, <2>1
  <2> QED BY <1>1, <1>7, <2>1, <2>2
<1>8. ASSUME NEW c, NEW p, IsPart(cs, c, p), ~DescendsFrom(cs, p, b), c # b
      PROVE  ~DescendsFrom(cs, c, b)
  BY <1>7, <1>8 DEF IsPart
<1>4. ~DescendsFrom(cs, 5, b)
  <2>1. IsPart(cs, 5, 1) /\ 5 # b
    BY <1>1, AxisParents
  <2> QED BY <1>3, <1>8, <2>1
<1>5. CASE a \in {2, 3, 4, 8}
  <2>1. IsPart(cs, a, 1)
    BY <1>5, AxisParents
  <2> QED BY <1>3, <1>8, <2>1
<1>6. CASE a \in {6, 7}
  <2>1. IsPart(cs, a, 5)
    BY <1>6, AxisParents
  <2> QED BY <1>4, <1>8, <2>1
<1> QED BY <1>1, <1>5, <1>6

LEMMA ConstructorFound ==
  ASSUME ClassInv, NEW class \in AxisClasses, NEW c \in 1 .. Len(classes),
         DescendsFrom(classes, c, class)
  PROVE  ConstructorOf(c) = class
<1>1. ASSUME NEW other \in AxisClasses, DescendsFrom(classes, c, other)
      PROVE  other = class
  <2>1. Tree(classes) /\ c \in 0 .. Len(classes)
    BY DEF ClassInv, WellMade
  <2>2. class \in 1 .. Len(classes) /\ other \in 1 .. Len(classes)
    BY AxisIs DEF ClassInv
  <2>3. DescendsFrom(classes, class, other) \/ DescendsFrom(classes, other, class)
    BY <1>1, <2>1, <2>2, DescentChain
  <2> QED BY <2>3, AxesApart DEF ClassInv
<1> QED BY <1>1 DEF ConstructorOf

\* The constructor of a transform makes what its class was registered for.
LEMMA TransformMade ==
  ASSUME ClassInv, NEW class \in {Pow, Function}, NEW t \in NewTransform(class)
  PROVE  t \in PartTypes(class)
<1>1. class \in {10, 11}
  BY DEF Pow, Function
<1>2. class \in TypedParts /\ class \in 1 .. 19
  BY <1>1 DEF TypedParts
<1>3. Holder(classes)[class] = class
  BY <1>2, TypedHolder DEF ClassInv
<1>4. BoostClasses[class].types # NoTypes /\ Kept(classes[class], BoostClasses[class])
  BY <1>2, TypedOrNot DEF ClassInv, WellMade
<1>5. Added(classes[class].types, PartTypes(class))
  BY <1>4 DEF Kept, PartTypes
<1>6. PICK ts \in SUBSET NewTypes : classes[class].types = OwnTypes(PartTypes(class) \cup ts)
  BY <1>5 DEF Added
<1>7. PICK u : PartTypes(class) = {u}
  BY <1>1, PartTypesAre
<1>8. PICK types : types = {u} \cup ts
  OBVIOUS
<1>9. classes[class].types[1] = types
  BY <1>6, <1>7, <1>8, TypesFacts
<1>10. IsFiniteSet(types)
  <2>1. IsFiniteSet(ts)
    BY NewTypesAssumption, FS_Subset
  <2>2. IsFiniteSet({u})
    BY FS_Singleton
  <2> QED BY <1>8, <2>1, <2>2, FS_Union
<1>11. NewTransform(class) = IF Cardinality(types) = 1 THEN types ELSE {}
  BY <1>3, <1>9 DEF NewTransform
<1>12. Cardinality(types) = 1 /\ t \in types
  BY <1>11
<1>13. u \in types
  BY <1>8
<1>14. t = u
  BY <1>10, <1>12, <1>13, FS_Singleton
<1> QED BY <1>7, <1>14

LEMMA PrintsBack ==
  ASSUME ClassInv, NEW class \in AxisClasses, NEW made \in Constructor[class],
         NEW c \in 1 .. Len(classes), DescendsFrom(classes, c, class)
  PROVE  PrintsAs(c, made)
<1>1. ConstructorOf(c) = class
  BY ConstructorFound
<1>2. RoundTrip(class, made)
  BY AxisRoundTrip
<1>3. Made(Printed(class, made.cpp), made.transform, made.cpp) \in Constructor[class]
  BY <1>2 DEF RoundTrip
<1>4. ASSUME NEW t \in TransformIn(made.cpp)
      PROVE  ComesBack(classes[c].family, made.transform, t, AxisTransform)
  <2>1. made.transform \in {Pow, Function} /\ t \in PartTypes(made.transform)
    BY <1>2 DEF RoundTrip
  <2> QED BY <2>1, TransformComesBack
<1> QED BY <1>1, <1>3, <1>4, Zenon DEF PrintsAs

LEMMA ClassesGiveParts ==
  ASSUME ClassInv
  PROVE  PartsComeBack
<1>1. ASSUME NEW family \in Libraries \cup {Main}, NEW ax \in CppAxes,
             NEW c, c = Cast(classes, family, ax[2], Axis)
      PROVE  /\ StandsFor(c, family, ax[1])
             /\ \A made \in Constructor[ax[1]] : made.cpp = ax[2] => PrintsAs(c, made)
  <2>1. ax[1] \in AxisClasses /\ ax[2] \in PartTypes(ax[1])
    BY CppAxesAre
  <2>2. ComesBack(family, ax[1], ax[2], Axis) /\ c \in 1 .. Len(classes)
    BY <1>1, <2>1, AxisComesBack
  <2>3. StandsFor(c, family, ax[1])
    BY <1>1, <2>2 DEF ComesBack
  <2>4. DescendsFrom(classes, c, ax[1])
    BY <2>3 DEF StandsFor
  <2> QED BY <2>1, <2>2, <2>3, <2>4, PrintsBack
<1>2. ASSUME NEW family, NEW class \in {Pow, Function}, NEW t \in NewTransform(class)
      PROVE  ComesBack(family, class, t, AxisTransform)
  BY <1>2, TransformMade, TransformComesBack
<1>3. ASSUME NEW family, NEW k \in DOMAIN StorageNames
      PROVE  ComesBack(family, StorageClass(k), Cpp(StorageNames[k], {}), Storage)
  BY <1>3, StorageComesBack
<1> QED BY <1>1, <1>2, <1>3, Zenon DEF PartsComeBack

\* Whatever classes libraries have derived, registered for types of their own,
\* hidden or failed to bind: an axis, a transform or a storage comes out of a
\* histogram of any family as what it was made as, and is printed as a call
\* that would make it again.
THEOREM PartsStand == UnpicklingSpec => []PartsComeBack
BY UnpicklingClasses, ClassesGiveParts, PTL
-----------------------------------------------------------------------------
(* Opening *)

LEMMA AxesFound ==
  ASSUME ClassInv, object \in DOMAIN Objects, NEW family, NEW state,
         NEW h, h.axes = GenerateAxes(family, state)
  PROVE  ClassesFound(h)
<1>1. ASSUME NEW i \in DOMAIN Axes
      PROVE  /\ h.axes[i].class # NoClass
             /\ \E class \in AxisClasses :
                  /\ <<class, Axes[i]>> \in CppAxes
                  /\ DescendsFrom(classes, h.axes[i].class, class)
  <2>1. PICK class \in AxisClasses : <<class, Axes[i]>> \in CppAxes
    BY AxesAssumption DEF Axes
  <2>2. PICK t : t = Axes[i]
    OBVIOUS
  <2>3. t \in PartTypes(class)
    <3>1. <<class, t>> \in CppAxes
      BY <2>1, <2>2
    <3>2. <<class, t>>[1] = class /\ <<class, t>>[2] = t
      OBVIOUS
    <3> QED BY <3>1, <3>2, CppAxesAre
  <2>4. PICK c : c = Cast(classes, family, t, Axis)
    OBVIOUS
  <2>5. c # NoClass /\ DescendsFrom(classes, c, class)
    BY <2>3, <2>4, AxisComesBack DEF ComesBack, StandsFor
  <2>6. h.axes[i] = AxisOf(family, state, i)
    BY Zenon DEF GenerateAxes
  <2>7. AxisOf(family, state, i).class = c
    BY <2>2, <2>4, Zenon DEF AxisOf, ConvertCpp
  <2> QED BY <2>1, <2>5, <2>6, <2>7, Zenon
<1> QED BY <1>1, Zenon DEF ClassesFound

FoundInv == \A k \in DOMAIN opened : ClassesFound(opened[k])

LEMMA SetStateFinds ==
  ASSUME ArchiveInv, ClassInv, NEW family, NEW state, SetState(family, state)
  PROVE  FoundInv'
<1>1. UNCHANGED <<classes, vars>>
  BY DEF SetState
<1>2. object \in DOMAIN Objects
  BY DEF ArchiveInv, Recorded
<1> DEFINE made == [family |-> family, state |-> state,
                    raises |-> TooNew(state),
                    known |-> IF state.known = <<>> THEN TRUE ELSE state.known[1],
                    label |-> IF state.label = <<>> THEN "None" ELSE state.label[1],
                    axes |-> GenerateAxes(family, state)]
<1>3. PICK h : h = made
  OBVIOUS
<1>4. opened' = <<h>>
  BY <1>3, Zenon DEF SetState
<1>5. h.axes = GenerateAxes(family, state)
  BY <1>3, Zenon
<1> HIDE DEF made
<1>6. ClassesFound(h)
  BY <1>2, <1>5, AxesFound
<1>7. DOMAIN <<h>> = {1} /\ <<h>>[1] = h
  OBVIOUS
<1>8. object' = object /\ classes' = classes
  BY <1>1 DEF vars
<1>9. ASSUME NEW k \in DOMAIN opened' PROVE ClassesFound(opened[k])'
  <2>1. k = 1
    BY <1>4, <1>7
  <2>2. opened'[k] = h
    BY <1>4, <1>7, <2>1
  <2> QED BY <1>6, <1>8, <2>2, Zenon DEF ClassesFound, Axes
<1> QED BY <1>9, Zenon DEF FoundInv

LEMMA FoundUnchanged ==
  ASSUME FoundInv, UNCHANGED <<object, classes, opened>>
  PROVE  FoundInv'
<1>1. ASSUME NEW k \in DOMAIN opened' PROVE ClassesFound(opened[k])'
  <2>1. ClassesFound(opened[k])
    BY <1>1 DEF FoundInv
  <2> QED BY <2>1, Zenon DEF ClassesFound, Axes
<1> QED BY <1>1, Zenon DEF FoundInv

LEMMA FindingPreserves ==
  ASSUME ArchiveInv, ClassInv, OpenedInv, FoundInv,
         [UnpicklingNext]_<<vars, classes, opened>>
  PROVE  FoundInv'
<1>1. CASE Next /\ UNCHANGED <<classes, opened>>
  <2>1. phase # "done"
    BY <1>1, DoneStays
  <2>2. opened = <<>> /\ opened' = <<>>
    BY <1>1, <2>1 DEF OpenedInv
  <2>3. DOMAIN <<>> = {}
    OBVIOUS
  <2> QED BY <2>2, <2>3 DEF FoundInv
<1>2. CASE opened = <<>> /\ UNCHANGED opened
  <2>1. DOMAIN <<>> = {}
    OBVIOUS
  <2> QED BY <1>2, <2>1 DEF FoundInv
<1>3. CASE UNCHANGED <<vars, classes, opened>>
  BY <1>3, FoundUnchanged DEF vars
<1>4. ASSUME NEW family, NEW state, SetState(family, state)
      PROVE  FoundInv'
  BY <1>4, SetStateFinds
<1> QED BY <1>1, <1>2, <1>3, <1>4 DEF UnpicklingNext

\* A file of any of the generations, opened by a histogram of any family in a
\* process with any classes that libraries may have derived, gives the flag and
\* the labels that were saved, and axes of the classes that they had.
THEOREM EveryGenerationOpens == UnpicklingSpec => []OpensEveryGeneration
<1>1. UnpicklingInit => FoundInv
  <2>1. DOMAIN <<>> = {}
    OBVIOUS
  <2> QED BY <2>1 DEF UnpicklingInit, FoundInv
<1>2. ASSUME ArchiveInv, ClassInv, OpenedInv, FoundInv,
             [UnpicklingNext]_<<vars, classes, opened>>
      PROVE  FoundInv'
  BY <1>2, FindingPreserves
<1>3. OpenedInv /\ FoundInv => OpensEveryGeneration
  BY Zenon DEF OpenedInv, FoundInv, OpensEveryGeneration
<1> QED BY <1>1, <1>2, <1>3, ArchiveInvariantOpening, UnpicklingClasses, StatesAreRead,
           PTL DEF UnpicklingSpec
-----------------------------------------------------------------------------
(* What cast makes of the C++ classes of axes *)

LEMMA LastMeetsOnce ==
  ASSUME NEW T, NEW s \in Seq(T), NEW S, NEW x, NEW y, IsLast(x, s, S), IsLast(y, s, S)
  PROVE  x = y
<1>1. PICK k \in DOMAIN s : s[k] = x /\ \A j \in DOMAIN s : s[j] \in S => j <= k
  BY DEF IsLast
<1>2. PICK i \in DOMAIN s : s[i] = y /\ \A j \in DOMAIN s : s[j] \in S => j <= i
  BY DEF IsLast
<1>3. x \in S /\ y \in S
  BY DEF IsLast
<1>4. DOMAIN s \subseteq Nat
  BY SequenceFacts
<1>5. k <= i /\ i <= k
  BY <1>1, <1>2, <1>3
<1>6. k = i
  BY <1>4, <1>5
<1> QED BY <1>1, <1>2, <1>6

\* At the end of a branch is its class.
LEMMA BranchEnds ==
  ASSUME NEW cs, Tree(cs), NEW w, Walks(w, cs), NEW d \in 1 .. Len(cs), NEW S
  PROVE  /\ d \in S => IsLast(d, Append(w[d], d), S)
         /\ \A x : d \notin S /\ IsLast(x, w[d], S) => IsLast(x, Append(w[d], d), S)
<1>1. w[d] \in Seq(1 .. Len(cs))
  BY DEF Walks
<1>2. PICK one : one = <<d>>
  OBVIOUS
<1>3. one \in Seq(1 .. Len(cs)) /\ DOMAIN one = {1} /\ one[1] = d
  BY <1>2
<1>4. Append(w[d], d) = w[d] \o one
  BY <1>1, <1>2
<1>5. d \in S => IsLast(d, one, S)
  BY <1>3 DEF IsLast
<1>6. d \notin S => ~Meets(one, S)
  BY <1>3 DEF Meets
<1> QED BY <1>1, <1>3, <1>4, <1>5, <1>6, JoinedLast

LEMMA AxisStands ==
  ASSUME NEW cs, WellMade(cs), NEW class \in AxisClasses, NEW t \in PartTypes(class),
         NEW family
  PROVE  /\ class \in Takers(cs, Main, t)
         /\ \A e \in Takers(cs, family, t) : e \in 1 .. Len(cs) /\ DescendsFrom(cs, e, class)
<1>1. class \in TypedParts /\ class \in 1 .. Len(cs) /\ cs[class].family = Main
  BY AxisIs
<1>2. \A d \in 1 .. Len(cs) : Takes(cs, d, t) <=> Stands(cs, d, class)
  BY <1>1, TypedTakes
<1>3. Stands(cs, class, class)
  BY <1>1, DescendsItself DEF Stands, WellMade
<1> QED BY <1>1, <1>2, <1>3 DEF Takers, Stands

LEMMA LastIsClass ==
  ASSUME NEW cs, WellMade(cs), NEW class \in AxisClasses, NEW t \in PartTypes(class),
         NEW w, Walks(w, cs)
  PROVE  IsLast(class, w[1], Takers(cs, Main, t))
<1> DEFINE S == Takers(cs, Main, t)
<1>1. class \in {2, 3, 4, 6, 7, 8}
  BY DEF AxisClasses, Regular, Variable, Integer, StrCategory, IntCategory, Boolean
<1>2. Tree(cs) /\ BasesExist(cs)
  BY WellMadeBases DEF WellMade
<1>3. class \in S /\ \A e \in S : e \in 1 .. Len(cs) /\ DescendsFrom(cs, e, class)
  BY AxisStands
<1> HIDE DEF S
<1>4. ASSUME NEW d, NEW p, IsPart(cs, d, p)
      PROVE  IsSubclass(cs, d, p) /\ d \in 1 .. Len(cs) /\ p \in 1 .. Len(cs)
  BY <1>4 DEF IsPart, IsSubclass
<1>5. ASSUME NEW p, IsPart(cs, class, p) PROVE IsLast(class, w[p], S)
  <2>1. class \in 1 .. Len(cs) /\ p \in 1 .. Len(cs) /\ IsSubclass(cs, class, p)
    BY <1>4, <1>5
  <2>2. IsLast(class, Append(w[class], class), S)
    BY <1>2, <1>3, <2>1, BranchEnds
  <2>3. \A e \in Below(cs, p) \cap S : DescendsFrom(cs, e, class)
    BY <1>3
  <2> QED BY <1>2, <2>1, <2>2, <2>3, OneBranch
<1>6. CASE class \in {2, 3, 4, 8}
  <2>1. IsPart(cs, class, 1)
    BY <1>6, AxisParents
  <2> QED BY <1>5, <2>1 DEF S
<1>7. CASE class \in {6, 7}
  <2>1. IsPart(cs, class, 5) /\ IsPart(cs, 5, 1)
    BY <1>7, AxisParents
  <2>2. IsLast(class, w[5], S)
    BY <1>5, <2>1
  <2>3. 5 \in 1 .. Len(cs) /\ 1 \in 1 .. Len(cs) /\ IsSubclass(cs, 5, 1)
    BY <1>4, <2>1
  <2>4. DescendsFrom(cs, class, 5) /\ class \in 1 .. Len(cs)
    BY <2>1 DEF IsPart
  <2>5. 5 \notin S
    <3>1. ~DescendsFrom(cs, 5, class)
      <4>1. DescendsFrom(cs, 5, class) => class \in 1 .. 5
        BY <1>2, <2>3, DescendsLater
      <4> QED BY <1>7, <4>1
    <3> QED BY <1>3, <3>1
  <2>6. IsLast(class, Append(w[5], 5), S)
    BY <1>2, <2>2, <2>3, <2>5, BranchEnds
  <2>7. \A e \in Below(cs, 1) \cap S : DescendsFrom(cs, e, 5)
    <3>1. ASSUME NEW e \in S PROVE DescendsFrom(cs, e, 5)
      <4>1. e \in 0 .. Len(cs) /\ DescendsFrom(cs, e, class)
        BY <1>2, <1>3 DEF Tree
      <4> QED BY <1>2, <2>4, <4>1, DescendsOn
    <3> QED BY <3>1
  <2>8. IsLast(class, w[1], S)
    BY <1>2, <2>3, <2>6, <2>7, OneBranch
  <2> QED BY <2>8 DEF S
<1> QED BY <1>1, <1>6, <1>7

\* The first class of the family, or the class itself.
LEMMA CastIsEither ==
  ASSUME NEW cs, WellMade(cs), NEW class \in AxisClasses, NEW t \in PartTypes(class),
         NEW w, Walks(w, cs), NEW family
  PROVE  /\ Meets(w[1], Takers(cs, family, t))
              => IsFirst(Cast(cs, family, t, 1), w[1], Takers(cs, family, t))
         /\ ~Meets(w[1], Takers(cs, family, t)) => Cast(cs, family, t, 1) = class
<1>1. Tree(cs) /\ 1 \in 1 .. Len(cs)
  BY AxisIs DEF WellMade, Tree
<1>2. IsLast(class, w[1], Takers(cs, Main, t))
  BY LastIsClass
<1>3. Meets(w[1], Takers(cs, Main, t))
  BY <1>2 DEF IsLast, Meets
<1>4. w[1] \in Seq(1 .. Len(cs))
  BY <1>1 DEF Walks
<1> QED BY <1>1, <1>2, <1>3, <1>4, CastIs, LastMeetsOnce
-----------------------------------------------------------------------------
(* Classes that come and go *)

\* A class without subclasses comes or goes, and is not in the set.
ComesOrGoes(cs, ds, l, S) ==
  /\ Tree(cs) /\ BasesExist(cs) /\ Tree(ds) /\ BasesExist(ds)
  /\ Len(cs) <= Len(ds) /\ l \notin S
  /\ \A d \in 1 .. Len(cs) : d # l => ds[d].parent = cs[d].parent /\ ds[d].exists = cs[d].exists
  /\ \A d \in 1 .. Len(ds) : d > Len(cs) => d = l
  /\ \A d \in 1 .. Len(cs) : cs[d].parent # l
  /\ \A d \in 1 .. Len(ds) : ds[d].parent # l

LEMMA LeafBranch ==
  ASSUME NEW cs, Tree(cs), BasesExist(cs), NEW w, Walks(w, cs), NEW l \in 1 .. Len(cs),
         \A d \in 1 .. Len(cs) : cs[d].parent # l, NEW S, l \notin S, NEW c
  PROVE  ~Meets(Branches(cs, w, c)[l], S)
<1>1. Below(cs, l) = {}
  BY ByBranch DEF Below
<1>2. ~Meets(w[l], S)
  BY <1>1, WalkMeets
<1>3. ~Meets(Append(w[l], l), S)
  BY <1>2, BranchMeets
<1>4. ~Meets(<<>>, S)
  BY DEF Meets
<1>5. w \in [1 .. Len(cs) -> Seq(1 .. Len(cs))]
  BY DEF Walks
<1> QED BY <1>3, <1>4, <1>5, BranchesType

LEMMA InMore ==
  ASSUME NEW A, NEW B, A \subseteq B
  PROVE  Seq(A) \subseteq Seq(B)
OBVIOUS

LEMMA SameFirstItself ==
  ASSUME NEW s, NEW t, NEW S, ~Meets(s, S), ~Meets(t, S)
  PROVE  SameFirst(s, t, S)
BY DEF SameFirst, IsFirst, Meets

LEMMA BranchesAs ==
  ASSUME NEW cs, Tree(cs), NEW w, Walks(w, cs), NEW c, NEW a, a = Branches(cs, w, c),
         NEW m, m = Len(cs)
  PROVE  /\ a \in Seq(Seq(1 .. m)) /\ Len(a) = m
         /\ \A d \in 1 .. m : a[d] = IF IsSubclass(cs, d, c) THEN Append(w[d], d) ELSE <<>>
BY BranchesType, Zenon DEF Walks

LEMMA AppendIs ==
  ASSUME NEW T, NEW s \in Seq(T), NEW x \in T, NEW one, one = <<x>>
  PROVE  Append(s, x) = s \o one
OBVIOUS

LEMMA ComingGoing ==
  ASSUME NEW cs, NEW ds, NEW l, NEW S, ComesOrGoes(cs, ds, l, S),
         NEW w, Walks(w, cs), NEW v, Walks(v, ds)
  PROVE  \A c \in 1 .. Len(cs) : SameFirst(w[c], v[c], S)
<1> DEFINE P == {c \in 1 .. Len(cs) : SameFirst(w[c], v[c], S)}
<1>0. PICK m : m = Len(cs)
  OBVIOUS
<1>1. PICK n : n = Len(ds)
  OBVIOUS
<1>2. /\ Tree(cs) /\ BasesExist(cs) /\ Tree(ds) /\ BasesExist(ds) /\ m \in Nat /\ n \in Nat
      /\ m <= n /\ l \notin S
  BY <1>0, <1>1 DEF ComesOrGoes, Tree
<1>3. /\ w \in [1 .. m -> Seq(1 .. m)] /\ v \in [1 .. n -> Seq(1 .. n)]
      /\ \A c \in 1 .. m : w[c] = FlattenSeq(Branches(cs, w, c))
      /\ \A c \in 1 .. n : v[c] = FlattenSeq(Branches(ds, v, c))
  BY <1>0, <1>1 DEF Walks
<1>4. ASSUME NEW c \in 1 .. m, \A d \in 1 .. m : cs[d].parent = c => d \in P
      PROVE  SameFirst(w[c], v[c], S)
  <2>1. PICK a : a = Branches(cs, w, c)
    OBVIOUS
  <2>2. PICK b : b = Branches(ds, v, c)
    OBVIOUS
  <2>3. /\ a \in Seq(Seq(1 .. m)) /\ Len(a) = m
        /\ \A d \in 1 .. m : a[d] = IF IsSubclass(cs, d, c) THEN Append(w[d], d) ELSE <<>>
    BY <1>0, <1>2, <2>1, BranchesAs
  <2>4. /\ b \in Seq(Seq(1 .. n)) /\ Len(b) = n
        /\ \A d \in 1 .. n : b[d] = IF IsSubclass(ds, d, c) THEN Append(v[d], d) ELSE <<>>
    BY <1>1, <1>2, <2>2, BranchesAs
  <2>5. a \in Seq(Seq(1 .. n))
    <3>1. 1 .. m \subseteq 1 .. n
      BY <1>2
    <3> QED BY <2>3, <3>1, InMore
  <2>6. l \in 1 .. m => ~Meets(a[l], S)
    BY <1>0, <1>2, <2>1, LeafBranch DEF ComesOrGoes
  <2>7. l \in 1 .. n => ~Meets(b[l], S)
    BY <1>1, <1>2, <2>2, LeafBranch DEF ComesOrGoes
  <2>8. ASSUME NEW d \in 1 .. m PROVE SameFirst(a[d], b[d], S)
    <3>1. d \in 1 .. n
      BY <1>2
    <3>2. CASE d = l
      BY <2>6, <2>7, <3>1, <3>2, SameFirstItself
    <3>3. CASE d # l
      <4>1. IsSubclass(ds, d, c) <=> IsSubclass(cs, d, c)
        BY <1>0, <3>3 DEF ComesOrGoes, IsSubclass
      <4>2. CASE ~IsSubclass(cs, d, c)
        <5>1. a[d] = <<>> /\ b[d] = <<>>
          BY <2>3, <2>4, <3>1, <4>1, <4>2
        <5> QED BY <5>1 DEF SameFirst
      <4>3. CASE IsSubclass(cs, d, c)
        <5>1. a[d] = Append(w[d], d) /\ b[d] = Append(v[d], d)
          BY <2>3, <2>4, <3>1, <4>1, <4>3
        <5>2. SameFirst(w[d], v[d], S)
          BY <1>4, <4>3 DEF IsSubclass
        <5>3. w[d] \in Seq(1 .. n) /\ v[d] \in Seq(1 .. n)
          <6>1. 1 .. m \subseteq 1 .. n
            BY <1>2
          <6> QED BY <1>3, <3>1, <6>1, InMore
        <5>4. PICK one : one = <<d>>
          OBVIOUS
        <5>5. one \in Seq(1 .. n)
          BY <3>1, <5>4
        <5>6. a[d] = w[d] \o one /\ b[d] = v[d] \o one
          BY <3>1, <5>1, <5>3, <5>4, AppendIs
        <5>7. SameFirst(one, one, S)
          BY DEF SameFirst
        <5> QED BY <5>2, <5>3, <5>5, <5>6, <5>7, SameFirstJoined
      <4> QED BY <4>2, <4>3
    <3> QED BY <3>2, <3>3
  <2>9. ASSUME NEW d \in 1 .. n, d > m PROVE ~Meets(b[d], S)
    <3>1. d = l
      BY <1>0, <1>1, <2>9 DEF ComesOrGoes
    <3> QED BY <2>7, <3>1
  <2>10. SameFirst(FlattenSeq(a), FlattenSeq(b), S)
    BY <1>2, <2>3, <2>4, <2>5, <2>8, <2>9, FlattenFirst
  <2>11. c \in 1 .. n
    BY <1>2
  <2> QED BY <1>3, <2>1, <2>2, <2>10, <2>11
<1>5. 1 .. Len(cs) \subseteq P
  <2>1. ASSUME NEW c \in 1 .. Len(cs), \A d \in 1 .. Len(cs) : cs[d].parent = c => d \in P
        PROVE  c \in P
    BY <1>0, <1>4, <2>1
  <2> HIDE DEF P
  <2> QED BY <1>2, <2>1, TreeDown
<1> QED BY <1>5

LEMMA CastTheSame ==
  ASSUME NEW cs, NEW ds, WellMade(cs), WellMade(ds), NEW class \in AxisClasses,
         NEW t \in PartTypes(class), NEW family, NEW l,
         Takers(ds, family, t) = Takers(cs, family, t),
         ComesOrGoes(cs, ds, l, Takers(cs, family, t))
  PROVE  Cast(ds, family, t, 1) = Cast(cs, family, t, 1)
<1>1. Tree(cs) /\ Tree(ds) /\ 1 \in 1 .. Len(cs) /\ 1 \in 1 .. Len(ds)
  BY DEF WellMade, Tree
<1>2. PICK w : Walks(w, cs)
  BY <1>1, WalkIs
<1>3. PICK v : Walks(v, ds)
  BY <1>1, WalkIs
<1>4. PICK S : S = Takers(cs, family, t)
  OBVIOUS
<1>5. SameFirst(w[1], v[1], S)
  BY <1>1, <1>2, <1>3, <1>4, ComingGoing
<1>6. w[1] \in Seq(1 .. Len(cs)) /\ v[1] \in Seq(1 .. Len(ds))
  BY <1>1, <1>2, <1>3 DEF Walks
<1>7. Meets(w[1], S) <=> Meets(v[1], S)
  BY <1>5, <1>6, FirstMeets DEF SameFirst
<1>8. /\ Meets(w[1], S) => IsFirst(Cast(cs, family, t, 1), w[1], S)
      /\ ~Meets(w[1], S) => Cast(cs, family, t, 1) = class
  BY <1>2, <1>4, CastIsEither
<1>9. /\ Meets(v[1], S) => IsFirst(Cast(ds, family, t, 1), v[1], S)
      /\ ~Meets(v[1], S) => Cast(ds, family, t, 1) = class
  BY <1>3, <1>4, CastIsEither
<1>10. CASE Meets(w[1], S)
  <2>1. IsFirst(Cast(ds, family, t, 1), w[1], S)
    BY <1>5, <1>7, <1>9, <1>10 DEF SameFirst
  <2> QED BY <1>6, <1>8, <1>10, <2>1, FirstMeets
<1> QED BY <1>7, <1>8, <1>9, <1>10
-----------------------------------------------------------------------------
(* Other families are untouched *)

\* The classes as they were inherit as they did.
Inherits(cs, ds) ==
  /\ Tree(cs) /\ Tree(ds) /\ Len(cs) <= Len(ds)
  /\ \A c \in 1 .. Len(cs) : /\ ds[c].parent = cs[c].parent
                             /\ ds[c].family = cs[c].family
                             /\ ds[c].types # NoTypes <=> cs[c].types # NoTypes

LEMMA InheritsHolder ==
  ASSUME NEW cs, NEW ds, Inherits(cs, ds)
  PROVE  \A c \in 0 .. Len(cs) : Holder(ds)[c] = Holder(cs)[c]
<1> DEFINE P == {c \in 0 .. Len(cs) : Holder(ds)[c] = Holder(cs)[c]}
<1>1. Tree(cs) /\ Tree(ds) /\ Len(cs) \in Nat /\ Len(ds) \in Nat /\ Len(cs) <= Len(ds)
  BY DEF Inherits, Tree
<1>2. 0 \in P
  BY <1>1, HolderIs
<1>3. ASSUME NEW c \in 1 .. Len(cs), cs[c].parent \in P PROVE c \in P
  <2>1. Holder(cs)[c] = IF cs[c].types # NoTypes THEN c ELSE Holder(cs)[cs[c].parent]
    BY <1>1, HolderIs
  <2>2. Holder(ds)[c] = IF ds[c].types # NoTypes THEN c ELSE Holder(ds)[ds[c].parent]
    BY <1>1, HolderIs
  <2>3. /\ ds[c].parent = cs[c].parent
        /\ ds[c].types # NoTypes <=> cs[c].types # NoTypes
    BY DEF Inherits
  <2>4. Holder(ds)[cs[c].parent] = Holder(cs)[cs[c].parent]
    BY <1>3
  <2>5. Holder(ds)[c] = Holder(cs)[c]
    BY <2>1, <2>2, <2>3, <2>4, Zenon
  <2> QED BY <1>1, <2>5
<1> HIDE DEF P
<1>4. 0 .. Len(cs) \subseteq P
  BY <1>1, <1>2, <1>3, TreeInduction
<1> QED BY <1>4 DEF P

LEMMA InheritsDescent ==
  ASSUME NEW cs, NEW ds, Inherits(cs, ds), NEW a
  PROVE  \A c \in 0 .. Len(cs) : DescendsFrom(ds, c, a) <=> DescendsFrom(cs, c, a)
<1> DEFINE P == {c \in 0 .. Len(cs) : DescendsFrom(ds, c, a) <=> DescendsFrom(cs, c, a)}
<1>1. Tree(cs) /\ Tree(ds) /\ Len(cs) \in Nat /\ Len(ds) \in Nat /\ Len(cs) <= Len(ds)
  BY DEF Inherits, Tree
<1>2. 0 \in P
  BY <1>1, DescentIs
<1>3. ASSUME NEW c \in 1 .. Len(cs), cs[c].parent \in P PROVE c \in P
  <2>1. DescendsFrom(cs, c, a) <=> c = a \/ DescendsFrom(cs, cs[c].parent, a)
    BY <1>1, DescentIs
  <2>6. c \in 1 .. Len(ds)
    BY <1>1
  <2>2. DescendsFrom(ds, c, a) <=> c = a \/ DescendsFrom(ds, ds[c].parent, a)
    BY <1>1, <2>6, DescentIs
  <2>3. ds[c].parent = cs[c].parent
    BY DEF Inherits
  <2>4. DescendsFrom(ds, cs[c].parent, a) <=> DescendsFrom(cs, cs[c].parent, a)
    BY <1>3
  <2>5. DescendsFrom(ds, c, a) <=> DescendsFrom(cs, c, a)
    BY <2>1, <2>2, <2>3, <2>4, Zenon
  <2> QED BY <1>1, <2>5
<1> HIDE DEF P
<1>4. 0 .. Len(cs) \subseteq P
  BY <1>1, <1>2, <1>3, TreeInduction
<1> QED BY <1>4 DEF P

LEMMA InheritsTakers ==
  ASSUME NEW cs, NEW ds, WellMade(cs), WellMade(ds), Inherits(cs, ds),
         NEW class \in AxisClasses, NEW t \in PartTypes(class), NEW family,
         \A d \in 1 .. Len(ds) : d > Len(cs) => ds[d].family # family
  PROVE  Takers(ds, family, t) = Takers(cs, family, t)
<1>1. class \in TypedParts /\ class \in 1 .. Len(cs)
  BY AxisIs
<1>2. Len(cs) \in Nat /\ Len(ds) \in Nat /\ Len(cs) <= Len(ds)
  BY DEF Inherits, Tree
<1>3. ASSUME NEW d \in 1 .. Len(cs) PROVE Takes(ds, d, t) <=> Takes(cs, d, t)
  <2>1. d \in 1 .. Len(ds) /\ d \in 0 .. Len(cs) /\ class \in 0 .. Len(cs)
    BY <1>1, <1>2
  <2>2. Stands(ds, d, class) <=> Stands(cs, d, class)
    BY <2>1, InheritsHolder, InheritsDescent DEF Stands
  <2>3. Takes(cs, d, t) <=> Stands(cs, d, class)
    BY <1>1, TypedTakes
  <2>4. Takes(ds, d, t) <=> Stands(ds, d, class)
    BY <1>1, <2>1, TypedTakes
  <2> QED BY <2>2, <2>3, <2>4
<1>4. ASSUME NEW d \in 1 .. Len(cs)
      PROVE  d \in 1 .. Len(ds) /\ ds[d].family = cs[d].family
  BY <1>2 DEF Inherits
<1>5. ASSUME NEW d \in Takers(ds, family, t) PROVE d \in Takers(cs, family, t)
  <2>1. d \in 1 .. Len(ds) /\ ds[d].family = family /\ Takes(ds, d, t)
    BY <1>5 DEF Takers
  <2>2. d \in 1 .. Len(cs)
    BY <1>2, <2>1
  <2> QED BY <1>3, <1>4, <2>1, <2>2 DEF Takers
<1>6. ASSUME NEW d \in Takers(cs, family, t) PROVE d \in Takers(ds, family, t)
  BY <1>3, <1>4, <1>6 DEF Takers
<1> QED BY <1>5, <1>6

\* A class statement does not concern other families.
LEMMA AddsUntouched ==
  ASSUME NEW cs, NEW ds, WellMade(cs), Adds(cs, ds), NEW class \in AxisClasses,
         NEW t \in PartTypes(class), NEW family, ds[Len(cs) + 1].family # family
  PROVE  Cast(ds, family, t, 1) = Cast(cs, family, t, 1)
<1> DEFINE l == Len(cs) + 1
<1>1. /\ WellMade(ds) /\ Tree(cs) /\ Tree(ds) /\ BasesExist(cs) /\ BasesExist(ds)
      /\ Len(cs) \in Nat /\ Len(ds) = l
  BY AddsWellMade, WellMadeBases DEF WellMade, Tree, Adds
<1>2. ASSUME NEW d \in 1 .. Len(cs)
      PROVE  /\ ds[d].parent = cs[d].parent /\ ds[d].family = cs[d].family
             /\ ds[d].exists = cs[d].exists
             /\ ds[d].types # NoTypes <=> cs[d].types # NoTypes
  <2>1. Grown(cs[d], ds[d])
    BY DEF Adds
  <2>2. \A own : Added(ds[d].types, own) => ds[d].types # NoTypes
    BY TypesFacts DEF Added
  <2> QED BY <2>1, <2>2 DEF Grown
<1>3. Inherits(cs, ds)
  BY <1>1, <1>2 DEF Inherits
<1>4. \A d \in 1 .. Len(ds) : d > Len(cs) => d = l
  BY <1>1
<1>5. Takers(ds, family, t) = Takers(cs, family, t)
  BY <1>1, <1>3, <1>4, InheritsTakers
<1>6. l \notin Takers(cs, family, t)
  BY <1>1 DEF Takers
<1>7. \A d \in 1 .. Len(cs) : cs[d].parent # l
  BY <1>1 DEF Tree
<1>8. \A d \in 1 .. Len(ds) : ds[d].parent # l
  BY <1>1 DEF Tree
<1>9. ComesOrGoes(cs, ds, l, Takers(cs, family, t))
  BY <1>1, <1>2, <1>4, <1>6, <1>7, <1>8 DEF ComesOrGoes
<1> QED BY <1>1, <1>5, <1>9, CastTheSame

\* Nor does the loss of a class.
LEMMA LosesUntouched ==
  ASSUME NEW cs, NEW ds, NEW l, WellMade(cs), Loses(cs, ds, l), NEW class \in AxisClasses,
         NEW t \in PartTypes(class), NEW family, ds[l].family # family
  PROVE  Cast(ds, family, t, 1) = Cast(cs, family, t, 1)
<1>1. /\ WellMade(ds) /\ Tree(cs) /\ Tree(ds) /\ BasesExist(cs) /\ BasesExist(ds)
      /\ Len(cs) \in Nat /\ Len(ds) = Len(cs) /\ l \in 1 .. Len(cs)
  BY LosesWellMade, WellMadeBases DEF WellMade, Tree, Loses
<1>2. ASSUME NEW d \in 1 .. Len(cs)
      PROVE  /\ ds[d].parent = cs[d].parent /\ ds[d].family = cs[d].family
             /\ d # l => ds[d].exists = cs[d].exists
             /\ ds[d].types # NoTypes <=> cs[d].types # NoTypes
  BY DEF Loses, Lost
<1>3. Inherits(cs, ds)
  BY <1>1, <1>2 DEF Inherits
<1>4. \A d \in 1 .. Len(ds) : ~(d > Len(cs))
  BY <1>1
<1>5. Takers(ds, family, t) = Takers(cs, family, t)
  BY <1>1, <1>3, <1>4, InheritsTakers
<1>6. l \notin Takers(cs, family, t)
  BY <1>1, <1>2 DEF Takers
<1>7. \A d \in 1 .. Len(cs) : cs[d].parent # l
  <2> SUFFICES ASSUME NEW d \in 1 .. Len(cs), cs[d].parent = l PROVE FALSE
    OBVIOUS
  <2>1. cs[l].bound
    BY <1>1, OneClass
  <2> QED BY <2>1 DEF Loses
<1>8. \A d \in 1 .. Len(ds) : ds[d].parent # l
  BY <1>1, <1>2, <1>7
<1>9. ComesOrGoes(cs, ds, l, Takers(cs, family, t))
  BY <1>1, <1>2, <1>4, <1>6, <1>7, <1>8 DEF ComesOrGoes
<1> QED BY <1>1, <1>5, <1>9, CastTheSame

Untouched(c) ==
  \A family \in (Libraries \cup {Main}) \ {classes'[c].family} :
    \A ax \in CppAxes :
      Cast(classes', family, ax[2], Axis) = Cast(classes, family, ax[2], Axis)

LEMMA StatementUntouched ==
  ASSUME ClassInv, ClassStatement, NEW c \in DOMAIN classes',
         c \notin DOMAIN classes \/ classes[c].exists # classes'[c].exists
  PROVE  Untouched(c)
<1>1. Adds(classes, classes') /\ WellMade(classes)
  BY StatementAdds DEF ClassInv
<1>2. WellMade(classes')
  BY <1>1, AddsWellMade
<1>3. /\ DOMAIN classes = 1 .. Len(classes) /\ DOMAIN classes' = 1 .. Len(classes) + 1
      /\ Len(classes) \in Nat
  BY <1>1, <1>2 DEF WellMade, Tree, Adds
<1>4. \A d \in DOMAIN classes : classes'[d].exists = classes[d].exists
  BY <1>1, <1>3 DEF Adds, Grown
<1>5. c = Len(classes) + 1
  BY <1>3, <1>4
<1>6. Axis = 1
  BY DEF Axis
<1> QED BY <1>1, <1>5, <1>6, CppAxesAre, AddsUntouched DEF Untouched

LEMMA CollectionUntouched ==
  ASSUME ClassInv, NEW l \in DOMAIN classes, Collect(l), NEW c \in DOMAIN classes',
         c \notin DOMAIN classes \/ classes[c].exists # classes'[c].exists
  PROVE  Untouched(c)
<1>1. Loses(classes, classes', l) /\ WellMade(classes)
  BY CollectLoses DEF ClassInv
<1>2. DOMAIN classes' = DOMAIN classes /\ DOMAIN classes = 1 .. Len(classes)
  BY <1>1 DEF Loses, WellMade, Tree
<1>3. c = l
  BY <1>1, <1>2 DEF Loses
<1>4. Axis = 1
  BY DEF Axis
<1> QED BY <1>1, <1>3, <1>4, CppAxesAre, LosesUntouched DEF Untouched

\* A class statement of one library, or the loss of a class, leaves what cast
\* makes of the axes in the histograms of every other family as it was.
THEOREM FamiliesApart == UnpicklingSpec => OtherFamiliesUntouched
<1>1. ASSUME ClassInv, [UnpicklingNext]_<<vars, classes, opened>>
      PROVE  [ \A c \in DOMAIN classes' :
                 c \notin DOMAIN classes \/ classes[c].exists # classes'[c].exists
                 => \A family \in (Libraries \cup {Main}) \ {classes'[c].family} :
                      \A ax \in CppAxes :
                        Cast(classes', family, ax[2], Axis)
                          = Cast(classes, family, ax[2], Axis) ]_classes
  <2>1. CASE UNCHANGED classes
    BY <2>1
  <2>2. CASE ClassStatement
    BY <1>1, <2>2, StatementUntouched DEF Untouched
  <2>3. CASE CollectClass
    BY <1>1, <2>3, CollectionUntouched DEF Untouched, CollectClass
  <2> QED BY <1>1, <2>1, <2>2, <2>3 DEF UnpicklingNext, SetState
<1> QED BY <1>1, UnpicklingClasses, PTL DEF UnpicklingSpec, OtherFamiliesUntouched
=============================================================================
