---------------------------- MODULE ClassRegistry ----------------------------
(***************************************************************************)
(* register and cast of utils.py: which Python class an object of a C++    *)
(* class becomes.  Nothing is looked up in a table: cast walks over the    *)
(* subclasses that exist in the process, of boost_histogram and of any     *)
(* library or notebook that has derived classes from it.                   *)
(*                                                                         *)
(* Python classes are numbered in the order of their class statements.     *)
(***************************************************************************)
EXTENDS Integers, Sequences, SequencesExt

CONSTANT Main      \* the family of boost_histogram

VARIABLE classes   \* a sequence of records as MakeClass makes them

NoClass == 0

\* The types of a class: the set _types of its own, if it has one.
NoTypes == <<>>
OwnTypes(ts) == <<ts>>

\* A class statement; the bases are those written in C++.  A class is bound
\* when its name is, and exists until it is collected.
MakeClass(parent, family, bases, types) ==
  [parent |-> parent, family |-> family, bases |-> bases, types |-> types,
   bound |-> TRUE, exists |-> TRUE]
-----------------------------------------------------------------------------
(* Classes and what they inherit *)

\* The class whose _types a class finds as its own attribute or an inherited
\* one, NoClass if hasattr does not find any.
Holder(cs) ==
  LET up[c \in 0 .. Len(cs)] ==
        IF c = NoClass \/ cs[c].types # NoTypes THEN c ELSE up[cs[c].parent]
  IN up

WalkBases(cs) ==
  LET up[c \in 0 .. Len(cs)] ==
        IF c = NoClass THEN {} ELSE cs[c].bases \cup up[cs[c].parent]
  IN up

Takes(cs, c, t) ==
  LET holder == Holder(cs)[c]
  IN IF holder # NoClass THEN t \in cs[holder].types[1]
     ELSE t \in WalkBases(cs)[c]

DescendsFrom(cs, c, ancestor) ==
  LET down[d \in 0 .. Len(cs)] ==
        d # NoClass /\ (d = ancestor \/ down[cs[d].parent])
  IN down[c]

\* cls.__subclasses__(): the classes that exist, in the order of their statements.
IsSubclass(cs, d, c) == cs[d].exists /\ cs[d].parent = c

\* The furthest children first.
WalkSubclasses(cs, root) ==
  LET walk[c \in DOMAIN cs] ==
        FlattenSeq([d \in DOMAIN cs |->
          IF IsSubclass(cs, d, c) THEN Append(walk[d], d) ELSE <<>>])
  IN walk[root]
-----------------------------------------------------------------------------
(* cast *)

\* The places in a walk of the classes of a family that take a type.
Valid(cs, walk, t, family) ==
  {i \in DOMAIN walk : cs[walk[i]].family = family /\ Takes(cs, walk[i], t)}

\* A variant that returns the first class with the type, of any family.
CastIgnoringFamily(cs, family, t, root) ==
  LET walk == WalkSubclasses(cs, root)
      valid == UNION {Valid(cs, walk, t, cs[walk[i]].family) : i \in DOMAIN walk}
  IN IF valid # {} THEN walk[Min(valid)] ELSE NoClass

\* The first class of the family, otherwise the last one of the main family,
\* otherwise TypeError.
Cast(cs, family, t, root) ==
  LET walk == WalkSubclasses(cs, root)
      own == Valid(cs, walk, t, family)
      fallback == Valid(cs, walk, t, Main)
  IN IF own # {} THEN walk[Min(own)]
     ELSE IF fallback # {} THEN walk[Max(fallback)]
     ELSE NoClass
-----------------------------------------------------------------------------
(* Class statements, with and without the decorator *)

Derived(p, family) == Append(classes, MakeClass(p, family, {}, NoTypes))
Newest == Len(classes) + 1

CanDerive(p) == p \in DOMAIN classes /\ classes[p].bound

Derive(p, family) ==
  /\ CanDerive(p)
  /\ classes' = Derived(p, family)

\* register(): a class that cast is to pass over.
DeriveHidden(p, family) ==
  /\ CanDerive(p)
  /\ classes' = [Derived(p, family) EXCEPT ![Newest].types = OwnTypes({})]

\* register(ts): into the set that the class inherits, if it inherits one.
\* A type that the set has already raises, after any of the others have been
\* added: the class is not bound to its name, but exists.
DeriveRegistered(p, family, ts) ==
  /\ CanDerive(p)
  /\ LET cs == Derived(p, family)
         holder == Holder(cs)[Newest]
         held == IF holder = NoClass THEN {} ELSE cs[holder].types[1]
         at == IF holder = NoClass THEN Newest ELSE holder
     IN \/ /\ ts \cap held = {}
           /\ classes' = [cs EXCEPT ![at].types = OwnTypes(held \cup ts)]
        \/ /\ ts \cap held # {}
           /\ \E added \in SUBSET (ts \ held) :
                classes' = [cs EXCEPT ![at].types = OwnTypes(held \cup added),
                                      ![Newest].bound = FALSE]

\* The garbage collector takes a class that no name refers to.
Collect(c) ==
  /\ classes[c].exists /\ ~classes[c].bound
  /\ classes' = [classes EXCEPT ![c].exists = FALSE]
=============================================================================
