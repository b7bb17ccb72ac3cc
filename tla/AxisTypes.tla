------------------------------ MODULE AxisTypes ------------------------------
(***************************************************************************)
(* The axes of a histogram, as far as indexing and assignment see them: a  *)
(* family, a number of bins and the options that the constructors of       *)
(* axis.py settle on.  A bin is an index, -1 the underflow bin and size    *)
(* the overflow bin where the axis has them.                               *)
(***************************************************************************)
EXTENDS Integers, Sequences

Families == {"regular", "transformed", "variable", "integer", "category"}
Flow == {"underflow", "overflow"}
Options == Flow \cup {"growth", "circular"}

\* The combinations of options a constructor does not refuse with KeyError.
Accepts(family, options) ==
  CASE family = "category" -> options \subseteq {"growth"}
    [] family = "transformed" -> options = Flow
    [] family = "integer" ->
         \/ options \subseteq Flow
         \/ "growth" \in options /\ "circular" \notin options
         \/ "circular" \in options /\ "growth" \notin options
    [] OTHER ->
         \/ options \subseteq Flow
         \/ options = Flow \cup {"growth"}
         \/ options \in {{"circular", "overflow"}, Flow \cup {"circular"}}

\* The options of the axis that is made: a circular axis has no underflow, a
\* growing or circular integer axis has no flow bins at all, and a category
\* axis collects unknown categories in its overflow bin unless it grows.
Produced(family, options) ==
  CASE family = "category" ->
         IF "growth" \in options THEN {"growth"} ELSE {"overflow"}
    [] family = "integer" /\ "growth" \in options -> {"growth"}
    [] family = "integer" /\ "circular" \in options -> {"circular"}
    [] family # "integer" /\ "circular" \in options -> {"circular", "overflow"}
    [] OTHER -> options

MakeAxis(family, options, size) ==
  [family |-> family, options |-> Produced(family, options), size |-> size]

AxisRecords == [family : Families, options : SUBSET Options, size : Nat]

\* A tuple of axes.
IsAxes(axs) == axs \in Seq(AxisRecords)

\* What a constructor makes: a regular axis has bins, others may have none.
IsMade(ax) ==
  \E options \in SUBSET Options :
    /\ Accepts(ax.family, options)
    /\ ax.family \in {"regular", "transformed"} => ax.size > 0
    /\ ax = MakeAxis(ax.family, options, ax.size)

\* axis.traits
HasUnderflow(ax) == "underflow" \in ax.options
HasOverflow(ax) == "overflow" \in ax.options
IsCircular(ax) == "circular" \in ax.options
IsOrdered(ax) == ax.family # "category"

\* 1 where Python adds a Boolean to an index.
Bit(b) == IF b THEN 1 ELSE 0

FirstBin(ax) == -Bit(HasUnderflow(ax))
LastBin(ax) == ax.size - 1 + Bit(HasOverflow(ax))
Bins(ax) == FirstBin(ax) .. LastBin(ax)
Extent(ax) == LastBin(ax) - FirstBin(ax) + 1

\* The cells of a histogram: one bin of each of its axes.
Cells(axes) ==
  {c \in [DOMAIN axes -> UNION {Bins(axes[i]) : i \in DOMAIN axes}] :
     \A i \in DOMAIN axes : c[i] \in Bins(axes[i])}
=============================================================================
