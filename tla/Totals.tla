------------------------------- MODULE Totals -------------------------------
(***************************************************************************)
(* The sum of the amounts of a table, a function to Nat.  It is the number *)
(* of single units the table holds rather than a fold over its entries:    *)
(* what happens to the sum when one entry changes then follows from the    *)
(* size of a set that gains or loses some elements, which can be proved    *)
(* for tables of any size (StakeLedgerProofs).                             *)
(***************************************************************************)
EXTENDS Integers, FiniteSets

Units(f) == UNION {{x} \X (1..f[x]) : x \in DOMAIN f}
Total(f) == Cardinality(Units(f))

\* What everybody gets of a in proportion to a weight, rounded down.
Prorated(a, weight) == [x \in DOMAIN weight |-> (a * weight[x]) \div Total(weight)]

\* Finitely many units: the table has a sum.
Summable(f) == IsFiniteSet(Units(f))
=============================================================================
