------------------------------ MODULE UnitSums ------------------------------
(***************************************************************************)
(* Sums of quantities over a finite set.                                   *)
(*                                                                         *)
(* The database sums columns (SUM(quantity) over active reservations,      *)
(* SUM(applied) over captured tenders).  Every summed quantity of this     *)
(* system is a natural number of indivisible units - pieces of stock,      *)
(* minor units of money - so a sum is the number of units: f[x] of them    *)
(* for each x.  Counting units instead of folding keeps the sum within     *)
(* what the theorems on finite cardinality can reason about.               *)
(***************************************************************************)
EXTENDS Integers, FiniteSets

\* The units x contributes: x paired with 1 .. f[x].
UnitsOf(f, x) == {x} \X (1 .. f[x])

Units(f, S) == UNION {UnitsOf(f, x) : x \in S}

\* SUM(f) over S.
SumOver(f, S) == Cardinality(Units(f, S))
=============================================================================
