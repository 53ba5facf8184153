------------------------------- MODULE Amounts -------------------------------
(***************************************************************************)
(* The sum of the amounts of a finite set: how many rupiah there are when  *)
(* each is told apart by whom it belongs to and its number.                *)
(***************************************************************************)
EXTENDS Naturals, FiniteSets

Coins(amount, S) == UNION {{s} \X (1 .. amount[s]) : s \in S}
Total(amount, S) == Cardinality(Coins(amount, S))

\* The same sum for large amounts, counted in lots of Rp 10,000 and what is left
\* over of each.
TotalInLots(amount, S) ==
    10000 * Total([s \in S |-> amount[s] \div 10000], S)
    + Total([s \in S |-> amount[s] % 10000], S)
=============================================================================
