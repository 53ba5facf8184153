---------------------------- MODULE MCRentengDesk ----------------------------
(* The renteng desk on small sets of requests. *)
EXTENDS RentengDesk, TLC

CONSTANTS x, y, g, b1, b2, b3, t1

Bailout(row, period, before) ==
    [kind |-> "bailout", row |-> row, period |-> period, amount |-> 1, after |-> before]
Repay(row, amount, before) ==
    [kind |-> "repay", row |-> row, period |-> 1, amount |-> amount, after |-> before]

OneGroup == [row \in Rows |-> g]
Two == [row \in Rows |-> 2]
Three == [group \in Groups |-> 3]

EveryPeriod == Rows \X Periods

\* x is bailed out, asked for again, settled and bailed out once more: one
\* request after the other, whether the one before was answered or cut off.
InTurn == b1 :> Bailout(x, 1, None) @@ b2 :> Bailout(x, 1, b1)
          @@ t1 :> Repay(x, 2, b2) @@ b3 :> Bailout(x, 2, t1)

\* Two officers bail out two loans of one group.
SameGroup == b1 :> Bailout(x, 1, None) @@ b2 :> Bailout(y, 1, None)
==============================================================================
