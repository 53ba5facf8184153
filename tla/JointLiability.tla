--------------------------- MODULE JointLiability ---------------------------
(***************************************************************************)
(* What the escrow ledger promises a group that lends under tanggung       *)
(* renteng (joint liability), free of the flags, counters and mappings it  *)
(* is built from: while a loan of a group, or of a borrower, owes talangan *)
(* nobody in that group and not that borrower gets a new loan; every       *)
(* installment is settled once, paid or bailed out; a loan is closed only  *)
(* when it owes the group nothing.                                         *)
(***************************************************************************)
EXTENDS Naturals

CONSTANTS Loans, Periods, Groups, Members, None

VARIABLES
    stage,    \* loan -> its status, None before it is asked for
    parties,  \* loan -> [group, member]
    outcome,  \* loan -> period -> Open, Paid or Bailed
    debt      \* loan -> talangan owed to the group

vars == <<stage, parties, outcome, debt>>

Nobody == [group |-> None, member |-> None]

Init ==
    /\ stage = [l \in Loans |-> None]
    /\ parties = [l \in Loans |-> Nobody]
    /\ outcome = [l \in Loans |-> [p \in Periods |-> "Open"]]
    /\ debt = [l \in Loans |-> 0]

\* No loan of the group and no loan of the member owes talangan.
DebtFree(g, m) ==
    \A l \in Loans : parties[l].group = g \/ parties[l].member = m => debt[l] = 0

MoveTo(l, status) == stage' = [stage EXCEPT ![l] = status]

Apply(l, g, m) ==
    /\ stage[l] = None
    /\ DebtFree(g, m)
    /\ MoveTo(l, "Diajukan")
    /\ parties' = [parties EXCEPT ![l] = [group |-> g, member |-> m]]
    /\ UNCHANGED <<outcome, debt>>

Advance(l, from, to) ==
    /\ stage[l] = from
    /\ DebtFree(parties[l].group, parties[l].member)
    /\ MoveTo(l, to)
    /\ UNCHANGED <<parties, outcome, debt>>

Defer(l) ==
    /\ stage[l] = "Diajukan"
    /\ MoveTo(l, "Ditunda")
    /\ UNCHANGED <<parties, outcome, debt>>

Sanction(l) ==
    /\ stage[l] # None
    /\ MoveTo(l, "Mangkir")
    /\ UNCHANGED <<parties, outcome, debt>>

\* The loan stays where it is or, owing nothing, is closed.
StayOrClose(l) == UNCHANGED stage \/ (debt'[l] = 0 /\ MoveTo(l, "Lunas"))

Settle(l, p, how) ==
    /\ stage[l] = "Cair"
    /\ outcome[l][p] = "Open"
    /\ outcome' = [outcome EXCEPT ![l][p] = how]
    /\ UNCHANGED parties

\* By the borrower, by the social fund or by a relief in hardship.
Pay(l, p) ==
    /\ Settle(l, p, "Paid")
    /\ UNCHANGED debt
    /\ StayOrClose(l)

DebtChanges(l) ==
    /\ debt' \in [Loans -> Nat]
    /\ \A k \in Loans \ {l} : debt'[k] = debt[k]

BailOut(l, p) ==
    /\ Settle(l, p, "Bailed")
    /\ DebtChanges(l) /\ debt'[l] > debt[l]
    /\ UNCHANGED stage

Repay(l) ==
    /\ DebtChanges(l) /\ debt'[l] < debt[l]
    /\ StayOrClose(l)
    /\ UNCHANGED <<parties, outcome>>

Next == \E l \in Loans :
    \/ \E g \in Groups, m \in Members : Apply(l, g, m)
    \/ Advance(l, "Diajukan", "Disetujui") \/ Advance(l, "Disetujui", "Cair")
    \/ Defer(l) \/ Sanction(l) \/ Repay(l)
    \/ \E p \in Periods : Pay(l, p) \/ BailOut(l, p)

Spec == Init /\ [][Next]_vars
=============================================================================
