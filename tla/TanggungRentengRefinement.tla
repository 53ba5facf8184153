---------------------- MODULE TanggungRentengRefinement ----------------------
(* The escrow implements joint liability: its two flags and three records of *)
(* a debt refuse a loan exactly where the debts themselves would.            *)
EXTENDS TanggungRentengEscrow

\* None marks a loan nobody asked for, so it is not a status.
ASSUME NoneIsNoStatus == None \notin LoanStatus

stage == [l \in LoanIds |-> IF loans[l].exists THEN loans[l].status ELSE None]

parties == [l \in LoanIds |->
               [group |-> loans[l].groupId, member |-> loans[l].memberHash]]

outcome == [l \in LoanIds |-> [p \in Periods |->
    CASE <<l, p>> \notin installmentSettled -> "Open"
      [] installmentStatuses[l][p] = "DITALANGI" /\ <<l, p>> \in installmentSettled -> "Bailed"
      [] OTHER -> "Paid"]]

debt == [l \in LoanIds |-> loans[l].talanganOutstanding]

Liability == INSTANCE JointLiability WITH Loans <- LoanIds

\* Every step of the escrow is a step that joint liability allows, or none:
\* the group and member flags refuse new loans whenever a debt is open, an
\* installment is settled once, and only a loan without debt is closed.
KeepsJointLiability == Liability!Spec
==============================================================================
