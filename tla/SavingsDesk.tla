---------------------------- MODULE SavingsDesk ----------------------------
(***************************************************************************)
(* SavingsService.create: the row of a deposit, the balance, the anchor on *)
(* the escrow, its hash on the row and the audit entry are five writes     *)
(* with an await after each.                                               *)
(***************************************************************************)
EXTENDS BackofficeState

Nominal(r) == job[r].nominal

InsertSaving(r) ==
    /\ Kind(r) = "save"
    /\ Step(r, "found", "inserted")
    /\ savings' = savings \cup
          {[by |-> r, member |-> who[r], nominal |-> Nominal(r), anchored |-> FALSE]}
    /\ UNCHANGED <<people, audited, chain, gateway, assistant, reads, handed>>

\* Mutant: the sum is computed from the row that was read.
SumOfSeen(r) == seen[r].balance + Nominal(r)
Incremented(r) == Row(r).balance + Nominal(r)

AddToBalance(r) ==
    /\ Step(r, "inserted", "added")
    /\ Update(r, [Row(r) EXCEPT !.balance = Incremented(r)])
    /\ UNCHANGED <<ledger, chain, gateway, assistant, reads, handed>>

\* BigInt(nominal), outside trySubmit, throws for an amount that is not whole.
ThrowSaving(r) ==
    /\ Step(r, "added", "threw") /\ ~job[r].whole
    /\ UNCHANGED <<people, ledger, chain, gateway, assistant, reads, handed>>

AnchorSaving(r) ==
    /\ Step(r, "added", "anchoring") /\ job[r].whole
    /\ Submit(r, "recordSavings", None, Nominal(r))

\* Mutant: the row is marked whatever trySubmit answered.
AnyOutcome(r) == Answered(r)
Anchored(r) == Ok(r)

StoreHash(r) ==
    /\ Step(r, "anchoring", "audit") /\ Answered(r)
    /\ savings' = {IF row.by = r THEN [row EXCEPT !.anchored = Anchored(r)] ELSE row
                     : row \in savings}
    /\ UNCHANGED <<people, audited, chain, gateway, assistant, reads, handed>>

SavingsStep(r) ==
    \/ InsertSaving(r) \/ AddToBalance(r) \/ ThrowSaving(r)
    \/ AnchorSaving(r) \/ StoreHash(r)
============================================================================
