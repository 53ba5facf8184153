----------------------------- MODULE MCRefinement -----------------------------
(* Instances of the refinement for TLC. *)
EXTENDS MCEscrow, TanggungRentengRefinement

\* A loan of a single installment of 2 due at 1, and terms that extend it.
TinyLoans == {Application(1, 1, 2, 80, "HIJAU", 1)}
Extension == {[newInstallment |-> 1, newRemaining |-> 1]}
===============================================================================
