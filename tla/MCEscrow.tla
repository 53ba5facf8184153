------------------------------ MODULE MCEscrow ------------------------------
(* Instances of the escrow for TLC: the arguments the callers may send. *)
EXTENDS TanggungRentengEscrow


Terms(plafon, code) == [plafonMaks |-> plafon, inviteCodeHash |-> code]

Application(nominal, tenor, cicilan, skor, flag, due) ==
    [nominal |-> nominal, tenor |-> tenor, cicilanBulanan |-> cicilan,
     skorAi |-> skor, flagAi |-> flag, firstDueDate |-> due]

\* One open group without an invite code.
OpenTerms == {Terms(2, None)}
CodedTerms == {Terms(2, "c1"), Terms(0, "c1")}

\* A loan of two installments of 1, and one of a single installment.
OneLoan == {Application(2, 2, 1, 80, "HIJAU", 1)}
SmallLoans == {Application(1, 1, 2, 80, "HIJAU", d) : d \in 1..2}

\* Applications at and just past every limit the contract checks.
LimitLoans == {Application(2, 1, 1, 100, "KUNING", 1), Application(3, 1, 1, 100, "KUNING", 1),
               Application(0, 1, 1, 100, "KUNING", 1), Application(1, 0, 1, 100, "KUNING", 1),
               Application(1, 3, 1, 100, "KUNING", 1), Application(1, 1, 0, 100, "KUNING", 1),
               Application(1, 1, 1, 101, "KUNING", 1), Application(1, 1, 1, 100, "KUNING", 0)}

OneScreening == {[skorAi |-> 50, flagAi |-> "MERAH"], [skorAi |-> 101, flagAi |-> "HIJAU"]}
=============================================================================
