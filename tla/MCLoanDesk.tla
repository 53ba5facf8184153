---------------------------- MODULE MCLoanDesk ----------------------------
(* The loan desk on small sets of requests. *)
EXTENDS LoanDesk, TLC

CONSTANTS x, y, a, b, s, p, q

Apply1(row, flag) == [kind |-> "apply", row |-> row, flag |-> flag, whole |-> TRUE]
Cents(row) == [kind |-> "apply", row |-> row, flag |-> "HIJAU", whole |-> FALSE]
On(kind, row) == [kind |-> kind, row |-> row, flag |-> "HIJAU", whole |-> TRUE]

\* One application, approved by one officer and rejected by another.
OneLoan ==
    [job |-> a :> Apply1(x, "MERAH") @@ p :> On("approve", x) @@ q :> On("reject", x),
     faults |-> {"revert", "lost", "crash"}]

\* An application with cents beside one that is appealed against and approved.
Answers ==
    [job |-> a :> Apply1(x, "KUNING") @@ b :> Cents(y)
             @@ s :> On("sanggah", x) @@ p :> On("approve", x),
     faults |-> {"rpc", "timeout"}]

MCDesks == {OneLoan, Answers}

\* Two applications at the same time.
Race == {[job |-> a :> Apply1(x, "HIJAU") @@ b :> Apply1(y, "HIJAU"), faults |-> {}]}
===========================================================================
