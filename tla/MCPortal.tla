------------------------------ MODULE MCPortal ------------------------------
(* The portal in sittings of one member, of two, and of an officer. *)
EXTENDS Portal

Rows(kyc, pw, loans) ==
    [role |-> [a |-> "Anggota", b |-> "Anggota", p |-> "Pengurus"],
     kyc |-> kyc, pw |-> pw, rows |-> [a |-> 0, b |-> 0, p |-> 0],
     loans |-> loans, kas |-> 1]

Approved == [a |-> "Approved", b |-> "Approved"]
Known == [a |-> 1, b |-> 1]
NoLoan == [l \in {} |-> None]
Unpaid(u, status) ==
    [memberId |-> u, status |-> status, cicilan |-> "UNPAID", isSanggah |-> FALSE]
OneOf(u, status) == "l1" :> Unpaid(u, status)

Sitting(who, accounts, does, calls, rows) ==
    [token |-> who, accounts |-> accounts, does |-> does, calls |-> calls, db |-> rows]

Quiet == Rows(Approved, Known, NoLoan)
Queue == Rows([a |-> "Requested", b |-> "Approved"], [a |-> 0, b |-> 1], NoLoan)

MCCasts ==
    {Sitting("a", {"a"}, {"deposit", "reload"}, 2, Quiet),
     Sitting("a", {"a"}, {"apply", "reload"}, 3, Rows(Approved, Known, OneOf("b", "Cair"))),
     Sitting("a", {"a"}, {"deposit", "apply"}, 2, Rows(Approved, Known, OneOf("b", "Cair"))),
     Sitting("a", {"b"}, {"deposit", "logout"}, 2, Quiet),
     Sitting("a", {"a", "p"}, {"bootstrap", "logout", "reload"}, 2, Quiet),
     Sitting("p", {"p"}, {"kyc", "refresh"}, 2, Queue),
     Sitting("p", {"p"}, {"screen"}, 2, Quiet),
     Sitting("p", {"p"}, {"kyc", "look", "reload"}, 2, Queue),
     Sitting("p", {"p"}, {"loans", "refresh"}, 2, Rows(Approved, Known, OneOf("b", "Diajukan"))),
     Sitting("p", {"p"}, {"loans", "refresh"}, 2,
             Rows(Approved, Known, "l1" :> Unpaid("a", "Cair") @@ "l2" :> Unpaid("b", "Cair")))}
============================================================================
