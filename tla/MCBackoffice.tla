---------------------------- MODULE MCBackoffice ----------------------------
(* The backoffice on small sets of requests. *)
EXTENDS Backoffice, TLC

CONSTANTS x, y, r1, r2, r3, r4

Ask(kind, m) == [kind |-> kind, member |-> m, nominal |-> 1, whole |-> TRUE, after |-> None]
Next2(kind, m, before) == [Ask(kind, m) EXCEPT !.after = before]
Cents(m) == [Ask("save", m) EXCEPT !.whole = FALSE]

Sitting(requests, seeded, mayFail) ==
    [job |-> requests, seeded |-> seeded, redis |-> FALSE, offline |-> FALSE,
     faults |-> mayFail]
Chatting(requests, lossy, mayFail) ==
    [job |-> requests, seeded |-> {x}, redis |-> TRUE, offline |-> lossy,
     faults |-> mayFail]

\* An applicant is approved, approved again, and rejected at any moment.
Hiring ==
    Sitting(r1 :> Ask("submit", y) @@ r2 :> Next2("approve", y, r1)
            @@ r3 :> Next2("approve", y, r2) @@ r4 :> Next2("reject", y, r1),
            {}, {"rpc", "timeout", "crash"})

\* An approval and two resets of the same member.
Credentials ==
    Sitting(r1 :> Ask("submit", y) @@ r2 :> Next2("approve", y, r1)
            @@ r3 :> Next2("reset", y, r1) @@ r4 :> Next2("submit", y, r1),
            {}, {"crash"})

\* The seeded members and their group are registered while the chair is approved
\* once more; and by one run of the bootstrap after the other.
Bootstrap ==
    Sitting(r1 :> Ask("sync", x) @@ r2 :> Ask("approve", x), {x, y}, {"timeout"})
Repeated ==
    Sitting(r1 :> Ask("sync", x) @@ r2 :> Next2("sync", x, r1), {x, y}, {"revert", "lost", "timeout"})

\* Two deposits of a member who is being registered; one that may be refused or
\* whose answer is lost; and one with cents.
Deposits ==
    Sitting(r1 :> Ask("approve", x) @@ r2 :> Ask("save", x) @@ r3 :> Next2("save", x, r1),
            {x}, {"crash"})
Refused ==
    Sitting(r1 :> Ask("approve", x) @@ r2 :> Ask("save", x),
            {x}, {"revert", "lost", "timeout"})
Fractions ==
    Sitting(r1 :> Cents(x) @@ r2 :> Ask("save", x) @@ r3 :> Ask("save", y), {x}, {"rpc", "timeout"})

\* Questions with the timer, with the panel's first call, in a panel that is left and
\* opened again, without the backend or redis, and with requests that write while
\* the snapshot is built.
Ticks == Chatting(r1 :> Ask("tick", x) @@ r2 :> Ask("chat", x) @@ r3 :> Ask("chat", x), FALSE, {})
Opened == Chatting(r1 :> Ask("prime", x) @@ r2 :> Ask("chat", x) @@ r3 :> Ask("tick", x), FALSE, {})
Reopened ==
    Sitting(r1 :> Ask("prime", x) @@ r2 :> Ask("chat", x) @@ r3 :> Next2("prime", x, r1)
            @@ r4 :> Next2("chat", x, r3), {x}, {})
Offline == Chatting(r2 :> Ask("chat", x) @@ r3 :> Ask("chat", x), TRUE, {"crash"})
Writes == Chatting(r1 :> Ask("chat", x) @@ r2 :> Ask("submit", y) @@ r3 :> Ask("save", x), FALSE, {"rpc", "timeout"})

MCSittings == {Hiring, Credentials, Bootstrap, Repeated, Deposits, Refused,
               Fractions, Ticks, Opened, Reopened, Offline, Writes}

\* Two officers approve the same applicant.
TwoOfficers ==
    {Sitting(r1 :> Ask("submit", y) @@ r2 :> Next2("approve", y, r1)
             @@ r3 :> Next2("approve", y, r1), {}, {})}
=============================================================================
