----------------------------- MODULE RentengDesk -----------------------------
(***************************************************************************)
(* RentengService: the board bails out a missed installment from the       *)
(* group's kasSosial, and settles the talangan later.  Each is an HTTP     *)
(* request of many awaits; a request may wait for the end of another, as a *)
(* client that clicks one button after the other does.                     *)
(*                                                                         *)
(* The escrow is reduced to what the four calls read and change: the       *)
(* outcome of each installment and the talangan of each loan.  The backend *)
(* never marks hardship, so applySocialFund always finds none.             *)
(***************************************************************************)
EXTENDS ChainGateway, Amounts, Functions

CONSTANTS
    Rows,       \* loan rows of the database
    Groups,
    Periods,
    GroupOf,    \* row -> its group
    Cicilan,    \* row -> cicilanBulanan
    KasAwal,    \* group -> kasSosial before any bailout
    Anchored,   \* rows with an onchainLoanId; their loan is Cair on the escrow
    Overdue,    \* <<row, period>> past its due date and the grace period
    None,
    Faults,     \* what may go wrong: a subset of PossibleFaults
    Job         \* request -> [kind, row, period, amount, after]

Kind(r) == Job[r].kind
RowOf(r) == Job[r].row
GroupFor(r) == GroupOf[RowOf(r)]

ASSUME RentengJobs ==
    /\ None \notin Requests
    /\ Faults \subseteq PossibleFaults
    /\ \A r \in Requests : /\ Kind(r) \in {"bailout", "repay"}
                           /\ RowOf(r) \in Rows
                           /\ Job[r].period \in Periods
                           /\ Job[r].amount \in Nat \ {0}
                           /\ Job[r].after \in Requests \cup {None}
    /\ GroupOf \in [Rows -> Groups]
    /\ Cicilan \in [Rows -> Nat \ {0}]
    /\ KasAwal \in [Groups -> Nat]
    /\ Anchored \subseteq Rows
    /\ Overdue \subseteq Rows \X Periods

VARIABLES
    statusCicilan,  \* table loans
    kasSosial,      \* table groups
    events,         \* table renteng_events, oldest first
    audited,        \* requests that appended their audit entry
    installments,   \* escrow: row -> period -> status, UNPAID until settled
    talangan,       \* escrow: row -> talanganOutstanding
    pc, seenStatus, seenKas, running

db == <<statusCicilan, kasSosial, events, audited>>
chain == <<installments, talangan>>
reads == <<seenStatus, seenKas>>
vars == <<db, chain, gateway, pc, reads, running>>

Init ==
    /\ statusCicilan = [x \in Rows |-> "UNPAID"]
    /\ kasSosial = KasAwal
    /\ events = <<>>
    /\ audited = {}
    /\ installments = [x \in Rows |-> [p \in Periods |-> "UNPAID"]]
    /\ talangan = [x \in Rows |-> 0]
    /\ GatewayInit /\ faults = Faults
    /\ pc = [r \in Requests |-> "start"]
    /\ seenStatus = [r \in Requests |-> None]
    /\ seenKas = [r \in Requests |-> 0]
    /\ running = Requests

At(r, step) == r \in running /\ pc[r] = step
Goto(r, step) == pc' = [pc EXCEPT ![r] = step]
\* unwritten: answered like any other, but without its row in renteng_events.
Ended(r) == pc[r] \in {"done", "unwritten"} \/ r \notin running
Ready(r) == \A earlier \in {Job[r].after} \ {None} : Ended(earlier)

----------------------------------------------------------------------------
(* The escrow *)

Open(tx) == installments[tx.row][tx.period] = "UNPAID"

Accepts(fn, tx) ==
    CASE fn = "recordRepayment" -> Open(tx)
      [] fn = "applySocialFund" -> FALSE
      [] fn = "activateRenteng" -> Open(tx) /\ <<tx.row, tx.period>> \in Overdue
      [] fn = "repayTalangan" -> tx.amount <= talangan[tx.row]

SettleAs(tx, status) ==
    installments' = [installments EXCEPT ![tx.row][tx.period] = status]

Execute(fn, tx) ==
    \/ /\ fn = "recordRepayment"
       /\ SettleAs(tx, "PAID")
       /\ UNCHANGED talangan
    \/ /\ fn = "activateRenteng"
       /\ SettleAs(tx, "DITALANGI")
       /\ talangan' = [talangan EXCEPT ![tx.row] = @ + Cicilan[tx.row]]
    \/ /\ fn = "repayTalangan"
       /\ talangan' = [talangan EXCEPT ![tx.row] = @ - tx.amount]
       /\ UNCHANGED installments

Mine(role) ==
    /\ pool[role] # <<>>
    /\ LET tx == Head(pool[role]) IN
          \/ /\ Accepts(tx.fn, tx.arg)
             /\ Execute(tx.fn, tx.arg)
             /\ Mined(role, "success")
          \/ /\ ~Accepts(tx.fn, tx.arg)
             /\ Mined(role, "reverted")
             /\ UNCHANGED chain
    /\ UNCHANGED <<db, pc, reads, running>>

Submit(r, fn) ==
    LET tx == [row |-> RowOf(r), period |-> Job[r].period, amount |-> Job[r].amount]
    IN  TrySubmit(r, fn, tx, Accepts(fn, tx))

----------------------------------------------------------------------------
(* bailout *)

FindLoan(r) ==
    /\ At(r, "start") /\ Ready(r)
    /\ seenStatus' = [seenStatus EXCEPT ![r] = statusCicilan[RowOf(r)]]
    /\ Goto(r, IF Kind(r) = "bailout" THEN "group" ELSE "talangan")
    /\ UNCHANGED <<db, chain, gateway, seenKas, running>>

\* Mutant: every bailout goes through.
NeverDone(r) == seenStatus[r] = None
AlreadyBailedOut(r) == seenStatus[r] = "DITALANGI"

\* The group is read, then the loan is looked at: the request ends here when
\* it is DITALANGI, and leaves the chain alone when it was never anchored.
FindGroup(r) ==
    /\ At(r, "group")
    /\ seenKas' = [seenKas EXCEPT ![r] = kasSosial[GroupFor(r)]]
    /\ Goto(r, IF AlreadyBailedOut(r) THEN "done"
               ELSE IF RowOf(r) \in Anchored THEN "missed" ELSE "loan")
    /\ UNCHANGED <<db, chain, gateway, seenStatus, running>>

SendMissed(r) ==
    /\ At(r, "missed")
    /\ Submit(r, "recordRepayment")
    /\ Goto(r, "social")
    /\ UNCHANGED <<db, chain, reads, running>>

SendSocial(r) ==
    /\ At(r, "social") /\ Answered(r)
    /\ Submit(r, "applySocialFund")
    /\ Goto(r, "renteng")
    /\ UNCHANGED <<db, chain, reads, running>>

SendRenteng(r) ==
    /\ At(r, "renteng") /\ Answered(r)
    /\ Submit(r, "activateRenteng")
    /\ Goto(r, "loan")
    /\ UNCHANGED <<db, chain, reads, running>>

\* Every call that was sent has been answered.
ChainDone(r) == RowOf(r) \in Anchored => Answered(r)

MarkLoan(r) ==
    /\ At(r, "loan") /\ ChainDone(r)
    /\ statusCicilan' = [statusCicilan EXCEPT ![RowOf(r)] =
                            IF Kind(r) = "bailout" THEN "DITALANGI" ELSE "PAID"]
    /\ Goto(r, IF Kind(r) = "bailout" THEN "kas" ELSE "audit")
    /\ UNCHANGED <<kasSosial, events, audited, chain, gateway, reads, running>>

\* Mutant: a fund that is too small is not touched.
LeftOut(r) ==
    IF seenKas[r] >= Cicilan[RowOf(r)] THEN seenKas[r] - Cicilan[RowOf(r)] ELSE seenKas[r]

\* Math.max(0, ...): a fund that is too small is used up.
NewKasSosial(r) ==
    IF seenKas[r] >= Cicilan[RowOf(r)] THEN seenKas[r] - Cicilan[RowOf(r)] ELSE 0

\* An absolute value, computed from the balance read at the start.
DebitKas(r) ==
    /\ At(r, "kas")
    /\ kasSosial' = [kasSosial EXCEPT ![GroupFor(r)] = NewKasSosial(r)]
    /\ Goto(r, "audit")
    /\ UNCHANGED <<statusCicilan, events, audited, chain, gateway, reads, running>>

----------------------------------------------------------------------------
(* repayTalangan *)

\* The status that was read is not looked at.
SendRepay(r) ==
    /\ At(r, "talangan")
    /\ IF RowOf(r) \in Anchored THEN Submit(r, "repayTalangan") ELSE UNCHANGED gateway
    /\ Goto(r, "loan")
    /\ UNCHANGED <<db, chain, reads, running>>

----------------------------------------------------------------------------
(* The end of both *)

AppendAudit(r) ==
    /\ At(r, "audit")
    /\ audited' = audited \cup {r}
    /\ Goto(r, "event")
    /\ UNCHANGED <<statusCicilan, kasSosial, events, chain, gateway, reads, running>>

\* The history is best effort: an error of this write is caught and logged.
WriteEvent(r) ==
    /\ At(r, "event")
    /\ \/ /\ events' = Append(events,
                [loanId |-> RowOf(r),
                 event |-> IF Kind(r) = "bailout" THEN "Ditalangi" ELSE "TalanganLunas"])
          /\ Goto(r, "done")
       \/ /\ "db" \in faults
          /\ Goto(r, "unwritten")
          /\ UNCHANGED events
    /\ UNCHANGED <<statusCicilan, kasSosial, audited, chain, gateway, reads, running>>

NoReceipt(r) ==
    /\ r \in running
    /\ TimeOut(r)
    /\ UNCHANGED <<db, chain, pc, reads, running>>

\* The process stops and is started again: what it was doing is lost.
Crash ==
    /\ "crash" \in faults
    /\ running' = {r \in running : pc[r] = "start"}
    /\ UNCHANGED <<db, chain, gateway, pc, reads>>

Step(r) ==
    \/ FindLoan(r) \/ FindGroup(r)
    \/ SendMissed(r) \/ SendSocial(r) \/ SendRenteng(r) \/ SendRepay(r)
    \/ MarkLoan(r) \/ DebitKas(r)
    \/ AppendAudit(r) \/ WriteEvent(r)

Idle ==
    /\ \A r \in Requests : Ended(r)
    /\ \A role \in Roles : pool[role] = <<>>
    /\ UNCHANGED vars

Next ==
    \/ \E r \in Requests : Step(r) \/ NoReceipt(r)
    \/ \E role \in Roles : Mine(role)
    \/ Crash
    \/ Idle

Spec == Init /\ [][Next]_vars

----------------------------------------------------------------------------
(* Properties *)

\* Past its writes to the loan and the fund, without its row in the history: on its
\* way there, cut off before it, or unable to write it.
NoRowYet == {"audit", "event", "unwritten"}
Unrecorded(g) ==
    {r \in Requests : GroupFor(r) = g /\ Kind(r) = "bailout" /\ pc[r] \in NoRowYet}
Unlisted(g) == Total([r \in Requests |-> Cicilan[RowOf(r)]], Unrecorded(g))

Spent(g) == Total([k \in DOMAIN events |-> Cicilan[events[k].loanId]],
    {k \in DOMAIN events : events[k].event = "Ditalangi" /\ GroupOf[events[k].loanId] = g})

Debited(kas, amount) == IF kas >= amount THEN kas - amount ELSE 0

\* The fund a group has left is at all times what it had, less the installment of
\* every bailout in the history and of every one that took its installment and has
\* no row, and never below zero: no bailout's debit is lost or taken twice, and the
\* history is short by exactly the bailouts that were cut off or could not write.
KasMatchesEvents ==
    \A g \in Groups : kasSosial[g] = Debited(KasAwal[g], Spent(g) + Unlisted(g))

\* A bailout is applied once, however often it is asked for: in the history of a
\* loan, two bailouts have a settled talangan between them, unless a settlement
\* has no row: it was cut off before it or could not write it.
BailedOutOnce ==
    \A i, j \in DOMAIN events :
        /\ i < j
        /\ events[i] = events[j]
        /\ events[i].event = "Ditalangi"
        => \/ \E k \in i..j : events[k] = [loanId |-> events[i].loanId, event |-> "TalanganLunas"]
           \/ \E r \in Requests : /\ RowOf(r) = events[i].loanId /\ Kind(r) = "repay"
                                  /\ pc[r] \in NoRowYet
=============================================================================
