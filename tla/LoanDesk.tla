------------------------------ MODULE LoanDesk ------------------------------
(***************************************************************************)
(* LoansService: members apply for loans and appeal, the board approves or *)
(* rejects, each an HTTP request that awaits the database and the chain    *)
(* many times and is interleaved with the others at every await.           *)
(*                                                                         *)
(* The database keeps the loan rows, the decision history and the audit    *)
(* trail.  The escrow is reduced to what these calls read and change: the  *)
(* id counter and each loan's status, flag and appeal.                     *)
(*                                                                         *)
(* Screening (GeminiService) always answers and is part of the request's   *)
(* data; texts, amounts and transaction hashes are left out.               *)
(***************************************************************************)
EXTENDS ChainGateway, Functions

CONSTANTS
    Rows,      \* loan rows of the database
    None,
    Desks,     \* the sittings: what is asked for, and which faults may happen
    MaxLoans   \* bound on the escrow's ids: one for each application

Kinds == {"apply", "sanggah", "approve", "reject"}
Flags == {"HIJAU", "KUNING", "MERAH"}
LoanIds == 1..MaxLoans

VARIABLES
    rows,        \* table loans
    decisions,   \* table loan_decisions: row -> its history, oldest first
    audited,     \* requests that appended their audit entry
    nextLoanId,  \* escrow: the next id
    book,        \* escrow: id -> loan
    pc, seen, nextId,   \* a request's position and what it has read
    running,     \* requests of the backend process that is up
    job          \* request -> [kind, row, flag, whole]: what the client asks for

Kind(r) == job[r].kind
RowOf(r) == job[r].row
Decides(r) == Kind(r) \in {"approve", "reject"}

ASSUME DeskJobs ==
    /\ \A d \in Desks :
          /\ d.faults \subseteq PossibleFaults
          /\ DOMAIN d.job \subseteq Requests
          /\ \A q \in Range(d.job) : /\ q.kind \in Kinds /\ q.row \in Rows
                                     /\ q.flag \in Flags /\ q.whole \in BOOLEAN
          \* A row is created by one application, and each can take an id.
          /\ \A r, s \in DOMAIN d.job :
                /\ d.job[r].kind = "apply" /\ d.job[s].kind = "apply"
                /\ d.job[r].row = d.job[s].row
                => r = s
    /\ MaxLoans \in Nat
    /\ None \notin Rows \cup Flags \cup {"Diajukan", "Disetujui", "Ditunda"}

db == <<rows, decisions, audited>>
chain == <<nextLoanId, book>>
reads == <<seen, nextId>>
vars == <<db, chain, gateway, pc, reads, running, job>>

\* onchainLoanId = 0 is null: the escrow counts from 1.
NoRow == [status |-> None, flagAi |-> None, onchainLoanId |-> 0, isSanggah |-> FALSE]
NoLoan == [row |-> None, status |-> None, aiFlag |-> None, appealOpen |-> FALSE]

Init ==
    /\ rows = [x \in Rows |-> NoRow]
    /\ decisions = [x \in Rows |-> <<>>]
    /\ audited = {}
    /\ nextLoanId = 1
    /\ book = [id \in LoanIds |-> NoLoan]
    /\ GatewayInit
    /\ \E d \in Desks : faults = d.faults /\ job = d.job
    /\ pc = [r \in Requests |-> "start"]
    /\ seen = [r \in Requests |-> NoRow]
    /\ nextId = [r \in Requests |-> 0]
    /\ running = DOMAIN job

Ended == {"done", "threw", "notFound"}

At(r, step) == r \in running /\ pc[r] = step
Goto(r, step) == pc' = [pc EXCEPT ![r] = step]

----------------------------------------------------------------------------
(* The escrow *)

\* fileAppeal wants the member's own wallet as its sender, resolveAppeal an
\* open appeal.
Accepts(fn, arg) ==
    CASE fn = "createLoan" -> nextLoanId <= MaxLoans
      [] fn = "recordScreening" -> book[arg.id].status # None
      [] fn \in {"approveLoan", "deferLoan"} -> book[arg.id].status = "Diajukan"
      [] fn = "fileAppeal" -> /\ book[arg.id].status # None
                              /\ ~book[arg.id].appealOpen
                              /\ RoleFor(fn) = "WALLET"
      [] fn = "resolveAppeal" -> book[arg.id].appealOpen

Effect(loan, fn, arg) ==
    CASE fn = "recordScreening" -> [loan EXCEPT !.aiFlag = arg.flag]
      [] fn = "approveLoan" -> [loan EXCEPT !.status = "Disetujui"]
      [] fn = "deferLoan" -> [loan EXCEPT !.status = "Ditunda"]
      [] fn = "fileAppeal" -> [loan EXCEPT !.appealOpen = TRUE]
      [] fn = "resolveAppeal" -> [loan EXCEPT !.appealOpen = FALSE]

\* Mutant: an id is given out without counting it.
CreateUncounted(fn, arg) ==
    IF fn = "createLoan"
    THEN /\ book' = [book EXCEPT ![nextLoanId] =
               [row |-> arg.row, status |-> "Diajukan", aiFlag |-> arg.flag,
                appealOpen |-> FALSE]]
         /\ UNCHANGED nextLoanId
    ELSE /\ book' = [book EXCEPT ![arg.id] = Effect(@, fn, arg)]
         /\ UNCHANGED nextLoanId

Execute(fn, arg) ==
    IF fn = "createLoan"
    THEN /\ nextLoanId' = nextLoanId + 1
         /\ book' = [book EXCEPT ![nextLoanId] =
               [row |-> arg.row, status |-> "Diajukan", aiFlag |-> arg.flag,
                appealOpen |-> FALSE]]
    ELSE /\ book' = [book EXCEPT ![arg.id] = Effect(@, fn, arg)]
         /\ UNCHANGED nextLoanId

Mine(role) ==
    /\ pool[role] # <<>>
    /\ LET tx == Head(pool[role]) IN
          \/ /\ Accepts(tx.fn, tx.arg)
             /\ Execute(tx.fn, tx.arg)
             /\ Mined(role, "success")
          \/ /\ ~Accepts(tx.fn, tx.arg) \/ "revert" \in faults
             /\ Mined(role, "reverted")
             /\ UNCHANGED chain
    /\ UNCHANGED <<db, pc, reads, running, job>>

Submit(r, fn, arg) == TrySubmit(r, fn, arg, Accepts(fn, arg))

----------------------------------------------------------------------------
(* apply *)

Insert(r) ==
    /\ At(r, "start") /\ Kind(r) = "apply"
    /\ rows' = [rows EXCEPT ![RowOf(r)] =
          [NoRow EXCEPT !.status = "Diajukan", !.flagAi = job[r].flag]]
    /\ Goto(r, "inserted")
    /\ UNCHANGED <<decisions, audited, chain, gateway, reads, running, job>>

\* The read may fail: nextId stays null and the loan off the chain.
ReadNextLoanId(r) ==
    /\ At(r, "inserted")
    /\ \/ nextId' = [nextId EXCEPT ![r] = nextLoanId]
       \/ "rpc" \in faults /\ UNCHANGED nextId
    /\ Goto(r, "read")
    /\ UNCHANGED <<db, chain, gateway, seen, running, job>>

\* BigInt(nominal), outside trySubmit, throws for an amount that is not whole.
Throw(r) ==
    /\ At(r, "read") /\ ~job[r].whole
    /\ Goto(r, "threw")
    /\ UNCHANGED <<db, chain, gateway, reads, running, job>>

SendCreate(r) ==
    /\ At(r, "read") /\ job[r].whole
    /\ Submit(r, "createLoan", [row |-> RowOf(r), flag |-> job[r].flag])
    /\ Goto(r, "creating")
    /\ UNCHANGED <<db, chain, reads, running, job>>

\* Mutant: the whole loan is saved, as it was inserted.
BindWhole(r) ==
    [NoRow EXCEPT !.status = "Diajukan", !.flagAi = job[r].flag,
                  !.onchainLoanId = nextId[r]]
Bound(r) == [rows[RowOf(r)] EXCEPT !.onchainLoanId = nextId[r]]

\* Mutant: the loan is bound whatever trySubmit answered.
AnyAnswer(r) == nextId[r] # 0
Created(r) == Ok(r) /\ nextId[r] # 0

Bind(r) ==
    /\ At(r, "creating") /\ Answered(r)
    /\ IF Created(r)
       THEN rows' = [rows EXCEPT ![RowOf(r)] = Bound(r)] /\ Goto(r, "bound")
       ELSE Goto(r, "audit") /\ UNCHANGED rows
    /\ UNCHANGED <<decisions, audited, chain, gateway, reads, running, job>>

SendScreening(r) ==
    /\ At(r, "bound")
    /\ Submit(r, "recordScreening", [id |-> nextId[r], flag |-> job[r].flag])
    /\ Goto(r, "last")
    /\ UNCHANGED <<db, chain, reads, running, job>>

----------------------------------------------------------------------------
(* sanggah, approve and reject *)

\* findUnique: what it returns is used to the end of the request.
Find(r) ==
    /\ At(r, "start") /\ Kind(r) # "apply"
    /\ seen' = [seen EXCEPT ![r] = rows[RowOf(r)]]
    /\ Goto(r, IF rows[RowOf(r)] = NoRow THEN "notFound" ELSE "found")
    /\ UNCHANGED <<db, chain, gateway, nextId, running, job>>

\* No status is looked at: any loan can be appealed against or decided again.
Mark(r) ==
    /\ At(r, "found") /\ Kind(r) = "sanggah"
    /\ rows' = [rows EXCEPT ![RowOf(r)].isSanggah = TRUE]
    /\ Goto(r, "anchor")
    /\ UNCHANGED <<decisions, audited, chain, gateway, reads, running, job>>

Verdict(r) == IF Kind(r) = "approve" THEN "Disetujui" ELSE "Ditunda"
AppealVerdict(r) == IF Kind(r) = "approve" THEN "SanggahDiterima" ELSE "SanggahDitolak"

Decide(r) ==
    /\ At(r, "found") /\ Decides(r)
    /\ rows' = [rows EXCEPT ![RowOf(r)].status = Verdict(r)]
    /\ Goto(r, "decided")
    /\ UNCHANGED <<decisions, audited, chain, gateway, reads, running, job>>

Record(r, entry) == decisions' = [decisions EXCEPT ![RowOf(r)] = Append(@, entry)]

\* Mutant: an appealed loan gets the answer to its appeal only.
AppealOnly(r) == IF seen[r].isSanggah THEN AppealVerdict(r) ELSE Verdict(r)
MainDecision(r) == Verdict(r)

RecordDecision(r) ==
    /\ At(r, "decided")
    /\ Record(r, MainDecision(r))
    /\ Goto(r, IF seen[r].isSanggah THEN "appealed" ELSE "anchor")
    /\ UNCHANGED <<rows, audited, chain, gateway, reads, running, job>>

RecordAppealDecision(r) ==
    /\ At(r, "appealed")
    /\ Record(r, AppealVerdict(r))
    /\ Goto(r, "anchor")
    /\ UNCHANGED <<rows, audited, chain, gateway, reads, running, job>>

\* Mutant: approve calls what reject calls.
AlwaysDefer(r) == IF Kind(r) = "sanggah" THEN "fileAppeal" ELSE "deferLoan"
AnchorCall(r) ==
    CASE Kind(r) = "sanggah" -> "fileAppeal"
      [] Kind(r) = "approve" -> "approveLoan"
      [] Kind(r) = "reject" -> "deferLoan"

\* A loan that had no id when the request read it is left off the chain.
Anchor(r) ==
    /\ At(r, "anchor")
    /\ IF seen[r].onchainLoanId = 0
       THEN Goto(r, "audit") /\ UNCHANGED gateway
       ELSE /\ Submit(r, AnchorCall(r), [id |-> seen[r].onchainLoanId])
            /\ Goto(r, IF Decides(r) /\ seen[r].isSanggah THEN "resolve" ELSE "last")
    /\ UNCHANGED <<db, chain, reads, running, job>>

Resolve(r) ==
    /\ At(r, "resolve") /\ Answered(r)
    /\ Submit(r, "resolveAppeal", [id |-> seen[r].onchainLoanId])
    /\ Goto(r, "last")
    /\ UNCHANGED <<db, chain, reads, running, job>>

----------------------------------------------------------------------------
(* The end of every request *)

Awaited(r) ==
    /\ At(r, "last") /\ Answered(r)
    /\ Goto(r, "audit")
    /\ UNCHANGED <<db, chain, gateway, reads, running, job>>

AppendAudit(r) ==
    /\ At(r, "audit")
    /\ audited' = audited \cup {r}
    /\ Goto(r, "done")
    /\ UNCHANGED <<rows, decisions, chain, gateway, reads, running, job>>

NoReceipt(r) ==
    /\ r \in running
    /\ TimeOut(r)
    /\ UNCHANGED <<db, chain, pc, reads, running, job>>

\* The process stops and is started again: its requests are lost, what it has
\* sent is not.
Crash ==
    /\ "crash" \in faults
    /\ running' = {r \in running : pc[r] = "start"}
    /\ UNCHANGED <<db, chain, gateway, pc, reads, job>>

----------------------------------------------------------------------------

Apply(r) ==
    \/ Insert(r) \/ ReadNextLoanId(r) \/ Throw(r)
    \/ SendCreate(r) \/ Bind(r) \/ SendScreening(r)

Review(r) ==
    \/ Find(r) \/ Mark(r) \/ Decide(r)
    \/ RecordDecision(r) \/ RecordAppealDecision(r)
    \/ Anchor(r) \/ Resolve(r)

Step(r) == Apply(r) \/ Review(r) \/ Awaited(r) \/ AppendAudit(r)

\* Every request has ended and every transaction is mined.
Idle ==
    /\ \A r \in running : pc[r] \in Ended
    /\ \A role \in Roles : pool[role] = <<>>
    /\ UNCHANGED vars

Next ==
    \/ \E r \in Requests : Step(r) \/ NoReceipt(r)
    \/ \E role \in Roles : Mine(role)
    \/ Crash
    \/ Idle

Spec == Init /\ [][Next]_vars

\* A request that has begun goes on (the event loop), and the wait for its
\* receipt ends after RECEIPT_TIMEOUT_MS.  Nothing says that the chain mines.
FairSpec ==
    /\ Spec
    /\ \A r \in Requests : WF_vars(Step(r) \/ NoReceipt(r))

----------------------------------------------------------------------------
(* Properties *)

Entries == {"Disetujui", "Ditunda", "SanggahDiterima", "SanggahDitolak"}
Statuses == {None, "Diajukan", "Disetujui", "Ditunda"}

\* Every field holds a value of its column, and every id the escrow has given
\* out is a loan.
TypeOK ==
    /\ rows \in [Rows -> [status : Statuses, flagAi : Flags \cup {None},
                          onchainLoanId : 0..MaxLoans + 1, isSanggah : BOOLEAN]]
    /\ \A x \in Rows : Range(decisions[x]) \subseteq Entries
    /\ audited \subseteq Requests
    /\ nextLoanId \in 1..MaxLoans + 1
    /\ book \in [LoanIds -> [row : Rows \cup {None}, status : Statuses,
                             aiFlag : Flags \cup {None}, appealOpen : BOOLEAN]]
    /\ \A id \in LoanIds : id < nextLoanId <=> book[id] # NoLoan
    /\ running \subseteq Requests
    /\ nextId \in [Requests -> 0..MaxLoans + 1]

\* A loan row is bound to the escrow loan that its own application creates, or
\* will when its transaction is mined.  apply reads nextLoanId, sends, and binds
\* what it read before it sent: right as long as no other application is served.
BoundToOwnLoan ==
    \A x \in Rows :
        LET id == rows[x].onchainLoanId IN
        id # 0 => \/ id < nextLoanId /\ book[id].row = x
                  \/ id = nextLoanId /\ \E i \in DOMAIN pool["RELAYER"] :
                        pool["RELAYER"][i].fn = "createLoan" /\ pool["RELAYER"][i].arg.row = x

\* apply writes the row again long after it was first visible to the board:
\* it must not undo the board's decision or the member's appeal, and a row
\* that is bound stays bound to the same loan.
NoUpdateLost ==
    [][\A x \in Rows :
          /\ rows[x].status \in {"Disetujui", "Ditunda"} => rows'[x].status # "Diajukan"
          /\ rows[x].isSanggah => rows'[x].isSanggah
          /\ rows[x].onchainLoanId # 0 =>
                rows'[x].onchainLoanId = rows[x].onchainLoanId]_vars

\* However approvals, rejections and appeals of a loan interleave, its status
\* is one that the decision history lists, once nobody is between the two
\* writes.  A restart may cut a decision off there.
StatusIsExplained ==
    \A x \in Rows :
        /\ rows[x].status \in {"Disetujui", "Ditunda"}
        /\ ~\E r \in DOMAIN job : RowOf(r) = x /\ pc[r] = "decided"
        => rows[x].status \in Range(decisions[x])

\* Whatever fails and whenever the backend stops: a decision that the escrow
\* has executed is in the history of a loan row bound to that escrow loan.
\* Anchoring comes after recording, and binding is for good.
ChainFollowsHistory ==
    \A id \in LoanIds :
        book[id].status \in {"Disetujui", "Ditunda"} =>
            \E x \in Rows : /\ rows[x].onchainLoanId = id
                            /\ book[id].status \in Range(decisions[x])

\* Unless the backend stops, every request is answered, whether or not the chain
\* ever mines a transaction: trySubmit stops waiting.
EveryRequestAnswered ==
    \A r \in Requests :
        <>(r \in DOMAIN job /\ "crash" \notin faults => pc[r] \in Ended)
=============================================================================
