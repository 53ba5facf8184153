-------------------------- MODULE LoanDesk_proofs --------------------------
(***************************************************************************)
(* Theorems about the loan desk, for any number of requests served at the  *)
(* same time, any rows, any faults: types, the rows that are written more  *)
(* than once, the decision history, the decisions on the escrow, and the   *)
(* escrow loan that a row is bound to.                                     *)
(***************************************************************************)
EXTENDS LoanDesk, TLAPS

----------------------------------------------------------------------------
(* Types *)

\* What a sitting asks for, as DeskJobs bounds it.
Jobs ==
    /\ DOMAIN job \subseteq Requests
    /\ running \subseteq DOMAIN job
    /\ \A r \in DOMAIN job : Kind(r) \in Kinds /\ RowOf(r) \in Rows /\ job[r].flag \in Flags
    /\ \A r, s \in DOMAIN job :
          Kind(r) = "apply" /\ Kind(s) = "apply" /\ RowOf(r) = RowOf(s) => r = s

Row == [status : Statuses, flagAi : Flags \cup {None},
        onchainLoanId : 0..MaxLoans + 1, isSanggah : BOOLEAN]
Loan == [row : Rows \cup {None}, status : Statuses,
         aiFlag : Flags \cup {None}, appealOpen : BOOLEAN]

Reviews == {"approveLoan", "deferLoan", "fileAppeal", "resolveAppeal"}
Ids == 0..MaxLoans + 1
Calls ==
    [by : Requests, fn : {"createLoan"}, arg : [row : Rows, flag : Flags]]
    \cup [by : Requests, fn : {"recordScreening"}, arg : [id : Ids, flag : Flags]]
    \cup [by : Requests, fn : Reviews, arg : [id : Ids]]

\* The positions a request takes.
Applying == {"start", "inserted", "read", "creating", "bound", "last", "audit", "done", "threw"}
Appealing == {"start", "notFound", "found", "anchor", "last", "audit", "done"}
Deciding == Appealing \cup {"decided", "appealed", "resolve"}
Steps == Applying \cup Deciding

OnItsWay(r) == pc[r] \in CASE Kind(r) = "apply" -> Applying
                           [] Kind(r) = "sanggah" -> Appealing
                           [] OTHER -> Deciding

Types ==
    /\ Jobs
    /\ rows \in [Rows -> Row]
    /\ decisions \in [Rows -> Seq(Entries)]
    /\ audited \subseteq Requests
    /\ seen \in [Requests -> Row]
    /\ nextId \in [Requests -> Ids]
    /\ pc \in [Requests -> Steps] /\ \A r \in DOMAIN job : OnItsWay(r)
    /\ pool \in [Roles -> Seq(Calls)]
    /\ book \in [LoanIds -> Loan]
    /\ nextLoanId \in 1..MaxLoans + 1
    \* The ids given out, and no others, are loans of a row.
    /\ \A id \in LoanIds :
          IF id < nextLoanId THEN book[id].row # None /\ book[id].status # None
          ELSE book[id] = NoLoan

LEMMA InitTypes == Init => Types
<1> SUFFICES ASSUME Init PROVE Types
  OBVIOUS
<1>1. PICK d \in Desks : faults = d.faults /\ job = d.job
  BY DEF Init
<1>2. Jobs
  BY <1>1, DeskJobs DEF Init, Jobs, Kind, RowOf, Range
<1>3. NoRow \in Row /\ NoLoan \in Loan
  BY DeskJobs DEF NoRow, NoLoan, Row, Loan, Statuses
<1>4. 0 \in Ids /\ 1 \in 1..MaxLoans + 1 /\ \A id \in LoanIds : ~(id < 1)
  BY DeskJobs DEF Ids, LoanIds
<1>d. decisions \in [Rows -> Seq(Entries)]
  <2>1. decisions = [x \in Rows |-> <<>>] /\ <<>> \in Seq(Entries)
    BY DEF Init
  <2>2. QED
    BY <2>1
<1>5. /\ rows \in [Rows -> Row]
      /\ audited \subseteq Requests
      /\ seen \in [Requests -> Row] /\ nextId \in [Requests -> Ids]
      /\ book \in [LoanIds -> Loan] /\ nextLoanId \in 1..MaxLoans + 1
  <2>1. /\ rows = [x \in Rows |-> NoRow] /\ book = [id \in LoanIds |-> NoLoan]
        /\ audited = {} /\ seen = [r \in Requests |-> NoRow]
        /\ nextId = [r \in Requests |-> 0] /\ nextLoanId = 1
    BY DEF Init
  <2>2. QED
    BY <1>3, <1>4, <2>1
<1>p. pc \in [Requests -> Steps] /\ \A r \in DOMAIN job : OnItsWay(r)
  BY <1>2 DEF Init, OnItsWay, Steps, Applying, Deciding, Appealing, Jobs
<1>6. pool \in [Roles -> Seq(Calls)]
  <2>1. pool = [role \in Roles |-> <<>>] /\ <<>> \in Seq(Calls)
    BY DEF Init, GatewayInit
  <2>2. QED
    BY <2>1
<1>7. \A id \in LoanIds : ~(id < nextLoanId) /\ book[id] = NoLoan
  BY <1>4 DEF Init
<1>8. QED
  BY <1>2, <1>d, <1>p, <1>5, <1>6, <1>7 DEF Types

\* Whatever trySubmit answers, what is sent is a call.
LEMMA SubmitTypes ==
  ASSUME Types, NEW r \in Requests, NEW fn, NEW arg, Submit(r, fn, arg),
         RoleFor(fn) \in Roles, [by |-> r, fn |-> fn, arg |-> arg] \in Calls
  PROVE  pool' \in [Roles -> Seq(Calls)]
<1> DEFINE tx == [by |-> r, fn |-> fn, arg |-> arg]
<1>1. pool' = pool \/ pool' = [pool EXCEPT ![RoleFor(fn)] = Append(@, tx)]
  BY DEF Submit, TrySubmit
<1>2. pool \in [Roles -> Seq(Calls)] /\ tx \in Calls
  BY DEF Types
<1> HIDE DEF tx
<1>3. Append(pool[RoleFor(fn)], tx) \in Seq(Calls)
  BY <1>2
<1>4. QED
  BY <1>1, <1>2, <1>3

LEMMA AnyRole == \A fn : RoleFor(fn) \in Roles
BY DEF RoleFor, Roles

\* The escrow executes a call: a new loan, or a loan that keeps its row.
LEMMA ExecuteTypes ==
  ASSUME Types, NEW tx \in Calls, Accepts(tx.fn, tx.arg), Execute(tx.fn, tx.arg)
  PROVE  /\ book' \in [LoanIds -> Loan]
         /\ nextLoanId' \in 1..MaxLoans + 1
         /\ \A id \in LoanIds :
               IF id < nextLoanId' THEN book'[id].row # None /\ book'[id].status # None
               ELSE book'[id] = NoLoan
<1>t. /\ book \in [LoanIds -> Loan] /\ nextLoanId \in 1..MaxLoans + 1
      /\ \A id \in LoanIds :
            IF id < nextLoanId THEN book[id].row # None /\ book[id].status # None
            ELSE book[id] = NoLoan
  BY DEF Types
<1>1. CASE tx.fn = "createLoan"
  <2> DEFINE new == [row |-> tx.arg.row, status |-> "Diajukan", aiFlag |-> tx.arg.flag,
                     appealOpen |-> FALSE]
  <2>1. tx.arg \in [row : Rows, flag : Flags]
    BY <1>1 DEF Calls, Reviews
  <2>2. new \in Loan /\ new.row # None /\ new.status # None
    BY <2>1, DeskJobs DEF Loan, Statuses
  <2>3. /\ nextLoanId <= MaxLoans /\ nextLoanId' = nextLoanId + 1
        /\ book' = [book EXCEPT ![nextLoanId] = new]
    BY <1>1 DEF Accepts, Execute
  <2> HIDE DEF new
  <2>4. QED
    BY <1>t, <2>2, <2>3, DeskJobs DEF LoanIds
<1>2. CASE tx.fn # "createLoan"
  <2> DEFINE id == tx.arg.id
             new == Effect(book[id], tx.fn, tx.arg)
  <2>1. nextLoanId' = nextLoanId /\ book' = [book EXCEPT ![id] = new]
    BY <1>2 DEF Execute
  <2>2. tx.fn \in {"recordScreening"} \cup Reviews
    BY <1>2 DEF Calls
  <2>3. ASSUME id \in LoanIds
        PROVE  new \in Loan /\ id < nextLoanId /\ new.row # None /\ new.status # None
    <3>1. book[id] \in Loan
      BY <1>t, <2>3
    <3>2. id < nextLoanId /\ book[id].row # None /\ book[id].status # None
      <4>1. book[id] # NoLoan
        <5>1. CASE tx.fn = "recordScreening"
          BY <5>1 DEF Accepts, NoLoan
        <5>2. CASE tx.fn \in {"approveLoan", "deferLoan"}
          <6>1. book[id].status = "Diajukan"
            BY <5>2 DEF Accepts
          <6>2. NoLoan.status # "Diajukan"
            BY DeskJobs DEF NoLoan
          <6>3. QED
            BY <6>1, <6>2
        <5>3. CASE tx.fn = "fileAppeal"
          BY <5>3 DEF Accepts, RoleFor
        <5>4. CASE tx.fn = "resolveAppeal"
          <6>1. book[id].appealOpen
            BY <5>4 DEF Accepts
          <6>2. ~NoLoan.appealOpen
            BY DEF NoLoan
          <6>3. QED
            BY <6>1, <6>2
        <5>5. QED
          BY <2>2, <5>1, <5>2, <5>3, <5>4 DEF Reviews
      <4>2. QED
        BY <1>t, <2>3, <4>1
    <3>3. tx.fn = "recordScreening" => tx.arg.flag \in Flags
      BY DEF Calls, Reviews
    <3>4. QED
      BY <2>2, <3>1, <3>2, <3>3, DeskJobs DEF Effect, Reviews, Loan, Statuses
  <2> HIDE DEF new, id
  <2>4. QED
    BY <1>t, <2>1, <2>3
<1>3. QED
  BY <1>1, <1>2

\* A request that is served is one of the sitting's.
LEMMA AtFacts ==
  ASSUME Types, NEW r, NEW step, At(r, step)
  PROVE  /\ r \in Requests /\ r \in running /\ r \in DOMAIN job /\ pc[r] = step
         /\ Kind(r) \in Kinds /\ RowOf(r) \in Rows /\ job[r].flag \in Flags
         /\ rows[RowOf(r)] \in Row /\ OnItsWay(r)
BY DEF Types, Jobs, At

\* A request moves on to a position of its way; the others stay.
LEMMA GotoWay ==
  ASSUME Types, NEW r \in DOMAIN job, NEW step \in Steps, Goto(r, step), UNCHANGED job,
         step \in CASE Kind(r) = "apply" -> Applying
                    [] Kind(r) = "sanggah" -> Appealing
                    [] OTHER -> Deciding
  PROVE  pc' \in [Requests -> Steps] /\ \A s \in DOMAIN job' : OnItsWay(s)'
<1>1. pc' = [pc EXCEPT ![r] = step] /\ pc \in [Requests -> Steps] /\ r \in Requests
  BY DEF Goto, Types, Jobs
<1>2. pc' \in [Requests -> Steps]
  BY <1>1
<1>3. \A s \in DOMAIN job : OnItsWay(s)
  BY DEF Types
<1>4. ASSUME NEW s \in DOMAIN job PROVE OnItsWay(s)'
  <2>1. pc'[s] = IF s = r THEN step ELSE pc[s]
    BY <1>1 DEF Types, Jobs
  <2>2. Kind(s)' = Kind(s)
    BY DEF Kind
  <2>3. QED
    BY <1>3, <2>1, <2>2 DEF OnItsWay
<1>5. QED
  BY <1>2, <1>4

LEMMA StepTypes ==
  ASSUME Types, [Next]_vars
  PROVE  Types'
<1> DEFINE PcOK == pc \in [Requests -> Steps] /\ \A s \in DOMAIN job : OnItsWay(s)
<1>t. Types
  OBVIOUS
<1>j. UNCHANGED job /\ running' \subseteq running => Jobs'
  BY DEF Types, Jobs, Kind, RowOf
<1>1. ASSUME NEW r \in Requests, Insert(r) PROVE Types'
  <2>1. /\ r \in DOMAIN job /\ RowOf(r) \in Rows /\ job[r].flag \in Flags
        /\ rows[RowOf(r)] \in Row /\ Kind(r) \in Kinds /\ OnItsWay(r)
    BY <1>1, AtFacts DEF Insert
  <2>2. PcOK'
    BY <1>1, <2>1, GotoWay DEF Insert, Steps, Applying, Deciding, Appealing, Kinds, OnItsWay, Decides, At
  <2>3. rows' \in [Rows -> Row]
    <3>1. [NoRow EXCEPT !.status = "Diajukan", !.flagAi = job[r].flag] \in Row
      <4>1. NoRow \in Row
        BY DeskJobs DEF NoRow, Row, Statuses
      <4>2. QED
        BY <2>1, <4>1 DEF Row, Statuses
    <3>2. QED
      BY <1>1, <2>1, <3>1 DEF Insert, Types
  <2>4. QED
    BY <1>1, <1>t, <1>j, <2>2, <2>3 DEF Insert, Types, PcOK, db, chain, gateway, reads
<1>2. ASSUME NEW r \in Requests, ReadNextLoanId(r) PROVE Types'
  <2>1. /\ r \in DOMAIN job /\ RowOf(r) \in Rows /\ job[r].flag \in Flags
        /\ rows[RowOf(r)] \in Row /\ Kind(r) \in Kinds /\ OnItsWay(r)
    BY <1>2, AtFacts DEF ReadNextLoanId
  <2>2. PcOK'
    BY <1>2, <2>1, GotoWay DEF ReadNextLoanId, Steps, Applying, Deciding, Appealing, Kinds, OnItsWay, Decides, At
  <2>3. nextId' \in [Requests -> Ids]
    BY <1>2, <1>t DEF ReadNextLoanId, Types, Ids
  <2>4. QED
    BY <1>2, <1>t, <1>j, <2>2, <2>3 DEF ReadNextLoanId, Types, PcOK, db, chain, gateway, reads
<1>3. ASSUME NEW r \in Requests, Throw(r) PROVE Types'
  <2>1. /\ r \in DOMAIN job /\ RowOf(r) \in Rows /\ job[r].flag \in Flags
        /\ rows[RowOf(r)] \in Row /\ Kind(r) \in Kinds /\ OnItsWay(r)
    BY <1>3, AtFacts DEF Throw
  <2>2. PcOK'
    BY <1>3, <2>1, GotoWay DEF Throw, Steps, Applying, Deciding, Appealing, Kinds, OnItsWay, Decides, At
  <2>3. QED
    BY <1>3, <1>t, <1>j, <2>2 DEF Throw, Types, PcOK, db, chain, gateway, reads
<1>4. ASSUME NEW r \in Requests, SendCreate(r) PROVE Types'
  <2>1. /\ r \in DOMAIN job /\ RowOf(r) \in Rows /\ job[r].flag \in Flags
        /\ rows[RowOf(r)] \in Row /\ Kind(r) \in Kinds /\ OnItsWay(r)
    BY <1>4, AtFacts DEF SendCreate
  <2>2. PcOK'
    BY <1>4, <2>1, GotoWay DEF SendCreate, Steps, Applying, Deciding, Appealing, Kinds, OnItsWay, Decides, At
  <2>3. pool' \in [Roles -> Seq(Calls)]
    <3>1. [by |-> r, fn |-> "createLoan",
           arg |-> [row |-> RowOf(r), flag |-> job[r].flag]] \in Calls
      BY <2>1 DEF Calls
    <3>2. QED
      BY <1>4, <3>1, AnyRole, SubmitTypes DEF SendCreate
  <2>4. QED
    BY <1>4, <1>t, <1>j, <2>2, <2>3 DEF SendCreate, Types, PcOK, db, chain, gateway, reads, Submit, TrySubmit
<1>5. ASSUME NEW r \in Requests, Bind(r) PROVE Types'
  <2>1. /\ r \in DOMAIN job /\ RowOf(r) \in Rows /\ job[r].flag \in Flags
        /\ rows[RowOf(r)] \in Row /\ Kind(r) \in Kinds /\ OnItsWay(r)
    BY <1>5, AtFacts DEF Bind
  <2>2. PcOK'
    BY <1>5, <2>1, GotoWay DEF Bind, Steps, Applying, Deciding, Appealing, Kinds, OnItsWay, Decides, At
  <2>3. rows' \in [Rows -> Row]
    <3>1. Bound(r) \in Row
      BY <1>t, <2>1 DEF Bound, Row, Types, Ids
    <3>2. QED
      BY <1>5, <1>t, <2>1, <3>1 DEF Bind, Types
  <2>4. QED
    BY <1>5, <1>t, <1>j, <2>2, <2>3 DEF Bind, Types, PcOK, db, chain, gateway, reads
<1>6. ASSUME NEW r \in Requests, SendScreening(r) PROVE Types'
  <2>1. /\ r \in DOMAIN job /\ RowOf(r) \in Rows /\ job[r].flag \in Flags
        /\ rows[RowOf(r)] \in Row /\ Kind(r) \in Kinds /\ OnItsWay(r)
    BY <1>6, AtFacts DEF SendScreening
  <2>2. PcOK'
    BY <1>6, <2>1, GotoWay DEF SendScreening, Steps, Applying, Deciding, Appealing, Kinds, OnItsWay, Decides, At
  <2>3. pool' \in [Roles -> Seq(Calls)]
    <3>1. [by |-> r, fn |-> "recordScreening",
           arg |-> [id |-> nextId[r], flag |-> job[r].flag]] \in Calls
      BY <1>t, <2>1 DEF Calls, Types
    <3>2. QED
      BY <1>6, <3>1, AnyRole, SubmitTypes DEF SendScreening
  <2>4. QED
    BY <1>6, <1>t, <1>j, <2>2, <2>3 DEF SendScreening, Types, PcOK, db, chain, gateway, reads, Submit, TrySubmit
<1>7. ASSUME NEW r \in Requests, Find(r) PROVE Types'
  <2>1. /\ r \in DOMAIN job /\ RowOf(r) \in Rows /\ job[r].flag \in Flags
        /\ rows[RowOf(r)] \in Row /\ Kind(r) \in Kinds /\ OnItsWay(r)
    BY <1>7, AtFacts DEF Find
  <2>2. PcOK'
    BY <1>7, <2>1, GotoWay DEF Find, Steps, Applying, Deciding, Appealing, Kinds, OnItsWay, Decides, At
  <2>3. seen' \in [Requests -> Row]
    BY <1>7, <1>t, <2>1 DEF Find, Types
  <2>4. QED
    BY <1>7, <1>t, <1>j, <2>2, <2>3 DEF Find, Types, PcOK, db, chain, gateway, reads
<1>8. ASSUME NEW r \in Requests, Mark(r) PROVE Types'
  <2>1. /\ r \in DOMAIN job /\ RowOf(r) \in Rows /\ job[r].flag \in Flags
        /\ rows[RowOf(r)] \in Row /\ Kind(r) \in Kinds /\ OnItsWay(r)
    BY <1>8, AtFacts DEF Mark
  <2>2. PcOK'
    BY <1>8, <2>1, GotoWay DEF Mark, Steps, Applying, Deciding, Appealing, Kinds, OnItsWay, Decides, At
  <2>3. rows' \in [Rows -> Row]
    <3>1. [rows[RowOf(r)] EXCEPT !.isSanggah = TRUE] \in Row
      BY <2>1 DEF Row
    <3>2. QED
      BY <1>8, <1>t, <2>1, <3>1 DEF Mark, Types
  <2>4. QED
    BY <1>8, <1>t, <1>j, <2>2, <2>3 DEF Mark, Types, PcOK, db, chain, gateway, reads
<1>9. ASSUME NEW r \in Requests, Decide(r) PROVE Types'
  <2>1. /\ r \in DOMAIN job /\ RowOf(r) \in Rows /\ job[r].flag \in Flags
        /\ rows[RowOf(r)] \in Row /\ Kind(r) \in Kinds /\ OnItsWay(r)
    BY <1>9, AtFacts DEF Decide
  <2>2. PcOK'
    BY <1>9, <2>1, GotoWay DEF Decide, Steps, Applying, Deciding, Appealing, Kinds, OnItsWay, Decides, At
  <2>3. rows' \in [Rows -> Row]
    <3>1. [rows[RowOf(r)] EXCEPT !.status = Verdict(r)] \in Row
      BY <2>1 DEF Row, Verdict, Statuses
    <3>2. QED
      BY <1>9, <1>t, <2>1, <3>1 DEF Decide, Types
  <2>4. QED
    BY <1>9, <1>t, <1>j, <2>2, <2>3 DEF Decide, Types, PcOK, db, chain, gateway, reads
<1>10. ASSUME NEW r \in Requests, RecordDecision(r) PROVE Types'
  <2>1. /\ r \in DOMAIN job /\ RowOf(r) \in Rows /\ job[r].flag \in Flags
        /\ rows[RowOf(r)] \in Row /\ Kind(r) \in Kinds /\ OnItsWay(r)
    BY <1>10, AtFacts DEF RecordDecision
  <2>2. PcOK'
    BY <1>10, <2>1, GotoWay DEF RecordDecision, Steps, Applying, Deciding, Appealing, Kinds, OnItsWay, Decides, At
  <2>3. decisions' \in [Rows -> Seq(Entries)]
    <3>1. MainDecision(r) \in Entries
      BY DEF MainDecision, Verdict, AppealVerdict, Entries
    <3>2. Append(decisions[RowOf(r)], MainDecision(r)) \in Seq(Entries)
      BY <1>t, <2>1, <3>1 DEF Types
    <3>3. QED
      BY <1>10, <1>t, <2>1, <3>2 DEF RecordDecision, Record, Types
  <2>4. QED
    BY <1>10, <1>t, <1>j, <2>2, <2>3 DEF RecordDecision, Types, PcOK, db, chain, gateway, reads
<1>11. ASSUME NEW r \in Requests, RecordAppealDecision(r) PROVE Types'
  <2>1. /\ r \in DOMAIN job /\ RowOf(r) \in Rows /\ job[r].flag \in Flags
        /\ rows[RowOf(r)] \in Row /\ Kind(r) \in Kinds /\ OnItsWay(r)
    BY <1>11, AtFacts DEF RecordAppealDecision
  <2>2. PcOK'
    BY <1>11, <2>1, GotoWay DEF RecordAppealDecision, Steps, Applying, Deciding, Appealing, Kinds, OnItsWay, Decides, At
  <2>3. decisions' \in [Rows -> Seq(Entries)]
    <3>1. AppealVerdict(r) \in Entries
      BY DEF MainDecision, Verdict, AppealVerdict, Entries
    <3>2. Append(decisions[RowOf(r)], AppealVerdict(r)) \in Seq(Entries)
      BY <1>t, <2>1, <3>1 DEF Types
    <3>3. QED
      BY <1>11, <1>t, <2>1, <3>2 DEF RecordAppealDecision, Record, Types
  <2>4. QED
    BY <1>11, <1>t, <1>j, <2>2, <2>3 DEF RecordAppealDecision, Types, PcOK, db, chain, gateway, reads
<1>12. ASSUME NEW r \in Requests, Anchor(r) PROVE Types'
  <2>1. /\ r \in DOMAIN job /\ RowOf(r) \in Rows /\ job[r].flag \in Flags
        /\ rows[RowOf(r)] \in Row /\ Kind(r) \in Kinds /\ OnItsWay(r)
    BY <1>12, AtFacts DEF Anchor
  <2>2. PcOK'
    BY <1>12, <2>1, GotoWay DEF Anchor, Steps, Applying, Deciding, Appealing, Kinds, OnItsWay, Decides, At
  <2>3. pool' \in [Roles -> Seq(Calls)]
    <3>1. AnchorCall(r) \in Reviews /\ seen[r].onchainLoanId \in Ids
      BY <1>12, <1>t, <2>1 DEF Anchor, At, AnchorCall, Reviews, Types, Row, Ids, Kinds,
         OnItsWay, Applying
    <3>2. [by |-> r, fn |-> AnchorCall(r), arg |-> [id |-> seen[r].onchainLoanId]] \in Calls
      BY <3>1 DEF Calls
    <3>3. QED
      BY <1>12, <1>t, <3>2, AnyRole, SubmitTypes DEF Anchor, gateway, Types
  <2>4. QED
    BY <1>12, <1>t, <1>j, <2>2, <2>3 DEF Anchor, Types, PcOK, db, chain, gateway, reads, Submit, TrySubmit
<1>13. ASSUME NEW r \in Requests, Resolve(r) PROVE Types'
  <2>1. /\ r \in DOMAIN job /\ RowOf(r) \in Rows /\ job[r].flag \in Flags
        /\ rows[RowOf(r)] \in Row /\ Kind(r) \in Kinds /\ OnItsWay(r)
    BY <1>13, AtFacts DEF Resolve
  <2>2. PcOK'
    BY <1>13, <2>1, GotoWay DEF Resolve, Steps, Applying, Deciding, Appealing, Kinds, OnItsWay, Decides, At
  <2>3. pool' \in [Roles -> Seq(Calls)]
    <3>1. "resolveAppeal" \in Reviews /\ seen[r].onchainLoanId \in Ids
      BY <1>13, <1>t, <2>1 DEF Resolve, At, AnchorCall, Reviews, Types, Row, Ids, Kinds,
         OnItsWay, Applying
    <3>2. [by |-> r, fn |-> "resolveAppeal", arg |-> [id |-> seen[r].onchainLoanId]] \in Calls
      BY <3>1 DEF Calls
    <3>3. QED
      BY <1>13, <1>t, <3>2, AnyRole, SubmitTypes DEF Resolve, gateway, Types
  <2>4. QED
    BY <1>13, <1>t, <1>j, <2>2, <2>3 DEF Resolve, Types, PcOK, db, chain, gateway, reads, Submit, TrySubmit
<1>14. ASSUME NEW r \in Requests, Awaited(r) PROVE Types'
  <2>1. /\ r \in DOMAIN job /\ RowOf(r) \in Rows /\ job[r].flag \in Flags
        /\ rows[RowOf(r)] \in Row /\ Kind(r) \in Kinds /\ OnItsWay(r)
    BY <1>14, AtFacts DEF Awaited
  <2>2. PcOK'
    BY <1>14, <2>1, GotoWay DEF Awaited, Steps, Applying, Deciding, Appealing, Kinds, OnItsWay, Decides, At
  <2>3. QED
    BY <1>14, <1>t, <1>j, <2>2 DEF Awaited, Types, PcOK, db, chain, gateway, reads
<1>15. ASSUME NEW r \in Requests, AppendAudit(r) PROVE Types'
  <2>1. /\ r \in DOMAIN job /\ RowOf(r) \in Rows /\ job[r].flag \in Flags
        /\ rows[RowOf(r)] \in Row /\ Kind(r) \in Kinds /\ OnItsWay(r)
    BY <1>15, AtFacts DEF AppendAudit
  <2>2. PcOK'
    BY <1>15, <2>1, GotoWay DEF AppendAudit, Steps, Applying, Deciding, Appealing, Kinds, OnItsWay, Decides, At
  <2>3. audited' \subseteq Requests
    BY <1>15, <1>t DEF AppendAudit, Types
  <2>4. QED
    BY <1>15, <1>t, <1>j, <2>2, <2>3 DEF AppendAudit, Types, PcOK, db, chain, gateway, reads
<1>16. ASSUME NEW r \in Requests, NoReceipt(r) PROVE Types'
  BY <1>16, <1>t, <1>j DEF NoReceipt, TimeOut, Types, OnItsWay, Kind, db, chain, reads
<1>17. ASSUME Crash PROVE Types'
  BY <1>17, <1>t, <1>j DEF Crash, Types, OnItsWay, Kind, db, chain, gateway, reads
<1>18. ASSUME NEW role \in Roles, Mine(role) PROVE Types'
  <2> DEFINE tx == Head(pool[role])
  <2>1. tx \in Calls /\ Tail(pool[role]) \in Seq(Calls)
    BY <1>18, <1>t DEF Mine, Types
  <2>2. pool' \in [Roles -> Seq(Calls)]
    BY <1>18, <1>t, <2>1 DEF Mine, Mined, Types
  <2>3. /\ book' \in [LoanIds -> Loan]
        /\ nextLoanId' \in 1..MaxLoans + 1
        /\ \A id \in LoanIds :
              IF id < nextLoanId' THEN book'[id].row # None /\ book'[id].status # None
              ELSE book'[id] = NoLoan
    <3>1. CASE Accepts(tx.fn, tx.arg) /\ Execute(tx.fn, tx.arg)
      BY <2>1, <3>1, ExecuteTypes
    <3>2. CASE UNCHANGED chain
      BY <1>t, <3>2 DEF chain, Types
    <3>3. QED
      BY <1>18, <3>1, <3>2 DEF Mine
  <2>4. QED
    BY <1>18, <1>t, <1>j, <2>2, <2>3 DEF Mine, Types, OnItsWay, Kind, db, reads
<1>19. ASSUME UNCHANGED vars PROVE Types'
  BY <1>19, <1>t, <1>j DEF Types, OnItsWay, Kind, vars, db, chain, gateway, reads
<1>20. QED
  BY <1>1, <1>2, <1>3, <1>4, <1>5, <1>6, <1>7, <1>8, <1>9, <1>10, <1>11, <1>12, <1>13,
     <1>14, <1>15, <1>16, <1>17, <1>18, <1>19 DEF Next, Step, Apply, Review, Idle

LEMMA TypesCorrect == Spec => []Types
BY InitTypes, StepTypes, PTL DEF Spec

\* Every field holds a value of its column, and the escrow's ids are given out
\* without a gap, whatever is sent, mined, refused or lost.
THEOREM TypeCorrect == Spec => []TypeOK
<1>1. Types => TypeOK
  BY DEF Types, Jobs, TypeOK, Row, Loan, Ids, NoLoan, Range
<1>2. QED
  BY <1>1, TypesCorrect, PTL

----------------------------------------------------------------------------
(* What a step does to the tables *)

Bounds == {"bound", "last", "audit", "done"}

\* A request moves on without a write to the loans or their history.
Quiet(r) ==
    /\ UNCHANGED <<rows, decisions, seen>>
    /\ \/ /\ Kind(r) = "apply" /\ pc[r] \in {"inserted", "read"}
          /\ \E to \in {"read", "threw", "creating"} : Goto(r, to)
       \/ /\ pc[r] \in {"bound", "anchor", "resolve", "last", "audit"}
          /\ \E to \in {"resolve", "last", "audit", "done"} :
                Goto(r, to) /\ (Kind(r) = "apply" => to # "resolve")

LEMMA TableChanges ==
  ASSUME Types, [Next]_vars
  PROVE  /\ UNCHANGED job
         /\ \/ UNCHANGED <<rows, decisions, seen, pc>>
            \/ \E r \in DOMAIN job :
                  \/ Quiet(r) \/ Insert(r) \/ Bind(r) \/ Find(r) \/ Mark(r) \/ Decide(r)
                  \/ RecordDecision(r) \/ RecordAppealDecision(r)
<1>1. ASSUME NEW r \in Requests, Step(r) PROVE r \in DOMAIN job /\ OnItsWay(r)
  BY <1>1, AtFacts DEF Step, Apply, Review, Insert, ReadNextLoanId, Throw, SendCreate, Bind,
     SendScreening, Find, Mark, Decide, RecordDecision, RecordAppealDecision, Anchor, Resolve,
     Awaited, AppendAudit
<1>2. ASSUME NEW r \in Requests, ReadNextLoanId(r) \/ Throw(r) \/ SendCreate(r), OnItsWay(r)
      PROVE  Quiet(r) /\ UNCHANGED job
  BY <1>2 DEF ReadNextLoanId, Throw, SendCreate, Quiet, At, OnItsWay, Deciding, Appealing,
     db, reads
<1>3. ASSUME NEW r \in Requests, SendScreening(r) \/ Anchor(r) \/ Resolve(r), OnItsWay(r)
      PROVE  Quiet(r) /\ UNCHANGED job
  BY <1>3 DEF SendScreening, Anchor, Resolve, Quiet, At, OnItsWay, Applying, db, reads
<1>4. ASSUME NEW r \in Requests, Awaited(r) \/ AppendAudit(r)
      PROVE  Quiet(r) /\ UNCHANGED job
  BY <1>4 DEF Awaited, AppendAudit, Quiet, At, db, reads
<1>5. ASSUME NEW r \in Requests, Step(r)
      PROVE  /\ UNCHANGED job
             /\ \/ Quiet(r) \/ Insert(r) \/ Bind(r) \/ Find(r) \/ Mark(r) \/ Decide(r)
                \/ RecordDecision(r) \/ RecordAppealDecision(r)
  <2>1. CASE Apply(r)
    BY <2>1, <1>1, <1>2, <1>3, <1>5 DEF Apply, Insert, Bind
  <2>2. CASE Review(r)
    BY <2>2, <1>1, <1>3, <1>5 DEF Review, Find, Mark, Decide, RecordDecision,
       RecordAppealDecision
  <2>3. QED
    BY <1>4, <1>5, <2>1, <2>2 DEF Step
<1>6. ASSUME \/ \E r \in Requests : NoReceipt(r)
             \/ \E role \in Roles : Mine(role)
             \/ Crash \/ Idle \/ UNCHANGED vars
      PROVE  UNCHANGED <<rows, decisions, seen, pc, job>>
  BY <1>6 DEF NoReceipt, Mine, Crash, Idle, vars, db, reads
<1>7. QED
  BY <1>1, <1>5, <1>6 DEF Next

----------------------------------------------------------------------------
(* The row of a loan: written by its application and by the others *)

Applies(r) == Kind(r) = "apply"

\* A row exists for whoever found it and not before its application inserts
\* it, and it is bound by its application only.
RowOwned ==
    \A r \in DOMAIN job :
        /\ Applies(r) /\ pc[r] = "start" => rows[RowOf(r)] = NoRow
        /\ Applies(r) /\ rows[RowOf(r)].onchainLoanId # 0 => pc[r] \in Bounds
        /\ ~Applies(r) /\ pc[r] \notin {"start", "notFound"} => rows[RowOf(r)] # NoRow

\* What NoUpdateLost says of one step, and that no row disappears.
RowsKept ==
    \A x \in Rows :
        /\ rows[x].status \in {"Disetujui", "Ditunda"} => rows'[x].status # "Diajukan"
        /\ rows[x].isSanggah => rows'[x].isSanggah
        /\ rows[x].onchainLoanId # 0 => rows'[x].onchainLoanId = rows[x].onchainLoanId
        /\ rows[x] # NoRow => rows'[x] # NoRow

LEMMA RowStep ==
  ASSUME Types, RowOwned, [Next]_vars
  PROVE  RowOwned' /\ RowsKept
<1>t. /\ rows \in [Rows -> Row] /\ pc \in [Requests -> Steps]
      /\ DOMAIN job \subseteq Requests
      /\ \A r \in DOMAIN job : RowOf(r) \in Rows
      /\ \A r, s \in DOMAIN job : Applies(r) /\ Applies(s) /\ RowOf(r) = RowOf(s) => r = s
  BY DEF Types, Jobs, Applies
<1>j. /\ job' = job
      /\ \A r : Applies(r)' = Applies(r) /\ RowOf(r)' = RowOf(r) /\ Kind(r)' = Kind(r)
  BY TableChanges DEF Applies, Kind, RowOf
<1>s. UNCHANGED rows => RowsKept
  BY DEF RowsKept
\* A row is written: how it may differ, and who may stand where.
<1>w. ASSUME NEW r \in DOMAIN job, NEW row, NEW to,
             rows' = [rows EXCEPT ![RowOf(r)] = row], Goto(r, to),
             rows[RowOf(r)].status \in {"Disetujui", "Ditunda"} => row.status # "Diajukan",
             rows[RowOf(r)].isSanggah => row.isSanggah,
             rows[RowOf(r)].onchainLoanId # 0 => row.onchainLoanId = rows[RowOf(r)].onchainLoanId,
             row # NoRow, to # "start",
             Applies(r) \/ row.onchainLoanId = rows[RowOf(r)].onchainLoanId,
             Applies(r) /\ row.onchainLoanId # 0 => to \in Bounds,
             ~Applies(r) => rows[RowOf(r)] # NoRow
      PROVE  RowOwned' /\ RowsKept
  <2>1. \A x \in Rows : rows'[x] = IF x = RowOf(r) THEN row ELSE rows[x]
    BY <1>t, <1>w
  <2>2. \A s \in DOMAIN job : pc'[s] = IF s = r THEN to ELSE pc[s]
    BY <1>t, <1>w DEF Goto
  <2>3. RowsKept
    BY <1>w, <2>1 DEF RowsKept
  <2>4. ASSUME NEW s \in DOMAIN job
        PROVE  /\ Applies(s) /\ pc'[s] = "start" => rows'[RowOf(s)] = NoRow
               /\ Applies(s) /\ rows'[RowOf(s)].onchainLoanId # 0 => pc'[s] \in Bounds
               /\ ~Applies(s) /\ pc'[s] \notin {"start", "notFound"} => rows'[RowOf(s)] # NoRow
    BY <1>t, <1>w, <2>1, <2>2 DEF RowOwned
  <2>5. QED
    BY <1>j, <2>3, <2>4 DEF RowOwned
\* A request moves on and writes no row.
<1>m. ASSUME NEW r \in DOMAIN job, NEW to, UNCHANGED rows, Goto(r, to), to # "start",
             Applies(r) /\ pc[r] \in Bounds => to \in Bounds,
             ~Applies(r) /\ to # "notFound" => rows[RowOf(r)] # NoRow
      PROVE  RowOwned' /\ RowsKept
  <2>1. \A s \in DOMAIN job : pc'[s] = IF s = r THEN to ELSE pc[s]
    BY <1>t, <1>m DEF Goto
  <2>2. QED
    BY <1>j, <1>m, <1>s, <2>1 DEF RowOwned
<1>1. CASE UNCHANGED <<rows, pc>>
  BY <1>1, <1>j, <1>s DEF RowOwned
<1>2. ASSUME NEW r \in DOMAIN job, Quiet(r) PROVE RowOwned' /\ RowsKept
  BY <1>2, <1>m DEF Quiet, RowOwned, Applies, Bounds
<1>3. ASSUME NEW r \in DOMAIN job, Insert(r) PROVE RowOwned' /\ RowsKept
  <2> DEFINE row == [NoRow EXCEPT !.status = "Diajukan", !.flagAi = job[r].flag]
  <2>1. Applies(r) /\ rows[RowOf(r)] = NoRow
    BY <1>3 DEF Insert, At, RowOwned, Applies
  <2>2. /\ row # NoRow /\ row.onchainLoanId = 0
        /\ NoRow.status = None /\ ~NoRow.isSanggah /\ NoRow.onchainLoanId = 0
    BY DeskJobs DEF NoRow
  <2> HIDE DEF row
  <2>3. QED
    BY <1>3, <1>w, <2>1, <2>2, DeskJobs DEF Insert, row
<1>4. ASSUME NEW r \in DOMAIN job, Bind(r) PROVE RowOwned' /\ RowsKept
  <2>1. CASE ~Created(r)
    BY <1>4, <1>m, <2>1 DEF Bind, At, Bounds, Types, OnItsWay, Deciding, Appealing, Applies
  <2>2. CASE Created(r)
    <3>1. /\ Bound(r).status = rows[RowOf(r)].status
          /\ Bound(r).isSanggah = rows[RowOf(r)].isSanggah
          /\ Bound(r).onchainLoanId = nextId[r] /\ nextId[r] # 0
      BY <1>t, <2>2 DEF Bound, Created, Row
    <3>2. Applies(r) /\ rows[RowOf(r)].onchainLoanId = 0
      BY <1>4, <1>t DEF Bind, At, RowOwned, Bounds, Types, OnItsWay, Deciding, Appealing, Applies
    <3>3. Bound(r) # NoRow
      BY <3>1 DEF NoRow
    <3>4. QED
      BY <1>4, <1>w, <2>2, <3>1, <3>2, <3>3 DEF Bind, Bounds
  <2>3. QED
    BY <2>1, <2>2
<1>5. ASSUME NEW r \in DOMAIN job, Find(r) PROVE RowOwned' /\ RowsKept
  BY <1>5, <1>m DEF Find, At, db, Applies
<1>6. ASSUME NEW r \in DOMAIN job, Mark(r) PROVE RowOwned' /\ RowsKept
  <2> DEFINE row == [rows[RowOf(r)] EXCEPT !.isSanggah = TRUE]
  <2>1. /\ row.status = rows[RowOf(r)].status /\ row.isSanggah
        /\ row.onchainLoanId = rows[RowOf(r)].onchainLoanId
    BY <1>t DEF Row
  <2>2. ~Applies(r) /\ rows[RowOf(r)] # NoRow
    BY <1>6 DEF Mark, At, RowOwned, Applies
  <2>3. rows' = [rows EXCEPT ![RowOf(r)] = row]
    BY <1>6, <1>t DEF Mark
  <2>4. row # NoRow
    BY <2>1 DEF NoRow
  <2> HIDE DEF row
  <2>5. QED
    BY <1>6, <1>w, <2>1, <2>2, <2>3, <2>4 DEF Mark
<1>7. ASSUME NEW r \in DOMAIN job, Decide(r) PROVE RowOwned' /\ RowsKept
  <2> DEFINE row == [rows[RowOf(r)] EXCEPT !.status = Verdict(r)]
  <2>1. /\ row.status \in {"Disetujui", "Ditunda"}
        /\ row.isSanggah = rows[RowOf(r)].isSanggah
        /\ row.onchainLoanId = rows[RowOf(r)].onchainLoanId
    BY <1>t DEF Row, Verdict
  <2>2. ~Applies(r) /\ rows[RowOf(r)] # NoRow
    BY <1>7 DEF Decide, Decides, At, RowOwned, Applies
  <2>3. rows' = [rows EXCEPT ![RowOf(r)] = row]
    BY <1>7, <1>t DEF Decide
  <2>4. row # NoRow
    BY <2>1, DeskJobs DEF NoRow
  <2> HIDE DEF row
  <2>5. QED
    BY <1>7, <1>w, <2>1, <2>2, <2>3, <2>4 DEF Decide
<1>8. ASSUME NEW r \in DOMAIN job, RecordDecision(r) \/ RecordAppealDecision(r)
      PROVE  RowOwned' /\ RowsKept
  <2>1. ~Applies(r) /\ rows[RowOf(r)] # NoRow
    BY <1>8 DEF RecordDecision, RecordAppealDecision, At, RowOwned, Applies, Types, OnItsWay,
       Applying
  <2>2. QED
    BY <1>8, <1>m, <2>1 DEF RecordDecision, RecordAppealDecision
<1>9. QED
  BY <1>1, <1>2, <1>3, <1>4, <1>5, <1>6, <1>7, <1>8, TableChanges

LEMMA RowsCorrect == Spec => [](Types /\ RowOwned)
<1>1. ASSUME Init PROVE RowOwned
  <2>1. Types
    BY <1>1, InitTypes
  <2>2. \A r \in DOMAIN job : pc[r] = "start" /\ rows[RowOf(r)] = NoRow
    BY <1>1, <2>1 DEF Init, Types, Jobs
  <2>3. NoRow.onchainLoanId = 0
    BY DEF NoRow
  <2>4. QED
    BY <2>2, <2>3 DEF RowOwned
<1>2. Types /\ RowOwned /\ [Next]_vars => RowOwned'
  BY RowStep
<1>3. QED
  BY <1>1, <1>2, TypesCorrect, PTL DEF Spec

\* An application that binds its row late undoes no decision and no appeal, and
\* no row is bound to a second loan.
THEOREM UpdatesKept == Spec => NoUpdateLost
<1>1. Types /\ RowOwned /\ [Next]_vars =>
        [\A x \in Rows :
          /\ rows[x].status \in {"Disetujui", "Ditunda"} => rows'[x].status # "Diajukan"
          /\ rows[x].isSanggah => rows'[x].isSanggah
          /\ rows[x].onchainLoanId # 0 =>
                rows'[x].onchainLoanId = rows[x].onchainLoanId]_vars
  BY RowStep DEF RowsKept
<1>2. QED
  BY <1>1, RowsCorrect, PTL DEF Spec, NoUpdateLost

----------------------------------------------------------------------------
(* The decision history *)

\* A request that is past recording has its verdict in the history, and a
\* status that is not in the history yet is about to be recorded.
Recorded ==
    \A r \in DOMAIN job :
        Decides(r) /\ pc[r] \in {"appealed", "anchor", "resolve", "last", "audit", "done"} =>
            Verdict(r) \in Range(decisions[RowOf(r)])

Explained ==
    \A x \in Rows :
        rows[x].status \in {"Disetujui", "Ditunda"} =>
            \/ rows[x].status \in Range(decisions[x])
            \/ \E r \in DOMAIN job : /\ RowOf(r) = x /\ Decides(r)
                                     /\ pc[r] = "decided" /\ Verdict(r) = rows[x].status

History == Recorded /\ Explained

LEMMA RangeAppend ==
  ASSUME NEW S, NEW s \in Seq(S), NEW e \in S
  PROVE  Range(Append(s, e)) = Range(s) \cup {e}
<1>1. DOMAIN s = 1..Len(s) /\ DOMAIN Append(s, e) = 1..(Len(s) + 1) /\ Len(s) \in Nat
  OBVIOUS
<1>2. \A i \in 1..(Len(s) + 1) : Append(s, e)[i] = IF i = Len(s) + 1 THEN e ELSE s[i]
  OBVIOUS
<1>3. Len(s) + 1 \in 1..(Len(s) + 1)
  BY <1>1
<1>4. QED
  BY <1>1, <1>2, <1>3 DEF Range

\* The history only grows, by the entry of the request that records it.
LEMMA HistoryGrows ==
  ASSUME Types, NEW r \in DOMAIN job, NEW entry \in Entries, Record(r, entry)
  PROVE  /\ \A x \in Rows : Range(decisions[x]) \subseteq Range(decisions'[x])
         /\ entry \in Range(decisions'[RowOf(r)])
<1>1. decisions \in [Rows -> Seq(Entries)] /\ RowOf(r) \in Rows
  BY DEF Types, Jobs
<1>2. \A x \in Rows : decisions'[x] = IF x = RowOf(r) THEN Append(decisions[x], entry)
                                      ELSE decisions[x]
  BY <1>1 DEF Record
<1>3. Range(Append(decisions[RowOf(r)], entry)) = Range(decisions[RowOf(r)]) \cup {entry}
  BY <1>1, RangeAppend
<1>4. QED
  BY <1>1, <1>2, <1>3

LEMMA HistoryStep ==
  ASSUME Types, RowOwned, History, [Next]_vars
  PROVE  /\ History'
         /\ \A x \in Rows : Range(decisions[x]) \subseteq Range(decisions'[x])
<1> DEFINE Grows == \A x \in Rows : Range(decisions[x]) \subseteq Range(decisions'[x])
<1>t. /\ rows \in [Rows -> Row] /\ pc \in [Requests -> Steps]
      /\ DOMAIN job \subseteq Requests
      /\ \A r \in DOMAIN job : RowOf(r) \in Rows /\ OnItsWay(r)
  BY DEF Types, Jobs
<1>j. /\ job' = job
      /\ \A r : /\ RowOf(r)' = RowOf(r) /\ Kind(r)' = Kind(r)
                /\ Decides(r)' = Decides(r) /\ Verdict(r)' = Verdict(r)
  BY TableChanges DEF Decides, Verdict, Kind, RowOf
<1>u. UNCHANGED decisions => Grows
  OBVIOUS
\* A request moves on, and neither a status nor a decision is written.
<1>m. ASSUME NEW r \in DOMAIN job, NEW to, UNCHANGED decisions, Goto(r, to),
             \A x \in Rows : \/ rows'[x].status = rows[x].status
                             \/ rows'[x].status \notin {"Disetujui", "Ditunda"},
             pc[r] # "decided",
             Decides(r) /\ to \in {"appealed", "anchor", "resolve", "last", "audit", "done"} =>
                pc[r] \in {"appealed", "anchor", "resolve", "last", "audit"}
      PROVE  History' /\ Grows
  <2>1. \A s \in DOMAIN job : pc'[s] = IF s = r THEN to ELSE pc[s]
    BY <1>t, <1>m DEF Goto
  <2>2. Recorded'
    BY <1>j, <1>m, <2>1 DEF History, Recorded
  <2>3. Explained'
    BY <1>j, <1>m, <2>1 DEF History, Explained
  <2>4. QED
    BY <1>u, <1>m, <2>2, <2>3 DEF History
<1>1. CASE UNCHANGED <<rows, decisions, pc>>
  BY <1>1, <1>j, <1>u DEF History, Recorded, Explained
<1>2. ASSUME NEW r \in DOMAIN job, Quiet(r) PROVE History' /\ Grows
  <2>1. UNCHANGED <<rows, decisions>>
    BY <1>2 DEF Quiet
  <2>2. CASE Kind(r) = "apply" /\ pc[r] \in {"inserted", "read"}
    <3>1. PICK to : Goto(r, to)
      BY <1>2 DEF Quiet
    <3>2. QED
      BY <1>m, <2>1, <2>2, <3>1 DEF Decides
  <2>3. CASE pc[r] \in {"bound", "anchor", "resolve", "last", "audit"}
    <3>1. PICK to : Goto(r, to)
      BY <1>2 DEF Quiet
    <3>2. pc[r] = "bound" => ~Decides(r)
      BY <1>t DEF OnItsWay, Deciding, Appealing, Decides
    <3>3. QED
      BY <1>m, <2>1, <2>3, <3>1, <3>2
  <2>4. QED
    BY <1>2, <2>2, <2>3 DEF Quiet
<1>3. ASSUME NEW r \in DOMAIN job, Insert(r) PROVE History' /\ Grows
  <2>1. \A x \in Rows : rows'[x].status = rows[x].status \/ rows'[x].status = "Diajukan"
    BY <1>3, <1>t DEF Insert, NoRow
  <2>2. QED
    BY <1>3, <1>m, <2>1 DEF Insert, At, Decides
<1>4. ASSUME NEW r \in DOMAIN job, Bind(r) PROVE History' /\ Grows
  <2>1. \A x \in Rows : rows'[x].status = rows[x].status
    BY <1>4, <1>t DEF Bind, Bound, Row
  <2>2. Kind(r) = "apply" /\ pc[r] = "creating"
    BY <1>4, <1>t DEF Bind, At, OnItsWay, Deciding, Appealing
  <2>3. UNCHANGED decisions /\ \E to : Goto(r, to)
    BY <1>4 DEF Bind
  <2>4. QED
    BY <1>m, <2>1, <2>2, <2>3 DEF Decides
<1>5. ASSUME NEW r \in DOMAIN job, Find(r) PROVE History' /\ Grows
  BY <1>5, <1>m DEF Find, At, db
<1>6. ASSUME NEW r \in DOMAIN job, Mark(r) PROVE History' /\ Grows
  <2>1. \A x \in Rows : rows'[x].status = rows[x].status
    BY <1>6, <1>t DEF Mark, Row
  <2>2. QED
    BY <1>6, <1>m, <2>1 DEF Mark, At, Decides
<1>7. ASSUME NEW r \in DOMAIN job, Decide(r) PROVE History' /\ Grows
  <2>1. \A x \in Rows : rows'[x].status = IF x = RowOf(r) THEN Verdict(r) ELSE rows[x].status
    BY <1>7, <1>t DEF Decide, Row
  <2>2. \A s \in DOMAIN job : pc'[s] = IF s = r THEN "decided" ELSE pc[s]
    BY <1>7, <1>t DEF Decide, Goto
  <2>3. UNCHANGED decisions /\ Decides(r) /\ pc[r] = "found"
    BY <1>7 DEF Decide, At
  <2>4. Recorded'
    BY <1>j, <2>2, <2>3 DEF History, Recorded
  <2>5. Explained'
    BY <1>j, <2>1, <2>2, <2>3 DEF History, Explained
  <2>6. QED
    BY <1>u, <2>3, <2>4, <2>5 DEF History
<1>8. ASSUME NEW r \in DOMAIN job, RecordDecision(r) PROVE History' /\ Grows
  <2>1. Verdict(r) \in Entries
    BY DEF Verdict, Entries
  <2>2. Grows /\ Verdict(r) \in Range(decisions'[RowOf(r)])
    BY <1>8, <2>1, HistoryGrows DEF RecordDecision, MainDecision
  <2>3. \A s \in DOMAIN job : s # r => pc'[s] = pc[s]
    BY <1>8, <1>t DEF RecordDecision, Goto
  <2>4. UNCHANGED rows /\ pc[r] = "decided" /\ pc'[r] \in {"appealed", "anchor"}
    BY <1>8, <1>t DEF RecordDecision, Goto, At
  <2>5. Recorded'
    BY <1>t, <1>j, <2>2, <2>3, <2>4 DEF History, Recorded
  <2>6. Explained'
    BY <1>j, <2>2, <2>3, <2>4 DEF History, Explained
  <2>7. QED
    BY <2>2, <2>5, <2>6 DEF History
<1>9. ASSUME NEW r \in DOMAIN job, RecordAppealDecision(r) PROVE History' /\ Grows
  <2>1. AppealVerdict(r) \in Entries
    BY DEF AppealVerdict, Entries
  <2>2. Grows
    BY <1>9, <2>1, HistoryGrows DEF RecordAppealDecision
  <2>3. \A s \in DOMAIN job : s # r => pc'[s] = pc[s]
    BY <1>9, <1>t DEF RecordAppealDecision, Goto
  <2>4. UNCHANGED rows /\ pc[r] = "appealed" /\ pc'[r] = "anchor"
    BY <1>9, <1>t DEF RecordAppealDecision, Goto, At
  <2>5. Recorded'
    BY <1>t, <1>j, <2>2, <2>3, <2>4 DEF History, Recorded
  <2>6. Explained'
    BY <1>j, <2>2, <2>3, <2>4 DEF History, Explained
  <2>7. QED
    BY <2>2, <2>5, <2>6 DEF History
<1>10. QED
  BY <1>1, <1>2, <1>3, <1>4, <1>5, <1>6, <1>7, <1>8, <1>9, TableChanges

LEMMA HistoryCorrect == Spec => [](Types /\ RowOwned /\ History)
<1>1. ASSUME Init PROVE History
  <2>1. Types
    BY <1>1, InitTypes
  <2>2. \A r \in DOMAIN job : pc[r] = "start"
    BY <1>1, <2>1 DEF Init, Types, Jobs
  <2>3. \A x \in Rows : rows[x].status = None
    BY <1>1 DEF Init, NoRow
  <2>4. QED
    BY <2>2, <2>3, DeskJobs DEF History, Recorded, Explained
<1>2. Types /\ RowOwned /\ History /\ [Next]_vars => History'
  BY HistoryStep
<1>3. QED
  BY <1>1, <1>2, RowsCorrect, PTL DEF Spec

\* The status of a loan is in its history unless a decision is being recorded.
THEOREM StatusCorrect == Spec => []StatusIsExplained
<1>1. History => StatusIsExplained
  BY DEF History, Explained, StatusIsExplained
<1>2. QED
  BY <1>1, HistoryCorrect, PTL

----------------------------------------------------------------------------
(* Decisions on the escrow *)

\* A loan row is bound to this loan and its history lists the verdict.
Backed(id, verdict) ==
    \E x \in Rows : rows[x].onchainLoanId = id /\ verdict \in Range(decisions[x])

VerdictOf(fn) == IF fn = "approveLoan" THEN "Disetujui" ELSE "Ditunda"

BackedCall(tx) ==
    tx.fn \in {"approveLoan", "deferLoan"} => tx.arg.id # 0 /\ Backed(tx.arg.id, VerdictOf(tx.fn))

\* From the read of a row to its anchor, in the pool and on the escrow.
SeenIsBound ==
    \A r \in DOMAIN job :
        ~Applies(r) /\ seen[r].onchainLoanId # 0 =>
            rows[RowOf(r)].onchainLoanId = seen[r].onchainLoanId

PoolIsBacked ==
    \A role \in Roles : \A i \in DOMAIN pool[role] : BackedCall(pool[role][i])

Anchors == SeenIsBound /\ PoolIsBacked /\ ChainFollowsHistory

LEMMA BackedStays ==
  ASSUME RowsKept, \A x \in Rows : Range(decisions[x]) \subseteq Range(decisions'[x])
  PROVE  /\ \A id, verdict : id # 0 /\ Backed(id, verdict) => Backed(id, verdict)'
         /\ \A tx : BackedCall(tx) => BackedCall(tx)'
<1>1. ASSUME NEW id, NEW verdict, id # 0, Backed(id, verdict) PROVE Backed(id, verdict)'
  BY <1>1 DEF Backed, RowsKept
<1>2. QED
  BY <1>1 DEF BackedCall

\* What is sent joins the end of a pool.
LEMMA SubmitBacked ==
  ASSUME Types, PoolIsBacked, NEW r \in Requests, NEW fn, NEW arg, Submit(r, fn, arg),
         RoleFor(fn) \in Roles, [by |-> r, fn |-> fn, arg |-> arg] \in Calls,
         fn \in {"approveLoan", "deferLoan"} => arg.id # 0 /\ Backed(arg.id, VerdictOf(fn))
  PROVE  \A role \in Roles : \A i \in DOMAIN pool'[role] : BackedCall(pool'[role][i])
<1> DEFINE tx == [by |-> r, fn |-> fn, arg |-> arg]
<1>1. pool' = pool \/ pool' = [pool EXCEPT ![RoleFor(fn)] = Append(@, tx)]
  BY DEF Submit, TrySubmit
<1>2. pool \in [Roles -> Seq(Calls)] /\ tx \in Calls /\ BackedCall(tx)
  BY DEF Types, BackedCall
<1> HIDE DEF tx
<1>3. ASSUME NEW s \in Seq(Calls), \A i \in DOMAIN s : BackedCall(s[i])
      PROVE  \A i \in DOMAIN Append(s, tx) : BackedCall(Append(s, tx)[i])
  <2>1. /\ DOMAIN s = 1..Len(s) /\ DOMAIN Append(s, tx) = 1..(Len(s) + 1) /\ Len(s) \in Nat
        /\ \A i \in 1..(Len(s) + 1) : Append(s, tx)[i] = IF i = Len(s) + 1 THEN tx ELSE s[i]
    BY <1>2
  <2>2. QED
    BY <1>2, <1>3, <2>1
<1>4. ASSUME NEW role \in Roles
      PROVE  \A i \in DOMAIN pool'[role] : BackedCall(pool'[role][i])
  <2>1. pool[role] \in Seq(Calls) /\ \A i \in DOMAIN pool[role] : BackedCall(pool[role][i])
    BY <1>2 DEF PoolIsBacked
  <2>2. pool'[role] = pool[role] \/ pool'[role] = Append(pool[role], tx)
    BY <1>1, <1>2
  <2>3. QED
    BY <1>3, <2>1, <2>2
<1>5. QED
  BY <1>4

LEMMA AnchorsStep ==
  ASSUME Types, RowOwned, History, Anchors, [Next]_vars
  PROVE  Anchors'
<1>t. /\ rows \in [Rows -> Row] /\ seen \in [Requests -> Row] /\ pool \in [Roles -> Seq(Calls)]
      /\ DOMAIN job \subseteq Requests /\ \A r \in DOMAIN job : RowOf(r) \in Rows /\ OnItsWay(r)
      /\ book \in [LoanIds -> Loan]
  BY DEF Types, Jobs
<1>j. /\ job' = job
      /\ \A r : Applies(r)' = Applies(r) /\ RowOf(r)' = RowOf(r)
  BY TableChanges DEF Applies, Kind, RowOf
<1>k. RowsKept /\ \A x \in Rows : Range(decisions[x]) \subseteq Range(decisions'[x])
  BY RowStep, HistoryStep
<1>b. /\ \A id, verdict : id # 0 /\ Backed(id, verdict) => Backed(id, verdict)'
      /\ \A tx : BackedCall(tx) => BackedCall(tx)'
  BY <1>k, BackedStays
<1>1. SeenIsBound'
  <2>1. ASSUME NEW r \in DOMAIN job, ~Applies(r), seen'[r].onchainLoanId # 0
        PROVE  rows'[RowOf(r)].onchainLoanId = seen'[r].onchainLoanId
    <3>1. CASE seen'[r] = seen[r]
      BY <1>t, <1>k, <2>1, <3>1 DEF Anchors, SeenIsBound, RowsKept
    <3>2. CASE seen'[r] # seen[r]
      <4>1. PICK s \in DOMAIN job : Find(s)
        BY <3>2, TableChanges DEF Quiet, Insert, Bind, Mark, Decide, RecordDecision,
           RecordAppealDecision, reads
      <4>2. s = r /\ seen'[r] = rows[RowOf(r)] /\ UNCHANGED rows
        BY <1>t, <3>2, <4>1 DEF Find, db
      <4>3. QED
        BY <4>2
    <3>3. QED
      BY <3>1, <3>2
  <2>2. QED
    BY <1>j, <2>1 DEF SeenIsBound
<1>2. ASSUME NEW r \in Requests, Step(r)
      PROVE  \A role \in Roles : \A i \in DOMAIN pool'[role] : BackedCall(pool'[role][i])
  <2>1. CASE UNCHANGED pool
    BY <2>1 DEF Anchors, PoolIsBacked
  <2>2. CASE SendCreate(r)
    <3>1. [by |-> r, fn |-> "createLoan",
           arg |-> [row |-> RowOf(r), flag |-> job[r].flag]] \in Calls
      BY <2>2, AtFacts DEF SendCreate, Calls
    <3>2. QED
      BY <2>2, <3>1, AnyRole, SubmitBacked DEF SendCreate, Anchors
  <2>3. CASE SendScreening(r)
    <3>1. [by |-> r, fn |-> "recordScreening",
           arg |-> [id |-> nextId[r], flag |-> job[r].flag]] \in Calls
      BY <2>3, AtFacts DEF SendScreening, Calls, Types
    <3>2. QED
      BY <2>3, <3>1, AnyRole, SubmitBacked DEF SendScreening, Anchors
  <2>4. CASE Anchor(r) /\ seen[r].onchainLoanId # 0
    <3>1. r \in DOMAIN job /\ pc[r] = "anchor" /\ Kind(r) \in {"sanggah", "approve", "reject"}
      BY <2>4, AtFacts DEF Anchor, OnItsWay, Applying, Kinds
    <3>2. AnchorCall(r) \in Reviews /\ seen[r].onchainLoanId \in Ids
      BY <1>t, <3>1 DEF AnchorCall, Reviews, Row, Ids
    <3>3. [by |-> r, fn |-> AnchorCall(r), arg |-> [id |-> seen[r].onchainLoanId]] \in Calls
      BY <3>2 DEF Calls
    <3>4. ASSUME AnchorCall(r) \in {"approveLoan", "deferLoan"}
          PROVE  Backed(seen[r].onchainLoanId, VerdictOf(AnchorCall(r)))
      <4>1. Decides(r) /\ VerdictOf(AnchorCall(r)) = Verdict(r)
        BY <3>1, <3>4 DEF AnchorCall, Decides, VerdictOf, Verdict
      <4>2. Verdict(r) \in Range(decisions[RowOf(r)])
        BY <3>1, <4>1 DEF History, Recorded
      <4>3. rows[RowOf(r)].onchainLoanId = seen[r].onchainLoanId
        BY <2>4, <3>1 DEF Anchors, SeenIsBound, Applies
      <4>4. QED
        BY <1>t, <3>1, <4>1, <4>2, <4>3 DEF Backed
    <3>5. Submit(r, AnchorCall(r), [id |-> seen[r].onchainLoanId])
      BY <2>4 DEF Anchor
    <3>6. QED
      BY <2>4, <3>3, <3>4, <3>5, AnyRole, SubmitBacked DEF Anchors
  <2>5. CASE Resolve(r)
    <3>1. [by |-> r, fn |-> "resolveAppeal", arg |-> [id |-> seen[r].onchainLoanId]] \in Calls
      BY <1>t DEF Calls, Reviews, Row, Ids
    <3>2. QED
      BY <2>5, <3>1, AnyRole, SubmitBacked DEF Resolve, Anchors
  <2>6. QED
    BY <1>2, <2>1, <2>2, <2>3, <2>4, <2>5 DEF Step, Apply, Review, Insert, ReadNextLoanId,
       Throw, Bind, Find, Mark, Decide, RecordDecision, RecordAppealDecision, Anchor, Awaited,
       AppendAudit, gateway
<1>3. ASSUME NEW role \in Roles, Mine(role)
      PROVE  \A o \in Roles : \A i \in DOMAIN pool'[o] : BackedCall(pool'[o][i])
  <2>1. pool[role] # <<>> /\ pool' = [pool EXCEPT ![role] = Tail(@)]
    BY <1>3 DEF Mine, Mined
  <2>2. ASSUME NEW s \in Seq(Calls), s # <<>>, \A i \in DOMAIN s : BackedCall(s[i])
        PROVE  \A i \in DOMAIN Tail(s) : BackedCall(Tail(s)[i])
    <3>1. /\ DOMAIN s = 1..Len(s) /\ DOMAIN Tail(s) = 1..(Len(s) - 1) /\ Len(s) \in Nat
          /\ \A i \in 1..(Len(s) - 1) : Tail(s)[i] = s[i + 1]
      BY <2>2
    <3>2. QED
      BY <2>2, <3>1
  <2>3. QED
    BY <1>t, <2>1, <2>2 DEF Anchors, PoolIsBacked
<1>4. PoolIsBacked'
  <2>1. \A role \in Roles : \A i \in DOMAIN pool'[role] : BackedCall(pool'[role][i])
    <3>1. CASE UNCHANGED pool
      BY <3>1 DEF Anchors, PoolIsBacked
    <3>2. QED
      BY <1>2, <1>3, <3>1 DEF Next, NoReceipt, TimeOut, Crash, Idle, vars, gateway
  <2>2. QED
    BY <1>b, <2>1 DEF PoolIsBacked
<1>5. ASSUME NEW role \in Roles, Mine(role),
             NEW id \in LoanIds, book'[id].status \in {"Disetujui", "Ditunda"}
      PROVE  Backed(id, book'[id].status)
  <2> DEFINE tx == Head(pool[role])
  <2>1. tx \in Calls /\ BackedCall(tx)
    <3>1. pool[role] \in Seq(Calls) /\ pool[role] # <<>> /\ 1 \in DOMAIN pool[role]
      BY <1>5, <1>t DEF Mine
    <3>2. QED
      BY <3>1 DEF Anchors, PoolIsBacked
  <2>2. CASE book'[id].status = book[id].status
    BY <1>5, <2>2 DEF Anchors, ChainFollowsHistory, Backed
  <2>3. CASE book'[id].status # book[id].status
    <3>1. Execute(tx.fn, tx.arg)
      BY <1>5, <2>3 DEF Mine, chain
    <3>2. tx.fn # "createLoan"
      <4>1. SUFFICES ASSUME tx.fn = "createLoan" PROVE FALSE
        OBVIOUS
      <4>2. /\ \A k \in LoanIds : k # nextLoanId => book'[k] = book[k]
            /\ nextLoanId \in LoanIds => book'[nextLoanId].status = "Diajukan"
        BY <1>t, <3>1, <4>1 DEF Execute
      <4>3. CASE id = nextLoanId
        BY <1>5, <4>2, <4>3
      <4>4. CASE id # nextLoanId
        BY <2>3, <4>2, <4>4
      <4>5. QED
        BY <4>3, <4>4
    <3>3. id = tx.arg.id /\ book'[id] = Effect(book[id], tx.fn, tx.arg) /\ book[id] \in Loan
      BY <1>5, <1>t, <2>3, <3>1, <3>2 DEF Execute
    <3>4. tx.fn \in {"recordScreening"} \cup Reviews
      BY <2>1, <3>2 DEF Calls
    <3>5. /\ tx.fn \in {"approveLoan", "deferLoan"}
          /\ book'[id].status = VerdictOf(tx.fn)
      BY <2>3, <3>3, <3>4 DEF Effect, Reviews, Loan, VerdictOf
    <3>6. QED
      BY <2>1, <3>3, <3>5 DEF BackedCall
  <2>4. QED
    BY <2>2, <2>3
<1>6. ChainFollowsHistory'
  <2>1. ASSUME NEW id \in LoanIds, NEW verdict \in {"Disetujui", "Ditunda"},
               verdict = book'[id].status
        PROVE  Backed(id, verdict)'
    <3>1. id # 0
      BY DeskJobs DEF LoanIds
    <3>2. Backed(id, verdict)
      <4>1. CASE UNCHANGED book
        BY <2>1, <4>1 DEF Anchors, ChainFollowsHistory, Backed
      <4>2. CASE \E role \in Roles : Mine(role)
        BY <1>5, <2>1, <4>2
      <4>3. QED
        BY <4>1, <4>2 DEF Next, Step, Apply, Review, Insert, ReadNextLoanId, Throw, SendCreate,
           Bind, SendScreening, Find, Mark, Decide, RecordDecision, RecordAppealDecision,
           Anchor, Resolve, Awaited, AppendAudit, NoReceipt, Crash, Idle, vars, chain
    <3>3. QED
      BY <1>b, <3>1, <3>2
  <2>2. ASSUME NEW id \in LoanIds, book'[id].status \in {"Disetujui", "Ditunda"}
        PROVE  \E x \in Rows : /\ rows'[x].onchainLoanId = id
                               /\ book'[id].status \in Range(decisions'[x])
    BY <2>1, <2>2 DEF Backed
  <2>3. QED
    BY <2>2 DEF ChainFollowsHistory
<1>7. QED
  BY <1>1, <1>4, <1>6 DEF Anchors

\* No decision is on the escrow that the history does not list for the row
\* bound to that loan, whatever is lost, late or refused.
THEOREM ChainCorrect == Spec => []ChainFollowsHistory
<1>1. ASSUME Init PROVE Anchors
  <2>1. \A r \in DOMAIN job : seen[r].onchainLoanId = 0
    BY <1>1, InitTypes DEF Init, Types, Jobs, NoRow
  <2>2. \A role \in Roles : pool[role] = <<>>
    BY <1>1 DEF Init, GatewayInit
  <2>3. \A id \in LoanIds : book[id].status = None
    BY <1>1 DEF Init, NoLoan
  <2>4. QED
    BY <2>1, <2>2, <2>3, DeskJobs DEF Anchors, SeenIsBound, PoolIsBacked, ChainFollowsHistory
<1>2. Types /\ RowOwned /\ History /\ Anchors /\ [Next]_vars => Anchors'
  BY AnchorsStep
<1>3. Anchors => ChainFollowsHistory
  BY DEF Anchors
<1>4. QED
  BY <1>1, <1>2, <1>3, HistoryCorrect, PTL DEF Spec

----------------------------------------------------------------------------
(* The escrow loan a row is bound to *)

Relayed == pool["RELAYER"]
Creates(tx) == tx.fn = "createLoan"

\* The transaction that creates the loan of an application is not mined yet.
InPool(r) == \E i \in DOMAIN Relayed : Creates(Relayed[i]) /\ Relayed[i].by = r

\* From the read of the next id to the loan on the escrow.
UnderWay(r) ==
    /\ r \in DOMAIN job /\ Applies(r) /\ job[r].whole
    /\ (r \in running /\ pc[r] \in {"read", "creating"}) \/ InPool(r)

\* One application is taken to the escrow at a time, and none that was given up
\* on for its late receipt is refused after all.
OneAtATime ==
    /\ \A r, s \in Requests : UnderWay(r) /\ UnderWay(s) => r = s
    /\ ~({"timeout", "revert"} \subseteq faults)

\* What waits for the relayer's key: one creation for each application that has
\* sent it, and the escrow has an id for it.
Pooled ==
    /\ \A i \in DOMAIN Relayed : Creates(Relayed[i]) =>
          LET r == Relayed[i].by IN
          /\ r \in DOMAIN job /\ Applies(r) /\ job[r].whole
          /\ pc[r] \notin {"start", "inserted", "read"}
          /\ Relayed[i].arg.row = RowOf(r)
          /\ nextLoanId <= MaxLoans
    /\ \A i, j \in DOMAIN Relayed :
          Creates(Relayed[i]) /\ Creates(Relayed[j]) /\ Relayed[i].by = Relayed[j].by => i = j
    /\ \A i \in DOMAIN pool["KOPERASI"] : ~Creates(pool["KOPERASI"][i])

\* The id that an application has read is still the next one when it sends.
Reading ==
    \A r \in running : Applies(r) =>
        /\ pc[r] \in {"start", "inserted"} => nextId[r] = 0
        /\ job[r].whole /\ pc[r] = "read" /\ nextId[r] # 0 => nextId[r] = nextLoanId

Given(r) == nextId[r] < nextLoanId /\ book[nextId[r]].row = RowOf(r)

\* What an answer says of the loan that an application waits for.
Told(r) ==
    /\ job[r].whole /\ answer[r].fn = "createLoan"
    /\ answer[r].status = "sent" =>
          /\ answer[r] = [fn |-> "createLoan", status |-> "sent"]
          /\ InPool(r) /\ (nextId[r] # 0 => nextId[r] = nextLoanId)
    /\ answer[r].status = "pending" =>
          /\ "timeout" \in faults
          /\ nextId[r] # 0 => Given(r) \/ (InPool(r) /\ nextId[r] = nextLoanId)
    /\ answer[r].status = "success" => (nextId[r] # 0 => Given(r))

Awaiting ==
    /\ answer = [s \in Requests |-> answer[s]]
    /\ \A r \in running : Applies(r) /\ pc[r] = "creating" => Told(r)

\* BoundToOwnLoan; a row is bound ahead of its loan only after a late receipt.
BoundEarly ==
    \A x \in Rows :
        LET id == rows[x].onchainLoanId IN
        id # 0 => \/ id < nextLoanId /\ book[id].row = x
                  \/ /\ id = nextLoanId /\ "timeout" \in faults
                     /\ \E i \in DOMAIN Relayed : Creates(Relayed[i]) /\ Relayed[i].arg.row = x

Bindings == Pooled /\ Reading /\ Awaiting /\ BoundEarly

\* What joins the end of a queue, and what its head leaves behind.
LEMMA Queue ==
  ASSUME NEW S, NEW q \in Seq(S)
  PROVE  /\ DOMAIN q = 1..Len(q) /\ Len(q) \in Nat
         /\ \A tx \in S : /\ Append(q, tx) \in Seq(S) /\ Len(q) + 1 \in DOMAIN Append(q, tx)
                          /\ DOMAIN Append(q, tx) = 1..(Len(q) + 1)
                          /\ \A i \in 1..(Len(q) + 1) :
                                Append(q, tx)[i] = IF i = Len(q) + 1 THEN tx ELSE q[i]
         /\ q # <<>> => /\ 1 \in DOMAIN q /\ Head(q) = q[1]
                        /\ DOMAIN Tail(q) = 1..(Len(q) - 1)
                        /\ \A i \in 1..(Len(q) - 1) : Tail(q)[i] = q[i + 1] /\ i + 1 \in DOMAIN q
OBVIOUS

\* No creation is sent or mined.
CreationsKept ==
    /\ \A i \in DOMAIN Relayed' : Creates(Relayed'[i]) => i \in DOMAIN Relayed /\ Relayed'[i] = Relayed[i]
    /\ \A i \in DOMAIN Relayed : Creates(Relayed[i]) => i \in DOMAIN Relayed' /\ Relayed'[i] = Relayed[i]
    /\ \A i \in DOMAIN pool'["KOPERASI"] : ~Creates(pool'["KOPERASI"][i])

LEMMA SubmitKeeps ==
  ASSUME Types, Pooled, NEW r \in Requests, NEW fn, NEW arg, Submit(r, fn, arg),
         [by |-> r, fn |-> fn, arg |-> arg] \in Calls, fn # "createLoan"
  PROVE  CreationsKept
<1> DEFINE tx == [by |-> r, fn |-> fn, arg |-> arg]
<1>1. /\ pool' = pool \/ pool' = [pool EXCEPT ![RoleFor(fn)] = Append(@, tx)]
      /\ tx \in Calls /\ ~Creates(tx)
  BY DEF Submit, TrySubmit, Creates
<1>2. pool \in [Roles -> Seq(Calls)] /\ "RELAYER" \in Roles /\ "KOPERASI" \in Roles
  BY DEF Types, Roles
<1> HIDE DEF tx
<1>3. ASSUME NEW role \in Roles
      PROVE  pool'[role] = pool[role] \/ pool'[role] = Append(pool[role], tx)
  BY <1>1, <1>2
<1>4. ASSUME NEW role \in Roles
      PROVE  /\ \A i \in DOMAIN pool'[role] : Creates(pool'[role][i]) =>
                   i \in DOMAIN pool[role] /\ pool'[role][i] = pool[role][i]
             /\ \A i \in DOMAIN pool[role] : i \in DOMAIN pool'[role] /\ pool'[role][i] = pool[role][i]
  <2>1. CASE pool'[role] = pool[role]
    BY <2>1
  <2>2. CASE pool'[role] = Append(pool[role], tx)
    <3>1. pool[role] \in Seq(Calls)
      BY <1>2
    <3>2. /\ DOMAIN pool[role] = 1..Len(pool[role]) /\ Len(pool[role]) \in Nat
          /\ DOMAIN pool'[role] = 1..(Len(pool[role]) + 1)
          /\ \A i \in 1..(Len(pool[role]) + 1) :
                pool'[role][i] = IF i = Len(pool[role]) + 1 THEN tx ELSE pool[role][i]
      BY <1>1, <2>2, <3>1, Queue
    <3>3. QED
      BY <1>1, <3>2
  <2>3. QED
    BY <1>3, <2>1, <2>2
<1>5. \A i \in DOMAIN pool'["KOPERASI"] : ~Creates(pool'["KOPERASI"][i])
  BY <1>2, <1>4 DEF Pooled
<1>6. QED
  BY <1>2, <1>4, <1>5 DEF CreationsKept, Relayed

\* A step of a request that neither reads the next id nor sends or binds a loan.
LEMMA Elsewhere ==
  ASSUME Types, Bindings, NEW r \in DOMAIN job, NEW to, Goto(r, to),
         CreationsKept, UNCHANGED <<chain, nextId, running, job, faults>>,
         to \notin {"start", "read", "creating"}, to = "inserted" => pc[r] = "start",
         \A s \in Requests : s # r => answer'[s] = answer[s],
         answer' = [s \in Requests |-> answer'[s]],
         \A x \in Rows : rows'[x].onchainLoanId \in {0, rows[x].onchainLoanId}
  PROVE  Bindings'
<1>t. pc \in [Requests -> Steps] /\ DOMAIN job \subseteq Requests /\ running \subseteq Requests
  BY DEF Types, Jobs
<1>1. \A s \in Requests : pc'[s] = IF s = r THEN to ELSE pc[s]
  BY <1>t DEF Goto
<1>j. \A s : Applies(s)' = Applies(s) /\ RowOf(s)' = RowOf(s)
  BY DEF Applies, Kind, RowOf
<1>2. Pooled'
  <2>1. ASSUME NEW i \in DOMAIN Relayed', Creates(Relayed'[i])
        PROVE  LET s == Relayed'[i].by IN
               /\ s \in DOMAIN job /\ Applies(s) /\ job[s].whole
               /\ pc'[s] \notin {"start", "inserted", "read"}
               /\ Relayed'[i].arg.row = RowOf(s)
               /\ nextLoanId <= MaxLoans
    <3>1. i \in DOMAIN Relayed /\ Relayed'[i] = Relayed[i]
      BY <2>1 DEF CreationsKept
    <3>2. PICK s : s = Relayed[i].by
      OBVIOUS
    <3>3. /\ s \in DOMAIN job /\ Applies(s) /\ job[s].whole
          /\ pc[s] \notin {"start", "inserted", "read"}
          /\ Relayed[i].arg.row = RowOf(s) /\ nextLoanId <= MaxLoans
      BY <2>1, <3>1, <3>2 DEF Bindings, Pooled
    <3>4. pc'[s] \notin {"start", "inserted", "read"}
      BY <1>t, <1>1, <3>3
    <3>5. QED
      BY <3>1, <3>2, <3>3, <3>4
  <2>2. \A i, j \in DOMAIN Relayed' :
          Creates(Relayed'[i]) /\ Creates(Relayed'[j]) /\ Relayed'[i].by = Relayed'[j].by => i = j
    BY DEF CreationsKept, Bindings, Pooled
  <2>3. QED
    BY <1>j, <2>1, <2>2 DEF Pooled, CreationsKept, chain, Creates
<1>3. Reading'
  BY <1>t, <1>1, <1>j DEF Bindings, Reading, chain
<1>p. \A s : InPool(s) => InPool(s)'
  BY DEF InPool, CreationsKept, Creates
<1>4. Awaiting'
  <2>1. \A s : Given(s)' = Given(s)
    BY <1>j DEF Given, chain
  <2>2. QED
    BY <1>t, <1>1, <1>j, <1>p, <2>1 DEF Bindings, Awaiting, Told, chain
<1>5. BoundEarly'
  <2>1. \A x : (\E i \in DOMAIN Relayed : Creates(Relayed[i]) /\ Relayed[i].arg.row = x) =>
               (\E i \in DOMAIN Relayed' : Creates(Relayed'[i]) /\ Relayed'[i].arg.row = x)
    BY DEF CreationsKept
  <2>2. QED
    BY <2>1 DEF Bindings, BoundEarly, chain, Creates
<1>6. QED
  BY <1>2, <1>3, <1>4, <1>5 DEF Bindings

\* Nothing moves but the requests that are up and the answers that are awaited.
LEMMA Aside ==
  ASSUME Types, Bindings, UNCHANGED <<rows, chain, pool, faults, nextId, job, pc>>,
         running' \subseteq running,
         answer' = [s \in Requests |-> answer'[s]],
         \A s \in Requests :
            \/ answer'[s] = answer[s]
            \/ /\ answer[s].status = "sent" /\ "timeout" \in faults
               /\ answer'[s] = [fn |-> answer[s].fn, status |-> "pending"]
  PROVE  Bindings'
<1>t. running \subseteq Requests
  BY DEF Types, Jobs
<1>j. \A s : Applies(s)' = Applies(s) /\ RowOf(s)' = RowOf(s) /\ InPool(s)' = InPool(s)
  BY DEF Applies, Kind, RowOf, InPool, Relayed, Creates
<1>2. Pooled'
  BY <1>j DEF Bindings, Pooled, Relayed, Creates, chain
<1>3. Reading'
  BY <1>j DEF Bindings, Reading, chain
<1>4. Awaiting'
  <2>1. \A s : Given(s)' = Given(s)
    BY <1>j DEF Given, chain
  <2>2. ASSUME NEW s \in running', Applies(s), pc[s] = "creating" PROVE Told(s)'
    <3>1. Told(s) /\ s \in Requests
      BY <1>t, <2>2 DEF Bindings, Awaiting
    <3>2. CASE answer'[s] = answer[s]
      BY <1>j, <2>1, <3>1, <3>2 DEF Told, chain
    <3>3. CASE /\ answer[s].status = "sent" /\ "timeout" \in faults
               /\ answer'[s] = [fn |-> answer[s].fn, status |-> "pending"]
      <4>1. /\ answer'[s].fn = "createLoan" /\ answer'[s].status = "pending"
            /\ job[s].whole /\ InPool(s) /\ (nextId[s] # 0 => nextId[s] = nextLoanId)
        BY <3>1, <3>3 DEF Told
      <4>2. QED
        BY <1>j, <3>3, <4>1 DEF Told, chain
    <3>4. QED
      BY <3>1, <3>2, <3>3
  <2>3. QED
    BY <1>j, <2>2 DEF Awaiting
<1>5. BoundEarly'
  BY DEF Bindings, BoundEarly, Relayed, Creates, chain
<1>6. QED
  BY <1>2, <1>3, <1>4, <1>5 DEF Bindings

\* Two applications are never under way at once.
LEMMA TheOne ==
  ASSUME Types, Pooled, OneAtATime
  PROVE  /\ \A r, s \in DOMAIN job : UnderWay(r) /\ UnderWay(s) => r = s
         /\ \A i \in DOMAIN Relayed : Creates(Relayed[i]) => UnderWay(Relayed[i].by)
         /\ \A r \in running : /\ Applies(r) /\ job[r].whole /\ pc[r] \in {"read", "creating"}
                               => UnderWay(r)
<1>1. DOMAIN job \subseteq Requests /\ running \subseteq DOMAIN job
  BY DEF Types, Jobs
<1>2. QED
  BY <1>1 DEF Pooled, OneAtATime, UnderWay, InPool

LEMMA ReadStep ==
  ASSUME Types, Bindings, NEW r \in DOMAIN job, ReadNextLoanId(r)
  PROVE  Bindings'
<1>t. /\ pc \in [Requests -> Steps] /\ DOMAIN job \subseteq Requests /\ running \subseteq Requests
      /\ nextId \in [Requests -> Ids] /\ r \in Requests
  BY DEF Types, Jobs
<1>1. /\ \A s \in Requests : pc'[s] = IF s = r THEN "read" ELSE pc[s]
      /\ pc[r] = "inserted"
      /\ UNCHANGED <<rows, book, nextLoanId, faults, pool, answer, running, job>>
  BY <1>t DEF ReadNextLoanId, Goto, At, db, chain, gateway
<1>a. r \in running
  BY DEF ReadNextLoanId, At
<1>2. /\ \A s \in Requests : s # r => nextId'[s] = nextId[s]
      /\ nextId'[r] \in {nextId[r], nextLoanId}
  BY <1>t DEF ReadNextLoanId
<1>j. \A s : Applies(s)' = Applies(s) /\ RowOf(s)' = RowOf(s) /\ InPool(s)' = InPool(s)
  BY <1>1 DEF Applies, Kind, RowOf, InPool, Relayed, Creates
<1>3. Pooled'
  <2>1. ASSUME NEW i \in DOMAIN Relayed, Creates(Relayed[i]), NEW s, s = Relayed[i].by
        PROVE  /\ s \in DOMAIN job /\ Applies(s) /\ job[s].whole
               /\ pc'[s] \notin {"start", "inserted", "read"}
               /\ Relayed[i].arg.row = RowOf(s)
               /\ nextLoanId <= MaxLoans
    <3>1. /\ s \in DOMAIN job /\ Applies(s) /\ job[s].whole
          /\ pc[s] \notin {"start", "inserted", "read"}
          /\ Relayed[i].arg.row = RowOf(s) /\ nextLoanId <= MaxLoans
      BY <2>1 DEF Bindings, Pooled
    <3>2. QED
      BY <1>t, <1>1, <3>1
  <2>2. QED
    BY <1>1, <1>j, <2>1 DEF Bindings, Pooled, Relayed, Creates
<1>4. Reading'
  BY <1>t, <1>a, <1>1, <1>2, <1>j DEF Bindings, Reading
<1>5. Awaiting'
  <2>1. ASSUME NEW s \in running, Applies(s), pc'[s] = "creating" PROVE Told(s)'
    <3>1. s # r /\ Told(s) /\ s \in Requests
      BY <1>t, <1>1, <2>1 DEF Bindings, Awaiting
    <3>2. Given(s)' = Given(s)
      BY <1>1, <1>2, <1>j, <3>1 DEF Given
    <3>3. QED
      BY <1>1, <1>2, <1>j, <3>1, <3>2 DEF Told
  <2>2. QED
    BY <1>1, <1>j, <2>1 DEF Bindings, Awaiting
<1>6. BoundEarly'
  BY <1>1 DEF Bindings, BoundEarly, Relayed, Creates
<1>7. QED
  BY <1>3, <1>4, <1>5, <1>6 DEF Bindings

\* An application sends, what it has read is still the next id, and no other
\* creation is on its way.
LEMMA SendStep ==
  ASSUME Types, Bindings, NEW r \in DOMAIN job, SendCreate(r)
  PROVE  Bindings'
<1> DEFINE tx == [by |-> r, fn |-> "createLoan", arg |-> [row |-> RowOf(r), flag |-> job[r].flag]]
           n == Len(Relayed)
<1>t. /\ pc \in [Requests -> Steps] /\ DOMAIN job \subseteq Requests /\ running \subseteq Requests
      /\ nextId \in [Requests -> Ids] /\ r \in Requests
      /\ pool \in [Roles -> Seq(Calls)] /\ Relayed \in Seq(Calls)
      /\ answer = [s \in Requests |-> answer[s]]
  BY DEF Types, Jobs, Relayed, Roles, Bindings, Awaiting
<1>1. /\ \A s \in Requests : pc'[s] = IF s = r THEN "creating" ELSE pc[s]
      /\ r \in running /\ pc[r] = "read" /\ job[r].whole
      /\ UNCHANGED <<rows, book, nextLoanId, faults, nextId, running, job>>
  BY <1>t DEF SendCreate, Goto, At, db, chain, reads, Submit, TrySubmit
<1>a. Applies(r)
  <2>1. OnItsWay(r)
    BY DEF Types
  <2>2. QED
    BY <1>1, <2>1 DEF OnItsWay, Deciding, Appealing, Applies
<1>j. \A s : Applies(s)' = Applies(s) /\ RowOf(s)' = RowOf(s)
  BY <1>1 DEF Applies, Kind, RowOf
<1>2. /\ \A s \in Requests : s # r => answer'[s] = answer[s]
      /\ answer'[r].fn = "createLoan"
      /\ answer' = [s \in Requests |-> answer'[s]]
      /\ \/ answer'[r].status = "failed" /\ pool' = pool
         \/ /\ \/ answer'[r] = [fn |-> "createLoan", status |-> "sent"]
               \/ answer'[r].status = "failed"
            /\ nextLoanId <= MaxLoans
            /\ pool' = [pool EXCEPT !["RELAYER"] = Append(@, tx)]
  BY <1>t DEF SendCreate, Submit, TrySubmit, Accepts, Answer, RoleFor
<1>3. CASE answer'[r].status = "failed" /\ pool' = pool
  <2>p. Relayed' = Relayed /\ \A s : InPool(s)' = InPool(s)
    BY <1>3 DEF Relayed, InPool, Creates
  <2>1. Pooled'
    <3>1. ASSUME NEW i \in DOMAIN Relayed, Creates(Relayed[i]), NEW s, s = Relayed[i].by
          PROVE  /\ s \in DOMAIN job /\ Applies(s) /\ job[s].whole
                 /\ pc'[s] \notin {"start", "inserted", "read"}
                 /\ Relayed[i].arg.row = RowOf(s)
                 /\ nextLoanId <= MaxLoans
      <4>1. /\ s \in DOMAIN job /\ Applies(s) /\ job[s].whole
            /\ pc[s] \notin {"start", "inserted", "read"}
            /\ Relayed[i].arg.row = RowOf(s) /\ nextLoanId <= MaxLoans
        BY <3>1 DEF Bindings, Pooled
      <4>2. QED
        BY <1>t, <1>1, <4>1
    <3>2. QED
      BY <1>1, <1>3, <1>j, <2>p, <3>1 DEF Bindings, Pooled, Creates
  <2>2. Reading'
    BY <1>t, <1>1, <1>j DEF Bindings, Reading
  <2>3. Awaiting'
    <3>1. ASSUME NEW s \in running, Applies(s), pc'[s] = "creating" PROVE Told(s)'
      <4>1. CASE s = r
        BY <1>1, <1>2, <1>3, <4>1 DEF Told
      <4>2. CASE s # r
        <5>1. Told(s) /\ s \in Requests /\ Given(s)' = Given(s)
          BY <1>t, <1>1, <1>j, <3>1, <4>2 DEF Bindings, Awaiting, Given
        <5>2. QED
          BY <1>1, <1>2, <1>j, <2>p, <4>2, <5>1 DEF Told
      <4>3. QED
        BY <4>1, <4>2
    <3>2. QED
      BY <1>1, <1>2, <1>j, <3>1 DEF Awaiting
  <2>4. BoundEarly'
    BY <1>1, <2>p DEF Bindings, BoundEarly, Creates
  <2>5. QED
    BY <2>1, <2>2, <2>3, <2>4 DEF Bindings
<1>4. CASE /\ \/ answer'[r] = [fn |-> "createLoan", status |-> "sent"]
              \/ answer'[r].status = "failed"
           /\ nextLoanId <= MaxLoans
           /\ pool' = [pool EXCEPT !["RELAYER"] = Append(@, tx)]
  <2>x. tx \in Calls /\ Creates(tx) /\ tx.by = r /\ tx.arg.row = RowOf(r)
    BY DEF Calls, Types, Jobs, Creates
  <2>q. /\ Relayed' = Append(Relayed, tx) /\ pool'["KOPERASI"] = pool["KOPERASI"]
    BY <1>4, <1>t DEF Relayed, Roles
  <2> HIDE DEF tx
  <2>i. /\ DOMAIN Relayed = 1..n /\ n \in Nat /\ n + 1 \in DOMAIN Relayed'
        /\ DOMAIN Relayed' = 1..(n + 1)
        /\ \A i \in 1..(n + 1) : Relayed'[i] = IF i = n + 1 THEN tx ELSE Relayed[i]
    BY <1>t, <2>x, <2>q, Queue
  <2> HIDE DEF n
  <2>p. InPool(r)' /\ \A s : InPool(s) => InPool(s)'
    BY <2>x, <2>i DEF InPool, Creates
  <2>n. \A i \in DOMAIN Relayed : Creates(Relayed[i]) => Relayed[i].by # r
    BY <1>1 DEF Bindings, Pooled
  <2>1. Pooled'
    <3>1. ASSUME NEW i \in DOMAIN Relayed', Creates(Relayed'[i]), NEW s, s = Relayed'[i].by
          PROVE  /\ s \in DOMAIN job /\ Applies(s) /\ job[s].whole
                 /\ pc'[s] \notin {"start", "inserted", "read"}
                 /\ Relayed'[i].arg.row = RowOf(s)
                 /\ nextLoanId <= MaxLoans
      <4>1. CASE i = n + 1
        BY <1>t, <1>1, <1>a, <1>4, <2>x, <2>i, <3>1, <4>1
      <4>2. CASE i # n + 1
        <5>1. i \in DOMAIN Relayed /\ Relayed'[i] = Relayed[i]
          BY <2>i, <4>2
        <5>2. /\ s \in DOMAIN job /\ Applies(s) /\ job[s].whole
              /\ pc[s] \notin {"start", "inserted", "read"}
              /\ Relayed[i].arg.row = RowOf(s) /\ nextLoanId <= MaxLoans
          BY <3>1, <5>1 DEF Bindings, Pooled
        <5>3. QED
          BY <1>t, <1>1, <5>1, <5>2
      <4>3. QED
        BY <4>1, <4>2
    <3>2. ASSUME NEW i \in DOMAIN Relayed', NEW k \in DOMAIN Relayed', Creates(Relayed'[i]),
                 Creates(Relayed'[k]), Relayed'[i].by = Relayed'[k].by
          PROVE  i = k
      <4>1. ASSUME NEW m \in DOMAIN Relayed', m # n + 1
            PROVE  m \in DOMAIN Relayed /\ Relayed'[m] = Relayed[m]
        BY <2>i, <4>1
      <4>2. CASE i = n + 1 \/ k = n + 1
        BY <2>x, <2>i, <2>n, <3>2, <4>1, <4>2
      <4>3. CASE i # n + 1 /\ k # n + 1
        BY <3>2, <4>1, <4>3 DEF Bindings, Pooled
      <4>4. QED
        BY <4>2, <4>3
    <3>3. \A i \in DOMAIN pool'["KOPERASI"] : ~Creates(pool'["KOPERASI"][i])
      BY <2>q DEF Bindings, Pooled
    <3>4. QED
      BY <1>1, <1>j, <3>1, <3>2, <3>3 DEF Pooled, Creates
  <2>2. Reading'
    BY <1>t, <1>1, <1>j DEF Bindings, Reading
  <2>3. Awaiting'
    <3>1. ASSUME NEW s \in running, Applies(s), pc'[s] = "creating" PROVE Told(s)'
      <4>1. CASE s = r
        <5>1. nextId[r] # 0 => nextId[r] = nextLoanId
          BY <1>1, <1>a DEF Bindings, Reading
        <5>2. QED
          BY <1>1, <1>2, <1>4, <2>p, <4>1, <5>1 DEF Told
      <4>2. CASE s # r
        <5>1. Told(s) /\ s \in Requests /\ Given(s)' = Given(s)
          BY <1>t, <1>1, <1>j, <3>1, <4>2 DEF Bindings, Awaiting, Given
        <5>2. QED
          BY <1>1, <1>2, <1>j, <2>p, <4>2, <5>1 DEF Told
      <4>3. QED
        BY <4>1, <4>2
    <3>2. QED
      BY <1>1, <1>2, <1>j, <3>1 DEF Awaiting
  <2>4. BoundEarly'
    <3>1. \A x : (\E i \in DOMAIN Relayed : Creates(Relayed[i]) /\ Relayed[i].arg.row = x) =>
                 (\E i \in DOMAIN Relayed' : Creates(Relayed'[i]) /\ Relayed'[i].arg.row = x)
      BY <2>i
    <3>2. QED
      BY <1>1, <3>1 DEF Bindings, BoundEarly, Creates
  <2>5. QED
    BY <2>1, <2>2, <2>3, <2>4 DEF Bindings
<1>5. QED
  BY <1>2, <1>3, <1>4

\* A row is bound to the loan that its application has been told of.
LEMMA BindStep ==
  ASSUME Types, Bindings, NEW r \in DOMAIN job, Bind(r), Created(r)
  PROVE  Bindings'
<1>t. /\ pc \in [Requests -> Steps] /\ DOMAIN job \subseteq Requests /\ running \subseteq Requests
      /\ rows \in [Rows -> Row] /\ RowOf(r) \in Rows /\ r \in Requests
  BY DEF Types, Jobs
<1>1. /\ \A s \in Requests : pc'[s] = IF s = r THEN "bound" ELSE pc[s]
      /\ r \in running /\ pc[r] = "creating"
      /\ rows' = [rows EXCEPT ![RowOf(r)] = Bound(r)]
      /\ UNCHANGED <<book, nextLoanId, faults, pool, answer, nextId, running, job>>
  BY <1>t DEF Bind, Goto, At, chain, gateway, reads
<1>a. Applies(r)
  <2>1. OnItsWay(r)
    BY DEF Types
  <2>2. QED
    BY <1>1, <2>1 DEF OnItsWay, Deciding, Appealing, Applies
<1>j. \A s : Applies(s)' = Applies(s) /\ RowOf(s)' = RowOf(s) /\ InPool(s)' = InPool(s)
  BY <1>1 DEF Applies, Kind, RowOf, InPool, Relayed, Creates
<1>2. Pooled'
  <2>1. ASSUME NEW i \in DOMAIN Relayed, Creates(Relayed[i]), NEW s, s = Relayed[i].by
        PROVE  /\ s \in DOMAIN job /\ Applies(s) /\ job[s].whole
               /\ pc'[s] \notin {"start", "inserted", "read"}
               /\ Relayed[i].arg.row = RowOf(s)
               /\ nextLoanId <= MaxLoans
    <3>1. /\ s \in DOMAIN job /\ Applies(s) /\ job[s].whole
          /\ pc[s] \notin {"start", "inserted", "read"}
          /\ Relayed[i].arg.row = RowOf(s) /\ nextLoanId <= MaxLoans
      BY <2>1 DEF Bindings, Pooled
    <3>2. QED
      BY <1>t, <1>1, <3>1
  <2>2. QED
    BY <1>1, <1>j, <2>1 DEF Bindings, Pooled, Relayed, Creates
<1>3. Reading'
  BY <1>t, <1>1, <1>j DEF Bindings, Reading
<1>4. Awaiting'
  <2>1. ASSUME NEW s \in running, Applies(s), pc'[s] = "creating" PROVE Told(s)'
    <3>1. Told(s) /\ Given(s)' = Given(s)
      BY <1>t, <1>1, <1>j, <2>1 DEF Bindings, Awaiting, Given
    <3>2. QED
      BY <1>1, <1>j, <3>1 DEF Told
  <2>2. QED
    BY <1>1, <1>j, <2>1 DEF Bindings, Awaiting
<1>5. BoundEarly'
  <2> DEFINE id == nextId[r]
  <2>1. id # 0 /\ answer[r].status \in {"success", "pending"}
    BY DEF Created, Ok
  <2>2. \/ id < nextLoanId /\ book[id].row = RowOf(r)
        \/ id = nextLoanId /\ "timeout" \in faults /\ InPool(r)
    BY <1>1, <1>a, <2>1 DEF Bindings, Awaiting, Told, Given
  <2>3. InPool(r) => \E i \in DOMAIN Relayed : Creates(Relayed[i]) /\ Relayed[i].arg.row = RowOf(r)
    BY DEF InPool, Bindings, Pooled
  <2>4. \A x \in Rows : rows'[x].onchainLoanId = IF x = RowOf(r) THEN id ELSE rows[x].onchainLoanId
    BY <1>t, <1>1 DEF Bound, Row
  <2> HIDE DEF id
  <2>5. QED
    BY <1>1, <2>2, <2>3, <2>4 DEF Bindings, BoundEarly, Relayed, Creates
<1>6. QED
  BY <1>2, <1>3, <1>4, <1>5 DEF Bindings

\* The escrow executes a call: the ids given out, and the rows of their loans.
LEMMA Executed ==
  ASSUME Types, NEW tx \in Calls, Execute(tx.fn, tx.arg)
  PROVE  /\ Creates(tx) /\ nextLoanId \in LoanIds =>
               /\ nextLoanId' = nextLoanId + 1 /\ book'[nextLoanId].row = tx.arg.row
               /\ \A id \in LoanIds : id # nextLoanId => book'[id] = book[id]
         /\ ~Creates(tx) => /\ nextLoanId' = nextLoanId
                            /\ \A id \in LoanIds : book'[id].row = book[id].row
<1>t. book \in [LoanIds -> Loan]
  BY DEF Types
<1>1. Creates(tx) /\ nextLoanId \in LoanIds =>
         /\ nextLoanId' = nextLoanId + 1 /\ book'[nextLoanId].row = tx.arg.row
         /\ \A id \in LoanIds : id # nextLoanId => book'[id] = book[id]
  BY <1>t DEF Creates, Execute
<1>2. ASSUME ~Creates(tx)
      PROVE  nextLoanId' = nextLoanId /\ \A id \in LoanIds : book'[id].row = book[id].row
  <2> DEFINE new == Effect(book[tx.arg.id], tx.fn, tx.arg)
  <2>1. nextLoanId' = nextLoanId /\ book' = [book EXCEPT ![tx.arg.id] = new]
    BY <1>2 DEF Creates, Execute
  <2>2. tx.fn \in {"recordScreening"} \cup Reviews
    BY <1>2 DEF Calls, Creates
  <2>3. tx.arg.id \in LoanIds => new.row = book[tx.arg.id].row
    BY <1>t, <2>2 DEF Effect, Reviews, Loan
  <2> HIDE DEF new
  <2>4. QED
    BY <1>t, <2>1, <2>3
<1>3. QED
  BY <1>1, <1>2

\* The head of the relayer's queue is mined, and it is no creation: the creations
\* move up by one.
LEMMA OtherMined ==
  ASSUME Types, Bindings, NEW role \in Roles, pool[role] # <<>>, NEW status,
         Mined(role, status), ~Creates(Head(pool[role])),
         UNCHANGED <<rows, pc, nextId, running, job, nextLoanId>>,
         \A id \in LoanIds : book'[id].row = book[id].row
  PROVE  Bindings'
<1> DEFINE tx == Head(pool[role])
<1>t. /\ DOMAIN job \subseteq Requests /\ running \subseteq Requests
      /\ pool \in [Roles -> Seq(Calls)] /\ Relayed \in Seq(Calls) /\ role \in Roles
      /\ nextId \in [Requests -> Ids] /\ rows \in [Rows -> Row]
      /\ nextLoanId \in 1..MaxLoans + 1 /\ MaxLoans \in Nat
  BY DeskJobs DEF Types, Jobs, Relayed, Roles
<1>j. \A s : Applies(s)' = Applies(s) /\ RowOf(s)' = RowOf(s)
  BY DEF Applies, Kind, RowOf
<1>1. /\ pool' = [pool EXCEPT ![role] = Tail(@)] /\ UNCHANGED faults
      /\ answer' = [s \in Requests |-> answer'[s]]
      /\ \A s \in Requests : answer[s].fn = "createLoan" => answer'[s] = answer[s]
  <2>1. answer = [s \in Requests |-> answer[s]]
    BY DEF Bindings, Awaiting
  <2>2. \/ answer' = answer
        \/ /\ answer[tx.by].fn = tx.fn
           /\ answer' = [answer EXCEPT ![tx.by] = [fn |-> tx.fn, status |-> status]]
    BY DEF Mined, Answer
  <2>3. tx.fn # "createLoan"
    BY DEF Creates
  <2> HIDE DEF tx
  <2>4. answer' = [s \in Requests |-> answer'[s]]
    BY <2>1, <2>2
  <2>5. \A s \in Requests : answer[s].fn = "createLoan" => answer'[s] = answer[s]
    BY <2>1, <2>2, <2>3
  <2>6. QED
    BY <2>4, <2>5 DEF Mined
\* Where a creation stands before and after.
<1>2. PICK d \in {0, 1} :
        /\ \A i \in DOMAIN Relayed' : i + d \in DOMAIN Relayed /\ Relayed'[i] = Relayed[i + d]
        /\ \A i \in DOMAIN Relayed : Creates(Relayed[i]) =>
              \E k \in DOMAIN Relayed' : Relayed'[k] = Relayed[i]
        /\ DOMAIN Relayed' \subseteq Nat
  <2>1. CASE role = "RELAYER"
    <3>1. Relayed' = Tail(Relayed) /\ Relayed # <<>> /\ ~Creates(Relayed[1])
      BY <1>t, <1>1, <2>1, Queue DEF Relayed
    <3>2. /\ DOMAIN Relayed = 1..Len(Relayed) /\ Len(Relayed) \in Nat
          /\ DOMAIN Relayed' = 1..(Len(Relayed) - 1)
          /\ \A i \in 1..(Len(Relayed) - 1) : Relayed'[i] = Relayed[i + 1] /\ i + 1 \in DOMAIN Relayed
      BY <1>t, <3>1, Queue
    <3>3. ASSUME NEW i \in DOMAIN Relayed, Creates(Relayed[i])
          PROVE  \E k \in DOMAIN Relayed' : Relayed'[k] = Relayed[i]
      <4>1. i # 1
        BY <3>1, <3>3
      <4>2. i - 1 \in DOMAIN Relayed' /\ (i - 1) + 1 = i
        BY <3>2, <4>1
      <4>3. QED
        BY <3>2, <4>2
    <3>4. QED
      BY <3>2, <3>3
  <2>2. CASE role # "RELAYER"
    <3>1. Relayed' = Relayed
      BY <1>t, <1>1, <2>2 DEF Relayed, Roles
    <3>2. DOMAIN Relayed \subseteq Nat /\ \A i \in DOMAIN Relayed : i + 0 = i
      BY <1>t, Queue
    <3>3. QED
      BY <3>1, <3>2
  <2>3. QED
    BY <2>1, <2>2
<1>3. \A i \in DOMAIN pool'["KOPERASI"] : ~Creates(pool'["KOPERASI"][i])
  <2> DEFINE q == pool["KOPERASI"]
  <2>1. q \in Seq(Calls) /\ \A i \in DOMAIN q : ~Creates(q[i])
    BY <1>t DEF Roles, Bindings, Pooled
  <2>2. pool'["KOPERASI"] = q \/ (q # <<>> /\ pool'["KOPERASI"] = Tail(q))
    BY <1>t, <1>1 DEF Roles
  <2> HIDE DEF q
  <2>3. q # <<>> => \A i \in DOMAIN Tail(q) : i + 1 \in DOMAIN q /\ Tail(q)[i] = q[i + 1]
    BY <2>1, Queue
  <2>4. QED
    BY <2>1, <2>2, <2>3
<1>p. /\ \A s : InPool(s)' = InPool(s)
      /\ \A x : (\E i \in DOMAIN Relayed : Creates(Relayed[i]) /\ Relayed[i].arg.row = x)
                <=> (\E i \in DOMAIN Relayed' : Creates(Relayed'[i]) /\ Relayed'[i].arg.row = x)
  BY <1>2 DEF InPool, Creates
<1>4. Pooled'
  <2>1. ASSUME NEW i \in DOMAIN Relayed', Creates(Relayed'[i])
        PROVE  LET s == Relayed'[i].by IN
               /\ s \in DOMAIN job /\ Applies(s) /\ job[s].whole
               /\ pc[s] \notin {"start", "inserted", "read"}
               /\ Relayed'[i].arg.row = RowOf(s)
               /\ nextLoanId <= MaxLoans
    BY <1>2, <2>1 DEF Bindings, Pooled
  <2>2. ASSUME NEW i \in DOMAIN Relayed', NEW k \in DOMAIN Relayed', Creates(Relayed'[i]),
               Creates(Relayed'[k]), Relayed'[i].by = Relayed'[k].by
        PROVE  i = k
    <3>1. i + d = k + d
      BY <1>2, <2>2, SMTT(40) DEF Bindings, Pooled
    <3>2. QED
      BY <1>2, <3>1
  <2>3. QED
    BY <1>j, <1>3, <2>1, <2>2 DEF Pooled, Creates
<1>5. Reading'
  BY <1>j DEF Bindings, Reading
<1>6. \A id \in Ids : id # 0 /\ id < nextLoanId => id \in LoanIds /\ book'[id].row = book[id].row
  BY <1>t DEF Ids, LoanIds
<1>7. Awaiting'
  <2>1. ASSUME NEW s \in running, Applies(s), pc[s] = "creating" PROVE Told(s)'
    <3>1. Told(s) /\ s \in Requests /\ answer'[s] = answer[s]
      BY <1>t, <1>1, <2>1 DEF Bindings, Awaiting, Told
    <3>2. nextId[s] # 0 => Given(s)' = Given(s)
      <4>1. nextId[s] \in Ids
        BY <1>t, <3>1
      <4>2. QED
        BY <1>6, <1>j, <4>1 DEF Given
    <3>3. QED
      BY <1>1, <1>p, <3>1, <3>2 DEF Told
  <2>2. QED
    BY <1>1, <1>j, <2>1 DEF Bindings, Awaiting
<1>8. BoundEarly'
  <2>1. \A x \in Rows : rows[x].onchainLoanId \in Ids
    BY <1>t DEF Row, Ids
  <2>2. QED
    BY <1>1, <1>p, <1>6, <2>1 DEF Bindings, BoundEarly, Creates
<1>9. QED
  BY <1>4, <1>5, <1>7, <1>8 DEF Bindings

\* The creation that is mined is the only one, and its application the only one
\* that waits for an id.
LEMMA CreationMined ==
  ASSUME Types, Bindings, OneAtATime, NEW role \in Roles, pool[role] # <<>>, NEW status,
         Mined(role, status), Creates(Head(pool[role]))
  PROVE  \E tx \in Calls, r \in DOMAIN job :
           /\ tx = Head(pool[role]) /\ tx.fn = "createLoan"
           /\ tx.arg.row = RowOf(r) /\ nextLoanId \in LoanIds
           /\ \A s \in running : Applies(s) /\ job[s].whole =>
                 /\ pc[s] # "read"
                 /\ pc[s] = "creating" => s = r
           /\ \A i \in DOMAIN Relayed : Creates(Relayed[i]) => Relayed[i] = tx
           /\ \A i \in DOMAIN Relayed' : ~Creates(Relayed'[i])
           /\ \A i \in DOMAIN pool'["KOPERASI"] : ~Creates(pool'["KOPERASI"][i])
           /\ answer' = [s \in Requests |-> answer'[s]] /\ UNCHANGED faults
           /\ answer'[r] = IF answer[r] = [fn |-> "createLoan", status |-> "sent"]
                           THEN [fn |-> "createLoan", status |-> status] ELSE answer[r]
<1>t. /\ pool \in [Roles -> Seq(Calls)] /\ Relayed \in Seq(Calls) /\ DOMAIN job \subseteq Requests
      /\ nextLoanId \in 1..MaxLoans + 1 /\ MaxLoans \in Nat
      /\ answer = [s \in Requests |-> answer[s]]
  BY DeskJobs DEF Types, Jobs, Relayed, Roles, Bindings, Awaiting
<1>1. role = "RELAYER"
  <2>1. pool["KOPERASI"] \in Seq(Calls) /\ \A i \in DOMAIN pool["KOPERASI"] : ~Creates(pool["KOPERASI"][i])
    BY <1>t DEF Roles, Bindings, Pooled
  <2>2. pool["KOPERASI"] # <<>> => ~Creates(Head(pool["KOPERASI"]))
    BY <2>1, Queue
  <2>3. QED
    BY <2>2 DEF Roles
<1>2. PICK tx \in Calls : tx = Head(pool[role]) /\ tx = Relayed[1] /\ 1 \in DOMAIN Relayed
  BY <1>t, <1>1, Queue DEF Relayed
<1>3. PICK r : r = tx.by
  OBVIOUS
<1>4. /\ r \in DOMAIN job /\ pc[r] \notin {"start", "inserted", "read"}
      /\ tx.arg.row = RowOf(r) /\ nextLoanId <= MaxLoans
      /\ Creates(tx) /\ tx.fn = "createLoan"
  BY <1>2, <1>3 DEF Bindings, Pooled, Creates
<1>5. /\ UnderWay(r)
      /\ \A s \in DOMAIN job : UnderWay(s) => s = r
      /\ \A i \in DOMAIN Relayed : Creates(Relayed[i]) => i = 1
  <2>1. UnderWay(r) /\ \A s \in DOMAIN job : UnderWay(s) => s = r
    BY <1>2, <1>3, <1>4, TheOne DEF Bindings
  <2>2. ASSUME NEW i \in DOMAIN Relayed, Creates(Relayed[i]) PROVE i = 1
    <3>1. UnderWay(Relayed[i].by) /\ Relayed[i].by \in DOMAIN job
      BY <2>2, TheOne DEF Bindings, Pooled
    <3>2. Relayed[i].by = r
      BY <2>1, <3>1
    <3>3. QED
      BY <1>2, <1>3, <1>4, <2>2, <3>2 DEF Bindings, Pooled
  <2>3. QED
    BY <2>1, <2>2
<1>6. \A s \in running : Applies(s) /\ job[s].whole =>
                 /\ pc[s] # "read"
                 /\ pc[s] = "creating" => s = r
  <2>1. ASSUME NEW s \in running, Applies(s), job[s].whole, pc[s] \in {"read", "creating"}
        PROVE  s = r
    BY <1>5, <2>1, TheOne DEF Bindings, Types, Jobs
  <2>2. QED
    BY <1>4, <2>1
<1>7. /\ pool' = [pool EXCEPT ![role] = Tail(@)] /\ UNCHANGED faults
      /\ Relayed' = Tail(Relayed) /\ Relayed # <<>>
      /\ pool'["KOPERASI"] = pool["KOPERASI"]
  BY <1>t, <1>1 DEF Mined, Relayed, Roles
<1>8. /\ DOMAIN Relayed = 1..Len(Relayed) /\ Len(Relayed) \in Nat
      /\ DOMAIN Relayed' = 1..(Len(Relayed) - 1)
      /\ \A i \in 1..(Len(Relayed) - 1) : Relayed'[i] = Relayed[i + 1] /\ i + 1 \in DOMAIN Relayed
  BY <1>t, <1>7, Queue
<1>9. \A i \in DOMAIN Relayed' : ~Creates(Relayed'[i])
  <2>1. ASSUME NEW i \in DOMAIN Relayed', Creates(Relayed'[i]) PROVE FALSE
    <3>1. i + 1 = 1 /\ i >= 1 /\ i \in Nat
      BY <1>5, <1>8, <2>1
    <3>2. QED
      BY <3>1
  <2>2. QED
    BY <2>1
<1>10. /\ answer' = [s \in Requests |-> answer'[s]]
       /\ answer'[r] = IF answer[r] = [fn |-> "createLoan", status |-> "sent"]
                       THEN [fn |-> "createLoan", status |-> status] ELSE answer[r]
  <2>1. ASSUME NEW i \in 2..Len(pool[role]) PROVE ~(pool[role][i].fn = "createLoan")
    <3>1. i \in DOMAIN Relayed /\ i # 1 /\ pool[role][i] = Relayed[i]
      BY <1>1, <1>8, <2>1 DEF Relayed
    <3>2. QED
      BY <1>5, <3>1 DEF Creates
  <2>2. answer' = IF answer[r] = [fn |-> "createLoan", status |-> "sent"]
                  THEN [answer EXCEPT ![r] = [fn |-> "createLoan", status |-> status]]
                  ELSE answer
    BY <1>2, <1>3, <1>4, <2>1 DEF Mined, Answer
  <2>3. r \in Requests
    BY <1>t, <1>4
  <2>4. QED
    BY <1>t, <2>2, <2>3
<1>11. nextLoanId \in LoanIds
  BY <1>t, <1>4 DEF LoanIds
<1>12. \A i \in DOMAIN Relayed : Creates(Relayed[i]) => Relayed[i] = tx
  BY <1>2, <1>5
<1>13. \A i \in DOMAIN pool'["KOPERASI"] : ~Creates(pool'["KOPERASI"][i])
  BY <1>7 DEF Bindings, Pooled
<1>14. QED
  BY <1>2, <1>4, <1>6, <1>7, <1>9, <1>10, <1>11, <1>12, <1>13

LEMMA MineCreate ==
  ASSUME Types, Bindings, OneAtATime, NEW role \in Roles, pool[role] # <<>>,
         Mined(role, "success"), Creates(Head(pool[role])),
         Execute(Head(pool[role]).fn, Head(pool[role]).arg),
         UNCHANGED <<rows, pc, nextId, running, job>>
  PROVE  Bindings'
<1>t. /\ DOMAIN job \subseteq Requests /\ running \subseteq Requests
      /\ nextId \in [Requests -> Ids] /\ rows \in [Rows -> Row]
      /\ nextLoanId \in 1..MaxLoans + 1 /\ MaxLoans \in Nat
  BY DeskJobs DEF Types, Jobs
<1>j. \A s : Applies(s)' = Applies(s) /\ RowOf(s)' = RowOf(s)
  BY DEF Applies, Kind, RowOf
<1>1. PICK tx \in Calls, r \in DOMAIN job :
           /\ tx = Head(pool[role]) /\ tx.fn = "createLoan"
           /\ tx.arg.row = RowOf(r) /\ nextLoanId \in LoanIds
           /\ \A s \in running : Applies(s) /\ job[s].whole =>
                 /\ pc[s] # "read"
                 /\ pc[s] = "creating" => s = r
           /\ \A i \in DOMAIN Relayed : Creates(Relayed[i]) => Relayed[i] = tx
           /\ \A i \in DOMAIN Relayed' : ~Creates(Relayed'[i])
           /\ \A i \in DOMAIN pool'["KOPERASI"] : ~Creates(pool'["KOPERASI"][i])
           /\ answer' = [s \in Requests |-> answer'[s]] /\ UNCHANGED faults
           /\ answer'[r] = IF answer[r] = [fn |-> "createLoan", status |-> "sent"]
                           THEN [fn |-> "createLoan", status |-> "success"] ELSE answer[r]
  BY CreationMined
<1>2. /\ nextLoanId' = nextLoanId + 1 /\ book'[nextLoanId].row = RowOf(r)
      /\ \A id \in LoanIds : id # nextLoanId => book'[id] = book[id]
  BY <1>1, Executed DEF Creates
<1>3. \A id \in Ids : id # 0 /\ id < nextLoanId =>
         id \in LoanIds /\ book'[id] = book[id] /\ id < nextLoanId'
  BY <1>t, <1>2 DEF Ids, LoanIds
<1>n. nextLoanId < nextLoanId'
  BY <1>t, <1>2
<1>4. Pooled'
  BY <1>1 DEF Pooled, Creates
<1>5. Reading'
  BY <1>1, <1>j DEF Bindings, Reading
<1>6. Awaiting'
  <2>1. ASSUME NEW s \in running, Applies(s), pc[s] = "creating" PROVE Told(s)'
    <3>1. Told(s) /\ s = r /\ s \in Requests
      BY <1>t, <1>1, <2>1 DEF Bindings, Awaiting, Told
    <3>2. nextId[r] # 0 /\ Given(r) => Given(r)'
      <4>1. nextId[r] \in Ids
        BY <1>t, <3>1
      <4>2. QED
        BY <1>3, <1>j, <4>1 DEF Given
    <3>3. nextId[r] = nextLoanId => Given(r)'
      BY <1>2, <1>n, <1>j DEF Given
    <3>4. CASE answer[r] = [fn |-> "createLoan", status |-> "sent"]
      <4>1. answer'[r] = [fn |-> "createLoan", status |-> "success"]
        BY <1>1, <3>4
      <4>2. nextId[r] # 0 => nextId[r] = nextLoanId
        BY <3>1, <3>4 DEF Told
      <4>3. QED
        BY <3>1, <3>3, <4>1, <4>2 DEF Told
    <3>5. CASE answer[r] # [fn |-> "createLoan", status |-> "sent"]
      <4>1. answer'[r] = answer[r] /\ answer[r].status # "sent"
        BY <1>1, <3>1, <3>5 DEF Told
      <4>2. nextId[r] # 0 /\ answer[r].status \in {"pending", "success"} => Given(r)'
        BY <3>1, <3>2, <3>3 DEF Told
      <4>3. QED
        BY <1>1, <3>1, <4>1, <4>2 DEF Told
    <3>6. QED
      BY <3>4, <3>5
  <2>2. QED
    BY <1>1, <1>j, <2>1 DEF Awaiting
<1>7. BoundEarly'
  <2>1. ASSUME NEW x \in Rows, NEW id, id = rows[x].onchainLoanId, id # 0
        PROVE  id < nextLoanId' /\ book'[id].row = x
    <3>1. id \in Ids
      BY <1>t, <2>1 DEF Row, Ids
    <3>2. CASE id < nextLoanId /\ book[id].row = x
      BY <1>3, <2>1, <3>1, <3>2
    <3>3. CASE id = nextLoanId /\ \E i \in DOMAIN Relayed : Creates(Relayed[i]) /\ Relayed[i].arg.row = x
      <4>1. tx.arg.row = x
        BY <1>1, <3>3
      <4>2. QED
        BY <1>1, <1>2, <1>n, <3>3, <4>1
    <3>4. QED
      BY <2>1, <3>2, <3>3 DEF Bindings, BoundEarly
  <2>2. QED
    BY <2>1 DEF BoundEarly
<1>8. QED
  BY <1>4, <1>5, <1>6, <1>7 DEF Bindings

\* A creation that was simulated is refused only for a reason the model leaves out.
LEMMA MineRefused ==
  ASSUME Types, Bindings, OneAtATime, NEW role \in Roles, pool[role] # <<>>,
         Mined(role, "reverted"), Creates(Head(pool[role])),
         ~Accepts(Head(pool[role]).fn, Head(pool[role]).arg) \/ "revert" \in faults,
         UNCHANGED <<chain, rows, pc, nextId, running, job>>
  PROVE  Bindings'
<1>j. \A s : Applies(s)' = Applies(s) /\ RowOf(s)' = RowOf(s) /\ Given(s)' = Given(s)
  BY DEF Applies, Kind, RowOf, Given, chain
<1>1. PICK tx \in Calls, r \in DOMAIN job :
           /\ tx = Head(pool[role]) /\ tx.fn = "createLoan"
           /\ tx.arg.row = RowOf(r) /\ nextLoanId \in LoanIds
           /\ \A s \in running : Applies(s) /\ job[s].whole =>
                 /\ pc[s] # "read"
                 /\ pc[s] = "creating" => s = r
           /\ \A i \in DOMAIN Relayed : Creates(Relayed[i]) => Relayed[i] = tx
           /\ \A i \in DOMAIN Relayed' : ~Creates(Relayed'[i])
           /\ \A i \in DOMAIN pool'["KOPERASI"] : ~Creates(pool'["KOPERASI"][i])
           /\ answer' = [s \in Requests |-> answer'[s]] /\ UNCHANGED faults
           /\ answer'[r] = IF answer[r] = [fn |-> "createLoan", status |-> "sent"]
                           THEN [fn |-> "createLoan", status |-> "reverted"] ELSE answer[r]
  BY CreationMined
<1>2. "timeout" \notin faults
  <2>1. nextLoanId <= MaxLoans
    BY <1>1, DeskJobs DEF LoanIds
  <2>2. "revert" \in faults
    BY <1>1, <2>1 DEF Accepts
  <2>3. QED
    BY <2>2 DEF OneAtATime
<1>3. Pooled'
  BY <1>1 DEF Pooled, Creates
<1>4. Reading'
  BY <1>j DEF Bindings, Reading, chain
<1>5. Awaiting'
  <2>1. ASSUME NEW s \in running, Applies(s), pc[s] = "creating" PROVE Told(s)'
    <3>1. Told(s) /\ s = r
      BY <1>1, <2>1 DEF Bindings, Awaiting, Told
    <3>2. CASE answer[r] = [fn |-> "createLoan", status |-> "sent"]
      <4>1. answer'[r] = [fn |-> "createLoan", status |-> "reverted"]
        BY <1>1, <3>2
      <4>2. QED
        BY <3>1, <4>1 DEF Told
    <3>3. CASE answer[r] # [fn |-> "createLoan", status |-> "sent"]
      <4>1. answer'[r] = answer[r] /\ answer[r].status \notin {"sent", "pending"}
        BY <1>1, <1>2, <3>1, <3>3 DEF Told
      <4>2. QED
        BY <1>j, <3>1, <4>1 DEF Told
    <3>4. QED
      BY <3>2, <3>3
  <2>2. QED
    BY <1>1, <1>j, <2>1 DEF Awaiting
<1>6. BoundEarly'
  BY <1>2 DEF Bindings, BoundEarly, chain
<1>7. QED
  BY <1>3, <1>4, <1>5, <1>6 DEF Bindings

LEMMA NoCreation ==
  ASSUME Pooled, UNCHANGED pool
  PROVE  CreationsKept
BY DEF Pooled, CreationsKept, Relayed

\* What an action of a request other than the creation of its loan leaves alone.
LEMMA OtherAnswers ==
  ASSUME Types, Awaiting, NEW r \in Requests, NEW fn, NEW arg,
         Submit(r, fn, arg) \/ UNCHANGED gateway
  PROVE  /\ \A s \in Requests : s # r => answer'[s] = answer[s]
         /\ answer' = [s \in Requests |-> answer'[s]]
         /\ UNCHANGED faults
<1>1. answer = [s \in Requests |-> answer[s]]
  BY DEF Awaiting
<1>2. /\ UNCHANGED faults
      /\ answer' = answer \/ \E a : answer' = [answer EXCEPT ![r] = a]
  BY DEF Submit, TrySubmit, Answer, gateway
<1>3. QED
  BY <1>1, <1>2

LEMMA RequestStep ==
  ASSUME Types, Bindings, NEW r \in Requests, Step(r)
  PROVE  Bindings'
<1>b. Pooled /\ Awaiting
  BY DEF Bindings
<1>t. rows \in [Rows -> Row] /\ seen \in [Requests -> Row] /\ nextId \in [Requests -> Ids]
  BY DEF Types
<1>k. UNCHANGED rows => \A x \in Rows : rows'[x].onchainLoanId \in {0, rows[x].onchainLoanId}
  OBVIOUS
\* The desk's own steps.
<1>1. ASSUME NEW to, Goto(r, to), UNCHANGED <<chain, gateway, nextId, running, job>>,
             r \in DOMAIN job,
             to \notin {"start", "read", "creating"}, to = "inserted" => pc[r] = "start",
             \A x \in Rows : rows'[x].onchainLoanId \in {0, rows[x].onchainLoanId}
      PROVE  Bindings'
  <2>1. CreationsKept
    BY <1>1, <1>b, NoCreation DEF gateway
  <2>2. /\ \A s \in Requests : s # r => answer'[s] = answer[s]
        /\ answer' = [s \in Requests |-> answer'[s]]
        /\ UNCHANGED faults
    BY <1>1, <1>b DEF Awaiting, gateway
  <2>3. QED
    BY <1>1, <2>1, <2>2, Elsewhere
\* Calls on a loan that is there.
<1>2. ASSUME NEW to, Goto(r, to), UNCHANGED <<rows, chain, nextId, running, job>>,
             r \in DOMAIN job, to \in {"last", "resolve"},
             NEW fn, NEW arg, Submit(r, fn, arg), fn # "createLoan",
             [by |-> r, fn |-> fn, arg |-> arg] \in Calls
      PROVE  Bindings'
  <2>1. CreationsKept
    BY <1>2, <1>b, SubmitKeeps
  <2>2. /\ \A s \in Requests : s # r => answer'[s] = answer[s]
        /\ answer' = [s \in Requests |-> answer'[s]]
        /\ UNCHANGED faults
    BY <1>2, <1>b, OtherAnswers
  <2>3. QED
    BY <1>2, <1>k, <2>1, <2>2, Elsewhere
<1>3. CASE Insert(r)
  <2>1. r \in DOMAIN job /\ RowOf(r) \in Rows /\ pc[r] = "start"
    BY <1>3, AtFacts DEF Insert
  <2>2. \A x \in Rows : rows'[x].onchainLoanId \in {0, rows[x].onchainLoanId}
    BY <1>3, <1>t, <2>1 DEF Insert, NoRow
  <2>3. QED
    BY <1>1, <1>3, <2>1, <2>2 DEF Insert, reads
<1>4. CASE ReadNextLoanId(r)
  BY <1>4, AtFacts, ReadStep DEF ReadNextLoanId
<1>5. CASE Throw(r)
  BY <1>1, <1>5, <1>k, AtFacts DEF Throw, reads, db
<1>6. CASE SendCreate(r)
  BY <1>6, AtFacts, SendStep DEF SendCreate
<1>7. CASE Bind(r)
  <2>1. r \in DOMAIN job
    BY <1>7, AtFacts DEF Bind
  <2>2. CASE Created(r)
    BY <1>7, <2>1, <2>2, BindStep
  <2>3. CASE ~Created(r)
    BY <1>1, <1>7, <1>k, <2>1, <2>3 DEF Bind, reads
  <2>4. QED
    BY <2>2, <2>3
<1>8. CASE SendScreening(r)
  <2>1. r \in DOMAIN job /\ job[r].flag \in Flags
    BY <1>8, AtFacts DEF SendScreening
  <2>2. [by |-> r, fn |-> "recordScreening",
         arg |-> [id |-> nextId[r], flag |-> job[r].flag]] \in Calls
    BY <1>t, <2>1 DEF Calls
  <2>3. QED
    BY <1>2, <1>8, <2>1, <2>2 DEF SendScreening, reads, db
<1>9. CASE Find(r)
  BY <1>1, <1>9, <1>k, AtFacts DEF Find, db
<1>10. CASE Mark(r)
  <2>1. r \in DOMAIN job /\ RowOf(r) \in Rows
    BY <1>10, AtFacts DEF Mark
  <2>2. \A x \in Rows : rows'[x].onchainLoanId \in {0, rows[x].onchainLoanId}
    BY <1>10, <1>t, <2>1 DEF Mark, Row
  <2>3. QED
    BY <1>1, <1>10, <2>1, <2>2 DEF Mark, reads
<1>11. CASE Decide(r)
  <2>1. r \in DOMAIN job /\ RowOf(r) \in Rows
    BY <1>11, AtFacts DEF Decide
  <2>2. \A x \in Rows : rows'[x].onchainLoanId \in {0, rows[x].onchainLoanId}
    BY <1>11, <1>t, <2>1 DEF Decide, Row
  <2>3. QED
    BY <1>1, <1>11, <2>1, <2>2 DEF Decide, reads
<1>12. CASE RecordDecision(r) \/ RecordAppealDecision(r)
  <2>1. r \in DOMAIN job /\ \E to \in {"appealed", "anchor"} : Goto(r, to)
    BY <1>12, AtFacts DEF RecordDecision, RecordAppealDecision
  <2>2. QED
    BY <1>1, <1>12, <1>k, <2>1 DEF RecordDecision, RecordAppealDecision, reads
<1>13. CASE Anchor(r)
  <2>1. r \in DOMAIN job /\ pc[r] = "anchor" /\ Kind(r) \in {"sanggah", "approve", "reject"}
    BY <1>13, AtFacts DEF Anchor, OnItsWay, Applying, Kinds
  <2>2. CASE seen[r].onchainLoanId = 0
    BY <1>1, <1>13, <1>k, <2>1, <2>2 DEF Anchor, reads, db
  <2>3. CASE seen[r].onchainLoanId # 0
    <3>1. AnchorCall(r) \in Reviews /\ AnchorCall(r) # "createLoan"
          /\ seen[r].onchainLoanId \in Ids
      BY <1>t, <2>1 DEF AnchorCall, Reviews, Row, Ids
    <3>2. [by |-> r, fn |-> AnchorCall(r), arg |-> [id |-> seen[r].onchainLoanId]] \in Calls
      BY <3>1 DEF Calls
    <3>3. Submit(r, AnchorCall(r), [id |-> seen[r].onchainLoanId])
      BY <1>13, <2>3 DEF Anchor
    <3>4. \E to \in {"last", "resolve"} : Goto(r, to)
      BY <1>13, <2>3 DEF Anchor
    <3>5. UNCHANGED <<rows, chain, nextId, running, job>>
      BY <1>13 DEF Anchor, db, reads
    <3>6. QED
      BY <1>2, <2>1, <3>1, <3>2, <3>3, <3>4, <3>5
  <2>4. QED
    BY <2>2, <2>3
<1>14. CASE Resolve(r)
  <2>1. r \in DOMAIN job
    BY <1>14, AtFacts DEF Resolve
  <2>2. [by |-> r, fn |-> "resolveAppeal", arg |-> [id |-> seen[r].onchainLoanId]] \in Calls
    BY <1>t DEF Calls, Reviews, Row, Ids
  <2>3. QED
    BY <1>2, <1>14, <2>1, <2>2 DEF Resolve, reads, db
<1>15. CASE Awaited(r) \/ AppendAudit(r)
  <2>1. r \in DOMAIN job /\ \E to \in {"audit", "done"} : Goto(r, to)
    BY <1>15, AtFacts DEF Awaited, AppendAudit
  <2>2. QED
    BY <1>1, <1>15, <1>k, <2>1 DEF Awaited, AppendAudit, reads, db
<1>16. QED
  BY <1>3, <1>4, <1>5, <1>6, <1>7, <1>8, <1>9, <1>10, <1>11, <1>12, <1>13, <1>14, <1>15
     DEF Step, Apply, Review

LEMMA MineStep ==
  ASSUME Types, Bindings, OneAtATime, NEW role \in Roles, Mine(role)
  PROVE  Bindings'
<1> DEFINE tx == Head(pool[role])
<1>1. /\ pool[role] # <<>> /\ UNCHANGED <<rows, pc, nextId, running, job>>
      /\ \/ Accepts(tx.fn, tx.arg) /\ Execute(tx.fn, tx.arg) /\ Mined(role, "success")
         \/ /\ ~Accepts(tx.fn, tx.arg) \/ "revert" \in faults
            /\ Mined(role, "reverted") /\ UNCHANGED chain
  BY DEF Mine, db, reads
<1>2. tx \in Calls
  <2>1. pool[role] \in Seq(Calls)
    BY DEF Types
  <2>2. QED
    BY <1>1, <2>1
<1> HIDE DEF tx
<1>3. CASE Creates(tx)
  <2>1. CASE Execute(tx.fn, tx.arg) /\ Mined(role, "success")
    BY <1>1, <1>3, <2>1, MineCreate DEF tx
  <2>2. CASE /\ ~Accepts(tx.fn, tx.arg) \/ "revert" \in faults
             /\ Mined(role, "reverted") /\ UNCHANGED chain
    BY <1>1, <1>3, <2>2, MineRefused DEF tx
  <2>3. QED
    BY <1>1, <2>1, <2>2
<1>4. CASE ~Creates(tx)
  <2>1. nextLoanId' = nextLoanId /\ \A id \in LoanIds : book'[id].row = book[id].row
    <3>1. CASE Execute(tx.fn, tx.arg)
      BY <1>2, <1>4, <3>1, Executed
    <3>2. CASE UNCHANGED chain
      BY <3>2 DEF chain
    <3>3. QED
      BY <1>1, <3>1, <3>2
  <2>2. Mined(role, "success") \/ Mined(role, "reverted")
    BY <1>1
  <2>3. ~Creates(Head(pool[role]))
    BY <1>4 DEF tx
  <2>4. QED
    BY <1>1, <2>1, <2>2, <2>3, OtherMined
<1>5. QED
  BY <1>3, <1>4

LEMMA BindingsStep ==
  ASSUME Types, Bindings, OneAtATime, [Next]_vars
  PROVE  Bindings'
<1>b. answer = [s \in Requests |-> answer[s]]
  BY DEF Bindings, Awaiting
<1>1. ASSUME NEW r \in Requests, NoReceipt(r) PROVE Bindings'
  <2>1. UNCHANGED <<rows, chain, pool, faults, nextId, job, pc, running>>
    BY <1>1 DEF NoReceipt, TimeOut, db, reads
  <2>2. /\ "timeout" \in faults /\ answer[r].status = "sent"
        /\ answer' = [answer EXCEPT ![r] = [fn |-> answer[r].fn, status |-> "pending"]]
    BY <1>1 DEF NoReceipt, TimeOut, Answer
  <2>3. /\ answer' = [s \in Requests |-> answer'[s]]
        /\ \A s \in Requests :
             \/ answer'[s] = answer[s]
             \/ /\ answer[s].status = "sent" /\ "timeout" \in faults
                /\ answer'[s] = [fn |-> answer[s].fn, status |-> "pending"]
    BY <1>b, <2>2
  <2>4. QED
    BY <2>1, <2>3, Aside
<1>2. CASE Crash \/ Idle \/ UNCHANGED vars
  <2>1. UNCHANGED <<rows, chain, pool, faults, nextId, job, pc, answer>>
        /\ running' \subseteq running
    BY <1>2 DEF Crash, Idle, vars, db, gateway, reads
  <2>2. QED
    BY <1>b, <2>1, Aside
<1>3. QED
  BY <1>1, <1>2, RequestStep, MineStep DEF Next

\* A loan row is bound to the escrow loan that its own application created, when
\* applications are taken to the escrow one at a time and no creation that was
\* given up on for its late receipt is refused after all.
THEOREM BindingCorrect == Spec /\ []OneAtATime => []BoundToOwnLoan
<1>1. ASSUME Init PROVE Bindings
  <2>1. \A role \in Roles : pool[role] = <<>>
    BY <1>1 DEF Init, GatewayInit
  <2>2. /\ Relayed = <<>> /\ pool["KOPERASI"] = <<>>
    BY <2>1 DEF Relayed, Roles
  <2>3. Pooled
    BY <2>2 DEF Pooled
  <2>4. /\ \A s \in Requests : pc[s] = "start" /\ nextId[s] = 0
        /\ answer = [s \in Requests |-> NoAnswer]
        /\ \A x \in Rows : rows[x].onchainLoanId = 0
        /\ running \subseteq Requests
    <3>1. running \subseteq Requests
      BY <1>1, InitTypes DEF Types, Jobs
    <3>2. QED
      BY <1>1, <3>1 DEF Init, GatewayInit, NoRow
  <2>5. Reading /\ Awaiting /\ BoundEarly
    BY <2>4 DEF Reading, Awaiting, BoundEarly
  <2>6. QED
    BY <2>3, <2>5 DEF Bindings
<1>2. Types /\ Bindings /\ OneAtATime /\ [Next]_vars => Bindings'
  BY BindingsStep
<1>3. Bindings => BoundToOwnLoan
  BY DEF Bindings, BoundEarly, BoundToOwnLoan, Relayed, Creates
<1>4. QED
  BY <1>1, <1>2, <1>3, TypesCorrect, PTL DEF Spec
============================================================================
