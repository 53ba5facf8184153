-------------------------- MODULE Backoffice_proofs --------------------------
(***************************************************************************)
(* Theorems about the backoffice, for any members, any number of requests  *)
(* of every kind served at the same time, and any faults: the one-time     *)
(* passwords, what a snapshot counts, and the turns of the chat; and what  *)
(* is kept in two places: the balance and the deposits, the deposits and   *)
(* their units on the escrow, the flags and the wallets and what the       *)
(* escrow has registered.                                                  *)
(***************************************************************************)
EXTENDS Backoffice, Amounts_proofs

----------------------------------------------------------------------------
(* Types *)

Statuses == {None, "Requested", "Approved", "Rejected"}

Passwords == Requests \cup {None, Seed}
PersonRow == [status : Statuses, password : Passwords, wallet : Passwords,
              onchain : BOOLEAN, balance : Nat]

Types ==
    /\ sitting \in Sittings
    /\ running \subseteq Served
    /\ members \in [Members -> PersonRow]
    /\ seen \in [Requests -> PersonRow]
    /\ DOMAIN pc = Requests
    /\ DOMAIN who = Requests /\ \A r \in Served : who[r] \in Members
    /\ todo \in [Requests -> SUBSET Members]

\* What the sittings' assumption says of the one that takes place.
LEMMA Jobs ==
  ASSUME sitting \in Sittings
  PROVE  /\ Served \subseteq Requests
         /\ \A r \in Served : job[r].member \in Members /\ job[r].nominal \in Nat
BY BackofficeSittings DEF Served, job, Range

LEMMA InitTypes == Init => Types
<1> SUFFICES ASSUME Init PROVE Types
  OBVIOUS
<1>1. sitting \in Sittings /\ running = Served
  BY DEF Init
<1>2. NoRow \in PersonRow /\ SeededRow \in PersonRow
  BY DEF NoRow, SeededRow, PersonRow, Statuses, Passwords
<1>3. members \in [Members -> PersonRow] /\ seen \in [Requests -> PersonRow]
  BY <1>2 DEF Init
<1>4. DOMAIN pc = Requests
  BY DEF Init
<1>t. todo \in [Requests -> SUBSET Members]
  <2>1. todo = [r \in Requests |-> {}] /\ {} \in SUBSET Members
    BY DEF Init
  <2>2. QED
    BY <2>1
<1>5. DOMAIN who = Requests /\ \A r \in Served : who[r] \in Members
  BY <1>1, Jobs DEF Init
<1>6. QED
  BY <1>1, <1>3, <1>4, <1>t, <1>5 DEF Types

\* A step that leaves rows, positions and the rest of what is typed alone.
Untouched == UNCHANGED <<members, seen, pc, who, todo, sitting>>

LEMMA UntouchedTypes == Types /\ Untouched /\ running' \subseteq running => Types'
BY DEF Types, Untouched, Served, job

\* A request takes a step.
LEMMA StepTypes ==
  ASSUME Types, NEW r \in Served, NEW from, NEW to, Step(r, from, to)
  PROVE  /\ sitting' \in Sittings /\ running' \subseteq Served' /\ Served' = Served
         /\ DOMAIN pc' = Requests
BY DEF Types, Step, Goto, At, fixed, Served, job

\* An update of the request's member with a row of the table.
LEMMA UpdateTypes ==
  ASSUME Types, NEW r \in Served, NEW row \in PersonRow, Update(r, row)
  PROVE  members' \in [Members -> PersonRow]
BY DEF Types, Update

LEMMA RowType == \A r \in Served : Types => Row(r) \in PersonRow
BY DEF Types, Row

\* The steps in which a request writes its member's row, and what it writes.
Writes(r, row) ==
    \/ SubmitKyc(r) /\ row = (IF Row(r) = NoRow THEN [NoRow EXCEPT !.status = "Requested"]
                              ELSE Row(r))
    \/ Approve(r) /\ row = [Row(r) EXCEPT !.status = "Approved",
                                          !.password = IF Issues(r) THEN r ELSE @]
    \/ Reject(r) /\ row = [Row(r) EXCEPT !.status = "Rejected"]
    \/ ResetPassword(r) /\ row = [Row(r) EXCEPT !.password = r]
    \/ StoreWallet(r) /\ row = [Row(r) EXCEPT !.wallet = r]
    \/ MarkMember(r) /\ row = [Row(r) EXCEPT !.onchain = @ \/ Registered(r)]
    \/ AddToBalance(r) /\ row = [Row(r) EXCEPT !.balance = Incremented(r)]

\* The steps of a request that read its member's row or its lists.
Reads(r) ==
    \/ Find(r) \/ ReadMember(r) \/ ListMembers(r) \/ NextMember(r)
    \/ ReadGroup(r) \/ NextJoin(r)

\* All its others: from one position to another.
Moves(r) ==
    \/ AppendAudit(r) \/ ReadWallet(r) \/ RegisterMember(r) \/ RegisterGroup(r)
    \/ MarkGroup(r) \/ JoinGroup(r) \/ Joined(r) \/ BootstrapDone(r) \/ Reply(r)
    \/ InsertSaving(r) \/ ThrowSaving(r) \/ AnchorSaving(r) \/ StoreHash(r)
    \/ Primed(r) \/ Unheard(r) \/ ReadCache(r) \/ StoreSnapshot(r)
    \/ Tick(r) \/ CountMembers(r) \/ FoldMembers(r) \/ Stamp(r)
    \/ SendQuestion(r) \/ Mount(r) \/ ShowAnswer(r)

\* Steps in which no request moves.
Outside ==
    \/ \E r \in Served : NoReceipt(r) \/ ShowError(r)
    \/ \E role \in Roles : Mine(role)
    \/ \E place \in {"redis", "memory"} : Expire(place)
    \/ LeaveTab
    \/ Crash
    \/ UNCHANGED vars

\* Every step is of one of the four kinds.
LEMMA Kinds ==
  ASSUME [Next]_allVars
  PROVE  \/ \E r \in Served : \/ \E row : Writes(r, row)
                              \/ Reads(r) \/ Moves(r)
         \/ Outside
<1>1. CASE UNCHANGED allVars
  BY <1>1 DEF allVars, Outside
<1>2. CASE Next
  <2>1. CASE \E r \in Served : Serve(r)
    BY <2>1 DEF Serve, KycStep, SavingsStep, Writes, Reads, Moves
  <2>2. CASE \E r \in Served : Browser(r) \/ Ends(r)
    BY <2>2 DEF Browser, Ends, Moves, Outside
  <2>3. CASE Outside
    BY <2>3
  <2>4. QED
    BY <1>2, <2>1, <2>2, <2>3 DEF Next, Outside, Idle
<1>3. QED
  BY <1>1, <1>2

\* What a write is of: a row of the table, at the request's member.
LEMMA Written ==
  ASSUME Types, NEW r \in Served, NEW row, Writes(r, row)
  PROVE  row \in PersonRow /\ Update(r, row) /\ UNCHANGED <<seen, who, todo>>
<1>1. Row(r) \in PersonRow /\ r \in Passwords
  BY RowType, Jobs DEF Types, Passwords
<1>u. Update(r, row) /\ UNCHANGED <<seen, who, todo>>
  BY DEF Writes, reads, SubmitKyc, Approve, Reject, ResetPassword, StoreWallet,
         MarkMember, AddToBalance
<1> SUFFICES row \in PersonRow
  BY <1>u
<1>2. NoRow \in PersonRow /\ [NoRow EXCEPT !.status = "Requested"] \in PersonRow
  <2>1. NoRow \in PersonRow
    BY DEF NoRow, PersonRow, Statuses, Passwords
  <2>2. QED
    BY <2>1 DEF PersonRow, Statuses
<1>3. CASE row = IF Row(r) = NoRow THEN [NoRow EXCEPT !.status = "Requested"] ELSE Row(r)
  BY <1>1, <1>2, <1>3
<1>4. CASE row = [Row(r) EXCEPT !.status = "Approved",
                                !.password = IF Issues(r) THEN r ELSE @]
  BY <1>1, <1>4 DEF PersonRow, Statuses
<1>5. CASE row = [Row(r) EXCEPT !.status = "Rejected"]
  BY <1>1, <1>5 DEF PersonRow, Statuses
<1>6. CASE row = [Row(r) EXCEPT !.password = r] \/ row = [Row(r) EXCEPT !.wallet = r]
  BY <1>1, <1>6 DEF PersonRow
<1>7. CASE row = [Row(r) EXCEPT !.onchain = @ \/ Registered(r)]
  <2>1. (Row(r).onchain \/ Registered(r)) \in BOOLEAN
    OBVIOUS
  <2>2. QED
    BY <1>1, <1>7, <2>1 DEF PersonRow
<1>8. CASE row = [Row(r) EXCEPT !.balance = Incremented(r)]
  <2>1. Incremented(r) \in Nat
    BY <1>1, Jobs DEF Types, Incremented, Nominal, PersonRow
  <2>2. QED
    BY <1>1, <1>8, <2>1 DEF PersonRow
<1>9. QED
  BY <1>3, <1>4, <1>5, <1>6, <1>7, <1>8 DEF Writes

\* A request that writes or moves is at one position and goes to another.
Stages == {"start", "found", "approved", "generate", "walleted", "register",
           "registering", "members", "group", "grouping", "joins", "join",
           "joining", "audit", "reply", "inserted", "added", "anchoring",
           "asked", "answered", "count", "fold", "stamp", "store",
           "done", "threw", "refused"}

LEMMA Stepped ==
  ASSUME Types, NEW r \in Served, (\E row : Writes(r, row)) \/ Reads(r) \/ Moves(r)
  PROVE  \E from, to \in Stages : Step(r, from, to)
<1>1. CASE \E row : Writes(r, row)
  BY <1>1 DEF Writes, SubmitKyc, Approve, Reject, ResetPassword, StoreWallet,
              MarkMember, AddToBalance, After, Stages
<1>2. CASE Reads(r)
  BY <1>2 DEF Reads, Find, ReadMember, ListMembers, NextMember, ReadGroup, NextJoin,
              After, Stages
<1>3. CASE Moves(r)
  BY <1>3, ZenonT(60) DEF Moves, AppendAudit, ReadWallet, RegisterMember, RegisterGroup,
              MarkGroup, JoinGroup, Joined, BootstrapDone, Reply, InsertSaving,
              ThrowSaving, AnchorSaving, StoreHash, Primed, Unheard, ReadCache,
              StoreSnapshot, Tick, CountMembers, FoldMembers, Stamp, SendQuestion,
              Mount, ShowAnswer, Stages
<1>4. QED
  BY <1>1, <1>2, <1>3

LEMMA MovesKeep ==
  ASSUME NEW r \in Served, Moves(r)
  PROVE  UNCHANGED <<members, seen, who, todo>>
BY DEF Moves, people, reads, AppendAudit, ReadWallet, RegisterMember, RegisterGroup,
       MarkGroup, JoinGroup, Joined, BootstrapDone, Reply, InsertSaving,
       ThrowSaving, AnchorSaving, StoreHash, Primed, Unheard, ReadCache,
       StoreSnapshot, Tick, CountMembers, FoldMembers, Stamp, SendQuestion,
       Mount, ShowAnswer, Submit

LEMMA OutsideKeeps == Types /\ Outside => Untouched /\ running' \subseteq running /\ handed' = handed
BY DEF Outside, NoReceipt, ShowError, Mine, Expire, LeaveTab, Crash, Untouched, people, reads,
       fixed, vars

\* What a request reads is a row of the table, or a list of its members.
LEMMA ReadTypes ==
  ASSUME Types, NEW r \in Served, Reads(r)
  PROVE  /\ members' = members
         /\ seen' \in [Requests -> PersonRow]
         /\ DOMAIN who' = Requests /\ \A s \in Served : who'[s] \in Members
         /\ todo' \in [Requests -> SUBSET Members]
<1>1. Row(r) \in PersonRow /\ r \in Requests
  BY RowType, Jobs DEF Types
<1>2. CASE Find(r)
  BY <1>1, <1>2 DEF Find, Types, people
<1>3. CASE ReadMember(r)
  <2>1. [seen[r] EXCEPT !.wallet = Row(r).wallet] \in PersonRow
    BY <1>1 DEF Types, PersonRow
  <2>2. QED
    BY <1>1, <1>3, <2>1 DEF ReadMember, Types, people
<1>4. CASE ListMembers(r)
  BY <1>1, <1>4 DEF ListMembers, Types, people
<1>5. CASE NextMember(r) \/ NextJoin(r)
  <2>1. PICK m \in todo[r] : /\ todo' = [todo EXCEPT ![r] = @ \ {m}]
                             /\ who' = [who EXCEPT ![r] = m]
                             /\ UNCHANGED <<members, seen>>
    BY <1>5 DEF NextMember, NextJoin, people
  <2>2. m \in Members /\ todo[r] \ {m} \in SUBSET Members
    BY <1>1, <2>1 DEF Types
  <2>3. QED
    BY <1>1, <2>1, <2>2 DEF Types
<1>6. CASE ReadGroup(r)
  <2>1. {m \in Others : members[m] # NoRow} \in SUBSET Members
    BY BackofficeNames
  <2>2. QED
    BY <1>1, <1>6, <2>1 DEF ReadGroup, Types, people
<1>7. QED
  BY <1>2, <1>3, <1>4, <1>5, <1>6 DEF Reads

LEMMA TypesStep == Types /\ [Next]_allVars => Types'
<1> SUFFICES ASSUME Types, [Next]_allVars PROVE Types'
  OBVIOUS
<1>1. ASSUME NEW r \in Served, (\E row : Writes(r, row)) \/ Reads(r) \/ Moves(r)
      PROVE  Types'
  <2>1. PICK from, to \in Stages : Step(r, from, to)
    BY <1>1, Stepped
  <2>2. /\ sitting' \in Sittings /\ running' \subseteq Served' /\ Served' = Served
        /\ DOMAIN pc' = Requests
    BY <2>1, StepTypes
  <2>3. CASE \E row : Writes(r, row)
    <3>1. PICK row : Writes(r, row)
      BY <2>3
    <3>2. row \in PersonRow /\ Update(r, row) /\ UNCHANGED <<seen, who, todo>>
      BY <3>1, Written
    <3>3. members' \in [Members -> PersonRow]
      BY <3>2, UpdateTypes
    <3>4. QED
      BY <2>2, <3>2, <3>3 DEF Types
  <2>4. CASE Reads(r)
    BY <2>2, <2>4, ReadTypes DEF Types
  <2>5. CASE Moves(r)
    BY <2>2, <2>5, MovesKeep DEF Types
  <2>6. QED
    BY <1>1, <2>3, <2>4, <2>5
<1>2. CASE Outside
  BY <1>2, OutsideKeeps, UntouchedTypes
<1>3. QED
  BY <1>1, <1>2, Kinds

----------------------------------------------------------------------------
(* One-time passwords *)

\* The positions between a password's writing and its answer.
Live == {"approved", "generate", "walleted", "register", "registering", "audit", "reply"}

\* Whoever stored the password that counts will answer with it or has done so.
HandedOut ==
    \A m \in Members, r \in Served : members[m].password = r =>
        Answers(r) /\ (pc[r] \in Live \/ (pc[r] = "done" /\ r \in handed))

LEMMA InitHandedOut == Init => HandedOut
<1> SUFFICES ASSUME Init, NEW m \in Members, NEW r \in Served, members[m].password = r
             PROVE  FALSE
  BY DEF HandedOut
<1>1. members[m].password \in {None, Seed}
  BY DEF Init, NoRow, SeededRow
<1>2. QED
  BY <1>1, BackofficeNames, Jobs DEF Init

\* A step of another request leaves its promise alone.
LEMMA AnswersKept ==
  ASSUME NEW r \in Served, UNCHANGED sitting, seen'[r].password = seen[r].password
  PROVE  Answers(r)' = Answers(r)
BY DEF Answers, Kind, job

LEMMA HandedOutStep == Types /\ HandedOut /\ [Next]_allVars => HandedOut'
<1> SUFFICES ASSUME Types, HandedOut, [Next]_allVars,
                    NEW m \in Members, NEW r \in Served', members'[m].password = r
             PROVE  Answers(r)' /\ (pc'[r] \in Live \/ (pc'[r] = "done" /\ r \in handed'))
  BY DEF HandedOut
<1>1. ASSUME NEW s \in Served, (\E row : Writes(s, row)) \/ Reads(s) \/ Moves(s)
      PROVE  Answers(r)' /\ (pc'[r] \in Live \/ (pc'[r] = "done" /\ r \in handed'))
  <2>1. PICK from, to \in Stages : Step(s, from, to)
    BY <1>1, Stepped
  <2>2. /\ pc[s] = from /\ pc' = [pc EXCEPT ![s] = to] /\ UNCHANGED sitting
        /\ r \in Served /\ r \in Requests /\ s \in Requests /\ DOMAIN pc = Requests
    BY <2>1, Jobs DEF Step, At, Goto, fixed, Served, job, Types
  <2>3. CASE \E row : Writes(s, row)
    <3>1. PICK row : Writes(s, row)
      BY <2>3
    <3>2. /\ row \in PersonRow /\ Row(s) \in PersonRow
          /\ members' = [members EXCEPT ![who[s]] = row]
          /\ UNCHANGED <<seen, handed>>
      BY <3>1, Written, RowType
         DEF Update, Writes, SubmitKyc, Approve, Reject, ResetPassword,
             StoreWallet, MarkMember, AddToBalance
    <3>3. /\ row.password \in {Row(s).password, s}
          /\ row.password = Row(s).password \/ (Approve(s) /\ Issues(s)) \/ ResetPassword(s)
      BY <3>1, <3>2 DEF Writes, PersonRow, NoRow
    <3>4. \/ members[m].password = members'[m].password
          \/ /\ members'[m].password = s
             /\ (Approve(s) /\ Issues(s)) \/ ResetPassword(s)
      BY <3>2, <3>3 DEF Types, Row
    <3>5. CASE members[m].password = r
      <4>1. Answers(r) /\ (pc[r] \in Live \/ (pc[r] = "done" /\ r \in handed))
        BY <2>2, <3>5 DEF HandedOut
      <4>2. r = s => StoreWallet(s) \/ MarkMember(s)
        BY <2>2, <3>1, <4>1 DEF Writes, Live, SubmitKyc, Approve, Reject, ResetPassword,
                       AddToBalance, Step, At
      <4>3. r = s => pc'[r] \in Live
        BY <2>2, <4>1, <4>2 DEF StoreWallet, MarkMember, Step, Goto, After, Answers, Live
      <4>4. QED
        BY <2>2, <3>2, <4>1, <4>3, AnswersKept
    <3>6. CASE members[m].password # r
      <4>1. r = s /\ ((Approve(s) /\ Issues(s)) \/ ResetPassword(s))
        BY <3>4, <3>6
      <4>2. Answers(r) /\ pc'[r] \in Live
        BY <2>2, <4>1 DEF Approve, ResetPassword, Issues, Answers, Kind, Live, Step, Goto
      <4>3. QED
        BY <2>2, <3>2, <4>2, AnswersKept
    <3>7. QED
      BY <3>5, <3>6
  <2>4. CASE Reads(s)
    <3>1. members' = members /\ UNCHANGED handed
      BY <2>4, ReadTypes DEF Reads, Find, ReadMember, ListMembers, NextMember, ReadGroup, NextJoin
    <3>2. Answers(r) /\ (pc[r] \in Live \/ (pc[r] = "done" /\ r \in handed))
      BY <2>2, <3>1 DEF HandedOut
    <3>3. r = s => ReadMember(s)
      BY <2>2, <2>4, <3>2 DEF Reads, Live, Find, ListMembers, NextMember, ReadGroup, NextJoin, Step, At
    <3>4. r = s => pc'[r] \in Live
      BY <2>2, <3>2, <3>3 DEF ReadMember, Step, Goto, After, Answers, Live
    <3>5. seen'[r].password = seen[r].password
      BY <2>2, <2>4, <3>3 DEF Types, PersonRow, Reads, Find, ReadMember, ListMembers,
                              NextMember, ReadGroup, NextJoin
    <3>6. QED
      BY <2>2, <3>1, <3>2, <3>4, <3>5, AnswersKept
  <2>5. CASE Moves(s)
    <3>1. UNCHANGED <<members, seen>> /\ handed \subseteq handed'
      BY <2>5, MovesKeep
         DEF Moves, AppendAudit, ReadWallet, RegisterMember, RegisterGroup,
             MarkGroup, JoinGroup, Joined, BootstrapDone, Reply, InsertSaving,
             ThrowSaving, AnchorSaving, StoreHash, Primed, Unheard, ReadCache,
             StoreSnapshot, Tick, CountMembers, FoldMembers, Stamp, SendQuestion,
             Mount, ShowAnswer, Submit
    <3>2. Answers(r) /\ (pc[r] \in Live \/ (pc[r] = "done" /\ r \in handed))
      BY <2>2, <3>1 DEF HandedOut
    <3>3. r = s => AppendAudit(s) \/ ReadWallet(s) \/ RegisterMember(s) \/ Reply(s)
      BY <2>2, <2>5, <3>2
         DEF Moves, Live, RegisterGroup, MarkGroup, JoinGroup, Joined, BootstrapDone,
             InsertSaving, ThrowSaving, AnchorSaving, StoreHash, Primed, Unheard,
             ReadCache, StoreSnapshot, Tick, CountMembers, FoldMembers, Stamp,
             SendQuestion, Mount, ShowAnswer, Step, At
    <3>4. r = s => pc'[r] \in Live \/ (pc'[r] = "done" /\ r \in handed')
      BY <2>2, <3>2, <3>3 DEF AppendAudit, ReadWallet, RegisterMember, Reply, Step, Goto, Live
    <3>5. QED
      BY <2>2, <3>1, <3>2, <3>4, AnswersKept
  <2>6. QED
    BY <1>1, <2>3, <2>4, <2>5
<1>2. CASE Outside
  <2>1. Untouched /\ handed' = handed /\ r \in Served
    BY <1>2, OutsideKeeps DEF Untouched, Served, job
  <2>2. Answers(r)' = Answers(r)
    BY <2>1, AnswersKept DEF Untouched
  <2>3. QED
    BY <2>1, <2>2 DEF Untouched, HandedOut
<1>3. QED
  BY <1>1, <1>2, Kinds

\* However approvals and resets of a member overlap, and whatever the chain
\* does: the request whose password is stored has answered with it or still will.
THEOREM PasswordsCorrect == Spec => []PasswordInHand
<1>1. Init => Types /\ HandedOut
  BY InitTypes, InitHandedOut
<1>2. Types /\ HandedOut /\ [Next]_allVars => (Types /\ HandedOut)'
  BY TypesStep, HandedOutStep
<1>3. Types /\ HandedOut => PasswordInHand
  BY DEF Types, HandedOut, PasswordInHand, Live, Ended
<1>4. QED
  BY <1>1, <1>2, <1>3, PTL DEF Spec, AllInit

----------------------------------------------------------------------------
(* The assistant's snapshots *)

IsSnapshot(snapshot) ==
    /\ DOMAIN snapshot = {"at", "total", "byStatus", "savings"}
    /\ snapshot.total \in Nat /\ snapshot.byStatus \in Nat

Agrees(snapshot) == IsSnapshot(snapshot) /\ snapshot.total <= snapshot.byStatus

\* A snapshot's total is not ahead of the table while the breakdown is still to
\* come, and not ahead of the breakdown from then on.
Counted ==
    /\ DOMAIN cache = {"redis", "memory"} /\ \A place \in DOMAIN cache : Agrees(cache[place])
    /\ DOMAIN draft = Requests
    /\ \A r \in Requests :
          /\ IsSnapshot(draft[r])
          /\ pc[r] = "fold" => draft[r].total <= MembersTotal
          /\ pc[r] \in {"stamp", "store"} => draft[r].total <= draft[r].byStatus

LEMMA TotalType == MembersTotal \in Nat
<1>1. IsFiniteSet({m \in Members : members[m] # NoRow})
  BY BackofficeNames, FS_Subset
<1>2. QED
  BY <1>1, FS_CardinalityType DEF MembersTotal

\* No step takes a member out of the table.
LEMMA MembersStay ==
  ASSUME Types, [Next]_allVars, NEW m \in Members, members[m] # NoRow
  PROVE  members'[m] # NoRow
<1>1. ASSUME NEW r \in Served, NEW row, Writes(r, row)
      PROVE  members'[m] # NoRow
  <2>1. row \in PersonRow /\ members' = [members EXCEPT ![who[r]] = row]
        /\ Row(r) \in PersonRow /\ r \in Requests
    BY <1>1, Written, RowType, Jobs DEF Update, Types
  <2>2. CASE who[r] = m
    <3>1. Row(r) # NoRow /\ Row(r) = members[m] /\ members'[m] = row
      BY <2>1, <2>2 DEF Row, Types
    <3>2. CASE row.status \in {"Approved", "Rejected"}
      BY <3>1, <3>2, BackofficeNames DEF NoRow
    <3>3. CASE row = Row(r)
      BY <3>1, <3>3
    <3>4. CASE \/ row = [Row(r) EXCEPT !.password = r]
               \/ row = [Row(r) EXCEPT !.wallet = r]
      BY <2>1, <3>1, <3>4, BackofficeNames DEF NoRow, PersonRow
    <3>5. CASE row = [Row(r) EXCEPT !.onchain = @ \/ Registered(r)]
      <4>1. row.onchain \in BOOLEAN /\ (Row(r).onchain => row.onchain)
        BY <2>1, <3>5 DEF PersonRow
      <4>2. row = NoRow => Row(r) = NoRow
        BY <2>1, <3>5, <4>1 DEF NoRow, PersonRow
      <4>3. QED
        BY <3>1, <4>2
    <3>6. CASE row = [Row(r) EXCEPT !.balance = Incremented(r)]
      <4>1. Incremented(r) \in Nat /\ (Incremented(r) = 0 => Row(r).balance = 0)
        BY <2>1, Jobs DEF Types, Incremented, Nominal, PersonRow
      <4>2. row = NoRow => Row(r) = NoRow
        BY <2>1, <3>6, <4>1 DEF NoRow, PersonRow
      <4>3. QED
        BY <3>1, <4>2
    <3>7. QED
      BY <1>1, <2>1, <3>1, <3>2, <3>3, <3>4, <3>5, <3>6 DEF Writes, PersonRow
  <2>3. CASE who[r] # m
    BY <2>1, <2>3 DEF Types
  <2>4. QED
    BY <2>2, <2>3
<1>2. ASSUME NEW r \in Served, Reads(r) \/ Moves(r)
      PROVE  members'[m] # NoRow
  BY <1>2, ReadTypes, MovesKeep
<1>3. CASE Outside
  BY <1>3, OutsideKeeps DEF Untouched
<1>4. QED
  BY <1>1, <1>2, <1>3, Kinds

LEMMA TotalGrows ==
  ASSUME Types, [Next]_allVars
  PROVE  MembersTotal' \in Nat /\ MembersTotal <= MembersTotal'
<1> DEFINE now == {m \in Members : members[m] # NoRow}
           next == {m \in Members : members'[m] # NoRow}
<1>1. now \subseteq next /\ IsFiniteSet(next)
  <2>1. now \subseteq next
    BY MembersStay
  <2>2. QED
    BY <2>1, BackofficeNames, FS_Subset
<1>2. Cardinality(now) <= Cardinality(next) /\ Cardinality(next) \in Nat
  BY <1>1, FS_Subset, FS_CardinalityType
<1>3. MembersTotal = Cardinality(now) /\ MembersTotal' = Cardinality(next)
  BY DEF MembersTotal, NoRow
<1>4. QED
  BY <1>2, <1>3

LEMMA InitCounted == Init => Counted
<1> SUFFICES ASSUME Init PROVE Counted
  OBVIOUS
<1>1. Agrees(NoSnapshot)
  BY DEF Agrees, IsSnapshot, NoSnapshot
<1>2. cache = [redis |-> NoSnapshot, memory |-> NoSnapshot]
      /\ draft = [r \in Requests |-> NoSnapshot] /\ pc = [r \in Requests |-> "start"]
  BY DEF Init
<1>3. QED
  BY <1>1, <1>2 DEF Counted, Agrees

\* The steps that touch the cache or a snapshot that is being built.
Builds(r) ==
    \/ ReadCache(r) \/ StoreSnapshot(r) \/ CountMembers(r) \/ FoldMembers(r) \/ Stamp(r)

LEMMA CountedStep == Types /\ Counted /\ [Next]_allVars => Counted'
<1> SUFFICES ASSUME Types, Counted, [Next]_allVars PROVE Counted'
  OBVIOUS
<1> USE DEF IsSnapshot
<1>0. MembersTotal \in Nat /\ MembersTotal' \in Nat /\ MembersTotal <= MembersTotal'
  BY TotalType, TotalGrows
<1>1. ASSUME NEW s \in Served, (\E row : Writes(s, row)) \/ Reads(s) \/ Moves(s)
      PROVE  Counted'
  <2>1. PICK from, to \in Stages : Step(s, from, to)
    BY <1>1, Stepped
  <2>2. /\ pc[s] = from /\ pc' = [pc EXCEPT ![s] = to]
        /\ s \in Requests /\ DOMAIN pc = Requests
    BY <2>1, Jobs DEF Step, At, Goto, Types
  <2>3. CASE ~Builds(s)
    <3>1. UNCHANGED <<cache, draft>>
      BY <1>1, <2>3
         DEF Builds, Writes, Reads, Moves, assistant, SubmitKyc, Approve, Reject,
             ResetPassword, StoreWallet, MarkMember, AddToBalance, Find, ReadMember,
             ListMembers, NextMember, ReadGroup, NextJoin, AppendAudit, ReadWallet,
             RegisterMember, RegisterGroup, MarkGroup, JoinGroup, Joined,
             BootstrapDone, Reply, InsertSaving, ThrowSaving, AnchorSaving, StoreHash,
             Primed, Unheard, Tick, SendQuestion, Mount, ShowAnswer, Submit, Turn
    <3>2. pc'[s] \notin {"fold", "stamp", "store"}
      BY <1>1, <2>2, <2>3
         DEF Builds, Writes, Reads, Moves, SubmitKyc, Approve, Reject,
             ResetPassword, StoreWallet, MarkMember, AddToBalance, Find, ReadMember,
             ListMembers, NextMember, ReadGroup, NextJoin, AppendAudit, ReadWallet,
             RegisterMember, RegisterGroup, MarkGroup, JoinGroup, Joined,
             BootstrapDone, Reply, InsertSaving, ThrowSaving, AnchorSaving, StoreHash,
             Primed, Unheard, Tick, SendQuestion, Mount, ShowAnswer, Step, Goto, After
    <3>3. QED
      BY <1>0, <2>2, <3>1, <3>2 DEF Counted, Agrees
  <2>4. CASE ReadCache(s)
    <3>1. PICK place \in {"redis", "memory"} : draft' = [draft EXCEPT ![s] = cache[place]]
      BY <2>4 DEF ReadCache, Hold
    <3>2. UNCHANGED cache /\ pc'[s] \in {"count", "answered"}
      BY <2>2, <2>4 DEF ReadCache, Step, Goto
    <3>3. IsSnapshot(cache[place])
      BY DEF Counted, Agrees
    <3>4. DOMAIN draft' = Requests /\ \A r \in Requests : r # s => draft'[r] = draft[r]
      BY <3>1 DEF Counted
    <3>5. draft'[s] = cache[place]
      BY <2>2, <3>1 DEF Counted
    <3>6. QED
      BY <1>0, <2>2, <3>2, <3>3, <3>4, <3>5, SMTT(40) DEF Counted, Agrees
  <2>5. CASE StoreSnapshot(s)
    <3>1. PICK place \in {"redis", "memory"} : cache' = [cache EXCEPT ![place] = draft[s]]
      BY <2>5 DEF StoreSnapshot
    <3>2. /\ UNCHANGED draft /\ pc[s] = "store" /\ pc'[s] \in {"done", "answered"}
      BY <2>2, <2>5 DEF StoreSnapshot, Step, Goto, At
    <3>3. Agrees(draft[s])
      BY <2>2, <3>2 DEF Counted, Agrees
    <3>4. QED
      BY <1>0, <2>2, <3>1, <3>2, <3>3 DEF Counted
  <2>6. CASE CountMembers(s)
    <3>1. /\ draft' = [draft EXCEPT ![s] = [draft[s] EXCEPT !["total"] = MembersTotal]]
          /\ UNCHANGED cache /\ pc'[s] = "fold" /\ UNCHANGED members
      BY <2>2, <2>6 DEF CountMembers, Hold, Queries, Step, Goto, people
    <3>2. MembersTotal' = MembersTotal
      BY <3>1 DEF MembersTotal, NoRow
    <3>3. IsSnapshot([draft[s] EXCEPT !["total"] = MembersTotal])
      BY <1>0, <2>2 DEF Counted
    <3>4. QED
      BY <1>0, <2>2, <3>1, <3>2, <3>3 DEF Counted, Agrees
  <2>7. CASE FoldMembers(s)
    <3>1. /\ draft' = [draft EXCEPT ![s] =
                  [draft[s] EXCEPT !["byStatus"] = MembersTotal, !.savings = SavingsTotal]]
          /\ UNCHANGED cache /\ pc[s] = "fold" /\ pc'[s] = "stamp"
      BY <2>2, <2>7 DEF FoldMembers, Hold, Queries, Step, Goto, At
    <3>2. IsSnapshot(draft[s]) /\ draft[s].total <= MembersTotal
      BY <2>2, <3>1 DEF Counted
    <3>3. /\ IsSnapshot(draft'[s])
          /\ draft'[s].total = draft[s].total /\ draft'[s].byStatus = MembersTotal
      BY <1>0, <2>2, <3>1, <3>2 DEF Counted
    <3>4. DOMAIN draft' = Requests /\ \A r \in Requests : r # s => draft'[r] = draft[r]
      BY <3>1 DEF Counted
    <3>5. pc'[s] = "stamp" /\ UNCHANGED cache /\ draft'[s].total <= draft'[s].byStatus
      BY <3>1, <3>2, <3>3
    <3>6. QED
      BY <1>0, <2>2, <3>3, <3>4, <3>5 DEF Counted, Agrees
  <2>8. CASE Stamp(s)
    <3>1. /\ draft' = [draft EXCEPT ![s] = [draft[s] EXCEPT !.at = clock + 1]]
          /\ UNCHANGED cache /\ pc[s] = "stamp" /\ pc'[s] = "store"
      BY <2>2, <2>8 DEF Stamp, Hold, Step, Goto, At
    <3>2. IsSnapshot(draft[s]) /\ draft[s].total <= draft[s].byStatus
      BY <2>2, <3>1 DEF Counted
    <3>3. /\ IsSnapshot(draft'[s])
          /\ draft'[s].total = draft[s].total /\ draft'[s].byStatus = draft[s].byStatus
      BY <2>2, <3>1, <3>2 DEF Counted
    <3>4. QED
      BY <1>0, <2>2, <3>1, <3>2, <3>3 DEF Counted, Agrees
  <2>9. QED
    BY <2>3, <2>4, <2>5, <2>6, <2>7, <2>8 DEF Builds
<1>2. CASE Outside
  <2>1. UNCHANGED <<pc, draft>>
    BY <1>2, OutsideKeeps
       DEF Outside, Untouched, NoReceipt, ShowError, Mine, Expire, LeaveTab, Crash, vars, assistant
  <2>2. \/ UNCHANGED cache
        \/ \E place \in {"redis", "memory"} : cache' = [cache EXCEPT ![place] = NoSnapshot]
    BY <1>2 DEF Outside, NoReceipt, ShowError, Mine, Expire, LeaveTab, Crash, vars, assistant
  <2>3. Agrees(NoSnapshot)
    BY DEF Agrees, NoSnapshot
  <2>4. DOMAIN cache' = {"redis", "memory"} /\ \A place \in DOMAIN cache' : Agrees(cache'[place])
    BY <2>2, <2>3 DEF Counted
  <2>5. QED
    BY <1>0, <2>1, <2>4 DEF Counted
<1>3. QED
  BY <1>1, <1>2, Kinds

\* Whichever requests write between the queries of a snapshot, in redis or in
\* memory: the breakdown never has fewer members than the total.
THEOREM SnapshotsCorrect == Spec => []NoMemberUncounted
<1>1. Init => Types /\ Counted
  BY InitTypes, InitCounted
<1>2. Types /\ Counted /\ [Next]_allVars => (Types /\ Counted)'
  BY TypesStep, CountedStep
<1>3. Counted => NoMemberUncounted
  BY DEF Counted, Agrees, NoMemberUncounted
<1>4. QED
  BY <1>1, <1>2, <1>3, PTL DEF Spec, AllInit

----------------------------------------------------------------------------
(* The chat *)

Turns == [role : {"user", "model"}, of : Requests]

Panels == [shown : BOOLEAN, history : Seq(Turns), busy : BOOLEAN,
           next : [Requests -> Seq(Turns)], meta : Requests \cup {None},
           first : Requests \cup {None}]

\* At most one call is under way, sent with all the turns there are.
Conversation ==
    /\ chat \in Panels
    /\ \A r \in Requests : Waiting(r) =>
          /\ chat.busy /\ chat.next[r] = chat.history
          /\ \A s \in Requests : Waiting(s) => s = r

\* A panel that is closed or just opened: no turn, and nobody waits for an answer.
LEMMA FreshPanels ==
  ASSUME NEW r \in Requests \cup {None}, NEW panel \in {NoPanel, NewPanel(r)}
  PROVE  panel \in Panels /\ \A s \in Requests : panel.next[s] = <<>>
<1>1. <<>> \in Seq(Turns)
  OBVIOUS
<1>2. NoPanel \in Panels
  <2>1. [s \in Requests |-> <<>>] \in [Requests -> Seq(Turns)]
    BY <1>1
  <2>2. QED
    BY <1>1, <2>1 DEF NoPanel, Panels
<1>3. NewPanel(r) \in Panels
  BY <1>2 DEF NewPanel, Panels
<1>4. \A s \in Requests : NoPanel.next[s] = <<>> /\ NewPanel(r).next[s] = <<>>
  BY DEF NoPanel, NewPanel
<1>5. QED
  BY <1>2, <1>3, <1>4

LEMMA InitConversation == Init => Conversation
<1> SUFFICES ASSUME Init PROVE Conversation
  OBVIOUS
<1>1. chat = NoPanel \/ chat = NewPanel(None)
  BY DEF Init
<1>2. chat \in Panels /\ \A s \in Requests : chat.next[s] = <<>>
  BY <1>1, FreshPanels
<1>3. QED
  BY <1>2 DEF Conversation, Waiting

\* The turns there are, and a new one.
LEMMA Appended ==
  ASSUME NEW history \in Seq(Turns), NEW turn \in Turns
  PROVE  /\ Append(history, turn) \in Seq(Turns)
         /\ Append(history, turn) # <<>>
         /\ SubSeq(Append(history, turn), 1, Len(history)) = history
         /\ SubSeq(history, 1, Len(history)) = history
OBVIOUS

\* What a step makes of the turns.
LEMMA ChatSteps ==
  ASSUME Types, [Next]_allVars
  PROVE  \/ UNCHANGED chat
         \/ LeaveTab
         \/ \E r \in Served : \/ SendQuestion(r) \/ Mount(r)
                              \/ Primed(r)
                              \/ ShowAnswer(r) \/ ShowError(r)
<1>1. ASSUME NEW r \in Served, (\E row : Writes(r, row)) \/ Reads(r) \/ Moves(r)
      PROVE  UNCHANGED chat \/ SendQuestion(r) \/ Mount(r) \/ Primed(r) \/ ShowAnswer(r)
  BY <1>1
     DEF Writes, Reads, Moves, assistant, SubmitKyc, Approve, Reject,
         ResetPassword, StoreWallet, MarkMember, AddToBalance, Find, ReadMember,
         ListMembers, NextMember, ReadGroup, NextJoin, AppendAudit, ReadWallet,
         RegisterMember, RegisterGroup, MarkGroup, JoinGroup, Joined,
         BootstrapDone, Reply, InsertSaving, ThrowSaving, AnchorSaving, StoreHash,
         Unheard, Tick, Submit, ReadCache, StoreSnapshot, CountMembers,
         FoldMembers, Stamp
<1>2. CASE Outside
  BY <1>2 DEF Outside, NoReceipt, Mine, Expire, LeaveTab, Crash, vars, assistant
<1>3. QED
  BY <1>1, <1>2, Kinds

LEMMA ConversationStep ==
  ASSUME Types, Conversation, [Next]_allVars
  PROVE  /\ Conversation'
         /\ chat.shown /\ chat'.shown =>
               SubSeq(chat'.history, 1, Len(chat.history)) = chat.history
<1> DEFINE Goal == /\ Conversation'
                   /\ chat.shown /\ chat'.shown =>
                         SubSeq(chat'.history, 1, Len(chat.history)) = chat.history
<1> SUFFICES Goal
  OBVIOUS
<1>1. chat.history \in Seq(Turns)
  BY DEF Conversation, Panels
<1>2. SubSeq(chat.history, 1, Len(chat.history)) = chat.history
  BY <1>1
<1>3. CASE UNCHANGED chat
  BY <1>2, <1>3 DEF Conversation, Waiting
<1>4. ASSUME NEW r \in Served, SendQuestion(r)
      PROVE  Goal
  <2> DEFINE next == Append(chat.history, [role |-> "user", of |-> r])
  <2>1. r \in Requests
    BY Jobs DEF Types
  <2>2. /\ next \in Seq(Turns) /\ next # <<>>
        /\ SubSeq(next, 1, Len(chat.history)) = chat.history
    BY <1>1, <2>1, Appended DEF Turns
  <2>3. /\ chat' = [chat EXCEPT !.history = next, !.busy = TRUE, !.next[r] = next]
        /\ ~chat.busy
    BY <1>4 DEF SendQuestion, CanSend
  <2> HIDE DEF next
  <2>4. \A s \in Requests : chat.next[s] = <<>>
    BY <2>3 DEF Conversation, Waiting
  <2>5. /\ chat'.history = next /\ chat'.busy = TRUE
        /\ chat'.next = [chat.next EXCEPT ![r] = next] /\ chat'.meta = chat.meta
        /\ chat' \in Panels
    BY <2>1, <2>2, <2>3 DEF Conversation, Panels
  <2>6. \A s \in Requests : chat'.next[s] = IF s = r THEN next ELSE <<>>
    BY <2>1, <2>4, <2>5 DEF Conversation, Panels
  <2>7. QED
    BY <2>2, <2>5, <2>6 DEF Conversation, Waiting
<1>5. ASSUME NEW r \in Served, Primed(r)
      PROVE  Goal
  <2>1. r \in Requests
    BY Jobs DEF Types
  <2>2. chat' = [chat EXCEPT !.meta = FirstOnly(r)]
        /\ FirstOnly(r) \in Requests \cup {None}
    BY <1>5, <2>1 DEF Primed, FirstOnly, Conversation, Panels
  <2>3. QED
    BY <1>2, <2>2 DEF Conversation, Panels, Waiting
<1>6. ASSUME NEW r \in Served, ShowAnswer(r) \/ ShowError(r)
      PROVE  Goal
  <2>1. r \in Requests /\ Waiting(r)
    BY <1>6, Jobs DEF Types, ShowAnswer, ShowError
  <2> DEFINE history == Append(chat.next[r], [role |-> "model", of |-> r])
  <2>2. chat.next[r] = chat.history
    BY <2>1 DEF Conversation
  <2>3. /\ history \in Seq(Turns)
        /\ SubSeq(history, 1, Len(chat.history)) = chat.history
    BY <1>1, <2>1, <2>2, Appended DEF Turns
  <2>4. PICK busy \in BOOLEAN, meta \in Requests \cup {None} :
           chat' = [chat EXCEPT !.history = history, !.busy = busy,
                                !.meta = meta, !.next[r] = <<>>]
    BY <1>6, <2>1 DEF ShowAnswer, ShowError, Turn, Released, Conversation, Panels
  <2> HIDE DEF history
  <2>5. /\ chat'.history = history
        /\ chat'.next = [chat.next EXCEPT ![r] = <<>>]
        /\ chat' \in Panels
    <3>1. <<>> \in Seq(Turns)
      OBVIOUS
    <3>2. QED
      BY <2>1, <2>3, <2>4, <3>1 DEF Conversation, Panels
  <2>6. \A s \in Requests : chat'.next[s] = <<>>
    BY <2>1, <2>5 DEF Conversation, Panels, Waiting
  <2>7. QED
    BY <2>3, <2>5, <2>6 DEF Conversation, Waiting
<1>7. ASSUME NEW r \in Served, Mount(r)
      PROVE  Goal
  <2>1. r \in Requests
    BY Jobs DEF Types
  <2>2. chat' = NewPanel(r) /\ ~chat.shown
    BY <1>7 DEF Mount
  <2>3. chat' \in Panels /\ \A s \in Requests : chat'.next[s] = <<>>
    BY <2>1, <2>2, FreshPanels
  <2>4. QED
    BY <2>2, <2>3 DEF Conversation, Waiting
<1>8. CASE LeaveTab
  <2>1. chat' = NoPanel
    BY <1>8 DEF LeaveTab
  <2>2. ~chat'.shown
    BY <2>1 DEF NoPanel
  <2>3. chat' \in Panels /\ \A s \in Requests : chat'.next[s] = <<>>
    BY <2>1, <2>2, FreshPanels
  <2>4. QED
    BY <2>2, <2>3 DEF Conversation, Waiting
<1>9. QED
  BY <1>3, <1>4, <1>5, <1>6, <1>7, <1>8, ChatSteps

\* However calls fail, end late or are cut off by a restart, and whenever the
\* panel is left and opened again with calls under way: while it is open, no turn
\* of its conversation is lost.
THEOREM TurnsCorrect == Spec => NoTurnLost
<1>1. Init => Types /\ Conversation
  BY InitTypes, InitConversation
<1>2. Types /\ Conversation /\ [Next]_allVars => (Types /\ Conversation)'
  BY TypesStep, ConversationStep
<1>3. Types /\ Conversation /\ [Next]_allVars =>
         [chat.shown /\ chat'.shown =>
             SubSeq(chat'.history, 1, Len(chat.history)) = chat.history]_allVars
  BY ConversationStep
<1>4. QED
  BY <1>1, <1>2, <1>3, PTL DEF Spec, AllInit, NoTurnLost


----------------------------------------------------------------------------
(* Where a request of each kind can be *)

StagesOf ==
    [submit  |-> {"start", "done", "refused"},
     approve |-> {"start", "found", "refused", "approved", "generate", "walleted",
                  "register", "registering", "audit", "reply", "done"},
     reject  |-> {"start", "found", "refused", "audit", "reply", "done"},
     reset   |-> {"start", "found", "refused", "reply", "done"},
     sync    |-> {"start", "members", "walleted", "register", "registering", "group",
                  "grouping", "joins", "join", "joining", "reply", "done"},
     save    |-> {"start", "found", "refused", "inserted", "added", "threw",
                  "anchoring", "audit", "reply", "done"},
     prime   |-> {"start", "asked", "answered", "count", "fold", "stamp", "store", "done"},
     chat    |-> {"start", "asked", "answered", "count", "fold", "stamp", "store", "done"},
     tick    |-> {"start", "count", "fold", "stamp", "store", "done"}]

\* Each request is where its service can be, and finitely many have begun.
Placed ==
    /\ \A r \in Served : pc[r] \in StagesOf[Kind(r)]
    /\ IsFiniteSet({r \in Served : pc[r] # "start"})

LEMMA KindsOf ==
  ASSUME sitting \in Sittings, NEW r \in Served
  PROVE  Kind(r) \in {"submit", "approve", "reject", "reset", "sync",
                      "save", "prime", "chat", "tick"}
BY BackofficeSittings DEF Served, job, Range, Kind

LEMMA InitPlaced == Init => Placed
<1> SUFFICES ASSUME Init PROVE Placed
  OBVIOUS
<1>1. \A r \in Served : pc[r] = "start"
  BY Jobs DEF Init
<1>2. {r \in Served : pc[r] # "start"} = {}
  BY <1>1
<1>3. \A r \in Served : "start" \in StagesOf[Kind(r)]
  <2>1. sitting \in Sittings
    BY DEF Init
  <2>2. QED
    BY <2>1, KindsOf DEF StagesOf
<1>4. QED
  BY <1>1, <1>2, <1>3, FS_EmptySet DEF Placed

\* A step of one request, and the positions of all.
LEMMA OneMoves ==
  ASSUME Types, NEW s \in Served, NEW from, NEW to, Step(s, from, to)
  PROVE  /\ s \in Requests /\ s \in running /\ pc[s] = from
         /\ pc' = [pc EXCEPT ![s] = to] /\ pc'[s] = to
         /\ \A r \in Requests : r # s => pc'[r] = pc[r]
         /\ DOMAIN pc = Requests
         /\ UNCHANGED <<running, sitting>> /\ Served' = Served
         /\ \A r : Kind(r)' = Kind(r)
BY Jobs DEF Step, At, Goto, Types, fixed, Served, job, Kind

\* From where it is, each step takes a request to where its kind can be.
LEMMA StepPlaced ==
  ASSUME Types, NEW s \in Served, pc[s] \in StagesOf[Kind(s)],
         (\E row : Writes(s, row)) \/ Reads(s) \/ Moves(s)
  PROVE  pc'[s] \in StagesOf[Kind(s)]
<1>0. /\ Kind(s) \in {"submit", "approve", "reject", "reset", "sync",
                      "save", "prime", "chat", "tick"}
      /\ s \in DOMAIN pc
  BY KindsOf, Jobs DEF Types
<1> USE DEF Step, At, Goto
<1>1. CASE \E row : Writes(s, row)
  BY <1>0, <1>1 DEF Writes, SubmitKyc, Approve, Reject, ResetPassword, StoreWallet,
              MarkMember, AddToBalance, After, StagesOf
<1>2. CASE Reads(s)
  BY <1>0, <1>2 DEF Reads, Find, ReadMember, ListMembers, NextMember, ReadGroup, NextJoin,
              After, StagesOf
<1>3. CASE Moves(s)
  <2>1. CASE AppendAudit(s) \/ ReadWallet(s) \/ RegisterMember(s) \/ RegisterGroup(s)
             \/ MarkGroup(s) \/ JoinGroup(s) \/ Joined(s) \/ BootstrapDone(s) \/ Reply(s)
    BY <1>0, <2>1 DEF AppendAudit, ReadWallet, RegisterMember, RegisterGroup,
              MarkGroup, JoinGroup, Joined, BootstrapDone, Reply, StagesOf
  <2>2. CASE InsertSaving(s) \/ ThrowSaving(s) \/ AnchorSaving(s) \/ StoreHash(s)
    BY <1>0, <2>2 DEF InsertSaving, ThrowSaving, AnchorSaving, StoreHash, StagesOf
  <2>3. CASE Primed(s) \/ Unheard(s) \/ SendQuestion(s) \/ Mount(s) \/ ShowAnswer(s)
    <3>1. \/ Kind(s) \in {"chat", "prime"} /\ pc[s] = "start" /\ pc'[s] = "asked"
          \/ pc[s] = "answered" /\ pc'[s] = "done"
      BY <1>0, <2>3 DEF Primed, Unheard, SendQuestion, Mount, ShowAnswer
    <3>2. QED
      BY <1>0, <3>1 DEF StagesOf
  <2>4. CASE Tick(s) \/ CountMembers(s) \/ FoldMembers(s) \/ Stamp(s)
    <3>1. \/ Kind(s) = "tick" /\ pc[s] = "start" /\ pc'[s] = "count"
          \/ pc[s] = "count" /\ pc'[s] = "fold"
          \/ pc[s] = "fold" /\ pc'[s] = "stamp"
          \/ pc[s] = "stamp" /\ pc'[s] = "store"
      BY <1>0, <2>4 DEF Tick, CountMembers, FoldMembers, Stamp
    <3>2. QED
      BY <1>0, <3>1 DEF StagesOf
  <2>5. CASE ReadCache(s) \/ StoreSnapshot(s)
    <3>1. \/ pc[s] = "asked" /\ pc'[s] \in {"count", "answered"}
          \/ pc[s] = "store" /\ pc'[s] = (IF Kind(s) = "tick" THEN "done" ELSE "answered")
      BY <1>0, <2>5 DEF ReadCache, StoreSnapshot
    <3>2. QED
      BY <1>0, <3>1 DEF StagesOf
  <2>6. QED
    BY <1>3, <2>1, <2>2, <2>3, <2>4, <2>5 DEF Moves
<1>4. QED
  BY <1>1, <1>2, <1>3

LEMMA PlacedStep == Types /\ Placed /\ [Next]_allVars => Placed'
<1> SUFFICES ASSUME Types, Placed, [Next]_allVars PROVE Placed'
  OBVIOUS
<1> DEFINE begun == {r \in Served : pc[r] # "start"}
<1>1. ASSUME NEW s \in Served, (\E row : Writes(s, row)) \/ Reads(s) \/ Moves(s)
      PROVE  Placed'
  <2>1. PICK from, to \in Stages : Step(s, from, to)
    BY <1>1, Stepped
  <2>2. /\ s \in Requests /\ pc' = [pc EXCEPT ![s] = to] /\ Served' = Served
        /\ \A r \in Requests : r # s => pc'[r] = pc[r]
        /\ \A r : Kind(r)' = Kind(r)
    BY <2>1, OneMoves
  <2>3. \A r \in Served : pc'[r] \in StagesOf[Kind(r)']
    <3>1. pc'[s] \in StagesOf[Kind(s)]
      BY <1>1, StepPlaced DEF Placed
    <3>2. QED
      BY <2>2, <3>1, Jobs DEF Placed, Types
  <2>4. {r \in Served : pc'[r] # "start"} \subseteq begun \cup {s}
    BY <2>2, Jobs DEF Types
  <2>5. IsFiniteSet(begun \cup {s})
    BY FS_AddElement DEF Placed
  <2>6. IsFiniteSet({r \in Served : pc'[r] # "start"})
    BY <2>4, <2>5, FS_Subset
  <2>7. QED
    BY <2>2, <2>3, <2>6 DEF Placed
<1>2. CASE Outside
  <2>1. UNCHANGED <<pc, sitting>>
    BY <1>2, OutsideKeeps DEF Untouched
  <2>2. QED
    BY <2>1 DEF Placed, Served, Kind, job
<1>3. QED
  BY <1>1, <1>2, Kinds

----------------------------------------------------------------------------
(* Deposits and balances *)

\* Past its insert, and past its update of the balance.
Inserted == {"inserted", "added", "threw", "anchoring", "audit", "reply", "done"}
Added == Inserted \ {"inserted"}

Saves(r, stages) == Kind(r) = "save" /\ pc[r] \in stages

\* A row is of a request past its insert and has what that request was asked for;
\* every such request has one.
Filed ==
    /\ savings \subseteq [by : Served, member : Members, nominal : Nat, anchored : BOOLEAN]
    /\ \A row \in savings : /\ Saves(row.by, Inserted)
                             /\ row.member = who[row.by] /\ row.nominal = Nominal(row.by)
    /\ \A r \in Served : Saves(r, Inserted) => \E row \in savings : row.by = r

Nominals == [r \in Served |-> Nominal(r)]
SaversOf(m, stages) == {r \in Served : Saves(r, stages) /\ who[r] = m}

\* A balance is the sum of what was added to it.
Balanced == \A m \in Members : members[m].balance = Total(Nominals, SaversOf(m, Added))

\* What the steps of other services, and the others of this one, leave alone.
Unsaved ==
    /\ \A r \in Served : Kind(r) = "save" =>
          /\ who'[r] = who[r]
          /\ pc'[r] \in Inserted <=> pc[r] \in Inserted
          /\ pc'[r] \in Added <=> pc[r] \in Added
    /\ \A m \in Members : members'[m].balance = members[m].balance
    /\ UNCHANGED savings \/ \E s \in Served : Kind(s) = "save" /\ StoreHash(s)

LEMMA SaveSteps ==
  ASSUME Types, Placed, NEW s \in Served,
         (\E row : Writes(s, row)) \/ Reads(s) \/ Moves(s)
  PROVE  InsertSaving(s) \/ (Kind(s) = "save" /\ AddToBalance(s)) \/ Unsaved
<1>1. PICK from, to \in Stages : Step(s, from, to)
  BY Stepped
<1>2. /\ s \in Requests /\ pc[s] = from /\ pc'[s] = to /\ Served' = Served
      /\ \A r \in Requests : r # s => pc'[r] = pc[r]
  BY <1>1, OneMoves
<1>3. /\ Kind(s) \in {"submit", "approve", "reject", "reset", "sync",
                      "save", "prime", "chat", "tick"}
      /\ pc[s] \in StagesOf[Kind(s)]
  BY KindsOf DEF Types, Placed
<1>s. Kind(s) = "save" => pc[s] \in {"start", "found", "refused", "inserted", "added",
                                    "threw", "anchoring", "audit", "reply", "done"}
  BY <1>3 DEF StagesOf
<1>t. pc[s] \in {"inserted", "anchoring"} => Kind(s) = "save"
  BY <1>3 DEF StagesOf
<1> DEFINE Same == /\ \A r \in Served : Kind(r) = "save" => who'[r] = who[r]
                   /\ pc'[s] \in Inserted <=> pc[s] \in Inserted
                   /\ pc'[s] \in Added <=> pc[s] \in Added
<1>4. CASE \E row : Writes(s, row)
  <2>1. PICK row : Writes(s, row)
    BY <1>4
  <2>2. /\ row \in PersonRow /\ Row(s) \in PersonRow /\ UNCHANGED <<who, savings>>
        /\ members' = [members EXCEPT ![who[s]] = row]
    BY <2>1, Written, RowType
       DEF Update, Writes, SubmitKyc, Approve, Reject, ResetPassword,
           StoreWallet, MarkMember, AddToBalance, ledger
  <2>3. CASE AddToBalance(s)
    BY <1>t, <1>2, <2>3 DEF AddToBalance, Step, At
  <2>4. CASE ~AddToBalance(s)
    <3>1. row.balance = Row(s).balance
      BY <2>1, <2>2, <2>4 DEF Writes, NoRow, PersonRow
    <3>2. \A m \in Members : members'[m].balance = members[m].balance
      BY <2>2, <3>1 DEF Types, Row
    <3>3. Kind(s) # "save"
      BY <1>s, <2>1, <2>4 DEF Writes, SubmitKyc, Approve, Reject, ResetPassword,
           StoreWallet, MarkMember, Step, At
    <3>4. \A r \in Served : Kind(r) = "save" => r # s /\ r \in Requests
      BY <3>3, Jobs DEF Types
    <3>5. QED
      BY <1>2, <2>2, <3>2, <3>4 DEF Unsaved
  <2>5. QED
    BY <2>3, <2>4
<1>5. CASE Reads(s)
  <2>1. UNCHANGED <<members, savings>>
    BY <1>5, ReadTypes DEF Reads, Find, ReadMember, ListMembers, NextMember, ReadGroup,
              NextJoin, ledger
  <2>2. CASE Find(s)
    <3>1. UNCHANGED who /\ pc[s] \notin Inserted /\ pc'[s] \notin Inserted
      BY <1>2, <2>2 DEF Find, Step, At, Goto, Inserted
    <3>2. QED
      BY <1>2, <2>1, <3>1, Jobs DEF Unsaved, Types, Added
  <2>3. CASE ~Find(s)
    <3>1. Kind(s) # "save" /\ \A r \in Requests : r # s => who'[r] = who[r]
      BY <1>5, <1>s, <2>3 DEF Reads, ReadMember, ListMembers, NextMember, ReadGroup,
              NextJoin, Step, At, Types, reads
    <3>2. QED
      BY <1>2, <2>1, <3>1, Jobs DEF Unsaved, Types
  <2>4. QED
    BY <2>2, <2>3
<1>6. CASE Moves(s) /\ ~InsertSaving(s)
  <2>1. UNCHANGED <<members, who>>
    BY <1>6, MovesKeep
  <2>2. UNCHANGED savings \/ (Kind(s) = "save" /\ StoreHash(s))
    BY <1>6, <1>t
       DEF Moves, AppendAudit, ReadWallet, RegisterMember, RegisterGroup, Submit, ledger,
           MarkGroup, JoinGroup, Joined, BootstrapDone, Reply, StoreHash,
           ThrowSaving, AnchorSaving, Primed, Unheard, ReadCache,
           StoreSnapshot, Tick, CountMembers, FoldMembers, Stamp, SendQuestion,
           Mount, ShowAnswer, Step, At
  <2>3. CASE Kind(s) # "save"
    BY <1>2, <2>1, <2>2, <2>3, Jobs DEF Unsaved, Types
  <2>4. CASE Kind(s) = "save"
    <3>1. \/ pc[s] = "audit" /\ pc'[s] = "reply"
          \/ pc[s] = "reply" /\ pc'[s] = "done"
          \/ pc[s] = "added" /\ pc'[s] \in {"threw", "anchoring"}
          \/ pc[s] = "anchoring" /\ pc'[s] = "audit"
      <4>1. AppendAudit(s) \/ Reply(s) \/ ThrowSaving(s) \/ AnchorSaving(s) \/ StoreHash(s)
        BY <1>6, <1>s, <2>4
           DEF Moves, ReadWallet, RegisterMember, RegisterGroup, MarkGroup, JoinGroup,
               Joined, BootstrapDone, Primed, Unheard, ReadCache, StoreSnapshot, Tick,
               CountMembers, FoldMembers, Stamp, SendQuestion, Mount, ShowAnswer,
               Step, At
      <4>2. DOMAIN pc = Requests /\ s \in Requests
        BY <1>2 DEF Types
      <4>3. QED
        BY <4>1, <4>2 DEF AppendAudit, Reply, ThrowSaving, AnchorSaving, StoreHash,
               Step, At, Goto
    <3>2. QED
      BY <1>2, <2>1, <2>2, <2>4, <3>1, Jobs DEF Unsaved, Types, Inserted, Added
  <2>5. QED
    BY <2>3, <2>4
<1>7. QED
  BY <1>4, <1>5, <1>6

\* Any step: of a deposit, or one that leaves what is saved alone.
LEMMA SavingSteps ==
  ASSUME Types, Placed, [Next]_allVars
  PROVE  \/ \E s \in Served : InsertSaving(s) \/ (Kind(s) = "save" /\ AddToBalance(s))
         \/ Unsaved
<1>1. CASE \E s \in Served : (\E row : Writes(s, row)) \/ Reads(s) \/ Moves(s)
  BY <1>1, SaveSteps
<1>2. CASE Outside
  <2>1. UNCHANGED <<members, pc, who, savings>>
    BY <1>2, OutsideKeeps
       DEF Untouched, Outside, NoReceipt, ShowError, Mine, Expire, LeaveTab, Crash, ledger, vars
  <2>2. QED
    BY <2>1 DEF Unsaved
<1>3. QED
  BY <1>1, <1>2, Kinds

LEMMA JobsStay == Types /\ [Next]_allVars =>
                    Served' = Served /\ UNCHANGED sitting /\ \A r : Kind(r)' = Kind(r)
<1> SUFFICES ASSUME Types, [Next]_allVars PROVE UNCHANGED sitting
  BY DEF Served, Kind, job
<1>1. CASE \E s \in Served : (\E row : Writes(s, row)) \/ Reads(s) \/ Moves(s)
  BY <1>1, Stepped, OneMoves
<1>2. CASE Outside
  BY <1>2, OutsideKeeps DEF Untouched
<1>3. QED
  BY <1>1, <1>2, Kinds

LEMMA InitFiled == Init => Filed /\ Balanced
<1> SUFFICES ASSUME Init PROVE Filed /\ Balanced
  OBVIOUS
<1>1. \A r \in Served : pc[r] = "start"
  BY Jobs DEF Init
<1>2. savings = {} /\ \A m \in Members : members[m].balance = 0
  BY DEF Init, NoRow, SeededRow
<1>3. \A m \in Members : SaversOf(m, Added) = {}
  BY <1>1 DEF SaversOf, Saves, Added, Inserted
<1>4. Total(Nominals, {}) = 0
  BY FS_EmptySet DEF Total, Coins
<1>5. Filed
  BY <1>1, <1>2 DEF Filed, Saves, Inserted
<1>6. Balanced
  BY <1>2, <1>3, <1>4 DEF Balanced
<1>7. QED
  BY <1>5, <1>6

LEMMA SaversFinite ==
  ASSUME Placed, NEW m, NEW stages \in SUBSET Inserted
  PROVE  IsFiniteSet(SaversOf(m, stages))
<1>1. SaversOf(m, stages) \subseteq {r \in Served : pc[r] # "start"}
  BY DEF SaversOf, Saves, Inserted
<1>2. QED
  BY <1>1, FS_Subset DEF Placed

LEMMA NominalsType == ASSUME Types PROVE \A r \in Served : Nominals[r] \in Nat
BY Jobs DEF Types, Nominals, Nominal

LEMMA FiledStep ==
  ASSUME Types, Placed, Filed, [Next]_allVars
  PROVE  Filed'
<1>0. Served' = Served /\ (\A r : Kind(r)' = Kind(r)) /\ (\A r : Nominal(r)' = Nominal(r))
  BY JobsStay DEF Nominal, job
<1>1. ASSUME NEW s \in Served, InsertSaving(s)
      PROVE  Filed'
  <2> DEFINE row == [by |-> s, member |-> who[s], nominal |-> Nominal(s), anchored |-> FALSE]
  <2>1. /\ Kind(s) = "save" /\ pc[s] = "found" /\ pc'[s] = "inserted" /\ UNCHANGED who
        /\ \A r \in Served : r # s => pc'[r] = pc[r]
    <3>1. Step(s, "found", "inserted")
      BY <1>1 DEF InsertSaving
    <3>2. QED
      BY <1>1, <3>1, OneMoves, Jobs DEF InsertSaving, reads, Types
  <2>2. savings' = savings \cup {row}
    BY <1>1 DEF InsertSaving
  <2>3. \A old \in savings : old.by # s
    BY <2>1 DEF Filed, Saves, Inserted
  <2>4. /\ row.by = s /\ row.member = who[s] /\ row.nominal = Nominal(s)
        /\ row \in [by : Served, member : Members, nominal : Nat, anchored : BOOLEAN]
    BY Jobs DEF Types, Nominal
  <2> HIDE DEF row
  <2>5. \A r \in Served : Saves(r, Inserted)' <=> Saves(r, Inserted) \/ r = s
    BY <1>0, <2>1 DEF Saves, Inserted
  <2>6. savings' \subseteq [by : Served', member : Members, nominal : Nat, anchored : BOOLEAN]
    BY <1>0, <2>2, <2>4 DEF Filed
  <2>7. \A old \in savings' : /\ Saves(old.by, Inserted)'
                              /\ old.member = who'[old.by] /\ old.nominal = Nominal(old.by)'
    BY <1>0, <2>1, <2>2, <2>4, <2>5 DEF Filed
  <2>8. \A r \in Served' : Saves(r, Inserted)' => \E old \in savings' : old.by = r
    BY <1>0, <2>2, <2>4, <2>5 DEF Filed
  <2>9. QED
    BY <2>6, <2>7, <2>8 DEF Filed
<1>2. ASSUME NEW s \in Served, Kind(s) = "save", AddToBalance(s)
      PROVE  Filed'
  <2>1. /\ pc[s] = "inserted" /\ pc'[s] = "added" /\ UNCHANGED <<who, savings>>
        /\ \A r \in Served : r # s => pc'[r] = pc[r]
    <3>1. Step(s, "inserted", "added")
      BY <1>2 DEF AddToBalance
    <3>2. QED
      BY <1>2, <3>1, OneMoves, Jobs DEF AddToBalance, reads, Types, ledger
  <2>2. QED
    BY <1>0, <2>1 DEF Filed, Saves, Inserted
<1>3. CASE Unsaved /\ UNCHANGED savings
  BY <1>0, <1>3 DEF Unsaved, Filed, Saves
<1>4. ASSUME Unsaved, NEW s \in Served, StoreHash(s)
      PROVE  Filed'
  <2> DEFINE Marked(row) == IF row.by = s THEN [row EXCEPT !.anchored = Anchored(s)] ELSE row
  <2>1. savings' = {Marked(row) : row \in savings}
    BY <1>4 DEF StoreHash
  <2>2. ASSUME NEW row \in savings
        PROVE  /\ Marked(row).by = row.by /\ Marked(row).member = row.member
               /\ Marked(row).nominal = row.nominal
               /\ Marked(row) \in [by : Served, member : Members, nominal : Nat,
                                   anchored : BOOLEAN]
    <3>1. /\ row \in [by : Served, member : Members, nominal : Nat, anchored : BOOLEAN]
          /\ Anchored(s) \in BOOLEAN
      BY DEF Filed, Anchored, Ok
    <3>2. QED
      BY <3>1
  <2> HIDE DEF Marked
  <2>3. QED
    BY <1>0, <1>4, <2>1, <2>2 DEF Unsaved, Filed, Saves
<1>5. QED
  BY <1>1, <1>2, <1>3, <1>4, SavingSteps DEF Unsaved

LEMMA BalancedStep ==
  ASSUME Types, Placed, Balanced, [Next]_allVars
  PROVE  Balanced'
<1>0. /\ Served' = Served /\ (\A r : Kind(r)' = Kind(r)) /\ Nominals' = Nominals
  BY JobsStay DEF Nominal, Nominals, job
<1>1. ASSUME NEW s \in Served, InsertSaving(s)
      PROVE  Balanced'
  <2>1. /\ pc[s] = "found" /\ pc'[s] = "inserted" /\ UNCHANGED <<who, members>>
        /\ \A r \in Served : r # s => pc'[r] = pc[r]
    <3>1. Step(s, "found", "inserted")
      BY <1>1 DEF InsertSaving
    <3>2. QED
      BY <1>1, <3>1, OneMoves, Jobs DEF InsertSaving, reads, Types, people
  <2>2. \A m \in Members : SaversOf(m, Added)' = SaversOf(m, Added)
    BY <1>0, <2>1 DEF SaversOf, Saves, Added, Inserted
  <2>3. QED
    BY <1>0, <2>1, <2>2 DEF Balanced, Total, Coins
<1>2. ASSUME NEW s \in Served, Kind(s) = "save", AddToBalance(s)
      PROVE  Balanced'
  <2>1. /\ pc[s] = "inserted" /\ pc'[s] = "added" /\ UNCHANGED who
        /\ \A r \in Served : r # s => pc'[r] = pc[r]
    <3>1. Step(s, "inserted", "added")
      BY <1>2 DEF AddToBalance
    <3>2. QED
      BY <1>2, <3>1, OneMoves, Jobs DEF AddToBalance, reads, Types
  <2>2. members' = [members EXCEPT ![who[s]] = [Row(s) EXCEPT !.balance = Incremented(s)]]
    BY <1>2 DEF AddToBalance, Update
  <2>3. /\ who[s] \in Members /\ Row(s) = members[who[s]] /\ Row(s) \in PersonRow
    BY RowType DEF Types, Row
  <2>4. /\ members'[who[s]].balance = members[who[s]].balance + Nominals[s]
        /\ \A m \in Members : m # who[s] => members'[m] = members[m]
    BY <2>2, <2>3 DEF Types, Incremented, PersonRow, Nominals
  <2>5. \A m \in Members : m # who[s] => SaversOf(m, Added)' = SaversOf(m, Added)
    BY <1>0, <2>1 DEF SaversOf, Saves, Added, Inserted
  <2>6. /\ \A m \in Members : m = who[s] => SaversOf(m, Added)' = SaversOf(m, Added) \cup {s}
        /\ s \notin SaversOf(who[s], Added)
    BY <1>0, <1>2, <2>1 DEF SaversOf, Saves, Added, Inserted
  <2>7. Total(Nominals, SaversOf(who[s], Added) \cup {s}) =
           Total(Nominals, SaversOf(who[s], Added)) + Nominals[s]
    <3>1. IsFiniteSet(SaversOf(who[s], Added))
      BY SaversFinite DEF Added
    <3>2. \A r \in SaversOf(who[s], Added) \cup {s} : Nominals[r] \in Nat
      BY NominalsType DEF SaversOf
    <3> HIDE DEF Nominals
    <3>3. QED
      BY <2>6, <3>1, <3>2, TotalAdds
  <2>8. ASSUME NEW m \in Members
        PROVE  members'[m].balance = Total(Nominals', SaversOf(m, Added)')
    <3>1. CASE m = who[s]
      BY <1>0, <2>3, <2>4, <2>6, <2>7, <3>1 DEF Balanced
    <3>2. CASE m # who[s]
      BY <1>0, <2>4, <2>5, <3>2 DEF Balanced
    <3>3. QED
      BY <3>1, <3>2
  <2>9. QED
    BY <2>8 DEF Balanced, Total, Coins
<1>3. CASE Unsaved
  <2>1. \A m \in Members : SaversOf(m, Added)' = SaversOf(m, Added)
    BY <1>0, <1>3 DEF Unsaved, SaversOf, Saves
  <2>2. QED
    BY <1>0, <1>3, <2>1 DEF Unsaved, Balanced, Total, Coins
<1>4. QED
  BY <1>1, <1>2, <1>3, SavingSteps

\* The rows of some requests add up to what was asked for in these.
LEMMA SumOfRows ==
  ASSUME Filed, NEW rows \in SUBSET savings
  PROVE  Sum(rows) = Total(Nominals, {row.by : row \in rows})
<1>1. \A row \in rows : row.nominal = Nominals[row.by]
  BY DEF Filed, Nominals
<1>2. UNION {{row.by} \X (1 .. row.nominal) : row \in rows}
         = Coins(Nominals, {row.by : row \in rows})
  BY <1>1 DEF Coins
<1>3. QED
  BY <1>2 DEF Sum, Total

\* Members' balances and rows, whatever order the requests write in, whatever the
\* chain does to them and wherever a restart cuts them off.
THEOREM BalancesCorrect == Spec => []BalanceMatchesRows
<1>1. Init => Types /\ Placed /\ Filed /\ Balanced
  BY InitTypes, InitPlaced, InitFiled
<1>2. Types /\ Placed /\ Filed /\ Balanced /\ [Next]_allVars
         => (Types /\ Placed /\ Filed /\ Balanced)'
  BY TypesStep, PlacedStep, FiledStep, BalancedStep
<1>3. Filed /\ Balanced => BalanceMatchesRows
  <2> SUFFICES ASSUME Filed, Balanced, NEW m \in Members
               PROVE  Sum({row \in DepositsOf(m) : pc[row.by] # "inserted"}) =
                         Total(Nominals, SaversOf(m, Added))
    BY DEF Balanced, BalanceMatchesRows
  <2> DEFINE rows == {row \in DepositsOf(m) : pc[row.by] # "inserted"}
  <2>1. rows \subseteq savings
    BY DEF DepositsOf
  <2>2. {row.by : row \in rows} = SaversOf(m, Added)
    BY DEF DepositsOf, Filed, SaversOf, Saves, Added
  <2>3. QED
    BY <2>1, <2>2, SumOfRows
<1>4. QED
  BY <1>1, <1>2, <1>3, PTL DEF Spec, AllInit

----------------------------------------------------------------------------
(* The gateway and the escrow behind it *)

Calls == {"registerMember", "registerGroup", "joinGroup", "recordSavings"}
Outcomes == {"none", "failed", "sent", "success", "reverted", "pending"}
Replies == [fn : Calls \cup {"none"}, status : Outcomes]
Txs == [by : Requests, fn : Calls,
        arg : [member : Members, wallet : Passwords, nominal : Nat]]

Keys == pool["KOPERASI"]    \* what the cooperative's key has sent
Relays == pool["RELAYER"]   \* and the relayer's

\* Each key has sent what it signs for requests that are served.
Wired ==
    /\ answer \in [Requests -> Replies]
    /\ pool \in [Roles -> Seq(Txs)]
    /\ \A role \in Roles : \A i \in 1..Len(pool[role]) :
          pool[role][i].by \in Served /\ RoleFor(pool[role][i].fn) = role
    /\ registered \in [Members -> Passwords]
    /\ grouped \in BOOLEAN
    /\ minted \in [Members -> Nat]

\* The calls the requests make.
Sends(r, fn, tx) ==
    \/ /\ RegisterMember(r) /\ fn = "registerMember"
       /\ tx = [member |-> who[r], wallet |-> seen[r].wallet, nominal |-> 0]
    \/ /\ RegisterGroup(r) /\ fn = "registerGroup"
       /\ tx = [member |-> who[r], wallet |-> None, nominal |-> 0]
    \/ /\ JoinGroup(r) /\ fn = "joinGroup"
       /\ tx = [member |-> who[r], wallet |-> None, nominal |-> 0]
    \/ /\ AnchorSaving(r) /\ fn = "recordSavings"
       /\ tx = [member |-> who[r], wallet |-> None, nominal |-> Nominal(r)]

\* A request's step that makes no call.
Alone(r) ==
    /\ (\E row : Writes(r, row)) \/ Reads(r) \/ Moves(r)
    /\ UNCHANGED <<gateway, chain>>
    /\ ~\E fn, tx : Sends(r, fn, tx)

\* Every step, as the gateway and the escrow see it.
LEMMA GatewaySteps ==
  ASSUME Types, [Next]_allVars
  PROVE  \/ \E r \in Served : \E fn, tx : Sends(r, fn, tx)
         \/ \E r \in Served : NoReceipt(r)
         \/ \E role \in Roles : Mine(role)
         \/ \E r \in Served : Alone(r)
         \/ Outside /\ UNCHANGED <<people, ledger, chain, gateway, pc, reads, sitting>>
<1>1. ASSUME NEW r \in Served, (\E row : Writes(r, row)) \/ Reads(r) \/ Moves(r)
      PROVE  Alone(r) \/ \E fn, tx : Sends(r, fn, tx)
  <2>1. CASE \E row : Writes(r, row)
    <3>1. UNCHANGED <<gateway, chain>>
      BY <2>1 DEF Writes, SubmitKyc, Approve, Reject, ResetPassword, StoreWallet,
                  MarkMember, AddToBalance
    <3>2. QED
      BY <1>1, <3>1 DEF Alone
  <2>2. CASE Reads(r)
    <3>1. UNCHANGED <<gateway, chain>>
      BY <2>2 DEF Reads, Find, ReadMember, ListMembers, NextMember, ReadGroup, NextJoin
    <3>2. QED
      BY <1>1, <3>1 DEF Alone
  <2>3. CASE Moves(r) /\ ~\E fn, tx : Sends(r, fn, tx)
    <3>1. ~(RegisterMember(r) \/ RegisterGroup(r) \/ JoinGroup(r) \/ AnchorSaving(r))
      BY <2>3 DEF Sends
    <3>2. UNCHANGED <<gateway, chain>>
      BY <2>3, <3>1
         DEF Moves, AppendAudit, ReadWallet, MarkGroup, Joined, BootstrapDone, Reply,
             InsertSaving, ThrowSaving, StoreHash, Primed, Unheard, ReadCache,
             StoreSnapshot, Tick, CountMembers, FoldMembers, Stamp, SendQuestion,
             Mount, ShowAnswer
    <3>3. QED
      BY <1>1, <2>3, <3>2 DEF Alone
  <2>4. QED
    BY <1>1, <2>1, <2>2, <2>3
<1>2. CASE Outside
  BY <1>2 DEF Outside, ShowError, Expire, LeaveTab, Crash, vars, fixed
<1>3. QED
  BY <1>1, <1>2, Kinds

\* A call that is made: a member of the table is in it, and its answer is there.
LEMMA Called ==
  ASSUME Types, NEW r \in Served, NEW fn, NEW tx, Sends(r, fn, tx)
  PROVE  /\ r \in Requests /\ fn \in Calls
         /\ tx \in [member : Members, wallet : Passwords, nominal : Nat]
         /\ tx.member = who[r]
         /\ UNCHANGED <<people, ledger, chain, reads, faults>>
         /\ \/ answer' = [answer EXCEPT ![r] = [fn |-> fn, status |-> "failed"]]
               /\ UNCHANGED pool
            \/ /\ Accepts(fn, [member |-> who[r]])
               /\ \E status \in {"sent", "failed"} :
                     /\ answer' = [answer EXCEPT ![r] = [fn |-> fn, status |-> status]]
                     /\ status = "failed" => "lost" \in faults
               /\ pool' = [pool EXCEPT ![RoleFor(fn)] =
                              Append(@, [by |-> r, fn |-> fn, arg |-> tx])]
<1>1. r \in Requests /\ who[r] \in Members /\ seen[r].wallet \in Passwords /\ Nominal(r) \in Nat
  BY Jobs DEF Types, PersonRow, Nominal
<1>2. None \in Passwords
  BY DEF Passwords
<1>3. QED
  BY <1>1, <1>2 DEF Sends, RegisterMember, RegisterGroup, JoinGroup, AnchorSaving, Submit,
      TrySubmit, Answer, Calls

\* What sending and mining make of a key's transactions.
LEMMA PoolGrows ==
  ASSUME pool \in [Roles -> Seq(Txs)], NEW role \in Roles, NEW tx \in Txs,
         pool' = [pool EXCEPT ![role] = Append(@, tx)]
  PROVE  /\ pool' \in [Roles -> Seq(Txs)]
         /\ Len(pool[role]) \in Nat /\ Len(pool'[role]) = Len(pool[role]) + 1
         /\ \A i \in 1..Len(pool[role]) : pool'[role][i] = pool[role][i]
         /\ pool'[role][Len(pool[role]) + 1] = tx
         /\ \A other \in Roles : other # role => pool'[other] = pool[other]
<1>1. pool[role] \in Seq(Txs)
  OBVIOUS
<1>2. QED
  BY <1>1

LEMMA PoolShrinks ==
  ASSUME pool \in [Roles -> Seq(Txs)], NEW role \in Roles, pool[role] # <<>>,
         pool' = [pool EXCEPT ![role] = Tail(@)]
  PROVE  /\ pool' \in [Roles -> Seq(Txs)]
         /\ Len(pool'[role]) \in Nat /\ Len(pool[role]) = Len(pool'[role]) + 1
         /\ \A i \in 1..Len(pool'[role]) : /\ i + 1 \in 1..Len(pool[role])
                                          /\ pool'[role][i] = pool[role][i + 1]
         /\ Head(pool[role]) = pool[role][1]
         /\ \A other \in Roles : other # role => pool'[other] = pool[other]
<1>1. pool[role] \in Seq(Txs)
  OBVIOUS
<1>2. QED
  BY <1>1

LEMMA AnswerType ==
  ASSUME answer \in [Requests -> Replies], NEW r \in Requests,
         NEW fn \in Calls \cup {"none"}, NEW status \in Outcomes,
         answer' = [answer EXCEPT ![r] = [fn |-> fn, status |-> status]]
  PROVE  /\ answer' \in [Requests -> Replies]
         /\ answer'[r].fn = fn /\ answer'[r].status = status
         /\ \A other \in Requests : other # r => answer'[other] = answer[other]
<1>1. [fn |-> fn, status |-> status] \in Replies
  BY DEF Replies
<1>2. QED
  BY <1>1

\* Whether a request that waits for the first transaction of a key hears of it.
Heard(role) ==
    LET tx == pool[role][1]
    IN  /\ answer[tx.by] = [fn |-> tx.fn, status |-> "sent"]
        /\ \A i \in 2..Len(pool[role]) : ~(pool[role][i].by = tx.by /\ pool[role][i].fn = tx.fn)

LEMMA Mines ==
  ASSUME Types, Wired, NEW role \in Roles, Mine(role)
  PROVE  /\ Len(pool[role]) >= 1 /\ pool[role][1] \in Txs
         /\ UNCHANGED <<people, ledger, pc, reads, running, sitting, faults>>
         /\ pool[role] # <<>> /\ pool' = [pool EXCEPT ![role] = Tail(@)]
         /\ \E status \in {"success", "reverted"} :
               LET tx == pool[role][1]
               IN  /\ answer' = IF Heard(role)
                                THEN [answer EXCEPT ![tx.by] = [fn |-> tx.fn, status |-> status]]
                                ELSE answer
                   /\ status = "success" => Accepts(tx.fn, tx.arg) /\ Execute(tx.fn, tx.arg)
                   /\ status = "reverted" =>
                         UNCHANGED chain /\ (~Accepts(tx.fn, tx.arg) \/ "revert" \in faults)
<1>1. pool[role] \in Seq(Txs) /\ pool[role] # <<>>
  BY DEF Wired, Mine
<1>2. Len(pool[role]) >= 1 /\ pool[role][1] \in Txs /\ Head(pool[role]) = pool[role][1]
  BY <1>1
<1>3. PICK status \in {"success", "reverted"} :
         /\ Mined(role, status)
         /\ status = "success" => Accepts(pool[role][1].fn, pool[role][1].arg)
                                    /\ Execute(pool[role][1].fn, pool[role][1].arg)
         /\ status = "reverted" =>
               UNCHANGED chain /\ (~Accepts(pool[role][1].fn, pool[role][1].arg)
                                    \/ "revert" \in faults)
  BY <1>2 DEF Mine
<1>4. /\ pool' = [pool EXCEPT ![role] = Tail(@)] /\ UNCHANGED faults
      /\ answer' = IF Heard(role)
                   THEN [answer EXCEPT ![pool[role][1].by] =
                            [fn |-> pool[role][1].fn, status |-> status]]
                   ELSE answer
  BY <1>2, <1>3 DEF Mined, Answer, Heard
<1>5. UNCHANGED <<people, ledger, pc, reads, running, sitting>>
  BY DEF Mine, fixed
<1>6. QED
  BY <1>1, <1>2, <1>3, <1>4, <1>5

\* A request that stops waiting for its receipt.
LEMMA GivesUp ==
  ASSUME Types, NEW r \in Served, NoReceipt(r)
  PROVE  /\ UNCHANGED <<people, ledger, chain, pc, reads, running, sitting, faults, pool>>
         /\ answer[r].status = "sent" /\ r \in Requests
         /\ answer' = [answer EXCEPT ![r] = [fn |-> answer[r].fn, status |-> "pending"]]
BY Jobs DEF NoReceipt, TimeOut, Answer, fixed, Types

LEMMA InitWired == Init => Wired
<1> SUFFICES ASSUME Init PROVE Wired
  OBVIOUS
<1>1. /\ pool = [role \in Roles |-> <<>>] /\ answer = [r \in Requests |-> NoAnswer]
      /\ registered = [m \in Members |-> None] /\ grouped = FALSE
      /\ minted = [m \in Members |-> 0]
  BY DEF Init, GatewayInit
<1>2. pool \in [Roles -> Seq(Txs)] /\ \A role \in Roles : Len(pool[role]) = 0
  <2>1. <<>> \in Seq(Txs) /\ Len(<<>>) = 0
    OBVIOUS
  <2>2. QED
    BY <1>1, <2>1
<1>3. NoAnswer \in Replies /\ None \in Passwords
  BY DEF NoAnswer, Replies, Outcomes, Passwords
<1>4. answer \in [Requests -> Replies] /\ registered \in [Members -> Passwords]
      /\ minted \in [Members -> Nat]
  BY <1>1, <1>3
<1>5. \A role \in Roles : \A i \in 1..Len(pool[role]) : FALSE
  BY <1>2
<1>6. QED
  BY <1>1, <1>2, <1>4, <1>5 DEF Wired

LEMMA WiredStep ==
  ASSUME Types, Wired, [Next]_allVars
  PROVE  Wired'
<1>0. Served' = Served
  BY JobsStay
<1>1. CASE UNCHANGED <<gateway, chain>>
  BY <1>0, <1>1 DEF Wired, gateway, chain
<1>2. ASSUME NEW r \in Served, NEW fn, NEW tx, Sends(r, fn, tx)
      PROVE  Wired'
  <2>1. /\ r \in Requests /\ fn \in Calls
        /\ tx \in [member : Members, wallet : Passwords, nominal : Nat]
        /\ UNCHANGED chain
    BY <1>2, Called
  <2>2. answer' \in [Requests -> Replies]
    <3>1. PICK status \in {"failed", "sent"} :
             answer' = [answer EXCEPT ![r] = [fn |-> fn, status |-> status]]
      BY <1>2, Called, ZenonT(60)
    <3>2. QED
      BY <2>1, <3>1, AnswerType DEF Wired, Outcomes
  <2>3. CASE UNCHANGED pool
    BY <1>0, <2>1, <2>2, <2>3 DEF Wired, chain
  <2>4. CASE pool' = [pool EXCEPT ![RoleFor(fn)] = Append(@, [by |-> r, fn |-> fn, arg |-> tx])]
    <3> DEFINE new == [by |-> r, fn |-> fn, arg |-> tx]
               role == RoleFor(fn)
    <3>1. new \in Txs /\ role \in Roles /\ new.by = r /\ new.fn = fn
      BY <2>1 DEF Txs, RoleFor, Roles
    <3> HIDE DEF new
    <3>2. /\ pool' \in [Roles -> Seq(Txs)]
          /\ Len(pool[role]) \in Nat /\ Len(pool'[role]) = Len(pool[role]) + 1
          /\ \A i \in 1..Len(pool[role]) : pool'[role][i] = pool[role][i]
          /\ pool'[role][Len(pool[role]) + 1] = new
          /\ \A other \in Roles : other # role => pool'[other] = pool[other]
      BY <2>4, <3>1, PoolGrows DEF Wired, new
    <3>3. ASSUME NEW other \in Roles, NEW i \in 1..Len(pool'[other])
          PROVE  pool'[other][i].by \in Served /\ RoleFor(pool'[other][i].fn) = other
      <4>1. CASE other # role
        BY <3>2, <4>1 DEF Wired
      <4>2. CASE other = role /\ i \in 1..Len(pool[role])
        BY <3>1, <3>2, <4>2 DEF Wired
      <4>3. CASE other = role /\ i = Len(pool[role]) + 1
        BY <3>1, <3>2, <4>3
      <4>4. QED
        BY <3>2, <4>1, <4>2, <4>3
    <3>4. QED
      BY <1>0, <2>1, <2>2, <3>2, <3>3 DEF Wired, chain
  <2>5. QED
    BY <1>2, <2>3, <2>4, Called, ZenonT(60)
<1>3. ASSUME NEW r \in Served, NoReceipt(r)
      PROVE  Wired'
  <2>1. answer' \in [Requests -> Replies]
    <3>1. answer[r].fn \in Calls \cup {"none"} /\ "pending" \in Outcomes
      BY <1>3, GivesUp DEF Wired, Replies, Outcomes
    <3>2. QED
      BY <1>3, <3>1, GivesUp, AnswerType DEF Wired
  <2>2. QED
    BY <1>0, <1>3, <2>1, GivesUp DEF Wired, chain
<1>4. ASSUME NEW role \in Roles, Mine(role)
      PROVE  Wired'
  <2> DEFINE tx == pool[role][1]
  <2>1. PICK status \in {"success", "reverted"} :
           /\ answer' = IF Heard(role)
                        THEN [answer EXCEPT ![tx.by] = [fn |-> tx.fn, status |-> status]]
                        ELSE answer
           /\ status = "success" => Execute(tx.fn, tx.arg)
           /\ status = "reverted" => UNCHANGED chain
    BY <1>4, Mines
  <2>2. tx \in Txs
    BY <1>4, Mines
  <2>3. /\ tx.by \in Requests /\ tx.fn \in Calls /\ tx.arg.member \in Members
        /\ tx.arg.wallet \in Passwords /\ tx.arg.nominal \in Nat
    BY <2>2 DEF Txs
  <2> HIDE DEF tx
  <2>4. answer' \in [Requests -> Replies]
    BY <2>1, <2>3, AnswerType DEF Wired, Outcomes
  <2>5. registered' \in [Members -> Passwords] /\ grouped' \in BOOLEAN /\ minted' \in [Members -> Nat]
    <3>1. CASE status = "reverted"
      BY <2>1, <3>1 DEF Wired, chain
    <3>2. CASE status = "success" /\ tx.fn = "registerMember"
      BY <2>1, <2>3, <3>2 DEF Wired, Execute
    <3>3. CASE status = "success" /\ tx.fn \in {"registerGroup", "joinGroup"}
      BY <2>1, <2>3, <3>3 DEF Wired, Execute
    <3>4. CASE status = "success" /\ tx.fn = "recordSavings"
      <4>1. minted' = [minted EXCEPT ![tx.arg.member] = @ + tx.arg.nominal]
            /\ UNCHANGED <<registered, grouped>>
        BY <2>1, <3>4 DEF Execute
      <4>2. QED
        BY <2>3, <4>1 DEF Wired
    <3>5. QED
      BY <2>1, <2>3, <3>1, <3>2, <3>3, <3>4 DEF Calls
  <2>6. /\ pool' \in [Roles -> Seq(Txs)]
        /\ \A other \in Roles : \A i \in 1..Len(pool'[other]) :
             pool'[other][i].by \in Served /\ RoleFor(pool'[other][i].fn) = other
    <3>1. /\ pool' \in [Roles -> Seq(Txs)]
          /\ \A i \in 1..Len(pool'[role]) : /\ i + 1 \in 1..Len(pool[role])
                                           /\ pool'[role][i] = pool[role][i + 1]
          /\ \A other \in Roles : other # role => pool'[other] = pool[other]
      BY <1>4, Mines, PoolShrinks DEF Wired
    <3>3. ASSUME NEW other \in Roles, NEW i \in 1..Len(pool'[other])
          PROVE  pool'[other][i].by \in Served /\ RoleFor(pool'[other][i].fn) = other
      <4>1. CASE other # role
        BY <3>1, <4>1 DEF Wired
      <4>2. CASE other = role
        <5>1. i + 1 \in 1..Len(pool[role]) /\ pool'[other][i] = pool[role][i + 1]
          BY <3>1, <4>2
        <5>2. QED
          BY <4>2, <5>1 DEF Wired
      <4>3. QED
        BY <4>1, <4>2
    <3>4. QED
      BY <3>1, <3>3
  <2>7. QED
    BY <1>0, <2>4, <2>5, <2>6 DEF Wired
<1>5. QED
  BY <1>1, <1>2, <1>3, <1>4, GatewaySteps DEF Alone

----------------------------------------------------------------------------
(* Registrations: the flags in the tables and what the escrow has *)

\* What a step of a request is to its own registrations and flags.
LEMMA RegistersAt ==
  ASSUME Types, NEW s \in Served,
         (\E row : Writes(s, row)) \/ Reads(s) \/ Moves(s)
  PROVE  /\ pc[s] = "registering" => MarkMember(s)
         /\ pc[s] = "grouping" => MarkGroup(s)
         /\ pc'[s] = "registering" => RegisterMember(s)
         /\ pc'[s] = "grouping" => RegisterGroup(s)
         /\ pc'[s] = "register" => ReadMember(s)
<1>1. s \in Requests /\ DOMAIN pc = Requests
  BY Jobs DEF Types
<1> USE DEF Step, At, Goto
<1>2. CASE \E row : Writes(s, row)
  BY <1>1, <1>2 DEF Writes, SubmitKyc, Approve, Reject, ResetPassword, StoreWallet,
              MarkMember, AddToBalance, After
<1>3. CASE Reads(s)
  BY <1>1, <1>3 DEF Reads, Find, ReadMember, ListMembers, NextMember, ReadGroup, NextJoin,
              After
<1>4. CASE AppendAudit(s) \/ ReadWallet(s) \/ RegisterMember(s) \/ RegisterGroup(s)
             \/ MarkGroup(s) \/ JoinGroup(s) \/ Joined(s) \/ BootstrapDone(s) \/ Reply(s)
  BY <1>1, <1>4 DEF AppendAudit, ReadWallet, RegisterMember, RegisterGroup,
              MarkGroup, JoinGroup, Joined, BootstrapDone, Reply
<1>5. CASE InsertSaving(s) \/ ThrowSaving(s) \/ AnchorSaving(s) \/ StoreHash(s)
  BY <1>1, <1>5 DEF InsertSaving, ThrowSaving, AnchorSaving, StoreHash
<1>6. CASE Primed(s) \/ Unheard(s) \/ SendQuestion(s) \/ Mount(s) \/ ShowAnswer(s)
  <2>1. \/ pc[s] = "start" /\ pc'[s] = "asked"
        \/ pc[s] = "answered" /\ pc'[s] = "done"
    BY <1>1, <1>6 DEF Primed, Unheard, SendQuestion, Mount, ShowAnswer
  <2>2. QED
    BY <2>1
<1>7. CASE Tick(s) \/ CountMembers(s) \/ FoldMembers(s) \/ Stamp(s)
  <2>1. pc[s] \in {"start", "count", "fold", "stamp"}
        /\ pc'[s] \in {"count", "fold", "stamp", "store"}
    BY <1>1, <1>7 DEF Tick, CountMembers, FoldMembers, Stamp
  <2>2. QED
    BY <2>1
<1>8. CASE ReadCache(s) \/ StoreSnapshot(s)
  <2>1. pc[s] \in {"asked", "store"} /\ pc'[s] \in {"count", "answered", "done"}
    BY <1>1, <1>8 DEF ReadCache, StoreSnapshot
  <2>2. QED
    BY <2>1
<1>9. QED
  BY <1>2, <1>3, <1>4, <1>5, <1>6, <1>7, <1>8, Zenon DEF Moves

\* Only the two marks set a flag, and none is ever taken back.
LEMMA FlagsMove ==
  ASSUME Types, NEW s \in Served,
         (\E row : Writes(s, row)) \/ Reads(s) \/ Moves(s)
  PROVE  /\ \A m \in Members :
               /\ members[m].onchain => members'[m].onchain
               /\ members'[m].onchain =>
                     members[m].onchain \/ (MarkMember(s) /\ m = who[s] /\ Ok(s))
         /\ groupFlag => groupFlag'
         /\ groupFlag' => groupFlag \/ (MarkGroup(s) /\ Ok(s))
         /\ MarkMember(s) => (Answered(s) /\ (Ok(s) => members'[who[s]].onchain))
         /\ MarkGroup(s) => (Answered(s) /\ (Ok(s) => groupFlag'))
         /\ \A r \in Served : r # s => who'[r] = who[r] /\ seen'[r] = seen[r]
         /\ who'[s] # who[s] => pc[s] \in {"members", "joins"}
<1>1. CASE \E row : Writes(s, row)
  <2>1. PICK row : Writes(s, row)
    BY <1>1
  <2>2. /\ row \in PersonRow /\ Row(s) \in PersonRow /\ UNCHANGED <<who, seen, groupFlag>>
        /\ members' = [members EXCEPT ![who[s]] = row]
        /\ Row(s) = members[who[s]] /\ who[s] \in Members
    BY <2>1, Written, RowType DEF Update, Types, Row
  <2>3. /\ Row(s).onchain => row.onchain
        /\ row.onchain => Row(s).onchain \/ (MarkMember(s) /\ Ok(s))
        /\ MarkMember(s) => Answered(s) /\ (Ok(s) => row.onchain)
    <3>1. Row(s).onchain \in BOOLEAN
      BY <2>2 DEF PersonRow
    <3>2. CASE MarkMember(s)
      <4>1. row = [Row(s) EXCEPT !.onchain = Row(s).onchain \/ Ok(s)]
        <5>1. members' = [members EXCEPT ![who[s]] =
                             [Row(s) EXCEPT !.onchain = Row(s).onchain \/ Ok(s)]]
          BY <3>2 DEF MarkMember, Update, Registered
        <5>2. QED
          BY <2>2, <5>1 DEF Types
      <4>2. row.onchain = (Row(s).onchain \/ Ok(s))
        BY <2>2, <4>1 DEF PersonRow
      <4>3. QED
        BY <3>2, <4>2 DEF MarkMember
    <3>3. CASE ~MarkMember(s)
      <4>1. row.onchain = Row(s).onchain
        BY <2>1, <2>2, <3>3 DEF Writes, NoRow, PersonRow
      <4>2. QED
        BY <3>3, <4>1
    <3>4. QED
      BY <3>2, <3>3
  <2>4. ~MarkGroup(s)
    BY <2>1, <2>2 DEF Writes, MarkGroup, SubmitKyc, Approve, Reject, ResetPassword,
         StoreWallet, MarkMember, AddToBalance, Step, At
  <2>5. \A m \in Members : members'[m] = IF m = who[s] THEN row ELSE members[m]
    BY <2>2 DEF Types
  <2>6. QED
    BY <2>2, <2>3, <2>4, <2>5
<1>2. CASE Reads(s)
  <2>1. UNCHANGED people
    BY <1>2 DEF Reads, Find, ReadMember, ListMembers, NextMember, ReadGroup, NextJoin
  <2>2. ~MarkMember(s) /\ ~MarkGroup(s)
    BY <1>2 DEF MarkMember, MarkGroup, Reads, Find, ReadMember, ListMembers, NextMember,
         ReadGroup, NextJoin, Step, At
  <2>3. /\ \A r \in Served : r # s => who'[r] = who[r] /\ seen'[r] = seen[r]
        /\ who'[s] # who[s] => pc[s] \in {"members", "joins"}
    BY <1>2, Jobs DEF Types, Reads, Find, ReadMember, ListMembers, NextMember,
         ReadGroup, NextJoin, Step, At
  <2>4. QED
    BY <2>1, <2>2, <2>3 DEF people
<1>3. CASE Moves(s)
  <2>1. UNCHANGED <<members, seen, who>>
    BY <1>3, MovesKeep
  <2>2. CASE MarkGroup(s)
    <3>1. Answered(s) /\ groupFlag' = (groupFlag \/ Ok(s)) /\ ~MarkMember(s)
      BY <2>2 DEF MarkGroup, MarkMember, Registered, Step, At
    <3>2. QED
      BY <2>1, <2>2, <3>1
  <2>3. CASE ~MarkGroup(s)
    <3>1. UNCHANGED groupFlag
      BY <1>3, <2>3
         DEF Moves, people, AppendAudit, ReadWallet, RegisterMember, RegisterGroup,
             JoinGroup, Joined, BootstrapDone, Reply, InsertSaving,
             ThrowSaving, AnchorSaving, StoreHash, Primed, Unheard, ReadCache,
             StoreSnapshot, Tick, CountMembers, FoldMembers, Stamp, SendQuestion,
             Mount, ShowAnswer, Submit
    <3>2. MarkMember(s) => Answered(s) /\ (Ok(s) => members'[who[s]].onchain)
      <4>1. SUFFICES ASSUME MarkMember(s) PROVE Answered(s) /\ (Ok(s) => members'[who[s]].onchain)
        OBVIOUS
      <4>2. members' = [members EXCEPT ![who[s]] =
                           [Row(s) EXCEPT !.onchain = Row(s).onchain \/ Ok(s)]]
        BY <4>1 DEF MarkMember, Update, Registered
      <4>3. who[s] \in Members /\ Row(s) \in PersonRow
        BY RowType DEF Types
      <4>4. members'[who[s]].onchain = (Row(s).onchain \/ Ok(s))
        BY <4>2, <4>3 DEF Types, PersonRow
      <4>5. QED
        BY <4>1, <4>4 DEF MarkMember
    <3>3. QED
      BY <2>1, <2>3, <3>1, <3>2
  <2>4. QED
    BY <2>2, <2>3
<1>4. QED
  BY <1>1, <1>2, <1>3

\* The request that sent a transaction still waits for it, or gave up waiting.
Waits(tx, stage) ==
    /\ pc[tx.by] = stage
    /\ answer[tx.by].fn = tx.fn
    /\ answer[tx.by].status \in {"sent", "pending"}

Last(i) == \A j \in 1..Len(Keys) : j > i => ~(Keys[j].by = Keys[i].by /\ Keys[j].fn = Keys[i].fn)

\* A transaction may be sent and its request be told that it failed.
Loses == "lost" \in faults

\* A registration under way will be flagged: it is, or its request will see to it,
\* for it knows.
Tracked(i) ==
    /\ Keys[i].fn = "registerMember" =>
          /\ Keys[i].arg.wallet # None
          /\ \/ Loses
             \/ members[Keys[i].arg.member].onchain
             \/ /\ Waits(Keys[i], "registering") /\ Last(i)
                /\ who[Keys[i].by] = Keys[i].arg.member
    /\ Keys[i].fn = "registerGroup" =>
          /\ registered[Chair] # None
          /\ Loses \/ groupFlag \/ (Waits(Keys[i], "grouping") /\ Last(i))

\* So will what the escrow has registered.
Flagged ==
    /\ \A i \in 1..Len(Keys) : Tracked(i)
    /\ \A r \in Served : pc[r] = "register" => seen[r].wallet # None
    /\ \A m \in Members : registered[m] # None =>
          \/ Loses
          \/ members[m].onchain
          \/ \E r \in Served : pc[r] = "registering" /\ who[r] = m /\ Ok(r)
    /\ grouped => Loses \/ groupFlag \/ \E r \in Served : pc[r] = "grouping" /\ Ok(r)

LEMMA InitFlagged == Init => Flagged
<1> SUFFICES ASSUME Init PROVE Flagged
  OBVIOUS
<1>1. Keys = <<>> /\ grouped = FALSE /\ \A m \in Members : registered[m] = None
  BY DEF Init, GatewayInit, Keys, Roles
<1>2. \A r \in Served : pc[r] = "start"
  BY Jobs DEF Init
<1>3. \A i \in 1..Len(Keys) : FALSE
  BY <1>1
<1>4. QED
  BY <1>1, <1>2, <1>3 DEF Flagged

LEMMA KeysType ==
  ASSUME Wired, NEW i \in 1..Len(Keys)
  PROVE  /\ Keys[i] \in Txs /\ Keys[i].by \in Served
         /\ Keys[i].by \in Requests /\ Keys[i].arg.member \in Members
         /\ Keys[i].arg.wallet \in Passwords
         /\ Keys[i].fn \in {"registerMember", "registerGroup", "joinGroup"}
<1>1. Keys \in Seq(Txs) /\ "KOPERASI" \in Roles
  BY DEF Wired, Keys, Roles
<1>2. Keys[i] \in Txs
  BY <1>1
<1>3. Keys[i].by \in Served /\ RoleFor(Keys[i].fn) = "KOPERASI"
  BY <1>1 DEF Wired, Keys
<1>4. /\ Keys[i].by \in Requests /\ Keys[i].arg.member \in Members
      /\ Keys[i].arg.wallet \in Passwords /\ Keys[i].fn \in Calls
  BY <1>2 DEF Txs
<1>5. QED
  BY <1>2, <1>3, <1>4 DEF RoleFor, Calls

\* A step in which no call is sent or mined and no request gives up.
LEMMA FlaggedAlone ==
  ASSUME Types, Wired, Flagged, UNCHANGED <<gateway, chain>>, NEW s \in Served,
         (\E row : Writes(s, row)) \/ Reads(s) \/ Moves(s)
  PROVE  Flagged'
<1>1. PICK from, to \in Stages : Step(s, from, to)
  BY Stepped
<1>2. /\ s \in Requests /\ pc[s] = from /\ pc'[s] = to /\ Served' = Served
      /\ \A r \in Requests : r # s => pc'[r] = pc[r]
  BY <1>1, OneMoves
<1>3. /\ \A m \in Members : members[m].onchain => members'[m].onchain
      /\ groupFlag => groupFlag'
      /\ MarkMember(s) => Answered(s) /\ (Ok(s) => members'[who[s]].onchain)
      /\ MarkGroup(s) => Answered(s) /\ (Ok(s) => groupFlag')
      /\ \A r \in Served : r # s => who'[r] = who[r] /\ seen'[r] = seen[r]
  BY FlagsMove
<1>4. /\ pc[s] = "registering" => MarkMember(s)
      /\ pc[s] = "grouping" => MarkGroup(s)
      /\ pc'[s] = "register" => ReadMember(s)
  BY RegistersAt
<1>5. UNCHANGED <<pool, answer, registered, grouped>> /\ Keys' = Keys /\ Loses' = Loses
  BY DEF gateway, chain, Keys, Loses
<1>6. \A i \in 1..Len(Keys) : /\ Keys[i].by \in Served /\ Keys[i].by \in Requests
                              /\ Keys[i].arg.member \in Members
  BY KeysType
<1>7. \A r \in Served : r \in Requests
  BY Jobs DEF Types
<1>8. ASSUME NEW i \in 1..Len(Keys) PROVE Tracked(i)'
  <2>1. Tracked(i) /\ Last(i)' = Last(i)
    BY <1>5 DEF Flagged, Last
  <2>2. CASE Keys[i].by # s
    <3>1. /\ pc'[Keys[i].by] = pc[Keys[i].by] /\ who'[Keys[i].by] = who[Keys[i].by]
          /\ members[Keys[i].arg.member].onchain => members'[Keys[i].arg.member].onchain
      BY <1>2, <1>3, <1>6, <2>2
    <3>2. \A stage : Waits(Keys[i], stage)' <=> Waits(Keys[i], stage)
      BY <1>5, <3>1 DEF Waits
    <3>3. Keys'[i] = Keys[i] /\ registered' = registered /\ Loses' = Loses
      BY <1>5
    <3>4. QED
      BY <1>3, <2>1, <3>1, <3>2, <3>3 DEF Tracked
  <2>3. CASE Keys[i].by = s
    <3>1. Waits(Keys[i], "registering") => Ok(s)
      BY <1>3, <1>4, <2>3 DEF Waits, Answered, Ok
    <3>2. Waits(Keys[i], "grouping") => Ok(s)
      BY <1>3, <1>4, <2>3 DEF Waits, Answered, Ok
    <3>3. Keys[i].fn = "registerMember" => Loses \/ members'[Keys[i].arg.member].onchain
      BY <1>3, <1>4, <1>6, <2>1, <2>3, <3>1 DEF Tracked, Waits
    <3>4. Keys[i].fn = "registerGroup" => Loses \/ groupFlag'
      BY <1>3, <1>4, <2>1, <2>3, <3>2 DEF Tracked, Waits
    <3>5. QED
      BY <1>5, <2>1, <3>3, <3>4 DEF Tracked
  <2>4. QED
    BY <2>2, <2>3
<1>9. ASSUME NEW r \in Served, pc'[r] = "register" PROVE seen'[r].wallet # None
  <2>1. CASE r # s
    BY <1>2, <1>3, <1>7, <1>9, <2>1 DEF Flagged
  <2>2. CASE r = s
    <3>1. ReadMember(s)
      BY <1>4, <1>9, <2>2
    <3>2. Row(s).wallet # None
      BY <1>2, <1>9, <2>2, <3>1 DEF ReadMember, Step, Goto, After, Types
    <3>3. QED
      BY <1>2, <2>2, <3>1, <3>2 DEF ReadMember, Types, PersonRow
  <2>3. QED
    BY <2>1, <2>2
<1>10. ASSUME NEW m \in Members, registered[m] # None, ~Loses
       PROVE  \/ members'[m].onchain
              \/ \E r \in Served : pc'[r] = "registering" /\ who'[r] = m /\ Ok(r)
  <2>1. CASE members[m].onchain
    BY <1>3, <2>1
  <2>2. CASE ~members[m].onchain
    <3>1. PICK r \in Served : pc[r] = "registering" /\ who[r] = m /\ Ok(r)
      BY <1>10, <2>2 DEF Flagged
    <3>2. QED
      BY <1>2, <1>3, <1>4, <1>7, <3>1
  <2>3. QED
    BY <2>1, <2>2
<1>11. ASSUME grouped, ~Loses
       PROVE  groupFlag' \/ \E r \in Served : pc'[r] = "grouping" /\ Ok(r)
  BY <1>2, <1>3, <1>4, <1>7, <1>11 DEF Flagged
<1>12. \A r : Ok(r)' = Ok(r)
  BY <1>5 DEF Ok
<1>13. QED
  BY <1>2, <1>5, <1>8, <1>9, <1>10, <1>11, <1>12 DEF Flagged

\* Where a request makes its calls.
LEMMA SendsAt ==
  ASSUME Types, NEW r \in Served, NEW fn, NEW tx, Sends(r, fn, tx)
  PROVE  /\ Moves(r)
         /\ fn = "registerMember" =>
               pc[r] = "register" /\ pc'[r] = "registering" /\ tx.wallet = seen[r].wallet
         /\ fn = "registerGroup" => pc[r] = "group" /\ pc'[r] = "grouping"
         /\ fn = "joinGroup" => pc[r] = "join" /\ pc'[r] = "joining"
         /\ fn = "recordSavings" =>
               /\ pc[r] = "added" /\ pc'[r] = "anchoring" /\ tx.nominal = Nominal(r)
BY Jobs DEF Types, Sends, Moves, RegisterMember, RegisterGroup, JoinGroup, AnchorSaving,
       Step, At, Goto

\* A call is sent, or fails at once.
LEMMA FlaggedSends ==
  ASSUME Types, Wired, Flagged, NEW r \in Served, NEW fn, NEW tx, Sends(r, fn, tx)
  PROVE  Flagged'
<1>1. PICK from, to \in Stages : Step(r, from, to)
  BY SendsAt, Stepped
<1>2. /\ r \in Requests /\ pc[r] = from /\ pc'[r] = to /\ Served' = Served
      /\ \A s \in Requests : s # r => pc'[s] = pc[s]
      /\ \A s \in Served : s \in Requests
  BY <1>1, OneMoves, Jobs DEF Types
<1>3. /\ fn \in Calls /\ tx \in [member : Members, wallet : Passwords, nominal : Nat]
      /\ tx.member = who[r]
      /\ UNCHANGED <<members, groupFlag, registered, grouped, who, seen>>
      /\ Loses' = Loses
  BY Called DEF people, chain, reads, Loses
<1>4. PICK status \in {"failed", "sent"} :
         /\ answer' = [answer EXCEPT ![r] = [fn |-> fn, status |-> status]]
         /\ \/ UNCHANGED pool
            \/ /\ status = "sent" \/ Loses
               /\ Accepts(fn, [member |-> who[r]])
               /\ pool' = [pool EXCEPT ![RoleFor(fn)] =
                              Append(@, [by |-> r, fn |-> fn, arg |-> tx])]
  BY Called, ZenonT(60) DEF Loses
<1>5. /\ answer'[r].fn = fn /\ answer'[r].status = status
      /\ \A s \in Requests : s # r => answer'[s] = answer[s]
  BY <1>2, <1>3, <1>4, AnswerType DEF Wired, Outcomes
<1>6. pc[r] \notin {"registering", "grouping"}
  BY <1>3, SendsAt DEF Calls
<1> DEFINE new == [by |-> r, fn |-> fn, arg |-> tx]
<1>7. \/ Keys' = Keys
      \/ /\ status = "sent" \/ Loses
         /\ Accepts(fn, [member |-> who[r]]) /\ RoleFor(fn) = "KOPERASI"
         /\ Len(Keys) \in Nat /\ Len(Keys') = Len(Keys) + 1
         /\ \A i \in 1..Len(Keys) : Keys'[i] = Keys[i]
         /\ Keys'[Len(Keys) + 1] = new
  <2>1. CASE UNCHANGED pool
    BY <2>1 DEF Keys
  <2>2. CASE ~UNCHANGED pool
    <3>1. new \in Txs /\ RoleFor(fn) \in Roles
      BY <1>2, <1>3 DEF Txs, RoleFor, Roles
    <3>2. /\ pool' = [pool EXCEPT ![RoleFor(fn)] = Append(@, new)]
          /\ status = "sent" \/ Loses
          /\ Accepts(fn, [member |-> who[r]])
      BY <1>4, <2>2
    <3> HIDE DEF new
    <3>3. CASE RoleFor(fn) = "KOPERASI"
      BY <3>1, <3>2, <3>3, PoolGrows DEF Wired, Keys
    <3>4. CASE RoleFor(fn) = "RELAYER"
      <4>1. "KOPERASI" \in Roles /\ "KOPERASI" # "RELAYER"
        BY DEF Roles
      <4>2. QED
        BY <3>1, <3>2, <3>4, <4>1, PoolGrows DEF Wired, Keys
    <3>5. QED
      BY <3>1, <3>3, <3>4 DEF Roles
  <2>3. QED
    BY <2>1, <2>2
<1>8. new.by = r /\ new.fn = fn /\ new.arg = tx
  OBVIOUS
<1> HIDE DEF new
\* What was there is tracked as before, for its request does not send again.
<1>9. ASSUME NEW i \in 1..Len(Keys), Keys'[i] = Keys[i]
      PROVE  Tracked(i)'
  <2>1. /\ Tracked(i) /\ Keys[i].by \in Requests
    BY KeysType DEF Flagged
  <2>2. CASE Keys[i].by = r
    <3>1. ~Waits(Keys[i], "registering") /\ ~Waits(Keys[i], "grouping")
      BY <1>6, <2>2 DEF Waits
    <3>2. QED
      BY <1>3, <1>9, <2>1, <3>1 DEF Tracked
  <2>3. CASE Keys[i].by # r
    <3>1. \A stage : Waits(Keys[i], stage) => Waits(Keys[i], stage)'
      BY <1>2, <1>5, <1>9, <2>1, <2>3 DEF Waits
    <3>2. Last(i) => Last(i)'
      BY <1>7, <1>8, <1>9, <2>3 DEF Last
    <3>3. who'[Keys'[i].by] = who[Keys[i].by] /\ members' = members /\ groupFlag' = groupFlag
          /\ registered' = registered /\ Loses' = Loses
      BY <1>3, <1>9
    <3>4. QED
      BY <1>9, <2>1, <3>1, <3>2, <3>3 DEF Tracked
  <2>4. QED
    BY <2>2, <2>3
<1>10. ASSUME Keys' # Keys, NEW n \in Nat, n = Len(Keys) + 1
       PROVE  Tracked(n)'
  <2>1. /\ status = "sent" \/ Loses
        /\ Accepts(fn, [member |-> who[r]])
        /\ Keys'[n] = new /\ Len(Keys') = n
    BY <1>7, <1>10
  <2>2. Last(n)'
    BY <2>1 DEF Last
  <2>3. fn = "registerMember" =>
           /\ tx.wallet # None /\ pc'[r] = "registering" /\ answer'[r].fn = fn
           /\ answer'[r].status = "sent" \/ Loses'
           /\ who'[r] = tx.member
    <3>1. fn = "registerMember" =>
             pc[r] = "register" /\ pc'[r] = "registering" /\ tx.wallet = seen[r].wallet
      BY SendsAt
    <3>2. QED
      BY <1>3, <1>5, <2>1, <3>1 DEF Flagged
  <2>4. fn = "registerGroup" =>
           /\ registered'[Chair] # None /\ pc'[r] = "grouping" /\ answer'[r].fn = fn
           /\ answer'[r].status = "sent" \/ Loses'
    <3>1. fn = "registerGroup" => pc'[r] = "grouping"
      BY SendsAt
    <3>2. fn = "registerGroup" => registered[Chair] # None
      BY <2>1 DEF Accepts
    <3>3. QED
      BY <1>3, <1>5, <2>1, <3>1, <3>2
  <2>5. fn = "registerMember" => Tracked(n)'
    BY <1>8, <2>1, <2>2, <2>3 DEF Tracked, Waits
  <2>6. fn = "registerGroup" => Tracked(n)'
    BY <1>8, <2>1, <2>2, <2>4 DEF Tracked, Waits
  <2>7. fn \notin {"registerMember", "registerGroup"} => Tracked(n)'
    BY <1>8, <2>1 DEF Tracked
  <2>8. QED
    BY <2>5, <2>6, <2>7
<1>11. \A i \in 1..Len(Keys') : Tracked(i)'
  <2>1. CASE Keys' = Keys
    BY <1>9, <2>1
  <2>2. CASE Keys' # Keys
    <3>1. ASSUME NEW i \in 1..Len(Keys') PROVE Tracked(i)'
      <4>1. i \in 1..Len(Keys) \/ i = Len(Keys) + 1
        BY <1>7, <2>2
      <4>2. CASE i \in 1..Len(Keys)
        BY <1>7, <1>9, <2>2, <4>2
      <4>3. CASE i = Len(Keys) + 1
        BY <1>10, <2>2, <4>3
      <4>4. QED
        BY <4>1, <4>2, <4>3
    <3>2. QED
      BY <3>1
  <2>3. QED
    BY <2>1, <2>2
<1>12. \A s \in Served : pc'[s] = "register" => seen'[s].wallet # None
  <2>1. pc'[r] # "register"
    BY <1>3, SendsAt DEF Calls
  <2>2. QED
    BY <1>2, <1>3, <2>1 DEF Flagged
<1>13. \A s \in Served : pc[s] \in {"registering", "grouping"} =>
          pc'[s] = pc[s] /\ who'[s] = who[s] /\ Ok(s)' = Ok(s)
  BY <1>2, <1>3, <1>5, <1>6 DEF Ok
<1>14. \A m \in Members : registered'[m] # None =>
          \/ Loses'
          \/ members'[m].onchain
          \/ \E s \in Served : pc'[s] = "registering" /\ who'[s] = m /\ Ok(s)'
  BY <1>3, <1>13 DEF Flagged
<1>15. grouped' => Loses' \/ groupFlag' \/ \E s \in Served : pc'[s] = "grouping" /\ Ok(s)'
  BY <1>3, <1>13 DEF Flagged
<1>16. QED
  BY <1>2, <1>11, <1>12, <1>14, <1>15 DEF Flagged

\* A request gives up waiting: what it sent may still be mined.
LEMMA FlaggedGivesUp ==
  ASSUME Types, Wired, Flagged, NEW r \in Served, NoReceipt(r)
  PROVE  Flagged'
<1>1. /\ UNCHANGED <<members, groupFlag, registered, grouped, pc, who, seen, pool>>
      /\ answer[r].status = "sent" /\ r \in Requests /\ Served' = Served
      /\ answer' = [answer EXCEPT ![r] = [fn |-> answer[r].fn, status |-> "pending"]]
      /\ Loses' = Loses
  BY GivesUp DEF people, chain, reads, Served, job, Loses
<1>2. /\ answer'[r].fn = answer[r].fn /\ answer'[r].status = "pending"
      /\ \A s \in Requests : s # r => answer'[s] = answer[s]
  BY <1>1 DEF Wired
<1>3. Keys' = Keys
  BY <1>1 DEF Keys
<1>4. ASSUME NEW i \in 1..Len(Keys) PROVE Tracked(i)'
  <2>1. Keys[i].by \in Requests /\ Tracked(i)
    BY KeysType DEF Flagged
  <2>2. \A stage : Waits(Keys[i], stage) => Waits(Keys[i], stage)'
    BY <1>1, <1>2, <1>3, <2>1 DEF Waits
  <2>3. Last(i)' = Last(i)
    BY <1>3 DEF Last
  <2>4. QED
    BY <1>1, <1>3, <2>1, <2>2, <2>3 DEF Tracked
<1>5. \A s \in Served : Ok(s) => Ok(s)'
  BY <1>2, Jobs DEF Ok, Types
<1>6. QED
  BY <1>1, <1>3, <1>4, <1>5 DEF Flagged

\* What the escrow makes of a transaction of the cooperative's key.
LEMMA Registers ==
  ASSUME Types, Wired, NEW tx \in Txs, Execute(tx.fn, tx.arg),
         tx.fn = "registerMember" => tx.arg.wallet # None
  PROVE  /\ \A m \in Members : registered[m] # None => registered'[m] # None
         /\ \A m \in Members : registered'[m] # None /\ registered[m] = None =>
                 tx.fn = "registerMember" /\ tx.arg.member = m
         /\ tx.fn = "registerMember" => registered'[tx.arg.member] = tx.arg.wallet
         /\ \A m \in Members : registered'[m] # registered[m] =>
                 tx.fn = "registerMember" /\ tx.arg.member = m
         /\ grouped => grouped'
         /\ grouped' => grouped \/ tx.fn = "registerGroup"
         /\ tx.fn = "registerGroup" => grouped'
<1>1. tx.fn \in Calls /\ tx.arg.member \in Members
  BY DEF Txs
<1>2. CASE tx.fn = "registerMember"
  <2>1. /\ registered' = [registered EXCEPT ![tx.arg.member] = tx.arg.wallet]
        /\ UNCHANGED grouped
    BY <1>2 DEF Execute
  <2>2. QED
    BY <1>1, <1>2, <2>1 DEF Wired
<1>3. CASE tx.fn = "registerGroup"
  BY <1>3 DEF Execute
<1>4. CASE tx.fn = "joinGroup" \/ tx.fn = "recordSavings"
  BY <1>4 DEF Execute
<1>5. QED
  BY <1>1, <1>2, <1>3, <1>4 DEF Calls

\* What the first transaction of a key becomes when it is mined.
LEMMA MinedFirst ==
  ASSUME Types, Wired, Flagged, NEW role \in Roles, Mine(role)
  PROVE  /\ UNCHANGED <<members, groupFlag, savings, pc, who, seen, faults>> /\ Served' = Served
         /\ \/ Keys' = Keys /\ role = "RELAYER"
            \/ /\ role = "KOPERASI" /\ Len(Keys) \in Nat /\ 1 \in 1..Len(Keys)
               /\ Len(Keys) = Len(Keys') + 1 /\ Len(Keys') \in Nat
               /\ \A i \in 1..Len(Keys') : /\ i + 1 \in 1..Len(Keys) /\ Keys'[i] = Keys[i + 1]
         /\ \A r \in Requests : answer'[r] # answer[r] =>
               /\ Heard(role) /\ r = pool[role][1].by /\ answer[r].status = "sent"
               /\ answer[r].fn = pool[role][1].fn /\ RoleFor(pool[role][1].fn) = role
         /\ \A m \in Members : registered[m] # None => registered'[m] # None
         /\ grouped => grouped'
<1>1. /\ UNCHANGED <<members, groupFlag, savings, pc, who, seen, faults, sitting>>
      /\ pool[role] # <<>> /\ pool' = [pool EXCEPT ![role] = Tail(@)]
      /\ Len(pool[role]) >= 1 /\ pool[role][1] \in Txs
  BY Mines DEF people, reads, ledger
<1>2. /\ Len(pool'[role]) \in Nat /\ Len(pool[role]) = Len(pool'[role]) + 1
      /\ \A i \in 1..Len(pool'[role]) : /\ i + 1 \in 1..Len(pool[role])
                                       /\ pool'[role][i] = pool[role][i + 1]
      /\ \A other \in Roles : other # role => pool'[other] = pool[other]
  BY <1>1, PoolShrinks DEF Wired
<1>3. \/ Keys' = Keys /\ role = "RELAYER"
      \/ /\ role = "KOPERASI" /\ Len(Keys) \in Nat /\ 1 \in 1..Len(Keys)
         /\ Len(Keys) = Len(Keys') + 1 /\ Len(Keys') \in Nat
         /\ \A i \in 1..Len(Keys') : /\ i + 1 \in 1..Len(Keys) /\ Keys'[i] = Keys[i + 1]
  <2>1. CASE role = "KOPERASI"
    <3>1. Len(Keys) = Len(Keys') + 1 /\ Len(Keys') \in Nat
      BY <1>2, <2>1 DEF Keys
    <3>2. Len(Keys) \in Nat /\ 1 \in 1..Len(Keys)
      BY <3>1
    <3>3. QED
      BY <1>2, <2>1, <3>1, <3>2 DEF Keys
  <2>2. CASE role = "RELAYER"
    BY <1>2, <2>2 DEF Keys, Roles
  <2>3. QED
    BY <2>1, <2>2 DEF Roles
<1> DEFINE tx == pool[role][1]
<1>4. PICK status \in {"success", "reverted"} :
         /\ answer' = IF Heard(role)
                      THEN [answer EXCEPT ![tx.by] = [fn |-> tx.fn, status |-> status]]
                      ELSE answer
         /\ status = "success" => Execute(tx.fn, tx.arg)
         /\ status = "reverted" => UNCHANGED chain
  BY Mines
<1>5. RoleFor(tx.fn) = role
  BY <1>1 DEF Wired
<1>6. tx.fn = "registerMember" => tx.arg.wallet # None
  <2>1. tx.fn = "registerMember" => role = "KOPERASI"
    BY <1>5 DEF RoleFor
  <2>2. role = "KOPERASI" => tx = Keys[1]
    BY DEF Keys
  <2>3. QED
    BY <1>3, <2>1, <2>2 DEF Flagged, Tracked
<1>7. (\A m \in Members : registered[m] # None => registered'[m] # None) /\ (grouped => grouped')
  <2>1. CASE status = "success"
    BY <1>1, <1>4, <1>6, <2>1, Registers
  <2>2. CASE status = "reverted"
    BY <1>4, <2>2 DEF chain
  <2>3. QED
    BY <2>1, <2>2
<1>8. ASSUME NEW r \in Requests, answer'[r] # answer[r]
      PROVE  /\ Heard(role) /\ r = tx.by /\ answer[r].status = "sent" /\ answer[r].fn = tx.fn
  <2>1. Heard(role) /\ r = tx.by
    BY <1>4, <1>8 DEF Wired
  <2>2. answer[tx.by] = [fn |-> tx.fn, status |-> "sent"]
    BY <2>1 DEF Heard
  <2>3. QED
    BY <2>1, <2>2
<1>9. QED
  BY <1>1, <1>3, <1>5, <1>7, <1>8 DEF Served, job

\* A transaction is mined: when it registers, its request knows or will.
LEMMA FlaggedMines ==
  ASSUME Types, Wired, Flagged, NEW role \in Roles, Mine(role)
  PROVE  Flagged'
<1>1. /\ UNCHANGED <<members, groupFlag, pc, who, seen>> /\ Served' = Served /\ Loses' = Loses
      /\ \/ Keys' = Keys /\ role = "RELAYER"
         \/ /\ role = "KOPERASI" /\ Len(Keys) \in Nat /\ 1 \in 1..Len(Keys)
            /\ Len(Keys) = Len(Keys') + 1 /\ Len(Keys') \in Nat
            /\ \A i \in 1..Len(Keys') : /\ i + 1 \in 1..Len(Keys) /\ Keys'[i] = Keys[i + 1]
      /\ \A r \in Requests : answer'[r] # answer[r] =>
            /\ Heard(role) /\ r = pool[role][1].by /\ answer[r].status = "sent"
            /\ answer[r].fn = pool[role][1].fn /\ RoleFor(pool[role][1].fn) = role
      /\ \A m \in Members : registered[m] # None => registered'[m] # None
      /\ grouped => grouped'
  BY MinedFirst DEF Loses
<1>2. ASSUME NEW i \in 1..Len(Keys), i > 1 \/ role = "RELAYER"
      PROVE  answer'[Keys[i].by] = answer[Keys[i].by] \/ answer[Keys[i].by].fn # Keys[i].fn
             \/ answer[Keys[i].by].status # "sent"
  <2> SUFFICES ASSUME answer'[Keys[i].by] # answer[Keys[i].by],
                      answer[Keys[i].by].fn = Keys[i].fn
               PROVE  FALSE
    OBVIOUS
  <2>1. /\ Heard(role) /\ Keys[i].by = pool[role][1].by
        /\ Keys[i].fn = pool[role][1].fn /\ RoleFor(Keys[i].fn) = role
    BY <1>1, KeysType
  <2>2. role = "KOPERASI"
    BY <2>1, KeysType DEF RoleFor
  <2>3. i \in 2..Len(pool[role]) /\ Keys[i] = pool[role][i]
    BY <1>1, <1>2, <2>2 DEF Keys
  <2>4. QED
    BY <2>1, <2>3 DEF Heard
<1>3. ASSUME NEW i \in 1..Len(Keys), i > 1 \/ role = "RELAYER", NEW stage
      PROVE  Waits(Keys[i], stage) =>
                /\ pc'[Keys[i].by] = stage
                /\ answer'[Keys[i].by].fn = Keys[i].fn
                /\ answer'[Keys[i].by].status \in {"sent", "pending"}
  <2> SUFFICES ASSUME Waits(Keys[i], stage)
               PROVE  answer'[Keys[i].by] = answer[Keys[i].by]
    BY <1>1 DEF Waits
  <2>1. CASE answer[Keys[i].by].status = "sent"
    BY <1>2, <1>3, <2>1 DEF Waits
  <2>2. CASE answer[Keys[i].by].status # "sent"
    BY <1>1, <2>2, KeysType
  <2>3. QED
    BY <2>1, <2>2
<1>4. ASSUME NEW i \in 1..Len(Keys') PROVE Tracked(i)'
  <2>1. CASE role = "RELAYER"
    <3>1. Keys' = Keys /\ i \in 1..Len(Keys) /\ Tracked(i)
      BY <1>1, <2>1 DEF Flagged
    <3>2. \A stage : Waits(Keys[i], stage) => Waits(Keys[i], stage)'
      BY <1>3, <2>1, <3>1 DEF Waits
    <3>3. Last(i)' = Last(i)
      BY <3>1 DEF Last
    <3>4. registered[Chair] # None => registered'[Chair] # None
      BY <1>1, BackofficeNames
    <3>5. QED
      BY <1>1, <3>1, <3>2, <3>3, <3>4 DEF Tracked
  <2>2. CASE role = "KOPERASI"
    <3>1. i + 1 \in 1..Len(Keys) /\ i + 1 > 1 /\ Keys'[i] = Keys[i + 1] /\ Tracked(i + 1)
      BY <1>1, <2>2 DEF Flagged
    <3>2. \A stage : Waits(Keys[i + 1], stage) =>
             /\ pc'[Keys'[i].by] = stage
             /\ answer'[Keys'[i].by].fn = Keys'[i].fn
             /\ answer'[Keys'[i].by].status \in {"sent", "pending"}
      BY <1>3, <3>1, ZenonT(60)
    <3>3. Last(i + 1) => Last(i)'
      <4>1. ASSUME Last(i + 1), NEW j \in 1..Len(Keys'), j > i
            PROVE  ~(Keys'[j].by = Keys'[i].by /\ Keys'[j].fn = Keys'[i].fn)
        <5>1. j + 1 \in 1..Len(Keys) /\ j + 1 > i + 1 /\ Keys'[j] = Keys[j + 1]
          BY <1>1, <2>2, <4>1
        <5>2. QED
          BY <3>1, <4>1, <5>1 DEF Last
      <4>2. QED
        BY <4>1 DEF Last
    <3>4. registered[Chair] # None => registered'[Chair] # None
      BY <1>1, BackofficeNames
    <3>5. QED
      BY <1>1, <3>1, <3>2, <3>3, <3>4 DEF Tracked, Waits
  <2>3. QED
    BY <2>1, <2>2 DEF Roles
<1>5. \A r \in Served : pc'[r] = "register" => seen'[r].wallet # None
  BY <1>1 DEF Flagged
<1>6. \A r \in Served : Ok(r) => Ok(r)'
  BY <1>1, Jobs DEF Ok, Types
<1> DEFINE tx == pool[role][1]
<1>7. PICK status \in {"success", "reverted"} :
         /\ answer' = IF Heard(role)
                      THEN [answer EXCEPT ![tx.by] = [fn |-> tx.fn, status |-> status]]
                      ELSE answer
         /\ status = "success" => Execute(tx.fn, tx.arg)
         /\ status = "reverted" => UNCHANGED chain
  BY Mines
<1>8. /\ tx \in Txs /\ RoleFor(tx.fn) = role /\ tx.by \in Served /\ tx.by \in Requests
      /\ role = "KOPERASI" => tx = Keys[1] /\ 1 \in 1..Len(Keys)
      /\ tx.fn \in {"registerMember", "registerGroup"} => role = "KOPERASI"
  <2>1. Len(pool[role]) >= 1 /\ tx \in Txs
    BY Mines
  <2>2. pool[role] \in Seq(Txs)
    BY DEF Wired
  <2>3. 1 \in 1..Len(pool[role])
    BY <2>1, <2>2
  <2>4. tx.by \in Served /\ RoleFor(tx.fn) = role
    BY <2>3 DEF Wired
  <2>5. tx.by \in Requests
    BY <2>1 DEF Txs
  <2>6. role = "KOPERASI" => tx = Keys[1] /\ 1 \in 1..Len(Keys)
    BY <1>1 DEF Keys
  <2>7. tx.fn \in {"registerMember", "registerGroup"} => role = "KOPERASI"
    BY <2>4 DEF RoleFor
  <2>8. QED
    BY <2>1, <2>4, <2>5, <2>6, <2>7
\* The request of a transaction that it waits for, once it is executed.
<1>9. ASSUME role = "KOPERASI", status = "success", NEW stage, Waits(tx, stage), Last(1)
      PROVE  pc'[tx.by] = stage /\ answer'[tx.by].status \in {"success", "pending"}
  <2>1. CASE answer[tx.by].status = "pending"
    BY <1>1, <1>8, <1>9, <2>1 DEF Waits
  <2>2. CASE answer[tx.by].status = "sent"
    <3>1. answer[tx.by] = [fn |-> tx.fn, status |-> "sent"]
      <4>1. answer[tx.by] \in Replies /\ answer[tx.by].fn = tx.fn
        BY <1>8, <1>9 DEF Waits, Wired
      <4>2. QED
        BY <2>2, <4>1 DEF Replies
    <3>2. Heard(role)
      <4>1. \A i \in 2..Len(pool[role]) : ~(Keys[i].by = tx.by /\ Keys[i].fn = tx.fn)
        <5>1. \A j \in 1..Len(Keys) : j > 1 => ~(Keys[j].by = tx.by /\ Keys[j].fn = tx.fn)
          BY <1>8, <1>9 DEF Last
        <5>2. \A j \in 2..Len(pool[role]) : j \in 1..Len(Keys) /\ j > 1
          BY <1>1, <1>9 DEF Keys
        <5>3. QED
          BY <5>1, <5>2
      <4>2. QED
        BY <1>9, <3>1, <4>1 DEF Heard, Keys
    <3>3. answer'[tx.by].status = "success"
      BY <1>7, <1>8, <1>9, <3>2 DEF Wired
    <3>4. QED
      BY <1>1, <1>9, <3>3 DEF Waits
  <2>3. QED
    BY <1>9, <2>1, <2>2 DEF Waits
<1>10. tx.fn = "registerMember" => tx.arg.wallet # None
  BY <1>8 DEF Flagged, Tracked
<1>11. ASSUME NEW m \in Members, registered'[m] # None, ~Loses
       PROVE  \/ members'[m].onchain
              \/ \E r \in Served : pc'[r] = "registering" /\ who'[r] = m /\ Ok(r)'
  <2>1. CASE registered[m] # None
    BY <1>1, <1>6, <1>11, <2>1 DEF Flagged
  <2>2. CASE registered[m] = None
    <3>1. status = "success"
      BY <1>7, <1>11, <2>2 DEF chain
    <3>2. tx.fn = "registerMember" /\ tx.arg.member = m
      BY <1>7, <1>8, <1>10, <1>11, <2>2, <3>1, Registers
    <3>3. role = "KOPERASI" /\ tx = Keys[1] /\ Tracked(1)
      BY <1>8, <3>2 DEF Flagged
    <3>4. \/ members[m].onchain
          \/ Waits(tx, "registering") /\ Last(1) /\ who[tx.by] = m
      BY <1>11, <3>2, <3>3 DEF Tracked
    <3>5. QED
      BY <1>1, <1>8, <1>9, <3>1, <3>3, <3>4 DEF Ok
  <2>3. QED
    BY <2>1, <2>2
<1>12. ASSUME grouped', ~Loses
       PROVE  groupFlag' \/ \E r \in Served : pc'[r] = "grouping" /\ Ok(r)'
  <2>1. CASE grouped
    BY <1>1, <1>6, <1>12, <2>1 DEF Flagged
  <2>2. CASE ~grouped
    <3>1. status = "success"
      BY <1>7, <1>12, <2>2 DEF chain
    <3>2. tx.fn = "registerGroup"
      BY <1>7, <1>8, <1>10, <1>12, <2>2, <3>1, Registers
    <3>3. role = "KOPERASI" /\ tx = Keys[1] /\ Tracked(1)
      BY <1>8, <3>2 DEF Flagged
    <3>4. groupFlag \/ (Waits(tx, "grouping") /\ Last(1))
      BY <1>12, <3>2, <3>3 DEF Tracked
    <3>5. QED
      BY <1>1, <1>8, <1>9, <3>1, <3>3, <3>4 DEF Ok
  <2>3. QED
    BY <2>1, <2>2
<1>13. QED
  BY <1>1, <1>4, <1>5, <1>11, <1>12 DEF Flagged

LEMMA FlaggedStep ==
  ASSUME Types, Wired, Flagged, [Next]_allVars
  PROVE  Flagged'
<1>1. CASE UNCHANGED <<people, chain, gateway, pc, reads, sitting>>
  <2>1. UNCHANGED <<members, groupFlag, seen, pc, who, Keys, answer, registered, grouped>>
        /\ Served' = Served /\ Loses' = Loses
    BY <1>1 DEF gateway, chain, Keys, people, reads, Served, job, Loses
  <2>2. \A i \in 1..Len(Keys) : Tracked(i)' = Tracked(i)
    BY <2>1 DEF Tracked, Waits, Last
  <2>3. \A r : Ok(r)' = Ok(r)
    BY <2>1 DEF Ok
  <2>4. QED
    BY <2>1, <2>2, <2>3 DEF Flagged
<1>2. ASSUME NEW s \in Served, Alone(s)
      PROVE  Flagged'
  BY <1>2, FlaggedAlone DEF Alone
<1>3. QED
  BY <1>1, <1>2, GatewaySteps, FlaggedSends, FlaggedGivesUp, FlaggedMines

\* What the escrow has of a registration, or is about to execute.
Sure(m) ==
    \/ registered[m] # None
    \/ \E i \in 1..Len(Keys) : Keys[i].fn = "registerMember" /\ Keys[i].arg.member = m
SureGroup == grouped \/ \E i \in 1..Len(Keys) : Keys[i].fn = "registerGroup"

Hopeful(r) == answer[r].status \in {"sent", "success", "pending"}

\* A flag, or a request that will set it, speaks of such a registration.
Expected ==
    "revert" \notin faults =>
       /\ \A m \in Members : members[m].onchain => Sure(m)
       /\ \A r \in Served : pc[r] = "registering" /\ Hopeful(r) => Sure(who[r])
       /\ groupFlag => SureGroup
       /\ \A r \in Served : pc[r] = "grouping" /\ Hopeful(r) => SureGroup

LEMMA InitExpected == Init => Expected
<1> SUFFICES ASSUME Init PROVE Expected
  OBVIOUS
<1>1. \A r \in Served : pc[r] = "start"
  BY Jobs DEF Init
<1>2. groupFlag = FALSE /\ \A m \in Members : ~members[m].onchain
  BY DEF Init, NoRow, SeededRow
<1>3. QED
  BY <1>1, <1>2 DEF Expected

\* What is sure stays so, when the escrow does not refuse what it accepted.
LEMMA SureStays ==
  ASSUME Types, Wired, Flagged, [Next]_allVars, "revert" \notin faults
  PROVE  /\ \A m \in Members : Sure(m) => Sure(m)'
         /\ SureGroup => SureGroup'
         /\ faults' = faults
<1>1. CASE UNCHANGED <<gateway, chain>>
  <2>1. UNCHANGED <<Keys, registered, grouped, faults>>
    BY <1>1 DEF gateway, chain, Keys
  <2>2. QED
    BY <2>1 DEF Sure, SureGroup
<1>2. ASSUME NEW r \in Served, NoReceipt(r)
      PROVE  UNCHANGED <<Keys, registered, grouped, faults>>
  BY <1>2, GivesUp DEF chain, Keys
<1>3. ASSUME NEW r \in Served, NEW fn, NEW tx, Sends(r, fn, tx)
      PROVE  /\ \A i \in 1..Len(Keys) : i \in 1..Len(Keys') /\ Keys'[i] = Keys[i]
             /\ UNCHANGED <<registered, grouped, faults>>
  <2>1. /\ fn \in Calls /\ UNCHANGED <<registered, grouped, faults>>
        /\ r \in Requests /\ tx \in [member : Members, wallet : Passwords, nominal : Nat]
    BY <1>3, Called DEF chain
  <2>2. CASE UNCHANGED pool
    BY <2>1, <2>2 DEF Keys
  <2>3. CASE pool' = [pool EXCEPT ![RoleFor(fn)] = Append(@, [by |-> r, fn |-> fn, arg |-> tx])]
    <3> DEFINE new == [by |-> r, fn |-> fn, arg |-> tx]
    <3>1. new \in Txs /\ RoleFor(fn) \in Roles /\ "KOPERASI" \in Roles
      BY <2>1 DEF Txs, RoleFor, Roles
    <3> HIDE DEF new
    <3>2. /\ Len(pool[RoleFor(fn)]) \in Nat
          /\ Len(pool'[RoleFor(fn)]) = Len(pool[RoleFor(fn)]) + 1
          /\ \A i \in 1..Len(pool[RoleFor(fn)]) : pool'[RoleFor(fn)][i] = pool[RoleFor(fn)][i]
          /\ \A other \in Roles : other # RoleFor(fn) => pool'[other] = pool[other]
      BY <2>3, <3>1, PoolGrows DEF Wired, new
    <3>3. QED
      BY <2>1, <3>1, <3>2 DEF Keys
  <2>4. QED
    BY <1>3, <2>2, <2>3, Called, ZenonT(60)
<1>4. ASSUME NEW role \in Roles, Mine(role)
      PROVE  /\ \A m \in Members : Sure(m) => Sure(m)'
             /\ SureGroup => SureGroup'
             /\ faults' = faults
  <2>1. /\ UNCHANGED faults
        /\ \/ Keys' = Keys /\ role = "RELAYER"
           \/ /\ role = "KOPERASI" /\ Len(Keys) \in Nat /\ 1 \in 1..Len(Keys)
              /\ Len(Keys) = Len(Keys') + 1 /\ Len(Keys') \in Nat
              /\ \A i \in 1..Len(Keys') : /\ i + 1 \in 1..Len(Keys) /\ Keys'[i] = Keys[i + 1]
        /\ \A m \in Members : registered[m] # None => registered'[m] # None
        /\ grouped => grouped'
    BY <1>4, MinedFirst
  <2>2. CASE role = "RELAYER"
    BY <2>1, <2>2 DEF Sure, SureGroup
  <2>3. CASE role = "KOPERASI"
    <3>1. /\ 1 \in 1..Len(Keys) /\ Keys[1] \in Txs /\ Tracked(1)
          /\ Keys[1].arg.member \in Members
      BY <2>1, <2>3, KeysType DEF Flagged
    <3>2. /\ Keys[1].fn = "registerMember" => registered'[Keys[1].arg.member] # None
          /\ Keys[1].fn = "registerGroup" => grouped'
      <4>1. PICK status \in {"success", "reverted"} :
               /\ status = "success" => Execute(Keys[1].fn, Keys[1].arg)
               /\ status = "reverted" => ~Accepts(Keys[1].fn, Keys[1].arg)
        BY <1>4, <2>3, Mines DEF Keys
      <4>2. CASE status = "success"
        BY <3>1, <4>1, <4>2, Registers DEF Tracked
      <4>3. CASE status = "reverted"
        BY <2>1, <3>1, <4>1, <4>3 DEF Accepts, Tracked
      <4>4. QED
        BY <4>2, <4>3
    <3>3. ASSUME NEW i \in 1..Len(Keys), i # 1
          PROVE  i - 1 \in 1..Len(Keys') /\ Keys'[i - 1] = Keys[i]
      <4>1. i - 1 \in 1..Len(Keys') /\ (i - 1) + 1 = i
        BY <2>1, <2>3, <3>3
      <4>2. QED
        BY <2>1, <2>3, <4>1
    <3>4. ASSUME NEW m \in Members, Sure(m)
          PROVE  Sure(m)'
      <4>1. CASE registered[m] # None
        BY <2>1, <4>1 DEF Sure
      <4>2. ASSUME NEW i \in 1..Len(Keys), Keys[i].fn = "registerMember", Keys[i].arg.member = m
            PROVE  Sure(m)'
        <5>1. CASE i = 1
          BY <3>2, <4>2, <5>1 DEF Sure
        <5>2. CASE i # 1
          <6>1. i - 1 \in 1..Len(Keys') /\ Keys'[i - 1].fn = "registerMember" /\ Keys'[i - 1].arg.member = m
            BY <3>3, <4>2, <5>2
          <6>2. QED
            BY <6>1 DEF Sure
        <5>3. QED
          BY <5>1, <5>2
      <4>3. QED
        BY <3>4, <4>1, <4>2 DEF Sure
    <3>5. SureGroup => SureGroup'
      BY <2>1, <3>2, <3>3 DEF SureGroup
    <3>6. QED
      BY <2>1, <3>4, <3>5
  <2>4. QED
    BY <2>2, <2>3 DEF Roles
<1>5. QED
  <2>1. CASE \E r \in Served : \E fn, tx : Sends(r, fn, tx)
    BY <1>3, <2>1 DEF Sure, SureGroup
  <2>2. CASE \E r \in Served : NoReceipt(r)
    BY <1>2, <2>2 DEF Sure, SureGroup
  <2>3. QED
    BY <1>1, <1>4, <2>1, <2>2, GatewaySteps DEF Alone

\* An answer becomes hopeful only by a call.
LEMMA HopeIsSent ==
  ASSUME Types, Wired, Flagged, [Next]_allVars, ~\E r \in Served : \E fn, tx : Sends(r, fn, tx)
  PROVE  \A r \in Served : Hopeful(r)' => Hopeful(r)
<1>1. CASE UNCHANGED gateway
  BY <1>1 DEF gateway, Hopeful
<1>2. ASSUME NEW r \in Served, NoReceipt(r), NEW s \in Served, Hopeful(s)'
      PROVE  Hopeful(s)
  <2>1. /\ answer[r].status = "sent" /\ s \in Requests
        /\ answer' = [answer EXCEPT ![r] = [fn |-> answer[r].fn, status |-> "pending"]]
    BY <1>2, GivesUp, Jobs DEF Types
  <2>2. QED
    BY <1>2, <2>1 DEF Hopeful, Wired
<1>3. ASSUME NEW role \in Roles, Mine(role), NEW s \in Served, Hopeful(s)'
      PROVE  Hopeful(s)
  <2>1. s \in Requests /\ (answer'[s] # answer[s] => answer[s].status = "sent")
    BY <1>3, MinedFirst, Jobs DEF Types
  <2>2. QED
    BY <1>3, <2>1 DEF Hopeful
<1>4. QED
  BY <1>1, <1>2, <1>3, GatewaySteps DEF Alone

LEMMA ExpectedStep ==
  ASSUME Types, Wired, Flagged, Expected, [Next]_allVars
  PROVE  Expected'
<1> SUFFICES ASSUME "revert" \notin faults'
             PROVE  /\ \A m \in Members : members'[m].onchain => Sure(m)'
                    /\ \A r \in Served : pc'[r] = "registering" /\ Hopeful(r)' => Sure(who[r])'
                    /\ groupFlag' => SureGroup'
                    /\ \A r \in Served : pc'[r] = "grouping" /\ Hopeful(r)' => SureGroup'
  BY JobsStay DEF Expected
<1>1. /\ \A m \in Members : Sure(m) => Sure(m)'
      /\ SureGroup => SureGroup'
      /\ "revert" \notin faults
  <2>1. faults' = faults
    BY GatewaySteps, Called, GivesUp, Mines DEF Alone, gateway
  <2>2. QED
    BY <2>1, SureStays
<1>2. ASSUME NEW s \in Served, NEW fn, NEW tx, Sends(s, fn, tx)
      PROVE  /\ UNCHANGED <<members, groupFlag, who>>
             /\ \A r \in Served : r # s => pc'[r] = pc[r] /\ answer'[r] = answer[r]
             /\ pc'[s] = "registering" /\ Hopeful(s)' =>
                   \E i \in 1..Len(Keys') : /\ Keys'[i].fn = "registerMember"
                                           /\ Keys'[i].arg.member = who'[s]
             /\ pc'[s] = "grouping" /\ Hopeful(s)' =>
                   \E i \in 1..Len(Keys') : Keys'[i].fn = "registerGroup"
  <2>1. PICK from, to \in Stages : Step(s, from, to)
    BY <1>2, SendsAt, Stepped
  <2>2. /\ s \in Requests /\ \A r \in Requests : r # s => pc'[r] = pc[r]
        /\ \A r \in Served : r \in Requests
    BY <2>1, OneMoves, Jobs DEF Types
  <2>3. /\ fn \in Calls /\ tx \in [member : Members, wallet : Passwords, nominal : Nat]
        /\ tx.member = who[s]
        /\ UNCHANGED <<members, groupFlag, who>>
    BY <1>2, Called DEF people, reads
  <2>4. PICK status \in {"failed", "sent"} :
           /\ answer' = [answer EXCEPT ![s] = [fn |-> fn, status |-> status]]
           /\ status = "sent" =>
                 pool' = [pool EXCEPT ![RoleFor(fn)] =
                             Append(@, [by |-> s, fn |-> fn, arg |-> tx])]
    BY <1>2, Called, ZenonT(60)
  <2>5. answer'[s].status = status /\ \A r \in Requests : r # s => answer'[r] = answer[r]
    BY <2>2, <2>3, <2>4, AnswerType DEF Wired, Outcomes
  <2>6. /\ pc'[s] = "registering" => fn = "registerMember"
        /\ pc'[s] = "grouping" => fn = "registerGroup"
    BY <1>2, <2>3, SendsAt DEF Calls
  <2>7. ASSUME fn \in {"registerMember", "registerGroup"}, Hopeful(s)'
        PROVE  \E i \in 1..Len(Keys') : Keys'[i].fn = fn /\ Keys'[i].arg = tx
    <3> DEFINE new == [by |-> s, fn |-> fn, arg |-> tx]
    <3>1. status = "sent"
      BY <2>4, <2>5, <2>7 DEF Hopeful
    <3>2. new \in Txs /\ RoleFor(fn) = "KOPERASI" /\ "KOPERASI" \in Roles
          /\ new.fn = fn /\ new.arg = tx
      BY <2>2, <2>3, <2>7 DEF Txs, RoleFor, Roles
    <3>3. pool' = [pool EXCEPT !["KOPERASI"] = Append(@, new)]
      BY <2>4, <3>1, <3>2
    <3> HIDE DEF new
    <3>4. /\ Len(Keys) \in Nat /\ Len(Keys') = Len(Keys) + 1
          /\ Keys'[Len(Keys) + 1] = new
      BY <3>2, <3>3, PoolGrows DEF Wired, Keys
    <3>5. Len(Keys) + 1 \in 1..Len(Keys')
      BY <3>4
    <3>6. QED
      BY <3>2, <3>4, <3>5
  <2>8. QED
    BY <2>2, <2>3, <2>5, <2>6, <2>7
<1>3. CASE \E s \in Served : \E fn, tx : Sends(s, fn, tx)
  <2>0. PICK s \in Served : \E fn, tx : Sends(s, fn, tx)
    BY <1>3
  <2>1. PICK fn, tx : Sends(s, fn, tx)
    BY <2>0
  <2>2. ASSUME NEW r \in Served, pc'[r] = "registering", Hopeful(r)'
        PROVE  Sure(who[r])'
    <3>1. r \in Served /\ who[r] \in Members /\ who'[r] = who[r]
      BY <1>2, <2>1, JobsStay DEF Types
    <3>2. CASE r = s
      BY <1>2, <2>1, <2>2, <3>1, <3>2 DEF Sure
    <3>3. CASE r # s
      <4>1. pc[r] = "registering" /\ Hopeful(r)
        BY <1>2, <2>1, <2>2, <3>1, <3>3 DEF Hopeful
      <4>2. Sure(who[r])
        BY <1>1, <3>1, <4>1 DEF Expected
      <4>3. ASSUME NEW m \in Members, m = who[r] PROVE Sure(who[r])'
        BY <1>1, <3>1, <4>2, <4>3 DEF Sure
      <4>4. QED
        BY <3>1, <4>3
    <3>4. QED
      BY <3>2, <3>3
  <2>3. ASSUME NEW r \in Served, pc'[r] = "grouping", Hopeful(r)'
        PROVE  SureGroup'
    <3>1. r \in Served
      BY JobsStay
    <3>2. CASE r = s
      BY <1>2, <2>1, <2>3, <3>2 DEF SureGroup
    <3>3. CASE r # s
      <4>1. pc[r] = "grouping" /\ Hopeful(r)
        BY <1>2, <2>1, <2>3, <3>1, <3>3 DEF Hopeful
      <4>2. QED
        BY <1>1, <3>1, <4>1 DEF Expected
    <3>4. QED
      BY <3>2, <3>3
  <2>4. members' = members /\ groupFlag' = groupFlag
    BY <1>2, <2>1
  <2>5. QED
    <3>1. \A m \in Members : members'[m].onchain => Sure(m)'
      BY <1>1, <2>4 DEF Expected
    <3>2. groupFlag' => SureGroup'
      BY <1>1, <2>4 DEF Expected
    <3>3. QED
      BY <2>2, <2>3, <3>1, <3>2
\* No call is made: whoever is registering was before, and hopes for no more.
<1>4. CASE ~\E s \in Served : \E fn, tx : Sends(s, fn, tx)
  <2>1. \A r \in Served : Hopeful(r)' => Hopeful(r)
    BY <1>4, HopeIsSent
  <2>2. /\ \A r \in Served : pc'[r] \in {"registering", "grouping"} =>
              pc[r] = pc'[r] /\ who'[r] = who[r]
        /\ \A m \in Members : members'[m].onchain =>
              \/ members[m].onchain
              \/ \E r \in Served : pc[r] = "registering" /\ who[r] = m /\ Hopeful(r)
        /\ groupFlag' => groupFlag \/ \E r \in Served : pc[r] = "grouping" /\ Hopeful(r)
    <3>1. CASE UNCHANGED <<people, pc, reads>>
      BY <3>1 DEF people, reads
    <3>2. ASSUME NEW s \in Served, Alone(s)
          PROVE  /\ \A r \in Served : pc'[r] \in {"registering", "grouping"} =>
                       pc[r] = pc'[r] /\ who'[r] = who[r]
                 /\ \A m \in Members : members'[m].onchain =>
                       members[m].onchain \/ (pc[s] = "registering" /\ who[s] = m /\ Ok(s))
                 /\ groupFlag' => groupFlag \/ (pc[s] = "grouping" /\ Ok(s))
      <4>1. PICK from, to \in Stages : Step(s, from, to)
        BY <3>2, Stepped DEF Alone
      <4>2. \A r \in Served : r # s => pc'[r] = pc[r] /\ who'[r] = who[r]
        BY <3>2, <4>1, OneMoves, FlagsMove, Jobs DEF Alone, Types
      <4>3. pc'[s] \notin {"registering", "grouping"}
        BY <1>4, <3>2, RegistersAt DEF Alone, Sends
      <4>4. /\ MarkMember(s) => pc[s] = "registering"
            /\ MarkGroup(s) => pc[s] = "grouping"
        BY DEF MarkMember, MarkGroup, Step, At
      <4>5. QED
        BY <3>2, <4>2, <4>3, <4>4, FlagsMove DEF Alone
    <3>3. \A r : Ok(r) => Hopeful(r)
      BY DEF Ok, Hopeful
    <3>4. CASE \E s \in Served : Alone(s)
      BY <3>2, <3>3, <3>4
    <3>5. QED
      BY <1>4, <3>1, <3>4, GatewaySteps, GivesUp, Mines
  <2>3. /\ \A m \in Members : members[m].onchain => Sure(m)
        /\ \A r \in Served : pc[r] = "registering" /\ Hopeful(r) => Sure(who[r])
        /\ groupFlag => SureGroup
        /\ \A r \in Served : pc[r] = "grouping" /\ Hopeful(r) => SureGroup
    BY <1>1 DEF Expected
  <2>4. \A m \in Members : members'[m].onchain => Sure(m)'
    BY <1>1, <2>2, <2>3
  <2>5. ASSUME NEW r \in Served, pc'[r] = "registering", Hopeful(r)'
        PROVE  Sure(who[r])'
    <3>1. /\ r \in Served /\ pc[r] = "registering" /\ Hopeful(r) /\ who'[r] = who[r]
          /\ who[r] \in Members
      BY <2>1, <2>2, <2>5, JobsStay DEF Types
    <3>2. ASSUME NEW m \in Members, m = who[r] PROVE Sure(who[r])'
      BY <1>1, <2>3, <3>1, <3>2 DEF Sure
    <3>3. QED
      BY <3>1, <3>2
  <2>6. \A r \in Served : pc'[r] = "grouping" /\ Hopeful(r)' => SureGroup'
    BY <1>1, <2>1, <2>2, <2>3, JobsStay
  <2>7. groupFlag' => SureGroup'
    BY <1>1, <2>2, <2>3
  <2>8. QED
    BY <2>4, <2>5, <2>6, <2>7
<1>5. QED
  BY <1>3, <1>4

\* The flags of the tables and the registries of the escrow, however approvals and
\* syncs overlap, whatever the chain answers and wherever a restart comes between
\* a call and its flag: a flag is set for what the escrow has or will execute, when
\* it does not refuse what it accepted; and what it has is flagged, or a request
\* stands or was cut off right before it would do so, when no answer of the node
\* is lost.
THEOREM FlagsCorrect == Spec => []FlagFollowsChain
<1>1. Init => Types /\ Wired /\ Flagged /\ Expected
  BY InitTypes, InitWired, InitFlagged, InitExpected
<1>2. Types /\ Wired /\ Flagged /\ Expected /\ [Next]_allVars
         => (Types /\ Wired /\ Flagged /\ Expected)'
  BY TypesStep, WiredStep, FlaggedStep, ExpectedStep
<1>3. Wired /\ Flagged /\ Expected => FlagFollowsChain
  <2> SUFFICES ASSUME Wired, Flagged, Expected PROVE FlagFollowsChain
    OBVIOUS
  <2>1. \A i \in 1..Len(Keys) : i \in DOMAIN pool["KOPERASI"]
    BY DEF Wired, Keys, Roles
  <2>2. RoleFor("registerMember") = "KOPERASI" /\ RoleFor("registerGroup") = "KOPERASI"
    BY DEF RoleFor
  <2>3. ASSUME NEW m \in Members, Sure(m)
        PROVE  registered[m] # None \/ Sent("registerMember", m) # {}
    BY <2>1, <2>2, <2>3 DEF Sure, Sent, Keys
  <2>4. SureGroup => grouped \/ Sent("registerGroup", None) # {}
    BY <2>1, <2>2 DEF SureGroup, Sent, Keys
  <2>5. QED
    BY <2>3, <2>4 DEF FlagFollowsChain, Expected, Flagged, Loses
<1>4. QED
  BY <1>1, <1>2, <1>3, PTL DEF Spec, AllInit

----------------------------------------------------------------------------
(* Custodial wallets, and those the escrow knows *)

\* The position a request stays at once it is there.
Over(r) == pc[r] \in Ended \/ r \notin running

\* An order of requests that follows from what waits for what: the later of two
\* waits for the earlier, or for one that comes after it.
Follows(order) ==
    /\ order \in SUBSET (Served \X Served)
    /\ \A r, s \in Served : <<r, s>> \in order =>
          r = job[s].after \/ <<r, job[s].after>> \in order

\* Approvals of one member are sent one after the other.
OneByOne ==
    \E order \in SUBSET (Served \X Served) :
        /\ Follows(order)
        /\ \A r, s \in Served : /\ Kind(r) = "approve" /\ Kind(s) = "approve" /\ r # s
                                /\ job[r].member = job[s].member
                                => <<r, s>> \in order \/ <<s, r>> \in order

\* So a request that has begun does so when those before it are over.
Queued ==
    /\ \A r \in Served : pc[r] = "start" => r \in running
    /\ \A r \in Served : Kind(r) = "approve" => who[r] = job[r].member
    /\ \A order : Follows(order) =>
          \A r, s \in Served : <<r, s>> \in order /\ pc[s] # "start" => Over(r)

LEMMA InitQueued == Init => Queued
<1> SUFFICES ASSUME Init PROVE Queued
  OBVIOUS
<1>1. \A r \in Served : pc[r] = "start" /\ r \in running /\ who[r] = job[r].member
  BY Jobs DEF Init
<1>2. QED
  BY <1>1 DEF Queued

\* No request leaves its last position, and each waits for its turn to begin.
LEMMA BeginsInTurn ==
  ASSUME Types, NEW s \in Served, (\E row : Writes(s, row)) \/ Reads(s) \/ Moves(s)
  PROVE  /\ pc[s] \notin Ended
         /\ pc[s] = "start" => Ready(s)
<1> USE DEF Step, At
<1>1. CASE \E row : Writes(s, row)
  BY <1>1 DEF Writes, SubmitKyc, Approve, Reject, ResetPassword, StoreWallet,
              MarkMember, AddToBalance, Ended
<1>2. CASE Reads(s)
  BY <1>2 DEF Reads, Find, ReadMember, ListMembers, NextMember, ReadGroup, NextJoin, Ended
<1>3. CASE Moves(s)
  BY <1>3 DEF Moves, AppendAudit, ReadWallet, RegisterMember, RegisterGroup,
              MarkGroup, JoinGroup, Joined, BootstrapDone, Reply, InsertSaving,
              ThrowSaving, AnchorSaving, StoreHash, Primed, Unheard, ReadCache,
              StoreSnapshot, Tick, CountMembers, FoldMembers, Stamp, SendQuestion,
              Mount, ShowAnswer, Ended
<1>4. QED
  BY <1>1, <1>2, <1>3

\* Whom a request is about changes only in a bootstrap.
LEMMA WhoStays ==
  ASSUME Types, Placed, NEW s \in Served, (\E row : Writes(s, row)) \/ Reads(s) \/ Moves(s)
  PROVE  /\ \A r \in Served : r # s => who'[r] = who[r]
         /\ who'[s] # who[s] => Kind(s) = "sync" /\ pc[s] \in {"members", "joins"}
<1>1. /\ \A r \in Served : r # s => who'[r] = who[r]
      /\ who'[s] # who[s] => pc[s] \in {"members", "joins"}
  BY FlagsMove
<1>2. pc[s] \in {"members", "joins"} => Kind(s) = "sync"
  BY KindsOf DEF Placed, StagesOf, Types
<1>3. QED
  BY <1>1, <1>2

LEMMA QueuedStep ==
  ASSUME Types, Placed, Queued, [Next]_allVars
  PROVE  Queued'
<1>0. Served' = Served /\ job' = job /\ (\A r : Kind(r)' = Kind(r))
      /\ \A order : Follows(order)' = Follows(order)
  BY JobsStay DEF Follows, Served, job, Kind
<1>1. ASSUME NEW s \in Served, (\E row : Writes(s, row)) \/ Reads(s) \/ Moves(s)
      PROVE  Queued'
  <2>1. PICK from, to \in Stages : Step(s, from, to)
    BY <1>1, Stepped
  <2>2. /\ \A r \in Served : r \in Requests /\ (r # s => pc'[r] = pc[r])
        /\ UNCHANGED running /\ s \in running
    BY <2>1, OneMoves, Jobs DEF Types
  <2>3. pc[s] \notin Ended /\ (pc[s] = "start" => Ready(s))
    BY <1>1, BeginsInTurn
  <2>4. \A r \in Served : Over(r) => Over(r)'
    BY <2>2, <2>3 DEF Over
  <2>5. ASSUME NEW order, Follows(order), NEW r \in Served, NEW q \in Served,
               <<r, q>> \in order, pc'[q] # "start"
        PROVE  Over(r)'
    <3>1. CASE pc[q] # "start"
      BY <2>4, <2>5, <3>1 DEF Queued
    <3>2. CASE pc[q] = "start"
      <4>1. q = s /\ Ready(s)
        BY <2>2, <2>3, <2>5, <3>2
      <4>2. r = job[s].after \/ <<r, job[s].after>> \in order
        BY <2>5, <4>1 DEF Follows
      <4>3. job[s].after \in Served
        BY <2>5, <4>2 DEF Follows
      <4>4. pc[job[s].after] \in Ended \/ job[s].after \notin running
        BY <4>1, <4>3, Jobs, BackofficeNames DEF Ready, Types
      <4>5. Over(job[s].after) /\ pc[job[s].after] # "start"
        BY <4>3, <4>4 DEF Over, Ended, Queued
      <4>6. Over(r)
        BY <2>5, <4>2, <4>3, <4>5 DEF Queued
      <4>7. QED
        BY <2>4, <4>6
    <3>3. QED
      BY <3>1, <3>2
  <2>6. \A r \in Served : pc'[r] = "start" => r \in running'
    BY <2>2 DEF Queued
  <2>7. \A r \in Served : Kind(r) = "approve" => who'[r] = job[r].member
    BY <1>1, WhoStays DEF Queued
  <2>8. QED
    BY <1>0, <2>5, <2>6, <2>7 DEF Queued
<1>2. CASE Outside
  <2>1. UNCHANGED <<pc, who>> /\ running' \subseteq running
    BY <1>2, OutsideKeeps DEF Untouched
  <2>2. \A r \in running : pc[r] = "start" => r \in running'
    BY <1>2 DEF Outside, NoReceipt, ShowError, Mine, Expire, LeaveTab, Crash, fixed, vars
  <2>3. \A r \in Served : Over(r) => Over(r)'
    BY <2>1 DEF Over
  <2>4. QED
    BY <1>0, <2>1, <2>2, <2>3 DEF Queued
<1>3. QED
  BY <1>1, <1>2, Kinds

\* Two requests never generate a wallet for one member at the same time.
OneGenerates ==
    \A r, s \in running :
        pc[r] = "generate" /\ pc[s] = "generate" /\ who[r] = who[s] => r = s

LEMMA GeneratesAlone == Types /\ Placed /\ Queued /\ OneByOne => OneGenerates
<1> SUFFICES ASSUME Types, Placed, Queued, OneByOne, NEW r \in running, NEW s \in running,
                    pc[r] = "generate", pc[s] = "generate", who[r] = who[s], r # s
             PROVE  FALSE
  BY DEF OneGenerates
<1>1. r \in Served /\ s \in Served
  BY DEF Types
<1>2. Kind(r) = "approve" /\ Kind(s) = "approve"
  BY <1>1, KindsOf DEF Placed, StagesOf, Types
<1>3. job[r].member = job[s].member
  BY <1>1, <1>2 DEF Queued
<1>4. PICK order : Follows(order) /\ (<<r, s>> \in order \/ <<s, r>> \in order)
  BY <1>1, <1>2, <1>3 DEF OneByOne
<1>5. Over(r) \/ Over(s)
  BY <1>1, <1>4 DEF Queued
<1>6. QED
  BY <1>5 DEF Over, Ended


\* The wallet a call or the escrow has is the stored one, and whoever generates
\* one does so for a member without.
Keyed ==
    /\ \A i \in 1..Len(Keys) : Keys[i].fn = "registerMember" =>
          Keys[i].arg.wallet = members[Keys[i].arg.member].wallet
    /\ \A m \in Members : registered[m] # None => registered[m] = members[m].wallet
    /\ \A r \in Served : pc[r] = "register" => seen[r].wallet = members[who[r]].wallet
    /\ \A r \in running : pc[r] = "generate" => members[who[r]].wallet = None

LEMMA InitKeyed == Init => Keyed
<1> SUFFICES ASSUME Init PROVE Keyed
  OBVIOUS
<1>1. Keys = <<>> /\ \A m \in Members : registered[m] = None
  BY DEF Init, GatewayInit, Keys, Roles
<1>2. \A r \in Served : pc[r] = "start"
  BY Jobs DEF Init
<1>3. running = Served
  BY DEF Init
<1>4. QED
  BY <1>1, <1>2, <1>3 DEF Keyed

\* What a step of a request does to wallets, and where it leads.
LEMMA WalletsMove ==
  ASSUME Types, NEW s \in Served, (\E row : Writes(s, row)) \/ Reads(s) \/ Moves(s)
  PROVE  /\ \/ \A m \in Members : members'[m].wallet = members[m].wallet
            \/ /\ pc[s] = "generate" /\ pc'[s] = "walleted"
               /\ \A m \in Members : m # who[s] => members'[m].wallet = members[m].wallet
         /\ pc'[s] = "generate" => UNCHANGED <<members, who>> /\ Row(s).wallet = None
<1>0. s \in Requests /\ DOMAIN pc = Requests
  BY Jobs DEF Types
<1>1. CASE \E row : Writes(s, row)
  <2>1. PICK row : Writes(s, row)
    BY <1>1
  <2>2. /\ row \in PersonRow /\ Row(s) \in PersonRow
        /\ members' = [members EXCEPT ![who[s]] = row] /\ Row(s) = members[who[s]]
    BY <2>1, Written, RowType DEF Update, Types, Row
  <2>3. \A m \in Members : members'[m] = IF m = who[s] THEN row ELSE members[m]
    BY <2>2 DEF Types
  <2>4. row.wallet = Row(s).wallet \/ StoreWallet(s)
    BY <2>1, <2>2 DEF Writes, NoRow, PersonRow
  <2>5. StoreWallet(s) => pc[s] = "generate" /\ pc'[s] = "walleted"
    BY <1>0 DEF StoreWallet, Step, At, Goto
  <2>6. pc'[s] # "generate"
    BY <1>0, <2>1 DEF Writes, SubmitKyc, Approve, Reject, ResetPassword, StoreWallet,
         MarkMember, AddToBalance, After, Step, At, Goto
  <2>7. QED
    BY <2>2, <2>3, <2>4, <2>5, <2>6
<1>2. CASE Reads(s)
  <2>1. members' = members
    BY <1>2, ReadTypes
  <2>2. pc'[s] # "generate"
    BY <1>0, <1>2 DEF Reads, Find, ReadMember, ListMembers, NextMember, ReadGroup, NextJoin,
         After, Step, At, Goto
  <2>3. QED
    BY <2>1, <2>2
<1>3. CASE Moves(s)
  <2>1. UNCHANGED <<members, who>>
    BY <1>3, MovesKeep
  <2>2. CASE ReadWallet(s)
    BY <1>0, <2>1, <2>2 DEF ReadWallet, StoredWallet, Step, At, Goto
  <2>3. CASE Moves(s) /\ ~ReadWallet(s)
    <3>1. pc'[s] # "generate"
      BY <1>0, <2>3
         DEF Moves, AppendAudit, RegisterMember, RegisterGroup, MarkGroup,
             JoinGroup, Joined, BootstrapDone, Reply, InsertSaving,
             ThrowSaving, AnchorSaving, StoreHash, Primed, Unheard, ReadCache,
             StoreSnapshot, Tick, CountMembers, FoldMembers, Stamp, SendQuestion,
             Mount, ShowAnswer, Step, At, Goto
    <3>2. QED
      BY <2>1, <3>1
  <2>4. QED
    BY <1>3, <2>2, <2>3
<1>4. QED
  BY <1>1, <1>2, <1>3

LEMMA KeyedAlone ==
  ASSUME Types, Placed, Wired, Flagged, Keyed, OneGenerates, NEW s \in Served, Alone(s)
  PROVE  Keyed'
<1>0. (\E row : Writes(s, row)) \/ Reads(s) \/ Moves(s)
  BY DEF Alone
<1>1. PICK from, to \in Stages : Step(s, from, to)
  BY <1>0, Stepped
<1>2. /\ s \in running /\ running' = running /\ running \subseteq Served /\ Served' = Served
      /\ \A r \in Served : r \in Requests /\ (r # s => pc'[r] = pc[r])
  BY <1>1, OneMoves, Jobs DEF Types
<1>3. /\ \/ \A m \in Members : members'[m].wallet = members[m].wallet
         \/ /\ pc[s] = "generate" /\ pc'[s] = "walleted"
            /\ \A m \in Members : m # who[s] => members'[m].wallet = members[m].wallet
      /\ pc'[s] = "generate" => UNCHANGED <<members, who>> /\ Row(s).wallet = None
  BY <1>0, WalletsMove
<1>4. /\ UNCHANGED <<Keys, registered>>
      /\ \A r \in Served : r # s => who'[r] = who[r] /\ seen'[r] = seen[r]
      /\ \A r \in Served : who[r] \in Members
  BY <1>0, FlagsMove DEF Alone, gateway, chain, Keys, Types
\* A wallet that a call, the escrow or a read has is not stored again.
<1>5. \A m \in Members : members[m].wallet # None => members'[m].wallet = members[m].wallet
  <2>1. pc[s] = "generate" => members[who[s]].wallet = None
    BY <1>2 DEF Keyed
  <2>2. QED
    BY <1>3, <2>1
<1>6. \A i \in 1..Len(Keys) : Keys[i].fn = "registerMember" =>
          Keys[i].arg.wallet = members'[Keys[i].arg.member].wallet
  BY <1>5, KeysType DEF Keyed, Flagged, Tracked
<1>7. \A m \in Members : registered[m] # None => registered[m] = members'[m].wallet
  BY <1>5 DEF Keyed
<1>8. ASSUME NEW r \in Served, pc'[r] = "register"
      PROVE  seen'[r].wallet = members'[who'[r]].wallet
  <2>1. CASE r # s
    BY <1>2, <1>4, <1>5, <1>8, <2>1 DEF Keyed, Flagged
  <2>2. CASE r = s
    <3>1. ReadMember(s)
      BY <1>0, <1>8, <2>2, RegistersAt
    <3>2. UNCHANGED <<members, who>> /\ seen' = [seen EXCEPT ![s].wallet = Row(s).wallet]
      BY <3>1 DEF ReadMember, people
    <3>3. seen'[s].wallet = Row(s).wallet
      BY <1>2, <3>2 DEF Types, PersonRow
    <3>4. QED
      BY <2>2, <3>2, <3>3 DEF Row
  <2>3. QED
    BY <2>1, <2>2
<1>9. ASSUME NEW r \in running, pc'[r] = "generate"
      PROVE  members'[who'[r]].wallet = None
  <2>1. CASE r # s
    <3>1. pc[r] = "generate" /\ who'[r] = who[r] /\ who[r] \in Members
          /\ members[who[r]].wallet = None
      BY <1>2, <1>4, <1>9, <2>1 DEF Keyed
    <3>2. pc[s] = "generate" => who[r] # who[s]
      BY <1>2, <2>1, <3>1 DEF OneGenerates
    <3>3. QED
      BY <1>3, <3>1, <3>2
  <2>2. CASE r = s
    BY <1>3, <1>9, <2>2 DEF Row
  <2>3. QED
    BY <2>1, <2>2
<1>10. QED
  BY <1>2, <1>4, <1>6, <1>7, <1>8, <1>9 DEF Keyed

LEMMA KeyedSends ==
  ASSUME Types, Wired, Keyed, NEW s \in Served, NEW fn, NEW tx, Sends(s, fn, tx)
  PROVE  Keyed'
<1>1. PICK from, to \in Stages : Step(s, from, to)
  BY SendsAt, Stepped
<1>2. /\ s \in Requests /\ s \in running /\ running' = running /\ Served' = Served
      /\ \A r \in Served : r \in Requests /\ (r # s => pc'[r] = pc[r])
      /\ running \subseteq Served
  BY <1>1, OneMoves, Jobs DEF Types
<1>3. /\ fn \in Calls /\ tx \in [member : Members, wallet : Passwords, nominal : Nat]
      /\ tx.member = who[s] /\ UNCHANGED <<members, registered, who, seen>>
  BY Called DEF people, chain, reads
<1>4. /\ pc'[s] \notin {"register", "generate"}
      /\ fn = "registerMember" => pc[s] = "register" /\ tx.wallet = seen[s].wallet
  BY <1>3, SendsAt DEF Calls
<1> DEFINE new == [by |-> s, fn |-> fn, arg |-> tx]
<1>5. \A i \in 1..Len(Keys') : (i \in 1..Len(Keys) /\ Keys'[i] = Keys[i]) \/ Keys'[i] = new
  <2>1. CASE UNCHANGED pool
    BY <2>1 DEF Keys
  <2>2. CASE pool' = [pool EXCEPT ![RoleFor(fn)] = Append(@, new)]
    <3>1. new \in Txs /\ RoleFor(fn) \in Roles /\ "KOPERASI" \in Roles
      BY <1>2, <1>3 DEF Txs, RoleFor, Roles
    <3> HIDE DEF new
    <3>2. /\ Len(pool[RoleFor(fn)]) \in Nat
          /\ Len(pool'[RoleFor(fn)]) = Len(pool[RoleFor(fn)]) + 1
          /\ \A i \in 1..Len(pool[RoleFor(fn)]) : pool'[RoleFor(fn)][i] = pool[RoleFor(fn)][i]
          /\ pool'[RoleFor(fn)][Len(pool[RoleFor(fn)]) + 1] = new
          /\ \A other \in Roles : other # RoleFor(fn) => pool'[other] = pool[other]
      BY <2>2, <3>1, PoolGrows DEF Wired
    <3>3. CASE RoleFor(fn) = "KOPERASI"
      BY <3>2, <3>3 DEF Keys
    <3>4. CASE RoleFor(fn) # "KOPERASI"
      BY <3>1, <3>2, <3>4 DEF Keys
    <3>5. QED
      BY <3>3, <3>4
  <2>3. UNCHANGED pool \/ pool' = [pool EXCEPT ![RoleFor(fn)] = Append(@, new)]
    BY Called, ZenonT(60)
  <2> HIDE DEF new
  <2>4. QED
    BY <2>1, <2>2, <2>3
<1>6. fn = "registerMember" => tx.wallet = members[tx.member].wallet
  BY <1>3, <1>4 DEF Keyed
<1>7. \A i \in 1..Len(Keys') : Keys'[i].fn = "registerMember" =>
          Keys'[i].arg.wallet = members'[Keys'[i].arg.member].wallet
  BY <1>3, <1>5, <1>6 DEF Keyed
<1>8. QED
  BY <1>2, <1>3, <1>4, <1>7 DEF Keyed

LEMMA KeyedMines ==
  ASSUME Types, Wired, Flagged, Keyed, NEW role \in Roles, Mine(role)
  PROVE  Keyed'
<1>1. /\ UNCHANGED <<members, pc, who, seen, running>> /\ Served' = Served
      /\ \/ Keys' = Keys /\ role = "RELAYER"
         \/ /\ role = "KOPERASI" /\ 1 \in 1..Len(Keys)
            /\ \A i \in 1..Len(Keys') : /\ i + 1 \in 1..Len(Keys) /\ Keys'[i] = Keys[i + 1]
  BY MinedFirst, Mines
<1> DEFINE tx == pool[role][1]
<1>2. \A i \in 1..Len(Keys') : Keys'[i].fn = "registerMember" =>
          Keys'[i].arg.wallet = members[Keys'[i].arg.member].wallet
  BY <1>1 DEF Keyed
<1>3. tx \in Txs /\ (tx.fn = "registerMember" => tx = Keys[1] /\ 1 \in 1..Len(Keys))
  <2>1. tx \in Txs /\ Len(pool[role]) >= 1
    BY Mines
  <2>2. pool[role] \in Seq(Txs)
    BY DEF Wired
  <2>3. 1 \in 1..Len(pool[role])
    BY <2>1, <2>2
  <2>4. RoleFor(tx.fn) = role
    BY <2>3 DEF Wired
  <2>5. QED
    BY <1>1, <2>1, <2>4 DEF Keys, RoleFor
<1>4. PICK status \in {"success", "reverted"} :
         /\ status = "success" => Execute(tx.fn, tx.arg)
         /\ status = "reverted" => UNCHANGED chain
  BY Mines
<1>5. ASSUME NEW m \in Members, registered'[m] # None
      PROVE  registered'[m] = members[m].wallet
  <2>1. CASE registered'[m] = registered[m]
    BY <1>5, <2>1 DEF Keyed
  <2>2. CASE registered'[m] # registered[m]
    <3>1. Execute(tx.fn, tx.arg)
      BY <1>4, <2>2 DEF chain
    <3>2. tx.fn = "registerMember" => tx.arg.wallet # None
      BY <1>3 DEF Flagged, Tracked
    <3>3. tx.fn = "registerMember" /\ tx.arg.member = m /\ registered'[m] = tx.arg.wallet
      BY <1>3, <2>2, <3>1, <3>2, Registers
    <3>4. QED
      BY <1>3, <3>3 DEF Keyed
  <2>3. QED
    BY <2>1, <2>2
<1>6. QED
  BY <1>1, <1>2, <1>5 DEF Keyed

LEMMA KeyedStep ==
  ASSUME Types, Placed, Wired, Flagged, Keyed, OneGenerates, [Next]_allVars
  PROVE  Keyed'
<1>1. CASE UNCHANGED <<people, chain, pc, reads, sitting, pool>>
  <2>1. UNCHANGED <<members, registered, pc, who, seen, Keys>> /\ Served' = Served
    BY <1>1 DEF people, chain, reads, Keys, Served, job
  <2>2. running' \subseteq running
    <3>1. CASE \E s \in Served : (\E row : Writes(s, row)) \/ Reads(s) \/ Moves(s)
      BY <3>1, Stepped, OneMoves
    <3>2. CASE Outside
      BY <3>2, OutsideKeeps
    <3>3. QED
      BY <3>1, <3>2, Kinds
  <2>3. QED
    BY <2>1, <2>2 DEF Keyed
<1>2. QED
  BY <1>1, GatewaySteps, GivesUp, KeyedAlone, KeyedSends, KeyedMines DEF gateway

\* A member's wallet and the one the escrow registered, however approvals and syncs
\* overlap, whatever the chain answers and wherever a restart cuts them off, as long
\* as the approvals of one member are not sent at the same time: then two wallets may
\* be generated and the one registered not be the one stored, as the run kyc_wallets
\* shows.
THEOREM WalletsCorrect == Spec => [](OneByOne => KeyMatchesChain)
<1> DEFINE Inv == /\ Types /\ Placed /\ Wired /\ Flagged /\ Queued
                  /\ OneByOne => Keyed
<1>1. Init => Inv
  BY InitTypes, InitPlaced, InitWired, InitFlagged, InitQueued, InitKeyed
<1>2. Inv /\ [Next]_allVars => Inv'
  <2> SUFFICES ASSUME Inv, [Next]_allVars PROVE Inv'
    OBVIOUS
  <2>1. (Types /\ Placed /\ Wired /\ Flagged /\ Queued)'
    BY TypesStep, PlacedStep, WiredStep, FlaggedStep, QueuedStep
  <2>2. OneByOne' = OneByOne
    BY JobsStay DEF OneByOne, Follows, Served, job, Kind
  <2>3. OneByOne => Keyed'
    BY GeneratesAlone, KeyedStep
  <2>4. QED
    BY <2>1, <2>2, <2>3
<1>3. Inv => (OneByOne => KeyMatchesChain)
  BY DEF Keyed, KeyMatchesChain
<1>4. QED
  BY <1>1, <1>2, <1>3, PTL DEF Spec, AllInit


----------------------------------------------------------------------------
(* Deposits and their units *)

\* Past its call of recordSavings.
Anchoring == {"anchoring", "audit", "reply", "done"}

OnTheWay(r) == \E i \in 1..Len(Relays) : Relays[i].by = r

\* The relayer's calls are of different deposits, of members that are registered.
RelayOf(i) ==
    /\ Saves(Relays[i].by, Anchoring)
    /\ Relays[i].arg.member = who[Relays[i].by]
    /\ Relays[i].arg.nominal = Nominal(Relays[i].by)
    /\ registered[Relays[i].arg.member] # None
Relayed ==
    /\ \A i \in 1..Len(Relays) : RelayOf(i)
    /\ \A i, j \in 1..Len(Relays) : Relays[i].by = Relays[j].by => i = j

\* The deposits whose units have been minted.
Paid(paid) ==
    /\ paid \in SUBSET Served
    /\ \A r \in paid : Saves(r, Anchoring) /\ ~OnTheWay(r)
    /\ \A m \in Members : minted[m] = Total(Nominals, {r \in paid : who[r] = m})
    /\ "revert" \notin faults =>
          /\ \A r \in Served : Saves(r, Anchoring) /\ Hopeful(r) => r \in paid \/ OnTheWay(r)
          /\ \A row \in savings : row.anchored => row.by \in paid \/ OnTheWay(row.by)

Units == Relayed /\ \E paid : Paid(paid)

LEMMA InitUnits == Init => Units
<1> SUFFICES ASSUME Init PROVE Units
  OBVIOUS
<1>1. Relays = <<>> /\ \A m \in Members : minted[m] = 0
  BY DEF Init, GatewayInit, Relays, Roles
<1>2. \A r \in Served : pc[r] = "start"
  BY Jobs DEF Init
<1>3. savings = {}
  BY DEF Init
<1>4. \A m \in Members : Total(Nominals, {r \in {} : who[r] = m}) = 0
  <2>1. \A m : {r \in {} : who[r] = m} = {}
    OBVIOUS
  <2>2. Total(Nominals, {}) = 0
    BY FS_EmptySet DEF Total, Coins
  <2>3. QED
    BY <2>1, <2>2
<1>5. Paid({})
  BY <1>1, <1>2, <1>3, <1>4 DEF Paid, Saves, Anchoring
<1>6. QED
  BY <1>1, <1>5 DEF Units, Relayed

LEMMA RelaysType ==
  ASSUME Wired, NEW i \in 1..Len(Relays)
  PROVE  /\ Relays[i] \in Txs /\ Relays[i].by \in Served
         /\ Relays[i].by \in Requests /\ Relays[i].arg.member \in Members
         /\ Relays[i].arg.nominal \in Nat
         /\ Relays[i].fn = "recordSavings"
<1>1. Relays \in Seq(Txs) /\ "RELAYER" \in Roles
  BY DEF Wired, Relays, Roles
<1>2. Relays[i] \in Txs
  BY <1>1
<1>3. Relays[i].by \in Served /\ RoleFor(Relays[i].fn) = "RELAYER"
  BY <1>1 DEF Wired, Relays
<1>4. /\ Relays[i].by \in Requests /\ Relays[i].arg.member \in Members
      /\ Relays[i].arg.nominal \in Nat /\ Relays[i].fn \in Calls
  BY <1>2 DEF Txs
<1>5. QED
  BY <1>2, <1>3, <1>4 DEF RoleFor, Calls

LEMMA PaidFinite ==
  ASSUME Placed, NEW paid \in SUBSET Served, \A r \in paid : Saves(r, Anchoring), NEW m
  PROVE  IsFiniteSet({r \in paid : who[r] = m})
<1>1. {r \in paid : who[r] = m} \subseteq {r \in Served : pc[r] # "start"}
  BY DEF Saves, Anchoring
<1>2. QED
  BY <1>1, FS_Subset DEF Placed

\* Where a request that saves stands and what it is of, after a step without calls.
LEMMA AnchoringStays ==
  ASSUME Types, Placed, [Next]_allVars, ~\E s \in Served : \E fn, tx : Sends(s, fn, tx)
  PROVE  /\ \A r \in Served : Saves(r, Anchoring)' <=> Saves(r, Anchoring)
         /\ \A r \in Served : Saves(r, Anchoring) => who'[r] = who[r]
<1>0. Served' = Served /\ \A r : Kind(r)' = Kind(r)
  BY JobsStay
<1>1. CASE Outside
  <2>1. UNCHANGED <<pc, who>>
    BY <1>1, OutsideKeeps DEF Untouched
  <2>2. QED
    BY <1>0, <2>1 DEF Saves
<1>2. ASSUME NEW s \in Served, Alone(s)
      PROVE  /\ \A r \in Served : Saves(r, Anchoring)' <=> Saves(r, Anchoring)
             /\ \A r \in Served : Saves(r, Anchoring) => who'[r] = who[r]
  <2>1. PICK from, to \in Stages : Step(s, from, to)
    BY <1>2, Stepped DEF Alone
  <2>2. \A r \in Served : r \in Requests /\ (r # s => pc'[r] = pc[r])
    BY <2>1, OneMoves, Jobs DEF Types
  <2>3. \A r \in Served : Kind(r) = "save" => who'[r] = who[r]
    BY <1>2, WhoStays DEF Alone
  <2>4. CASE Kind(s) # "save"
    BY <1>0, <2>2, <2>3, <2>4 DEF Saves
  <2>5. CASE Kind(s) = "save"
    <3>1. pc'[s] \in Anchoring <=> pc[s] \in Anchoring
      <4>1. pc[s] \in {"start", "found", "refused", "inserted", "added",
                       "threw", "anchoring", "audit", "reply", "done"}
        BY <2>5 DEF Placed, StagesOf
      <4>2. \/ Find(s) \/ InsertSaving(s) \/ AddToBalance(s) \/ ThrowSaving(s)
            \/ StoreHash(s) \/ AppendAudit(s) \/ Reply(s)
        <5>1. ~AnchorSaving(s)
          BY <1>2 DEF Alone, Sends
        <5>2. QED
          BY <1>2, <2>5, <4>1, <5>1
             DEF Alone, Writes, Reads, Moves, SubmitKyc, Approve, Reject, ResetPassword,
                 StoreWallet, MarkMember, ReadMember, ListMembers, NextMember, ReadGroup,
                 NextJoin, ReadWallet, RegisterMember, RegisterGroup, MarkGroup, JoinGroup,
                 Joined, BootstrapDone, Primed, Unheard, ReadCache, StoreSnapshot, Tick,
                 CountMembers, FoldMembers, Stamp, SendQuestion, Mount, ShowAnswer, Step, At
      <4>3. s \in DOMAIN pc
        BY <2>2 DEF Types
      <4>4. QED
        BY <4>2, <4>3 DEF Find, InsertSaving, AddToBalance, ThrowSaving, StoreHash,
               AppendAudit, Reply, Step, At, Goto, Anchoring
    <3>2. QED
      BY <1>0, <2>2, <2>3, <2>5, <3>1 DEF Saves
  <2>6. QED
    BY <2>4, <2>5
<1>3. QED
  BY <1>0, <1>1, <1>2, GatewaySteps DEF Outside

\* A row that is marked is of a request that hoped for its units.
LEMMA RowsMarked ==
  ASSUME Types, Placed, Filed, [Next]_allVars
  PROVE  \A row \in savings' : row.anchored =>
            \/ \E old \in savings : old.anchored /\ old.by = row.by
            \/ row.by \in Served /\ Saves(row.by, Anchoring) /\ Hopeful(row.by)
<1>1. ASSUME NEW s \in Served, InsertSaving(s), NEW row \in savings', row.anchored
      PROVE  row \in savings
  <2>1. savings' = savings \cup
          {[by |-> s, member |-> who[s], nominal |-> Nominal(s), anchored |-> FALSE]}
    BY <1>1 DEF InsertSaving
  <2>2. QED
    BY <1>1, <2>1
<1>2. ASSUME NEW s \in Served, Kind(s) = "save", StoreHash(s), NEW row \in savings', row.anchored
      PROVE  \/ \E old \in savings : old.anchored /\ old.by = row.by
             \/ row.by \in Served /\ Saves(row.by, Anchoring) /\ Hopeful(row.by)
  <2>1. PICK old \in savings :
           row = IF old.by = s THEN [old EXCEPT !.anchored = Anchored(s)] ELSE old
    BY <1>2 DEF StoreHash
  <2>2. CASE old.by # s
    BY <1>2, <2>1, <2>2
  <2>3. CASE old.by = s
    <3>1. row.by = s /\ Anchored(s)
      BY <1>2, <2>1, <2>3 DEF Filed
    <3>2. pc[s] = "anchoring"
      BY <1>2 DEF StoreHash, Step, At
    <3>3. QED
      BY <1>2, <3>1, <3>2 DEF Saves, Anchoring, Anchored, Ok, Hopeful
  <2>4. QED
    BY <2>2, <2>3
<1>3. UNCHANGED savings \/ (\E s \in Served : InsertSaving(s))
         \/ \E s \in Served : Kind(s) = "save" /\ StoreHash(s)
  <2>1. CASE \E s \in Served : Kind(s) = "save" /\ AddToBalance(s)
    BY <2>1 DEF AddToBalance, ledger
  <2>2. QED
    BY <2>1, SavingSteps DEF Unsaved
<1>4. QED
  BY <1>1, <1>2, <1>3


LEMMA NominalsStay ==
  ASSUME Types, [Next]_allVars
  PROVE  Nominals' = Nominals /\ Served' = Served /\ \A r : Nominal(r)' = Nominal(r)
BY JobsStay DEF Nominals, Nominal, Served, job

\* A step without calls and blocks.
LEMMA UnitsQuiet ==
  ASSUME Types, Placed, Filed, Wired, Flagged, Units, [Next]_allVars,
         ~\E s \in Served : \E fn, tx : Sends(s, fn, tx),
         UNCHANGED <<pool, chain, faults>>
  PROVE  Units'
<1>1. /\ UNCHANGED <<Relays, minted, registered, faults>>
      /\ \A r : OnTheWay(r)' = OnTheWay(r)
  BY DEF chain, Relays, OnTheWay
<1>2. /\ Served' = Served /\ Nominals' = Nominals /\ \A r : Nominal(r)' = Nominal(r)
      /\ \A r \in Served : Saves(r, Anchoring)' <=> Saves(r, Anchoring)
      /\ \A r \in Served : Saves(r, Anchoring) => who'[r] = who[r]
      /\ \A r \in Served : Hopeful(r)' => Hopeful(r)
  BY AnchoringStays, HopeIsSent, NominalsStay
<1>3. Relayed'
  <2>1. ASSUME NEW i \in 1..Len(Relays) PROVE RelayOf(i)'
    <3>1. RelayOf(i) /\ Relays[i].by \in Served /\ UNCHANGED sitting
      BY RelaysType, JobsStay DEF Relayed, Units
    <3>2. \A r \in Served : Saves(r, Anchoring) => pc'[r] \in Anchoring
      BY <1>2 DEF Saves
    <3>3. QED
      BY <1>1, <1>2, <3>1, <3>2 DEF RelayOf, Saves, Kind, Nominal, job
  <2>2. QED
    BY <1>1, <2>1 DEF Relayed, Units
<1>4. ASSUME NEW paid, Paid(paid)
      PROVE  Paid(paid)'
  <2>1. paid \in SUBSET Served /\ \A r \in paid : Saves(r, Anchoring)' /\ ~OnTheWay(r)'
    BY <1>1, <1>2, <1>4 DEF Paid
  <2>2. \A m \in Members : {r \in paid : who'[r] = m} = {r \in paid : who[r] = m}
    BY <1>2, <1>4 DEF Paid
  <2>3. \A m \in Members : minted'[m] = Total(Nominals', {r \in paid : who'[r] = m})
    BY <1>1, <1>2, <1>4, <2>2 DEF Paid
  <2>4. ASSUME "revert" \notin faults
        PROVE  /\ \A r \in Served : Saves(r, Anchoring)' /\ Hopeful(r)' => r \in paid \/ OnTheWay(r)'
               /\ \A row \in savings' : row.anchored => row.by \in paid \/ OnTheWay(row.by)
    <3>1. /\ \A r \in Served : Saves(r, Anchoring) /\ Hopeful(r) => r \in paid \/ OnTheWay(r)
          /\ \A row \in savings : row.anchored => row.by \in paid \/ OnTheWay(row.by)
      BY <1>4, <2>4 DEF Paid
    <3>2. QED
      BY <1>1, <1>2, <3>1, RowsMarked
  <2>5. \A r, s : r = s => (OnTheWay(r)' = OnTheWay(s))
    BY <1>1 DEF OnTheWay
  <2>6. QED
    BY <1>1, <1>2, <2>1, <2>3, <2>4, <2>5 DEF Paid
<1>5. QED
  BY <1>3, <1>4 DEF Units

\* Other calls than those of the relayer, and what the saving requests see of them.
LEMMA UnitsSends ==
  ASSUME Types, Placed, Filed, Wired, Units, NEW s \in Served, NEW fn, NEW tx, Sends(s, fn, tx),
         [Next]_allVars
  PROVE  Units'
<1>1. PICK from, to \in Stages : Step(s, from, to)
  BY SendsAt, Stepped
<1>2. /\ s \in Requests /\ Served' = Served /\ (\A r : Kind(r)' = Kind(r))
      /\ \A r \in Served : r \in Requests /\ (r # s => pc'[r] = pc[r])
  BY <1>1, OneMoves, Jobs DEF Types
<1>3. /\ fn \in Calls /\ tx \in [member : Members, wallet : Passwords, nominal : Nat]
      /\ tx.member = who[s] /\ UNCHANGED <<minted, registered, who, savings, faults>>
  BY Called DEF people, chain, reads, ledger
<1>4. Nominals' = Nominals /\ \A r : Nominal(r)' = Nominal(r)
  BY NominalsStay
<1>5. PICK status \in {"failed", "sent"} :
         /\ answer' = [answer EXCEPT ![s] = [fn |-> fn, status |-> status]]
         /\ \/ status = "failed" /\ UNCHANGED pool
            \/ /\ Accepts(fn, [member |-> who[s]])
               /\ pool' = [pool EXCEPT ![RoleFor(fn)] =
                              Append(@, [by |-> s, fn |-> fn, arg |-> tx])]
  BY Called, ZenonT(60)
<1>6. answer'[s].status = status /\ \A r \in Requests : r # s => answer'[r] = answer[r]
  BY <1>2, <1>3, <1>5, AnswerType DEF Wired, Outcomes
<1>7. CASE fn # "recordSavings"
  <2>1. pc[s] \in {"register", "group", "join"} /\ pc'[s] \in {"registering", "grouping", "joining"}
    BY <1>3, <1>7, SendsAt DEF Calls
  <2>2. Kind(s) # "save"
    BY <2>1 DEF Placed, StagesOf
  <2>3. Relays' = Relays
    <3>1. CASE UNCHANGED pool
      BY <3>1 DEF Relays
    <3>2. CASE ~UNCHANGED pool
      <4> DEFINE new == [by |-> s, fn |-> fn, arg |-> tx]
      <4>1. new \in Txs /\ RoleFor(fn) = "KOPERASI" /\ {"KOPERASI", "RELAYER"} \subseteq Roles
        BY <1>2, <1>3, <1>7 DEF Txs, RoleFor, Roles, Calls
      <4>2. pool' = [pool EXCEPT !["KOPERASI"] = Append(@, new)]
        BY <1>5, <3>2, <4>1
      <4> HIDE DEF new
      <4>3. QED
        BY <4>1, <4>2, PoolGrows DEF Wired, Relays
    <3>3. QED
      BY <3>1, <3>2
  <2>4. \A r \in Served : /\ Saves(r, Anchoring)' <=> Saves(r, Anchoring)
                          /\ Saves(r, Anchoring) => (Hopeful(r)' <=> Hopeful(r))
    BY <1>2, <1>6, <2>2 DEF Saves, Hopeful
  <2>5. \A r : OnTheWay(r)' = OnTheWay(r)
    BY <2>3 DEF OnTheWay
  <2>6. Relayed'
    <3>1. ASSUME NEW i \in 1..Len(Relays) PROVE RelayOf(i)'
      <4>1. RelayOf(i) /\ Relays[i].by \in Served /\ UNCHANGED sitting
        BY RelaysType, JobsStay DEF Relayed, Units
      <4>2. \A r \in Served : Saves(r, Anchoring) => pc'[r] \in Anchoring
        BY <2>4 DEF Saves
      <4>3. QED
        BY <1>3, <2>3, <4>1, <4>2 DEF RelayOf, Saves, Kind, Nominal, job
    <3>2. QED
      BY <2>3, <3>1 DEF Relayed, Units
  <2>7. ASSUME NEW paid, Paid(paid) PROVE Paid(paid)'
    <3>1. \A m \in Members : minted'[m] = Total(Nominals', {r \in paid : who'[r] = m})
      BY <1>3, <1>4, <2>7 DEF Paid
    <3>2. QED
      BY <1>2, <1>3, <2>4, <2>5, <2>7, <3>1 DEF Paid
  <2>8. QED
    BY <2>6, <2>7 DEF Units
<1>8. CASE fn = "recordSavings"
  <2>1. pc[s] = "added" /\ pc'[s] = "anchoring" /\ tx.nominal = Nominal(s)
    BY <1>8, SendsAt
  <2>2. Kind(s) = "save"
    BY <2>1, KindsOf DEF Placed, StagesOf, Types
  <2>3. ~Saves(s, Anchoring) /\ Saves(s, Anchoring)'
    BY <1>2, <2>1, <2>2 DEF Saves, Anchoring
  <2>4. ~OnTheWay(s)
    BY <2>3 DEF OnTheWay, Relayed, RelayOf, Units
  <2>5. \A r \in Served : r # s => /\ Saves(r, Anchoring)' <=> Saves(r, Anchoring)
                                   /\ Hopeful(r)' <=> Hopeful(r)
    BY <1>2, <1>6 DEF Saves, Hopeful
  <2> DEFINE new == [by |-> s, fn |-> fn, arg |-> tx]
  <2>6. \/ status = "failed" /\ Relays' = Relays
        \/ /\ registered[tx.member] # None
           /\ Len(Relays) \in Nat /\ Len(Relays') = Len(Relays) + 1
           /\ \A i \in 1..Len(Relays) : Relays'[i] = Relays[i]
           /\ Relays'[Len(Relays) + 1] = new
    <3>1. CASE status = "failed" /\ UNCHANGED pool
      BY <3>1 DEF Relays
    <3>2. CASE ~(status = "failed" /\ UNCHANGED pool)
      <4>1. new \in Txs /\ RoleFor(fn) = "RELAYER" /\ "RELAYER" \in Roles
        BY <1>2, <1>3, <1>8 DEF Txs, RoleFor, Roles
      <4>2. pool' = [pool EXCEPT !["RELAYER"] = Append(@, new)]
        BY <1>5, <3>2, <4>1
      <4>3. registered[tx.member] # None
        BY <1>3, <1>5, <1>8, <3>2 DEF Accepts
      <4> HIDE DEF new
      <4>4. QED
        BY <3>2, <4>1, <4>2, <4>3, PoolGrows DEF Wired, Relays
    <3>3. QED
      BY <3>1, <3>2
  <2>7. new.by = s /\ new.arg = tx
    OBVIOUS
  <2> HIDE DEF new
  <2>8. \A i \in 1..Len(Relays') :
           \/ i \in 1..Len(Relays) /\ Relays'[i] = Relays[i] /\ Relays[i].by # s
           \/ /\ registered[tx.member] # None
              /\ i = Len(Relays) + 1 /\ Relays'[i] = new /\ Len(Relays) \in Nat
    BY <2>4, <2>6 DEF OnTheWay
  <2>9. \A r \in Served : r # s => (OnTheWay(r)' <=> OnTheWay(r))
    BY <2>6, <2>7 DEF OnTheWay
  <2>10. Relayed'
    <3>1. ASSUME NEW i \in 1..Len(Relays') PROVE RelayOf(i)'
      <4>1. CASE i \in 1..Len(Relays) /\ Relays'[i] = Relays[i] /\ Relays[i].by # s
        <5>1. RelayOf(i) /\ Relays[i].by \in Served /\ UNCHANGED sitting
          BY <4>1, RelaysType, JobsStay DEF Relayed, Units
        <5>2. pc'[Relays[i].by] \in Anchoring
          BY <1>2, <4>1, <5>1 DEF RelayOf, Saves
        <5>3. QED
          BY <1>3, <4>1, <5>1, <5>2 DEF RelayOf, Saves, Kind, Nominal, job
      <4>2. CASE registered[tx.member] # None /\ Relays'[i] = new
        <5>1. UNCHANGED sitting /\ Kind(s) = "save" /\ pc'[s] \in Anchoring
          BY <2>1, <2>2, JobsStay DEF Anchoring
        <5>2. QED
          BY <1>3, <2>1, <2>7, <4>2, <5>1 DEF RelayOf, Saves, Kind, Nominal, job
      <4>3. QED
        BY <2>8, <4>1, <4>2
    <3>2. ASSUME NEW i \in 1..Len(Relays'), NEW j \in 1..Len(Relays'), Relays'[i].by = Relays'[j].by
          PROVE  i = j
      BY <2>7, <2>8, <3>2 DEF Relayed, Units
    <3>3. QED
      BY <3>1, <3>2 DEF Relayed
  <2>11. ASSUME NEW paid, Paid(paid) PROVE Paid(paid)'
    <3>1. s \notin paid
      BY <2>3, <2>11 DEF Paid
    <3>2. \A m \in Members : minted'[m] = Total(Nominals', {r \in paid : who'[r] = m})
      BY <1>3, <1>4, <2>11 DEF Paid
    <3>3. Hopeful(s)' => OnTheWay(s)'
      <4>1. Hopeful(s)' => status = "sent"
        BY <1>5, <1>6 DEF Hopeful
      <4>2. status = "sent" => Len(Relays) + 1 \in 1..Len(Relays') /\ Relays'[Len(Relays) + 1] = new
        BY <2>6
      <4>3. QED
        BY <2>7, <4>1, <4>2 DEF OnTheWay
    <3>4. \A r \in paid : Saves(r, Anchoring)' /\ ~OnTheWay(r)'
      BY <2>5, <2>9, <2>11, <3>1 DEF Paid
    <3>5. ASSUME "revert" \notin faults
          PROVE  /\ \A r \in Served : Saves(r, Anchoring)' /\ Hopeful(r)' => r \in paid \/ OnTheWay(r)'
                 /\ \A row \in savings : row.anchored => row.by \in paid \/ OnTheWay(row.by)'
      <4>1. /\ \A r \in Served : Saves(r, Anchoring) /\ Hopeful(r) => r \in paid \/ OnTheWay(r)
            /\ \A row \in savings : row.anchored => row.by \in paid \/ OnTheWay(row.by)
        BY <2>11, <3>5 DEF Paid
      <4>2. \A row \in savings : row.by \in Served
        BY DEF Filed
      <4>3. \A r \in Served : OnTheWay(r) => OnTheWay(r)'
        BY <2>4, <2>9
      <4>4. QED
        BY <2>5, <2>9, <3>3, <4>1, <4>2, <4>3
    <3>6. QED
      BY <1>2, <1>3, <2>11, <3>2, <3>4, <3>5 DEF Paid
  <2>12. QED
    BY <2>10, <2>11 DEF Units
<1>9. QED
  BY <1>7, <1>8


\* A block: units are minted once, for the deposit they were sent for.
LEMMA UnitsMines ==
  ASSUME Types, Placed, Filed, Wired, Flagged, Units, NEW role \in Roles, Mine(role),
         [Next]_allVars
  PROVE  Units'
<1>1. /\ UNCHANGED <<pc, who, savings, faults, sitting>> /\ Served' = Served
      /\ Nominals' = Nominals
      /\ \A r \in Requests : answer'[r] # answer[r] => answer[r].status = "sent"
      /\ \A m \in Members : registered[m] # None => registered'[m] # None
  BY MinedFirst, Mines, NominalsStay
<1> DEFINE tx == pool[role][1]
<1>2. /\ tx \in Txs /\ RoleFor(tx.fn) = role
      /\ Len(pool'[role]) \in Nat /\ Len(pool[role]) = Len(pool'[role]) + 1
      /\ \A i \in 1..Len(pool'[role]) : /\ i + 1 \in 1..Len(pool[role])
                                       /\ pool'[role][i] = pool[role][i + 1]
      /\ \A other \in Roles : other # role => pool'[other] = pool[other]
  <2>1. tx \in Txs /\ Len(pool[role]) >= 1 /\ pool[role] \in Seq(Txs)
    BY Mines DEF Wired
  <2>2. 1 \in 1..Len(pool[role])
    BY <2>1
  <2>3. RoleFor(tx.fn) = role
    BY <2>2 DEF Wired
  <2>4. QED
    BY <2>1, <2>3, Mines, PoolShrinks DEF Wired
<1>3. PICK status \in {"success", "reverted"} :
         /\ status = "success" => Execute(tx.fn, tx.arg)
         /\ status = "reverted" =>
               UNCHANGED chain /\ (~Accepts(tx.fn, tx.arg) \/ "revert" \in faults)
  BY Mines
<1>4. \A r \in Served : /\ Saves(r, Anchoring)' <=> Saves(r, Anchoring)
                        /\ Hopeful(r)' => Hopeful(r)
  <2>1. \A r \in Served : r \in Requests
    BY Jobs DEF Types
  <2>2. QED
    BY <1>1, <2>1 DEF Saves, Kind, job, Hopeful
<1>5. CASE role = "KOPERASI"
  <2>1. Relays' = Relays /\ \A r : OnTheWay(r)' = OnTheWay(r)
    BY <1>2, <1>5 DEF Relays, Roles, OnTheWay
  <2>2. minted' = minted
    <3>1. tx.fn \in Calls /\ tx.fn # "recordSavings"
      BY <1>2, <1>5 DEF Txs, RoleFor
    <3>2. QED
      BY <1>3, <3>1 DEF Execute, Calls, chain
  <2>3. ASSUME NEW i \in 1..Len(Relays) PROVE RelayOf(i)'
    BY <1>1, <2>1, <2>3, RelaysType DEF RelayOf, Relayed, Units, Saves, Kind, Nominal, job
  <2>4. ASSUME NEW paid, Paid(paid) PROVE Paid(paid)'
    <3>1. \A m \in Members : minted'[m] = Total(Nominals', {r \in paid : who'[r] = m})
      BY <1>1, <2>2, <2>4 DEF Paid
    <3>2. QED
      BY <1>1, <1>4, <2>1, <2>4, <3>1 DEF Paid
  <2>5. QED
    BY <2>1, <2>3, <2>4 DEF Units, Relayed
<1>6. CASE role = "RELAYER"
  <2>1. /\ tx = Relays[1] /\ 1 \in 1..Len(Relays)
        /\ Len(Relays') \in Nat /\ Len(Relays) = Len(Relays') + 1
        /\ \A i \in 1..Len(Relays') : /\ i + 1 \in 1..Len(Relays)
                                      /\ Relays'[i] = Relays[i + 1]
    BY <1>2, <1>6 DEF Relays
  <2>2. /\ tx.by \in Served /\ tx.arg.member \in Members /\ tx.arg.nominal \in Nat
        /\ tx.fn = "recordSavings"
        /\ Saves(tx.by, Anchoring) /\ tx.arg.member = who[tx.by]
        /\ tx.arg.nominal = Nominal(tx.by) /\ registered[tx.arg.member] # None
        /\ OnTheWay(tx.by)
    BY <2>1, RelaysType DEF Relayed, RelayOf, Units, OnTheWay
  <2>3. /\ registered' = registered
        /\ status = "success" => minted' = [minted EXCEPT ![tx.arg.member] = @ + tx.arg.nominal]
        /\ status = "reverted" => minted' = minted /\ "revert" \in faults
    BY <1>3, <2>2 DEF Execute, Accepts, chain
  <2>4. ASSUME NEW i \in 1..Len(Relays') PROVE RelayOf(i)'
    <3>1. i + 1 \in 1..Len(Relays) /\ Relays'[i] = Relays[i + 1] /\ RelayOf(i + 1)
      BY <2>1 DEF Relayed, Units
    <3>2. QED
      BY <1>1, <2>3, <3>1 DEF RelayOf, Saves, Kind, Nominal, job
  <2>5. ASSUME NEW i \in 1..Len(Relays'), NEW j \in 1..Len(Relays'), Relays'[i].by = Relays'[j].by
        PROVE  i = j
    BY <2>1, <2>5 DEF Relayed, Units
  <2>6. \A r : OnTheWay(r)' <=> OnTheWay(r) /\ r # tx.by
    <3>1. \A i \in 1..Len(Relays) : i # 1 =>
             i - 1 \in 1..Len(Relays') /\ (i - 1) + 1 = i /\ Relays'[i - 1] = Relays[i]
      <4>1. \A i \in 1..Len(Relays) : i # 1 => i - 1 \in 1..Len(Relays') /\ (i - 1) + 1 = i
        BY <2>1
      <4>2. QED
        BY <2>1, <4>1
    <3>2. \A i \in 1..Len(Relays) : Relays[i].by = tx.by => i = 1
      BY <2>1 DEF Relayed, Units
    <3>3. \A i \in 1..Len(Relays') : /\ i + 1 \in 1..Len(Relays) /\ i + 1 # 1
                                     /\ Relays'[i] = Relays[i + 1]
      BY <2>1
    <3>4. QED
      BY <2>1, <3>1, <3>2, <3>3, SMTT(40) DEF OnTheWay
  <2>7. PICK paid : Paid(paid)
    BY DEF Units
  <2> HIDE DEF tx
  <2>8. tx.by \notin paid /\ Nominals[tx.by] = tx.arg.nominal
    BY <2>2, <2>7 DEF Paid, Nominals
  <2>9. CASE status = "reverted"
    <3>1. \A m \in Members : minted'[m] = Total(Nominals', {r \in paid : who'[r] = m})
      BY <1>1, <2>3, <2>7, <2>9 DEF Paid
    <3>2. Paid(paid)'
      BY <1>1, <1>4, <2>3, <2>6, <2>7, <2>9, <3>1 DEF Paid
    <3>3. QED
      BY <2>4, <2>5, <3>2 DEF Units, Relayed
  <2>10. CASE status = "success"
    <3>0. PICK more : more = paid \cup {tx.by}
      OBVIOUS
    <3>1. ASSUME NEW m \in Members
          PROVE  minted'[m] = Total(Nominals, {r \in more : who[r] = m})
      <4>1. minted[m] = Total(Nominals, {r \in paid : who[r] = m}) /\ minted[m] \in Nat
        BY <2>7 DEF Paid, Wired
      <4>2. CASE m # tx.arg.member
        <5>1. minted'[m] = minted[m]
          BY <2>2, <2>3, <2>10, <4>2 DEF Wired
        <5>2. {r \in more : who[r] = m} = {r \in paid : who[r] = m}
          BY <2>2, <3>0, <4>2
        <5>3. QED
          BY <4>1, <5>1, <5>2
      <4>3. CASE m = tx.arg.member
        <5>1. minted'[m] = minted[m] + tx.arg.nominal
          BY <2>2, <2>3, <2>10, <4>3 DEF Wired
        <5>2. {r \in more : who[r] = m} = {r \in paid : who[r] = m} \cup {tx.by}
          BY <2>2, <3>0, <4>3
        <5>3. IsFiniteSet({r \in paid : who[r] = m}) /\ tx.by \notin {r \in paid : who[r] = m}
          BY <2>7, <2>8, PaidFinite DEF Paid
        <5>4. \A r \in {r \in paid : who[r] = m} \cup {tx.by} : Nominals[r] \in Nat
          BY <2>2, <2>7, NominalsType DEF Paid
        <5>5. Total(Nominals, {r \in paid : who[r] = m} \cup {tx.by}) =
                 Total(Nominals, {r \in paid : who[r] = m}) + Nominals[tx.by]
          BY <5>3, <5>4, TotalAdds
        <5>6. QED
          BY <2>8, <4>1, <5>1, <5>2, <5>5
      <4>4. QED
        BY <4>2, <4>3
    <3>2. \A m \in Members : minted'[m] = Total(Nominals', {r \in more : who'[r] = m})
      BY <1>1, <3>1
    <3>3. more \in SUBSET Served /\ \A r \in more : Saves(r, Anchoring)' /\ ~OnTheWay(r)'
      BY <1>4, <2>2, <2>6, <2>7, <3>0 DEF Paid
    <3>4. ASSUME "revert" \notin faults
          PROVE  /\ \A r \in Served : Saves(r, Anchoring)' /\ Hopeful(r)' => r \in more \/ OnTheWay(r)'
                 /\ \A row \in savings : row.anchored => row.by \in more \/ OnTheWay(row.by)'
      BY <1>4, <2>6, <2>7, <3>0, <3>4 DEF Paid
    <3>5. Paid(more)'
      BY <1>1, <3>2, <3>3, <3>4 DEF Paid
    <3>6. QED
      BY <2>4, <2>5, <3>5 DEF Units, Relayed
  <2>11. QED
    BY <2>9, <2>10
<1>7. QED
  BY <1>5, <1>6 DEF Roles

LEMMA UnitsStep ==
  ASSUME Types, Placed, Filed, Wired, Flagged, Units, [Next]_allVars
  PROVE  Units'
<1>1. CASE \E s \in Served : \E fn, tx : Sends(s, fn, tx)
  BY <1>1, UnitsSends
<1>2. CASE \E role \in Roles : Mine(role)
  BY <1>2, UnitsMines
<1>3. CASE /\ ~\E s \in Served : \E fn, tx : Sends(s, fn, tx)
           /\ UNCHANGED <<pool, chain, faults>>
  BY <1>3, UnitsQuiet
<1>4. QED
  BY <1>1, <1>2, <1>3, GatewaySteps, GivesUp DEF Alone, gateway

\* The units of the escrow and the deposits of the tables, whatever the chain answers
\* and however long it takes, and wherever a restart cuts a deposit off.
THEOREM UnitsCorrect == Spec => []UnitsAreDeposits
<1> DEFINE Inv == Types /\ Placed /\ Filed /\ Wired /\ Flagged /\ Units
<1>1. Init => Inv
  BY InitTypes, InitPlaced, InitFiled, InitWired, InitFlagged, InitUnits
<1>2. Inv /\ [Next]_allVars => Inv'
  BY TypesStep, PlacedStep, FiledStep, WiredStep, FlaggedStep, UnitsStep
<1>3. Inv => UnitsAreDeposits
  <2> SUFFICES ASSUME Inv, NEW m \in Members
               PROVE  LET onTheirWay == Sum({[by |-> i, nominal |-> pool["RELAYER"][i].arg.nominal] :
                                                i \in Sent("recordSavings", m)})
                      IN  /\ minted[m] + onTheirWay <= Sum(DepositsOf(m))
                          /\ "revert" \notin faults =>
                                minted[m] + onTheirWay >= Sum({row \in DepositsOf(m) : row.anchored})
    BY DEF UnitsAreDeposits
  <2> DEFINE sent == Sent("recordSavings", m)
             amount == [i \in sent |-> Relays[i].arg.nominal]
             name == [i \in sent |-> Relays[i].by]
             going == {r \in Served : OnTheWay(r) /\ who[r] = m}
             saved == SaversOf(m, Inserted)
  <2>1. PICK paid : Paid(paid)
    BY DEF Units
  <2> DEFINE got == {r \in paid : who[r] = m}
  <2>2. sent = {i \in 1..Len(Relays) : Relays[i].arg.member = m}
    <3>1. DOMAIN pool["RELAYER"] = 1..Len(Relays) /\ RoleFor("recordSavings") = "RELAYER"
      BY DEF Wired, Roles, Relays, RoleFor
    <3>2. None # m
      BY BackofficeNames
    <3>3. QED
      BY <3>1, <3>2, RelaysType DEF Sent, Relays
  <2>3. \A i \in sent : /\ amount[i] \in Nat /\ amount[i] = Nominals[name[i]]
                        /\ name[i] \in Served
    BY <2>2, RelaysType DEF Units, Relayed, RelayOf, Nominals
  <2>4. \A i, j \in sent : name[i] = name[j] => i = j
    BY <2>2 DEF Units, Relayed
  <2>5. IsFiniteSet(sent)
    <3>1. Len(Relays) \in Int /\ 1 \in Int
      BY DEF Wired, Roles, Relays
    <3>2. QED
      BY <2>2, <3>1, FS_Interval, FS_Subset
  <2>6. {name[i] : i \in sent} = going
    BY <2>2, RelaysType DEF Units, Relayed, RelayOf, OnTheWay
  <2>7. Sum({[by |-> i, nominal |-> pool["RELAYER"][i].arg.nominal] : i \in sent}) =
           Total(Nominals, going)
    <3> DEFINE rows == {[by |-> i, nominal |-> pool["RELAYER"][i].arg.nominal] : i \in sent}
    <3>1. UNION {{row.by} \X (1 .. row.nominal) : row \in rows} = Coins(amount, sent)
      <4>1. \A row \in rows : row.by \in sent /\ row.nominal = amount[row.by]
        BY DEF Relays
      <4>2. \A i \in sent : \E row \in rows : row.by = i /\ row.nominal = amount[i]
        <5>1. ASSUME NEW i \in sent
              PROVE  \E row \in rows : row.by = i /\ row.nominal = amount[i]
          <6> WITNESS [by |-> i, nominal |-> pool["RELAYER"][i].arg.nominal] \in rows
          <6> QED
            BY DEF Relays
        <5>2. QED
          BY <5>1
      <4> HIDE DEF rows, amount, sent
      <4>3. {{row.by} \X (1 .. row.nominal) : row \in rows} =
               {{i} \X (1 .. amount[i]) : i \in sent}
        BY <4>1, <4>2
      <4>4. QED
        BY <4>3 DEF Coins
    <3>2. Total(amount, sent) = Total(Nominals, {name[i] : i \in sent})
      <4> HIDE DEF amount, name, sent
      <4>1. QED
        BY <2>3, <2>4, <2>5, TotalRenamed
    <3>3. QED
      BY <2>6, <3>1, <3>2 DEF Sum, Total
  <2>8. got \cup going \subseteq saved /\ got \cap going = {}
    <3>1. \A r \in Served : OnTheWay(r) => Saves(r, Anchoring)
      BY DEF Units, Relayed, RelayOf, OnTheWay
    <3>2. QED
      BY <2>1, <3>1 DEF Paid, SaversOf, Saves, Anchoring, Inserted
  <2>9. IsFiniteSet(saved) /\ \A r \in saved : Nominals[r] \in Nat
    BY SaversFinite, NominalsType DEF SaversOf
  <2>10. /\ IsFiniteSet(got) /\ IsFiniteSet(going) /\ IsFiniteSet(got \cup going)
         /\ \A r \in got \cup going : Nominals[r] \in Nat
    <3>1. \A T \in SUBSET saved : IsFiniteSet(T)
      BY <2>9, FS_Subset
    <3>2. QED
      BY <2>8, <2>9, <3>1
  <2> HIDE DEF got, going, saved, sent
  <2>11. Total(Nominals, got \cup going) = Total(Nominals, got) + Total(Nominals, going)
    BY <2>8, <2>10, TotalOfBoth
  <2>12. minted[m] = Total(Nominals, got)
    BY <2>1 DEF Paid, got
  <2>13. Sum(DepositsOf(m)) = Total(Nominals, saved)
    <3>1. {row.by : row \in DepositsOf(m)} = saved
      BY DEF DepositsOf, Filed, SaversOf, Saves, saved
    <3>2. QED
      BY <3>1, SumOfRows DEF DepositsOf
  <2>14. Total(Nominals, got \cup going) <= Total(Nominals, saved)
    BY <2>8, <2>9, TotalOfPart
  <2>15. ASSUME "revert" \notin faults
         PROVE  Sum({row \in DepositsOf(m) : row.anchored}) <= Total(Nominals, got \cup going)
    <3> DEFINE marked == {row.by : row \in {row \in DepositsOf(m) : row.anchored}}
    <3>1. Sum({row \in DepositsOf(m) : row.anchored}) = Total(Nominals, marked)
      BY SumOfRows DEF DepositsOf
    <3>2. marked \subseteq got \cup going
      BY <2>1, <2>15 DEF DepositsOf, Filed, Paid, got, going
    <3> HIDE DEF marked
    <3>3. QED
      BY <2>10, <3>1, <3>2, TotalOfPart
  <2>16. Sum({[by |-> i, nominal |-> pool["RELAYER"][i].arg.nominal] :
                 i \in Sent("recordSavings", m)}) = Total(Nominals, going)
    BY <2>7 DEF sent
  <2>17. QED
    BY <2>11, <2>12, <2>13, <2>14, <2>15, <2>16
<1>4. QED
  BY <1>1, <1>2, <1>3, PTL DEF Spec, AllInit

----------------------------------------------------------------------------
(* Snapshots, from one answer to the next *)

Dated ==
    /\ clock \in Nat
    /\ \A r \in Requests : draft[r].at \in Nat
    /\ \A place \in {"redis", "memory"} : cache[place].at \in Nat

\* What ChatMovesForward is about.
Undisturbed == "crash" \notin faults /\ ~overlapped

Builder(r) == pc[r] \in {"count", "fold", "stamp", "store"}
Storing == {r \in Served : pc[r] = "store"}

\* Where the process keeps its snapshot.
Place == IF redisUp THEN "redis" ELSE "memory"

\* The latest snapshot that was stored.
Latest == IF Storing = {} THEN clock ELSE clock - 1

\* One snapshot is built at a time, from the last one stored to the next; what is
\* kept is the last one, and what a request holds is not newer.
InOrder ==
    /\ running = Served
    /\ \A r, s \in Served : Builder(r) /\ Builder(s) => r = s
    /\ redisUp => cache.memory = NoSnapshot
    /\ cache[Place] # NoSnapshot => cache[Place].at = Latest
    /\ \A r \in Storing : draft[r].at = clock /\ clock >= 1
    /\ \A r \in Requests : r \notin Storing => draft[r].at <= Latest

\* The snapshot the panel names is an answer's, and none of the answers under way
\* has an older one.
Named ==
    chat.meta # None /\ Kind(chat.meta) = "chat" =>
        /\ chat.meta \in Served /\ pc[chat.meta] = "done"
        /\ \A r \in Served : Waiting(r) /\ pc[r] \in {"answered", "store"} =>
              draft[r].at >= draft[chat.meta].at

Forward == Undisturbed => InOrder /\ Named

LEMMA InitForward == Init => Dated /\ Forward
<1> SUFFICES ASSUME Init PROVE Dated /\ Forward
  OBVIOUS
<1>1. /\ clock = 0 /\ draft = [r \in Requests |-> NoSnapshot]
      /\ cache = [redis |-> NoSnapshot, memory |-> NoSnapshot]
      /\ chat.meta = None /\ running = Served
      /\ NoSnapshot.at = 0
  BY DEF Init, NoSnapshot, NoPanel, NewPanel
<1>2. \A r \in Served : r \in Requests /\ pc[r] = "start"
  BY Jobs DEF Init
<1>3. Storing = {}
  BY <1>2 DEF Storing
<1>4. Dated
  BY <1>1 DEF Dated
<1>5. InOrder
  BY <1>1, <1>2, <1>3 DEF InOrder, Builder, Latest, Place
<1>6. Named
  BY <1>1 DEF Named
<1>7. QED
  BY <1>4, <1>5, <1>6 DEF Forward

\* A step that is none of a snapshot's.
Apart(s) ==
    /\ s \in Requests /\ s \in Served /\ pc' = [pc EXCEPT ![s] = pc'[s]]
    /\ pc[s] \notin Ended \cup {"count", "fold", "stamp", "store"}
    /\ pc'[s] \notin {"fold", "stamp", "store", "answered"}
    /\ UNCHANGED <<cache, redisUp, clock, draft, running>>

LEMMA SnapshotSteps ==
  ASSUME Types, [Next]_allVars
  PROVE  \/ \E s \in Served : Builds(s)
         \/ \E s \in Served : Apart(s)
         \/ Crash
         \/ /\ UNCHANGED <<pc, redisUp, clock, draft, running>>
            /\ \/ UNCHANGED cache
               \/ \E place \in {"redis", "memory"} :
                     cache' = [cache EXCEPT ![place] = NoSnapshot]
<1>1. ASSUME NEW s \in Served, (\E row : Writes(s, row)) \/ Reads(s) \/ Moves(s), ~Builds(s)
      PROVE  Apart(s)
  <2>1. PICK from, to \in Stages : Step(s, from, to)
    BY <1>1, Stepped
  <2>2. /\ s \in Requests /\ pc[s] = from /\ pc' = [pc EXCEPT ![s] = to] /\ pc'[s] = to
        /\ UNCHANGED running
    BY <2>1, OneMoves
  <2>3. UNCHANGED <<cache, redisUp, clock, draft>>
    BY <1>1
       DEF Builds, Writes, Reads, Moves, assistant, SubmitKyc, Approve, Reject,
           ResetPassword, StoreWallet, MarkMember, AddToBalance, Find, ReadMember,
           ListMembers, NextMember, ReadGroup, NextJoin, AppendAudit, ReadWallet,
           RegisterMember, RegisterGroup, MarkGroup, JoinGroup, Joined,
           BootstrapDone, Reply, InsertSaving, ThrowSaving, AnchorSaving, StoreHash,
           Primed, Unheard, Tick, SendQuestion, Mount, ShowAnswer, Submit, Turn
  <2>4. /\ pc[s] \notin Ended \cup {"count", "fold", "stamp", "store"}
        /\ pc'[s] \notin {"fold", "stamp", "store", "answered"}
    <3>1. CASE \E row : Writes(s, row)
      BY <2>2, <3>1 DEF Writes, SubmitKyc, Approve, Reject, ResetPassword, StoreWallet,
              MarkMember, AddToBalance, Step, At, Goto, After, Ended
    <3>2. CASE Reads(s)
      BY <2>2, <3>2 DEF Reads, Find, ReadMember, ListMembers, NextMember, ReadGroup, NextJoin,
              Step, At, Goto, After, Ended
    <3>3. CASE Moves(s)
      <4>1. pc[s] \notin Ended
        BY <1>1, BeginsInTurn
      <4>2. pc[s] \notin {"count", "fold", "stamp", "store"}
        BY <1>1, <3>3
           DEF Builds, Moves, AppendAudit, ReadWallet, RegisterMember, RegisterGroup,
               MarkGroup, JoinGroup, Joined, BootstrapDone, Reply, InsertSaving,
               ThrowSaving, AnchorSaving, StoreHash, Primed, Unheard, Tick, SendQuestion,
               Mount, ShowAnswer, Step, At
      <4>3. DOMAIN pc = Requests
        BY DEF Types
      <4>4. pc'[s] \notin {"fold", "stamp", "store", "answered"}
        <5>1. CASE Primed(s) \/ Unheard(s) \/ Tick(s) \/ SendQuestion(s) \/ Mount(s) \/ ShowAnswer(s)
          BY <2>2, <4>3, <5>1 DEF Primed, Unheard, Tick, SendQuestion, Mount, ShowAnswer, Step, Goto
        <5>2. CASE InsertSaving(s) \/ ThrowSaving(s) \/ AnchorSaving(s) \/ StoreHash(s)
          BY <2>2, <4>3, <5>2 DEF InsertSaving, ThrowSaving, AnchorSaving, StoreHash, Step, Goto
        <5>3. CASE AppendAudit(s) \/ ReadWallet(s) \/ RegisterMember(s) \/ RegisterGroup(s)
                   \/ MarkGroup(s) \/ JoinGroup(s) \/ Joined(s) \/ BootstrapDone(s) \/ Reply(s)
          BY <2>2, <4>3, <5>3 DEF AppendAudit, ReadWallet, RegisterMember, RegisterGroup,
             MarkGroup, JoinGroup, Joined, BootstrapDone, Reply, Step, Goto
        <5>4. QED
          BY <1>1, <3>3, <5>1, <5>2, <5>3 DEF Builds, Moves
      <4>5. QED
        BY <4>1, <4>2, <4>4
    <3>4. QED
      BY <1>1, <3>1, <3>2, <3>3
  <2>5. QED
    BY <2>2, <2>3, <2>4 DEF Apart
<1>2. CASE Outside /\ ~Crash
  BY <1>2 DEF Outside, NoReceipt, ShowError, Mine, Expire, LeaveTab, vars, assistant, fixed
<1>3. QED
  BY <1>1, <1>2, Kinds

LEMMA BuildingKeepsDate ==
  ASSUME Counted, NEW s \in Requests, CountMembers(s) \/ FoldMembers(s)
  PROVE  \A r \in Requests : draft'[r].at = draft[r].at
<1>1. DOMAIN draft = Requests /\ "at" \in DOMAIN draft[s]
  BY DEF Counted, IsSnapshot
<1>2. CASE CountMembers(s)
  <2>1. draft' = [draft EXCEPT ![s] = [draft[s] EXCEPT !["total"] = MembersTotal]]
    BY <1>2 DEF CountMembers, Hold, Queries
  <2>2. QED
    BY <1>1, <2>1
<1>3. CASE FoldMembers(s)
  <2>1. draft' = [draft EXCEPT ![s] =
                     [draft[s] EXCEPT !["byStatus"] = MembersTotal, !.savings = SavingsTotal]]
    BY <1>3 DEF FoldMembers, Hold, Queries
  <2>2. draft'[s].at = draft[s].at
    BY <1>1, <2>1
  <2>3. QED
    BY <1>1, <2>1, <2>2
<1>4. QED
  BY <1>2, <1>3

LEMMA DatedStep ==
  ASSUME Types, Counted, Dated, [Next]_allVars
  PROVE  Dated'
<1>0. /\ DOMAIN cache = {"redis", "memory"} /\ DOMAIN draft = Requests
      /\ \A r \in Requests : "at" \in DOMAIN draft[r] /\ draft[r].at \in Nat
      /\ NoSnapshot.at \in Nat
  BY DEF Counted, IsSnapshot, NoSnapshot, Dated
<1>1. CASE \E s \in Served : Builds(s)
  <2>1. PICK s \in Served : Builds(s)
    BY <1>1
  <2>2. s \in Requests
    BY Jobs DEF Types
  <2>3. CASE ReadCache(s)
    BY <1>0, <2>2, <2>3 DEF ReadCache, Hold, Dated
  <2>4. CASE StoreSnapshot(s)
    <3>1. PICK place \in {"redis", "memory"} : cache' = [cache EXCEPT ![place] = draft[s]]
      BY <2>4 DEF StoreSnapshot
    <3>2. UNCHANGED <<clock, draft>>
      BY <2>4 DEF StoreSnapshot
    <3>3. QED
      BY <1>0, <2>2, <3>1, <3>2 DEF Dated
  <2>5. CASE CountMembers(s) \/ FoldMembers(s)
    <3>1. UNCHANGED <<cache, clock>>
      BY <2>5 DEF CountMembers, FoldMembers
    <3>2. \A r \in Requests : draft'[r].at = draft[r].at
      BY <2>2, <2>5, BuildingKeepsDate
    <3>3. QED
      BY <3>1, <3>2 DEF Dated
  <2>6. CASE Stamp(s)
    <3>1. /\ UNCHANGED cache /\ clock' = clock + 1
          /\ draft' = [draft EXCEPT ![s] = [draft[s] EXCEPT !.at = clock + 1]]
      BY <2>6 DEF Stamp, Hold
    <3>2. QED
      BY <1>0, <2>2, <3>1 DEF Dated
  <2>7. QED
    BY <2>1, <2>3, <2>4, <2>5, <2>6 DEF Builds
<1>2. CASE \E s \in Served : Apart(s)
  BY <1>2 DEF Apart, Dated
<1>3. CASE Crash
  <2>1. cache' = [cache EXCEPT !.memory = NoSnapshot] /\ UNCHANGED <<clock, draft>>
    BY <1>3 DEF Crash
  <2>2. QED
    BY <1>0, <2>1 DEF Dated
<1>4. CASE /\ UNCHANGED <<clock, draft>>
           /\ \/ UNCHANGED cache
              \/ \E place \in {"redis", "memory"} : cache' = [cache EXCEPT ![place] = NoSnapshot]
  BY <1>0, <1>4 DEF Dated
<1>5. QED
  BY <1>1, <1>2, <1>3, <1>4, SnapshotSteps

LEMMA FaultsStay == [Next]_allVars => faults' = faults
<1> SUFFICES ASSUME [Next]_allVars PROVE faults' = faults
  OBVIOUS
<1>1. ASSUME NEW s \in Served, (\E row : Writes(s, row)) \/ Reads(s) \/ Moves(s)
      PROVE  faults' = faults
  BY <1>1 DEF Writes, Reads, Moves, gateway, SubmitKyc, Approve, Reject,
           ResetPassword, StoreWallet, MarkMember, AddToBalance, Find, ReadMember,
           ListMembers, NextMember, ReadGroup, NextJoin, AppendAudit, ReadWallet,
           RegisterMember, RegisterGroup, MarkGroup, JoinGroup, Joined,
           BootstrapDone, Reply, InsertSaving, ThrowSaving, AnchorSaving, StoreHash,
           Primed, Unheard, Tick, SendQuestion, Mount, ShowAnswer, Submit, TrySubmit,
           ReadCache, StoreSnapshot, CountMembers, FoldMembers, Stamp
<1>2. CASE Outside
  BY <1>2 DEF Outside, NoReceipt, TimeOut, ShowError, Mine, Mined, Expire, LeaveTab, Crash, vars, gateway
<1>3. QED
  BY <1>1, <1>2, Kinds

\* Where no two snapshots have been built at the same time, none are.
LEMMA BuildsAlone ==
  ASSUME Placed', running' = Served', ~(Cardinality(Building') > 1),
         NEW r \in Served', NEW s \in Served', Builder(r)', Builder(s)'
  PROVE  r = s
<1> SUFFICES ASSUME r # s PROVE FALSE
  OBVIOUS
<1>1. IsFiniteSet(Building')
  <2>1. Building' \subseteq {q \in Served' : pc'[q] # "start"}
    BY DEF Building
  <2>2. QED
    BY <2>1, FS_Subset DEF Placed
<1>2. {r, s} \subseteq Building'
  BY DEF Building, Builder
<1>3. IsFiniteSet({s}) /\ Cardinality({s}) = 1
  BY FS_Singleton
<1>4. Cardinality({s} \cup {r}) = Cardinality({s}) + 1
  BY <1>3, FS_AddElement
<1>5. {s} \cup {r} = {r, s}
  OBVIOUS
<1>6. Cardinality({r, s}) <= Cardinality(Building') /\ Cardinality(Building') \in Nat
  BY <1>1, <1>2, FS_Subset, FS_CardinalityType
<1>7. QED
  BY <1>3, <1>4, <1>5, <1>6

LEMMA InOrderStep ==
  ASSUME Types, Placed, Placed', Counted, Dated, InOrder, [Next]_allVars,
         "crash" \notin faults, ~overlapped'
  PROVE  InOrder'
<1>1. ~Crash
  BY DEF Crash
<1>2. Served' = Served /\ UNCHANGED running
  BY <1>1, JobsStay, SnapshotSteps, OneMoves, Stepped DEF Apart, Builds, Moves
<1>3. \A r, s \in Served' : Builder(r)' /\ Builder(s)' => r = s
  <2>1. CASE UNCHANGED allVars
    BY <2>1, <1>2 DEF allVars, vars, Builder, InOrder
  <2>2. CASE Next
    <3>1. ~(Cardinality(Building') > 1)
      BY <2>2 DEF Next
    <3>2. running' = Served'
      BY <1>2 DEF InOrder
    <3>3. QED
      BY <3>1, <3>2, BuildsAlone
  <2>3. QED
    BY <2>1, <2>2
<1>4. running' = Served'
  BY <1>2 DEF InOrder
<1>5. /\ DOMAIN cache = {"redis", "memory"} /\ DOMAIN draft = Requests /\ DOMAIN pc = Requests
      /\ clock \in Nat /\ Latest \in Int /\ Latest <= clock
      /\ Served \subseteq Requests
      /\ \A r \in Requests : draft[r].at \in Nat
  BY Jobs DEF Counted, Dated, Types, Latest
<1> SUFFICES /\ redisUp' => cache'.memory = NoSnapshot
             /\ cache'[Place'] # NoSnapshot => cache'[Place'].at = Latest'
             /\ \A r \in Storing' : draft'[r].at = clock' /\ clock' >= 1
             /\ \A r \in Requests : r \notin Storing' => draft'[r].at <= Latest'
  BY <1>3, <1>4 DEF InOrder
<1>6. ASSUME UNCHANGED <<redisUp, clock>>, Storing' = Storing,
             \A r \in Requests : draft'[r].at = draft[r].at
      PROVE  /\ Latest' = Latest /\ Place' = Place
             /\ \A r \in Storing' : draft'[r].at = clock' /\ clock' >= 1
             /\ \A r \in Requests : r \notin Storing' => draft'[r].at <= Latest'
  BY <1>5, <1>6 DEF InOrder, Latest, Place, Storing
<1>7. CASE \E s \in Served : Apart(s)
  <2>1. PICK s \in Served : Apart(s)
    BY <1>7
  <2>2. UNCHANGED <<cache, redisUp, clock, draft>> /\ Storing' = Storing
    BY <1>2, <1>5, <2>1 DEF Apart, Storing
  <2>3. QED
    BY <1>6, <2>2 DEF InOrder
<1>8. CASE /\ UNCHANGED <<pc, redisUp, clock, draft, running>>
           /\ \/ UNCHANGED cache
              \/ \E place \in {"redis", "memory"} : cache' = [cache EXCEPT ![place] = NoSnapshot]
  <2>1. Storing' = Storing
    BY <1>2, <1>8 DEF Storing
  <2>2. \A place \in {"redis", "memory"} : cache'[place] \in {cache[place], NoSnapshot}
    BY <1>5, <1>8
  <2>3. Place \in {"redis", "memory"}
    BY DEF Place
  <2>4. QED
    BY <1>6, <1>8, <2>1, <2>2, <2>3 DEF InOrder
<1>9. CASE \E s \in Served : Builds(s)
  <2>1. PICK s \in Served : Builds(s)
    BY <1>9
  <2>2. s \in Requests
    BY <1>5
  <2>3. CASE ReadCache(s)
    <3>1. /\ pc[s] = "asked" /\ pc'[s] # "store" /\ \A r \in Served : r # s => pc'[r] = pc[r]
          /\ UNCHANGED <<cache, clock>>
      BY <1>5, <2>3 DEF ReadCache, Step, At, Goto
    <3>2. PICK place \in {"redis", "memory"} :
             /\ draft' = [draft EXCEPT ![s] = cache[place]]
             /\ \/ place = Place /\ UNCHANGED redisUp
                \/ place = "memory" /\ redisUp /\ ~redisUp'
      BY <2>3 DEF ReadCache, Hold, FallBack, Place
    <3>3. Storing' = Storing /\ Latest' = Latest
      BY <1>2, <3>1 DEF Storing, Latest
    <3>4. cache[place] = NoSnapshot \/ cache[place].at = Latest
      BY <3>2 DEF InOrder
    <3>5. NoSnapshot.at = 0 /\ 0 <= Latest
      BY <1>5 DEF NoSnapshot, Latest, InOrder
    <3>6. cache'[Place'] # NoSnapshot => cache'[Place'].at = Latest'
      BY <3>1, <3>2, <3>3 DEF InOrder, Place
    <3>7. draft'[s].at <= Latest /\ \A r \in Requests : r # s => draft'[r] = draft[r]
      BY <1>5, <2>2, <3>2, <3>4, <3>5
    <3>8. s \notin Storing
      BY <3>1 DEF Storing
    <3>9. QED
      BY <1>5, <3>1, <3>2, <3>3, <3>6, <3>7, <3>8 DEF InOrder, Storing
  <2>4. CASE CountMembers(s) \/ FoldMembers(s)
    <3>1. \A r \in Requests : draft'[r].at = draft[r].at
      BY <2>2, <2>4, BuildingKeepsDate
    <3>2. UNCHANGED <<cache, redisUp, clock>> /\ Storing' = Storing
      BY <1>2, <1>5, <2>4 DEF CountMembers, FoldMembers, Step, At, Goto, Storing
    <3>3. QED
      BY <1>6, <3>1, <3>2 DEF InOrder
  <2>5. CASE Stamp(s)
    <3>1. /\ pc[s] = "stamp" /\ pc'[s] = "store" /\ \A r \in Served : r # s => pc'[r] = pc[r]
          /\ UNCHANGED <<cache, redisUp>> /\ clock' = clock + 1
          /\ draft' = [draft EXCEPT ![s] = [draft[s] EXCEPT !.at = clock + 1]]
      BY <1>5, <2>5 DEF Stamp, Step, At, Goto, Hold
    <3>2. Storing = {}
      BY <3>1 DEF InOrder, Builder, Storing
    <3>3. Storing' = {s}
      BY <1>2, <3>1, <3>2 DEF Storing
    <3>4. Latest = clock /\ Latest' = clock
      BY <1>5, <3>1, <3>2, <3>3 DEF Latest
    <3>5. draft'[s].at = clock' /\ \A r \in Requests : r # s => draft'[r] = draft[r]
      <4>1. "at" \in DOMAIN draft[s]
        BY <2>2 DEF Counted, IsSnapshot
      <4>2. QED
        BY <1>5, <2>2, <3>1, <4>1
    <3>6. Place' = Place
      BY <3>1 DEF Place
    <3>7. QED
      BY <1>5, <3>1, <3>2, <3>3, <3>4, <3>5, <3>6 DEF InOrder
  <2>6. CASE StoreSnapshot(s)
    <3>1. /\ pc[s] = "store" /\ pc'[s] # "store" /\ \A r \in Served : r # s => pc'[r] = pc[r]
          /\ UNCHANGED <<clock, draft>>
      BY <1>5, <2>6 DEF StoreSnapshot, Step, At, Goto
    <3>2. PICK place \in {"redis", "memory"} :
             /\ cache' = [cache EXCEPT ![place] = draft[s]]
             /\ \/ place = "redis" /\ redisUp /\ UNCHANGED redisUp
                \/ place = "memory" /\ redisUp /\ redisUp' = FALSE
                \/ place = "memory" /\ ~redisUp /\ UNCHANGED redisUp
      BY <2>6 DEF StoreSnapshot, FallBack
    <3>p. place = Place' /\ (redisUp' => redisUp)
      <4>1. CASE place = "redis" /\ redisUp /\ redisUp' = redisUp
        BY <4>1 DEF Place
      <4>2. CASE place = "memory" /\ ~redisUp'
        BY <4>2 DEF Place
      <4>3. QED
        BY <3>2, <4>1, <4>2
    <3>3. Storing = {s} /\ Storing' = {}
      BY <1>2, <3>1 DEF InOrder, Builder, Storing
    <3>4. Latest' = clock /\ draft[s].at = clock
      BY <3>1, <3>3 DEF Latest, InOrder
    <3>5. cache'[Place'] = draft[s]
      BY <1>5, <3>2, <3>p
    <3>6. redisUp' => cache'.memory = NoSnapshot
      BY <1>5, <3>2, <3>p DEF InOrder, Place
    <3>7. QED
      BY <1>5, <3>1, <3>3, <3>4, <3>5, <3>6 DEF InOrder
  <2>7. QED
    BY <2>1, <2>3, <2>4, <2>5, <2>6 DEF Builds
<1>10. QED
  BY <1>1, <1>7, <1>8, <1>9, SnapshotSteps

\* The turns of the panel and who waits for an answer, after a step of the panel.
LEMMA PanelSteps ==
  ASSUME Types, Conversation, [Next]_allVars
  PROVE  \/ UNCHANGED chat
         \/ /\ UNCHANGED <<draft, cache, redisUp, clock>>
            /\ \E r \in Served :
                  \/ SendQuestion(r) /\ chat'.meta = chat.meta
                     /\ \A s \in Served : s # r => Waiting(s)' = Waiting(s)
                  \/ Primed(r) /\ chat'.meta = FirstOnly(r)
                     /\ \A s \in Served : Waiting(s)' = Waiting(s)
                  \/ ShowAnswer(r) /\ chat'.meta = r /\ \A s \in Served : ~Waiting(s)'
                  \/ ShowError(r) /\ UNCHANGED pc /\ chat'.meta = chat.meta
                     /\ \A s \in Served : ~Waiting(s)'
         \/ chat'.meta = None /\ ~(chat.shown /\ chat'.shown)
<1>0. /\ Served \subseteq Requests
      /\ chat \in Panels
  BY Jobs DEF Types, Conversation
<1>1. ASSUME NEW r \in Served, SendQuestion(r)
      PROVE  /\ UNCHANGED <<draft, cache, redisUp, clock>> /\ chat'.meta = chat.meta
             /\ \A s \in Served : s # r => Waiting(s)' = Waiting(s)
  <2>1. PICK next : chat' = [chat EXCEPT !.history = next, !.busy = TRUE, !.next[r] = next]
    BY <1>1 DEF SendQuestion
  <2>2. QED
    BY <1>0, <1>1, <2>1 DEF Panels, SendQuestion, Waiting
<1>2. ASSUME NEW r \in Served, Primed(r)
      PROVE  /\ UNCHANGED <<draft, cache, redisUp, clock>> /\ chat'.meta = FirstOnly(r)
             /\ \A s \in Served : Waiting(s)' = Waiting(s)
  BY <1>0, <1>2 DEF Panels, Primed, Waiting
<1>3. ASSUME NEW r \in Served, NEW ok, NEW meta, Waiting(r), Turn(r, ok, meta)
      PROVE  chat'.meta = meta /\ \A s \in Served : ~Waiting(s)'
  <2>1. chat'.next = [chat.next EXCEPT ![r] = <<>>] /\ chat'.meta = meta
    BY <1>0, <1>3 DEF Panels, Turn
  <2>2. \A s \in Served : s # r => chat.next[s] = <<>>
    BY <1>0, <1>3 DEF Conversation, Waiting
  <2>3. QED
    BY <1>0, <2>1, <2>2 DEF Panels, Waiting
<1>4. ASSUME NEW r \in Served, ShowAnswer(r)
      PROVE  /\ UNCHANGED <<draft, cache, redisUp, clock>> /\ chat'.meta = r
             /\ \A s \in Served : ~Waiting(s)'
  BY <1>3, <1>4 DEF ShowAnswer
<1>5. ASSUME NEW r \in Served, ShowError(r)
      PROVE  /\ UNCHANGED <<draft, cache, redisUp, clock, pc>> /\ chat'.meta = chat.meta
             /\ \A s \in Served : ~Waiting(s)'
  <2>1. /\ UNCHANGED <<draft, cache, redisUp, clock, pc>>
        /\ Waiting(r) /\ Turn(r, FALSE, chat.meta)
    BY <1>5 DEF ShowError
  <2>2. chat'.meta = chat.meta /\ \A s \in Served : ~Waiting(s)'
    BY <1>3, <2>1
  <2>3. QED
    BY <2>1, <2>2
<1>6. ASSUME NEW r \in Served, Mount(r)
      PROVE  chat'.meta = None /\ ~chat.shown
  BY <1>6 DEF Mount, NewPanel, NoPanel
<1>7. CASE LeaveTab
  BY <1>7 DEF LeaveTab, NoPanel
<1>8. QED
  BY <1>1, <1>2, <1>4, <1>5, <1>6, <1>7, ChatSteps

\* No step makes an answer under way older than the one the panel names.
LEMMA AnswersNotOlder ==
  ASSUME Types, Counted, Dated, InOrder, Named, [Next]_allVars, "crash" \notin faults,
         chat.meta # None, Kind(chat.meta) = "chat"
  PROVE  /\ pc'[chat.meta] = "done"
         /\ \A r \in Served : Waiting(r) /\ pc'[r] \in {"answered", "store"} =>
               draft'[r].at >= draft'[chat.meta].at
<1> DEFINE m == chat.meta
           Goal == /\ pc'[m] = "done"
                   /\ \A r \in Served : Waiting(r) /\ pc'[r] \in {"answered", "store"} =>
                         draft'[r].at >= draft'[m].at
<1> SUFFICES Goal
  OBVIOUS
<1>1. m \in Served /\ pc[m] = "done"
      /\ \A r \in Served : Waiting(r) /\ pc[r] \in {"answered", "store"} =>
            draft[r].at >= draft[m].at
  BY DEF Named
<1>2. /\ DOMAIN cache = {"redis", "memory"} /\ DOMAIN draft = Requests /\ DOMAIN pc = Requests
      /\ Served \subseteq Requests /\ clock \in Nat
      /\ \A r \in Requests : draft[r].at \in Nat
  BY Jobs DEF Counted, Dated, Types
<1>3. m \notin Storing /\ draft[m].at <= Latest /\ Latest <= clock /\ Latest \in Int
  BY <1>1, <1>2 DEF Storing, InOrder, Latest
<1> HIDE DEF m
<1>4. ~Crash
  BY DEF Crash
<1>5. CASE \E s \in Served : Apart(s)
  BY <1>1, <1>2, <1>5 DEF Apart, Ended
<1>6. CASE UNCHANGED <<pc, draft>>
  BY <1>1, <1>6
<1>7. CASE \E s \in Served : Builds(s)
  <2>1. PICK s \in Served : Builds(s)
    BY <1>7
  <2>2. CASE ReadCache(s)
    <3>1. PICK place \in {"redis", "memory"} :
             /\ draft' = [draft EXCEPT ![s] = cache[place]]
             /\ pc[s] = "asked"
             /\ pc' = [pc EXCEPT ![s] = IF cache[place] = NoSnapshot THEN "count" ELSE "answered"]
             /\ place = Place \/ (place = "memory" /\ redisUp)
      BY <2>2 DEF ReadCache, Hold, Step, At, Goto, Place
    <3>2. cache[place] # NoSnapshot => cache[place].at = Latest
      BY <3>1 DEF InOrder
    <3>3. QED
      BY <1>1, <1>2, <1>3, <3>1, <3>2
  <2>3. CASE CountMembers(s) \/ FoldMembers(s)
    <3>1. \A r \in Requests : draft'[r].at = draft[r].at
      BY <1>2, <2>3, BuildingKeepsDate
    <3>2. pc[s] \in {"count", "fold"} /\ pc'[s] \in {"fold", "stamp"}
          /\ \A r \in Served : r # s => pc'[r] = pc[r]
      BY <1>2, <2>3 DEF CountMembers, FoldMembers, Step, At, Goto
    <3>3. QED
      BY <1>1, <1>2, <3>1, <3>2
  <2>4. CASE Stamp(s)
    <3>1. /\ pc[s] = "stamp" /\ \A r \in Served : r # s => pc'[r] = pc[r]
          /\ draft' = [draft EXCEPT ![s] = [draft[s] EXCEPT !.at = clock + 1]]
      BY <1>2, <2>4 DEF Stamp, Step, At, Goto, Hold
    <3>2. "at" \in DOMAIN draft[s]
      BY <1>2 DEF Counted, IsSnapshot
    <3>3. draft'[s].at = clock + 1 /\ \A r \in Requests : r # s => draft'[r] = draft[r]
      BY <1>2, <3>1, <3>2
    <3>4. QED
      BY <1>1, <1>2, <1>3, <3>1, <3>3
  <2>5. CASE StoreSnapshot(s)
    <3>1. /\ pc[s] = "store" /\ \A r \in Served : r # s => pc'[r] = pc[r]
          /\ UNCHANGED draft
      BY <1>2, <2>5 DEF StoreSnapshot, Step, At, Goto
    <3>2. QED
      BY <1>1, <1>2, <3>1
  <2>6. QED
    BY <2>1, <2>2, <2>3, <2>4, <2>5 DEF Builds
<1>8. QED
  BY <1>4, <1>5, <1>6, <1>7, SnapshotSteps

LEMMA NamedStep ==
  ASSUME Types, Counted, Dated, Conversation, InOrder, Named, [Next]_allVars,
         "crash" \notin faults
  PROVE  /\ Named'
         /\ chat.shown /\ chat'.shown /\ chat.meta # None /\ Kind(chat.meta) = "chat" =>
               draft[chat'.meta].at >= draft[chat.meta].at
<1> DEFINE Goal == /\ Named'
                   /\ chat.shown /\ chat'.shown
                      /\ chat.meta # None /\ Kind(chat.meta) = "chat" =>
                        draft[chat'.meta].at >= draft[chat.meta].at
<1>0. /\ Served' = Served /\ \A r : Kind(r)' = Kind(r)
      /\ Served \subseteq Requests /\ DOMAIN pc = Requests
      /\ \A r \in Requests : draft[r].at \in Nat
  BY Jobs, JobsStay DEF Types, Dated
<1>k. chat.meta \in Served \/ chat.meta = None \/ Kind(chat.meta) # "chat"
  BY DEF Named
<1>n. ASSUME chat'.meta # None /\ Kind(chat'.meta) = "chat" =>
                /\ chat'.meta \in Served /\ pc'[chat'.meta] = "done"
                /\ \A r \in Served : Waiting(r)' /\ pc'[r] \in {"answered", "store"} =>
                      draft'[r].at >= draft'[chat'.meta].at
      PROVE  Named'
  BY <1>0, <1>n, JobsStay DEF Named, Kind, job
<1>1. CASE UNCHANGED chat
  BY <1>0, <1>1, <1>k, <1>n, AnswersNotOlder DEF Waiting
<1>2. ASSUME NEW r \in Served, SendQuestion(r), chat'.meta = chat.meta,
             \A s \in Served : s # r => Waiting(s)' = Waiting(s)
      PROVE  Goal
  <2>1. pc'[r] = "asked"
    BY <1>0, <1>2 DEF SendQuestion, Step, Goto
  <2>2. QED
    BY <1>0, <1>2, <1>k, <1>n, <2>1, AnswersNotOlder
<1>3. ASSUME NEW r \in Served, Primed(r), chat'.meta = FirstOnly(r),
             \A s \in Served : Waiting(s)' = Waiting(s)
      PROVE  Goal
  <2>1. Kind(r) = "prime"
    BY <1>3 DEF Primed
  <2>2. QED
    BY <1>0, <1>3, <1>k, <1>n, <2>1, AnswersNotOlder DEF FirstOnly
<1>4. ASSUME NEW r \in Served, ShowAnswer(r), chat'.meta = r, \A s \in Served : ~Waiting(s)'
      PROVE  Goal
  <2>1. Waiting(r) /\ pc[r] = "answered" /\ pc'[r] = "done"
    BY <1>0, <1>4 DEF ShowAnswer, Step, At, Goto
  <2>2. QED
    BY <1>0, <1>4, <1>n, <2>1 DEF Named
<1>5. ASSUME UNCHANGED pc, chat'.meta = chat.meta, \A s \in Served : ~Waiting(s)'
      PROVE  Goal
  BY <1>0, <1>5, <1>k, <1>n DEF Named
<1>6. CASE chat'.meta = None /\ ~(chat.shown /\ chat'.shown)
  BY <1>6, <1>n
<1>7. QED
  BY <1>1, <1>2, <1>3, <1>4, <1>5, <1>6, PanelSteps

\* However redis comes and goes, snapshots expire, calls fail and the timer goes off:
\* where snapshots are built one at a time and the process is not restarted, the
\* one that an open panel names never gives way to an older one.
THEOREM ChatCorrect == Spec => ChatMovesForward
<1> DEFINE Inv == Types /\ Placed /\ Counted /\ Conversation /\ Dated /\ Forward
           Advances == chat.shown /\ chat'.shown
                       /\ chat.meta # None /\ Kind(chat.meta) = "chat"
                       /\ ~overlapped /\ "crash" \notin faults =>
                      draft[chat'.meta].at >= draft[chat.meta].at
<1>1. AllInit => Inv
  BY InitTypes, InitPlaced, InitCounted, InitConversation, InitForward DEF AllInit
<1>2. Inv /\ [Next]_allVars => Inv'
  <2> SUFFICES ASSUME Inv, [Next]_allVars PROVE Inv'
    OBVIOUS
  <2>1. Types' /\ Placed' /\ Counted' /\ Conversation' /\ Dated'
    BY TypesStep, PlacedStep, CountedStep, ConversationStep, DatedStep
  <2>2. ASSUME "crash" \notin faults', ~overlapped'
        PROVE  InOrder' /\ Named'
    <3>1. "crash" \notin faults /\ ~overlapped
      <4>1. CASE UNCHANGED allVars
        BY <2>2, <4>1, FaultsStay DEF allVars
      <4>2. CASE Next
        <5>1. overlapped' = (overlapped \/ Cardinality(Building') > 1)
          BY <4>2 DEF Next
        <5>2. QED
          BY <2>2, <5>1, FaultsStay
      <4>3. QED
        BY <4>1, <4>2
    <3>2. QED
      BY <2>1, <2>2, <3>1, InOrderStep, NamedStep DEF Forward, Undisturbed
  <2>3. QED
    BY <2>1, <2>2 DEF Forward, Undisturbed
<1>3. Inv /\ [Next]_allVars => [Advances]_allVars
  BY NamedStep DEF Forward, Undisturbed
<1>4. QED
  BY <1>1, <1>2, <1>3, PTL DEF Spec, ChatMovesForward

==============================================================================
