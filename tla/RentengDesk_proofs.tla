-------------------------- MODULE RentengDesk_proofs --------------------------
(***************************************************************************)
(* Theorems about the renteng desk, for any groups, loans, requests and    *)
(* faults: the social fund and the history of bailouts.                    *)
(***************************************************************************)
EXTENDS RentengDesk, Amounts_proofs

Statuses == {"UNPAID", "DITALANGI", "PAID"}
Events == [loanId : Rows, event : {"Ditalangi", "TalanganLunas"}]

\* Where a request of each kind can be.
StagesOf == [bailout |-> {"start", "group", "missed", "social", "renteng", "loan", "kas",
                          "audit", "event", "done", "unwritten"},
             repay   |-> {"start", "talangan", "loan", "audit", "event", "done", "unwritten"}]
Stages == StagesOf["bailout"] \cup StagesOf["repay"]

Types ==
    /\ statusCicilan \in [Rows -> Statuses]
    /\ kasSosial \in [Groups -> Nat]
    /\ events \in Seq(Events)
    /\ pc \in [Requests -> Stages]
    /\ \A r \in Requests : pc[r] \in StagesOf[Kind(r)]
    /\ seenStatus \in [Requests -> Statuses \cup {None}]
    /\ seenKas \in [Requests -> Nat]
    /\ running \subseteq Requests

LEMMA Jobs ==
  \A r \in Requests : /\ Kind(r) \in {"bailout", "repay"}
                      /\ RowOf(r) \in Rows /\ GroupFor(r) \in Groups
                      /\ Cicilan[RowOf(r)] \in Nat
BY RentengJobs DEF GroupFor

LEMMA InitTypes == Init => Types
<1> SUFFICES ASSUME Init PROVE Types
  OBVIOUS
<1>1. <<>> \in Seq(Events)
  OBVIOUS
<1>2. pc \in [Requests -> Stages] /\ \A r \in Requests : pc[r] \in StagesOf[Kind(r)]
  BY Jobs DEF Init, Stages, StagesOf
<1>3. QED
  BY <1>1, <1>2, RentengJobs DEF Init, Types, Statuses

\* A request's step goes from one place to the next; every other step moves none,
\* and leaves those that have not begun running.
Quiet ==
    /\ UNCHANGED <<db, pc, reads>>
    /\ running' \subseteq running
    /\ \A r \in running : pc[r] = "start" => r \in running'

LEMMA Steps == [Next]_vars => Quiet \/ \E r \in Requests : Step(r)
<1> SUFFICES ASSUME [Next]_vars PROVE Quiet \/ \E r \in Requests : Step(r)
  OBVIOUS
<1>1. CASE \E r \in Requests : NoReceipt(r)
  BY <1>1 DEF NoReceipt, Quiet
<1>2. CASE \E role \in Roles : Mine(role)
  BY <1>2 DEF Mine, Quiet
<1>3. CASE Crash
  BY <1>3 DEF Crash, Quiet
<1>4. CASE Idle \/ UNCHANGED vars
  BY <1>4 DEF Idle, vars, Quiet
<1>5. QED
  BY <1>1, <1>2, <1>3, <1>4 DEF Next

\* A step that only sends to the escrow.
Sends(r) == SendMissed(r) \/ SendSocial(r) \/ SendRenteng(r) \/ SendRepay(r)

LEMMA Walks ==
  ASSUME Types, NEW r \in Requests, Step(r)
  PROVE  /\ r \in running /\ running' = running
         /\ pc[r] \notin {"done", "unwritten"} /\ pc'[r] # "start"
         /\ pc[r] = "start" => Ready(r)
         /\ pc' = [pc EXCEPT ![r] = pc'[r]] /\ pc'[r] \in StagesOf[Kind(r)]
         /\ \A s \in Requests : s # r => pc'[s] = pc[s]
<1>0. pc[r] \in StagesOf[Kind(r)] /\ Kind(r) \in {"bailout", "repay"} /\ DOMAIN pc = Requests
  BY Jobs DEF Types
<1> USE DEF At, Goto
<1>1. PICK to : pc' = [pc EXCEPT ![r] = to]
  BY DEF Step, FindLoan, FindGroup, SendMissed, SendSocial, SendRenteng, SendRepay,
         MarkLoan, DebitKas, AppendAudit, WriteEvent
<1>2. /\ r \in running /\ running' = running /\ pc[r] \notin {"done", "unwritten"}
      /\ pc[r] = "start" => Ready(r)
  BY DEF Step, FindLoan, FindGroup, SendMissed, SendSocial, SendRenteng, SendRepay,
         MarkLoan, DebitKas, AppendAudit, WriteEvent
<1>3. pc'[r] \in StagesOf[Kind(r)] /\ pc'[r] # "start"
  <2>1. CASE FindLoan(r) \/ FindGroup(r)
    BY <1>0, <2>1 DEF FindLoan, FindGroup, StagesOf
  <2>2. CASE Sends(r)
    BY <1>0, <2>2 DEF Sends, SendMissed, SendSocial, SendRenteng, SendRepay, StagesOf
  <2>3. CASE MarkLoan(r) \/ DebitKas(r)
    BY <1>0, <2>3 DEF MarkLoan, DebitKas, StagesOf
  <2>4. CASE AppendAudit(r) \/ WriteEvent(r)
    BY <1>0, <2>4 DEF AppendAudit, WriteEvent, StagesOf
  <2>5. QED
    BY <2>1, <2>2, <2>3, <2>4 DEF Step, Sends
<1>4. QED
  BY <1>0, <1>1, <1>2, <1>3

LEMMA TypesStep == Types /\ [Next]_vars => Types'
<1> SUFFICES ASSUME Types, [Next]_vars PROVE Types'
  OBVIOUS
<1>1. CASE Quiet
  BY <1>1 DEF Quiet, Types, db, reads
<1>2. ASSUME NEW r \in Requests, Step(r)
      PROVE  Types'
  <2>1. /\ pc' \in [Requests -> Stages] /\ \A s \in Requests : pc'[s] \in StagesOf[Kind(s)]
        /\ running' \subseteq Requests
    BY <1>2, Walks, Jobs DEF Types, Stages
  <2>2. RowOf(r) \in Rows /\ GroupFor(r) \in Groups /\ Cicilan[RowOf(r)] \in Nat
    BY Jobs
  <2> USE DEF Types, db, reads
  <2>3. CASE FindLoan(r)
    BY <2>1, <2>2, <2>3 DEF FindLoan
  <2>4. CASE FindGroup(r)
    BY <2>1, <2>2, <2>4 DEF FindGroup
  <2>5. CASE Sends(r)
    BY <2>1, <2>5 DEF Sends, SendMissed, SendSocial, SendRenteng, SendRepay
  <2>6. CASE MarkLoan(r)
    BY <2>1, <2>2, <2>6 DEF MarkLoan, Statuses
  <2>7. CASE DebitKas(r)
    <3>1. NewKasSosial(r) \in Nat
      BY <2>2 DEF NewKasSosial
    <3>2. QED
      BY <2>1, <2>2, <2>7, <3>1 DEF DebitKas
  <2>8. CASE AppendAudit(r)
    BY <2>1, <2>8 DEF AppendAudit
  <2>9. CASE WriteEvent(r)
    <3> DEFINE e == [loanId |-> RowOf(r),
                     event |-> IF Kind(r) = "bailout" THEN "Ditalangi" ELSE "TalanganLunas"]
    <3>1. e \in Events
      BY <2>2 DEF Events
    <3>2. events' \in Seq(Events)
      <4>1. UNCHANGED events \/ events' = Append(events, e)
        BY <2>9 DEF WriteEvent
      <4>2. events \in Seq(Events)
        OBVIOUS
      <4> HIDE DEF e
      <4>3. Append(events, e) \in Seq(Events)
        BY <3>1, <4>2
      <4>4. QED
        BY <4>1, <4>2, <4>3
    <3>3. QED
      BY <2>1, <2>9, <3>2 DEF WriteEvent
  <2>10. QED
    BY <1>2, <2>3, <2>4, <2>5, <2>6, <2>7, <2>8, <2>9 DEF Step, Sends
<1>3. QED
  BY <1>1, <1>2, Steps

\* A request that is over stays so.
LEMMA EndedStays ==
  ASSUME Types, [Next]_vars, NEW r \in Requests, Ended(r)
  PROVE  Ended(r)'
<1>1. CASE Quiet
  BY <1>1 DEF Quiet, Ended
<1>2. ASSUME NEW q \in Requests, Step(q)
      PROVE  Ended(r)'
  <2>1. /\ q \in running /\ running' = running /\ pc[q] \notin {"done", "unwritten"}
        /\ q # r => pc'[r] = pc[r]
    BY <1>2, Walks
  <2>2. QED
    BY <2>1 DEF Ended
<1>3. QED
  BY <1>1, <1>2, Steps

----------------------------------------------------------------------------
(* Requests that wait for one another *)

\* An order of requests that follows from what waits for what: the later of two
\* waits for the earlier, or for one that comes after it.
Follows(order) ==
    /\ order \in SUBSET (Requests \X Requests)
    /\ \A r, s \in Requests : <<r, s>> \in order =>
          r = Job[s].after \/ <<r, Job[s].after>> \in order

\* So the later one begins when the earlier is over.
Queued ==
    /\ \A r \in Requests : pc[r] = "start" => r \in running
    /\ \A order : Follows(order) =>
          \A r, s \in Requests : <<r, s>> \in order /\ pc[s] # "start" => Ended(r)

LEMMA InitQueued == Init => Queued
BY DEF Init, Queued

LEMMA QueuedStep == Types /\ Queued /\ [Next]_vars => Queued'
<1> SUFFICES ASSUME Types, Queued, [Next]_vars PROVE Queued'
  OBVIOUS
<1>1. CASE Quiet
  BY <1>1 DEF Quiet, Queued, Ended
<1>2. ASSUME NEW q \in Requests, Step(q)
      PROVE  Queued'
  <2>1. /\ q \in running /\ running' = running /\ pc'[q] # "start"
        /\ pc[q] = "start" => Ready(q)
        /\ \A s \in Requests : s # q => pc'[s] = pc[s]
    BY <1>2, Walks
  <2>2. \A r \in Requests : Ended(r) => Ended(r)'
    BY EndedStays
  <2>3. \A r \in Requests : pc'[r] = "start" => r \in running'
    BY <2>1 DEF Queued
  <2>4. ASSUME NEW order, Follows(order), NEW r \in Requests, NEW s \in Requests,
               <<r, s>> \in order, pc'[s] # "start"
        PROVE  Ended(r)'
    <3>1. CASE pc[s] # "start"
      BY <2>2, <2>4, <3>1 DEF Queued
    <3>2. CASE pc[s] = "start"
      <4>1. s = q /\ Ready(s)
        BY <2>1, <2>4, <3>2
      <4>2. r = Job[s].after \/ <<r, Job[s].after>> \in order
        BY <2>4 DEF Follows
      <4>3. Job[s].after \in Requests
        BY <2>4, <4>2 DEF Follows
      <4>4. Ended(Job[s].after)
        BY <4>1, <4>3, RentengJobs DEF Ready
      <4>5. pc[Job[s].after] # "start"
        BY <4>3, <4>4 DEF Ended, Queued
      <4>6. Ended(r)
        BY <2>4, <4>2, <4>3, <4>4, <4>5 DEF Queued
      <4>7. QED
        BY <2>2, <4>6
    <3>3. QED
      BY <3>1, <3>2
  <2>5. QED
    BY <2>3, <2>4 DEF Queued
<1>3. QED
  BY <1>1, <1>2, Steps

\* Of two requests that come one after the other, and have both begun, one is over.
LEMMA OneAtATime ==
  ASSUME Types, Queued, NEW order, Follows(order), NEW r \in Requests, NEW s \in Requests,
         <<r, s>> \in order \/ <<s, r>> \in order,
         r \in running, pc[r] \notin {"start", "done", "unwritten"}, pc[s] # "start"
  PROVE  Ended(s)
BY DEF Queued, Ended

----------------------------------------------------------------------------
(* The social fund *)

Bails(r) == Kind(r) = "bailout"

\* Bailouts of one group are asked for one after the other.
BailoutsInTurn ==
    \E order \in SUBSET (Requests \X Requests) :
        /\ Follows(order)
        /\ \A r, s \in Requests :
              r # s /\ Bails(r) /\ Bails(s) /\ GroupFor(r) = GroupFor(s) =>
                 <<r, s>> \in order \/ <<s, r>> \in order

\* Besides the property: what a bailout has read of the fund is still there.
Funded ==
    /\ KasMatchesEvents
    /\ \A g \in Groups : IsFiniteSet(Unrecorded(g))
    /\ \A r \in running :
          Bails(r) /\ pc[r] \in {"missed", "social", "renteng", "loan", "kas"} =>
             seenKas[r] = kasSosial[GroupFor(r)]

\* What each request takes from a fund.
Costs == [r \in Requests |-> Cicilan[RowOf(r)]]

LEMMA UnlistedType ==
  ASSUME Funded, NEW g \in Groups
  PROVE  /\ Unlisted(g) = Total(Costs, Unrecorded(g)) /\ Unlisted(g) \in Nat
         /\ \A r \in Requests : Costs[r] = Cicilan[RowOf(r)] /\ Costs[r] \in Nat
<1>1. \A r \in Requests : Costs[r] = Cicilan[RowOf(r)] /\ Costs[r] \in Nat
  BY Jobs DEF Costs
<1>2. IsFiniteSet(Unrecorded(g)) /\ Unrecorded(g) \subseteq Requests
  BY DEF Funded, Unrecorded
<1>3. Unlisted(g) = Total(Costs, Unrecorded(g))
  BY DEF Unlisted, Costs
<1>4. QED
  BY <1>1, <1>2, <1>3, TotalOfPart

\* The bailouts in the history, and their installments.
BailoutsOf(g) ==
    {k \in DOMAIN events : events[k].event = "Ditalangi" /\ GroupOf[events[k].loanId] = g}
Installments == [k \in DOMAIN events |-> Cicilan[events[k].loanId]]

LEMMA SpentType ==
  ASSUME Types, NEW g \in Groups
  PROVE  /\ IsFiniteSet(BailoutsOf(g)) /\ \A k \in BailoutsOf(g) : Installments[k] \in Nat
         /\ Spent(g) = Total(Installments, BailoutsOf(g)) /\ Spent(g) \in Nat
<1>1. DOMAIN events = 1..Len(events) /\ Len(events) \in Nat
      /\ \A k \in DOMAIN events : events[k] \in Events
  BY DEF Types
<1>2. IsFiniteSet(BailoutsOf(g))
  <2>1. IsFiniteSet(1..Len(events))
    BY <1>1, FS_Interval
  <2>2. QED
    BY <1>1, <2>1, FS_Subset DEF BailoutsOf
<1>3. \A k \in BailoutsOf(g) : Installments[k] \in Nat
  BY <1>1, RentengJobs DEF BailoutsOf, Installments, Events
<1>4. Spent(g) = Total(Installments, BailoutsOf(g))
  BY DEF Spent, Installments, BailoutsOf
<1>5. QED
  BY <1>2, <1>3, <1>4, TotalOfPart

LEMMA SpentGrows ==
  ASSUME Types, NEW g \in Groups, NEW e \in Events, events' = Append(events, e)
  PROVE  Spent(g)' = Spent(g) + (IF e.event = "Ditalangi" /\ GroupOf[e.loanId] = g
                                 THEN Cicilan[e.loanId] ELSE 0)
<1> DEFINE n == Len(events) + 1
           now == BailoutsOf(g)
           next == {k \in DOMAIN events' : /\ events'[k].event = "Ditalangi"
                                           /\ GroupOf[events'[k].loanId] = g}
           amount == [k \in DOMAIN events' |-> Cicilan[events'[k].loanId]]
<1>1. /\ DOMAIN events = 1..Len(events) /\ DOMAIN events' = 1..n /\ Len(events) \in Nat
      /\ \A k \in DOMAIN events : events'[k] = events[k]
      /\ events'[n] = e
  BY DEF Types
<1>2. Spent(g)' = Total(amount, next)
  BY DEF Spent
<1>3. /\ IsFiniteSet(now) /\ Spent(g) = Total(Installments, now) /\ Spent(g) \in Nat
      /\ \A k \in now : Installments[k] \in Nat
  BY SpentType
<1>4. /\ now \subseteq DOMAIN events /\ n \notin now
      /\ next = IF e.event = "Ditalangi" /\ GroupOf[e.loanId] = g THEN now \cup {n} ELSE now
  BY <1>1 DEF BailoutsOf
<1>5. \A k \in now : amount[k] = Installments[k]
  BY <1>1, <1>4 DEF Installments
<1>6. amount[n] = Cicilan[e.loanId] /\ amount[n] \in Nat
  BY <1>1, RentengJobs DEF Events
<1> HIDE DEF now, next, amount, n
<1>7. Total(amount, now) = Total(Installments, now)
  BY <1>5, CoinsAgree DEF Total
<1>8. Total(amount, now \cup {n}) = Total(amount, now) + amount[n]
  <2>1. \A k \in now \cup {n} : amount[k] \in Nat
    BY <1>3, <1>5, <1>6
  <2>2. IsFiniteSet(now) /\ n \notin now
    BY <1>3, <1>4
  <2>3. QED
    BY <2>1, <2>2, TotalAdds
<1>9. QED
  BY <1>2, <1>3, <1>4, <1>6, <1>7, <1>8

LEMMA InitFunded == Init => Funded
<1> SUFFICES ASSUME Init PROVE Funded
  OBVIOUS
<1>1. \A r \in Requests : pc[r] = "start"
  BY DEF Init
<1>2. ASSUME NEW g \in Groups
      PROVE  /\ kasSosial[g] = Debited(KasAwal[g], Spent(g) + Unlisted(g))
             /\ IsFiniteSet(Unrecorded(g))
  <2>1. {k \in DOMAIN events : events[k].event = "Ditalangi" /\ GroupOf[events[k].loanId] = g} = {}
    BY DEF Init
  <2>2. Unrecorded(g) = {}
    BY <1>1 DEF Unrecorded, NoRowYet
  <2>3. Spent(g) = 0 /\ Unlisted(g) = 0
    BY <2>1, <2>2, FS_EmptySet DEF Spent, Unlisted, Total, Coins
  <2>4. KasAwal[g] \in Nat /\ kasSosial[g] = KasAwal[g]
    BY RentengJobs DEF Init
  <2>5. QED
    BY <2>2, <2>3, <2>4, FS_EmptySet DEF Debited
<1>3. QED
  BY <1>1, <1>2 DEF Funded, KasMatchesEvents, Init

\* A bailout that is under way has the group for itself.
LEMMA BailsAlone ==
  ASSUME BailoutsInTurn, Types, Queued,
         NEW r \in Requests, NEW s \in Requests, r # s,
         Bails(r), Bails(s), GroupFor(r) = GroupFor(s),
         r \in running, pc[r] \notin {"start", "done", "unwritten"}, pc[s] # "start"
  PROVE  Ended(s)
<1>1. PICK order : Follows(order) /\ (<<r, s>> \in order \/ <<s, r>> \in order)
  BY DEF BailoutsInTurn
<1>2. QED
  BY <1>1, OneAtATime

LEMMA FundedStep ==
  ASSUME BailoutsInTurn, Types, Queued, Funded, [Next]_vars
  PROVE  Funded'
<1>1. CASE Quiet
  <2>1. \A g : Spent(g)' = Spent(g) /\ Unrecorded(g)' = Unrecorded(g) /\ Unlisted(g)' = Unlisted(g)
    BY <1>1 DEF Quiet, db, Spent, Unrecorded, Unlisted
  <2>2. QED
    BY <1>1, <2>1 DEF Quiet, db, reads, Funded, KasMatchesEvents
<1>2. ASSUME NEW r \in Requests, Step(r)
      PROVE  Funded'
  <2> DEFINE G == GroupFor(r)
             C == Cicilan[RowOf(r)]
             Reading == {"missed", "social", "renteng", "loan", "kas"}
  <2>0. /\ r \in running /\ running' = running /\ running \subseteq Requests
        /\ \A s \in Requests : s # r => pc'[s] = pc[s]
        /\ Kind(r) \in {"bailout", "repay"} /\ RowOf(r) \in Rows
        /\ \A s \in Requests : GroupFor(s) \in Groups
        /\ C \in Nat /\ Costs[r] = C /\ \A s \in Requests : Costs[s] \in Nat
        /\ DOMAIN pc = Requests
        /\ \A g \in Groups : /\ KasAwal[g] \in Nat /\ kasSosial[g] \in Nat
                             /\ Spent(g) \in Nat /\ Unlisted(g) \in Nat
                             /\ Unlisted(g) = Total(Costs, Unrecorded(g))
                             /\ IsFiniteSet(Unrecorded(g)) /\ Unrecorded(g) \subseteq Requests
    BY <1>2, Walks, Jobs, RentengJobs, SpentType, UnlistedType DEF Types, Funded, Unrecorded
  <2>1. \A g \in Groups : Unlisted(g)' = Total(Costs, Unrecorded(g)')
    BY DEF Unlisted, Costs
  \* A step of the request that keeps it among, or out of, those without a row.
  <2>2. ASSUME ~Bails(r) \/ (pc[r] \in NoRowYet <=> pc'[r] \in NoRowYet)
        PROVE  \A g \in Groups : Unrecorded(g)' = Unrecorded(g) /\ Unlisted(g)' = Unlisted(g)
    <3>1. \A g \in Groups : Unrecorded(g)' = Unrecorded(g)
      <4>1. \A s \in Requests : Bails(s) => (pc'[s] \in NoRowYet <=> pc[s] \in NoRowYet)
        BY <2>0, <2>2
      <4>2. QED
        BY <4>1 DEF Unrecorded, Bails
    <3>2. QED
      BY <2>0, <2>1, <3>1
  <2>3. CASE ~Bails(r)
    <3>1. /\ UNCHANGED <<kasSosial>>
          /\ \A s \in Requests : s # r => seenKas'[s] = seenKas[s]
          /\ UNCHANGED events \/ \E x \in Rows :
                 events' = Append(events, [loanId |-> x, event |-> "TalanganLunas"])
      <4>0. pc[r] \notin {"group", "kas"}
        <5>1. pc[r] \in StagesOf["repay"]
          BY <2>0, <2>3 DEF Types, Bails
        <5>2. QED
          BY <5>1 DEF StagesOf
      <4>1. FindLoan(r) \/ Sends(r) \/ MarkLoan(r) \/ AppendAudit(r) \/ WriteEvent(r)
        BY <1>2, <4>0 DEF Step, Sends, FindGroup, DebitKas, At
      <4>2. UNCHANGED seenKas /\ UNCHANGED kasSosial
        BY <4>1 DEF FindLoan, Sends, SendMissed, SendSocial, SendRenteng, SendRepay, MarkLoan,
                    AppendAudit, WriteEvent, db, reads
      <4>3. CASE WriteEvent(r)
        BY <2>0, <2>3, <4>2, <4>3 DEF WriteEvent, Bails
      <4>4. CASE ~WriteEvent(r)
        BY <4>1, <4>2, <4>4 DEF FindLoan, Sends, SendMissed, SendSocial, SendRenteng, SendRepay,
                                MarkLoan, AppendAudit, db
      <4>5. QED
        BY <4>3, <4>4
    <3>2. \A g \in Groups : Spent(g)' = Spent(g)
      <4>1. CASE UNCHANGED events
        BY <4>1 DEF Spent
      <4>2. ASSUME NEW x \in Rows, events' = Append(events, [loanId |-> x, event |-> "TalanganLunas"])
            PROVE  \A g \in Groups : Spent(g)' = Spent(g)
        <5>1. [loanId |-> x, event |-> "TalanganLunas"] \in Events
          BY DEF Events
        <5>2. QED
          BY <2>0, <4>2, <5>1, SpentGrows
      <4>3. QED
        BY <3>1, <4>1, <4>2
    <3>3. \A g \in Groups : Unrecorded(g)' = Unrecorded(g) /\ Unlisted(g)' = Unlisted(g)
      BY <2>2, <2>3
    <3>4. QED
      BY <2>0, <2>3, <3>1, <3>2, <3>3 DEF Funded, KasMatchesEvents, Bails
  <2>4. CASE /\ Bails(r)
             /\ \/ FindLoan(r) \/ Sends(r) \/ MarkLoan(r) \/ AppendAudit(r)
                \/ WriteEvent(r) /\ pc'[r] = "unwritten"
    <3>1. UNCHANGED <<kasSosial, events, seenKas>>
      BY <2>0, <2>4 DEF FindLoan, Sends, SendMissed, SendSocial, SendRenteng, SendRepay, MarkLoan,
                        AppendAudit, WriteEvent, Goto, db, reads
    <3>2. /\ pc[r] \in NoRowYet <=> pc'[r] \in NoRowYet
          /\ pc'[r] \in Reading => pc[r] \in Reading
      <4>0. pc[r] # "talangan"
        <5>1. pc[r] \in StagesOf["bailout"]
          BY <2>0, <2>4 DEF Types, Bails
        <5>2. QED
          BY <5>1 DEF StagesOf
      <4>1. CASE FindLoan(r) \/ Sends(r)
        BY <2>0, <2>4, <4>0, <4>1
           DEF FindLoan, Sends, SendMissed, SendSocial, SendRenteng, SendRepay, At, Goto, Bails,
               NoRowYet
      <4>2. CASE MarkLoan(r)
        BY <2>0, <2>4, <4>2 DEF MarkLoan, At, Goto, Bails, NoRowYet
      <4>3. CASE AppendAudit(r) \/ (WriteEvent(r) /\ pc'[r] = "unwritten")
        BY <2>0, <4>3 DEF AppendAudit, WriteEvent, At, Goto, NoRowYet
      <4>4. QED
        BY <2>4, <4>1, <4>2, <4>3
    <3>3. \A g \in Groups : Spent(g)' = Spent(g)
      BY <3>1 DEF Spent
    <3>4. \A g \in Groups : Unrecorded(g)' = Unrecorded(g) /\ Unlisted(g)' = Unlisted(g)
      BY <2>2, <3>2
    <3>5. QED
      BY <2>0, <3>1, <3>2, <3>3, <3>4 DEF Funded, KasMatchesEvents
  <2>5. CASE Bails(r) /\ FindGroup(r)
    <3>1. /\ UNCHANGED <<kasSosial, events>>
          /\ seenKas' = [seenKas EXCEPT ![r] = kasSosial[G]]
          /\ pc[r] = "group" /\ pc'[r] \in {"done", "missed", "loan"}
      BY <2>0, <2>5 DEF FindGroup, db, At, Goto
    <3>2. \A g \in Groups : Unrecorded(g)' = Unrecorded(g) /\ Unlisted(g)' = Unlisted(g)
      BY <2>2, <3>1 DEF NoRowYet
    <3>3. \A g \in Groups : Spent(g)' = Spent(g)
      BY <3>1 DEF Spent
    <3>4. seenKas'[r] = kasSosial[G]
          /\ \A s \in Requests : s # r => seenKas'[s] = seenKas[s]
      BY <3>1 DEF Types
    <3>5. QED
      BY <2>0, <3>1, <3>2, <3>3, <3>4 DEF Funded, KasMatchesEvents
  <2>6. CASE Bails(r) /\ DebitKas(r)
    <3>1. /\ kasSosial' = [kasSosial EXCEPT ![G] = NewKasSosial(r)]
          /\ pc[r] = "kas" /\ pc'[r] = "audit" /\ UNCHANGED <<events, seenKas>>
      BY <2>0, <2>6 DEF DebitKas, At, Goto, reads
    <3>2. \A g \in Groups : Spent(g)' = Spent(g)
      BY <3>1 DEF Spent
    <3>3. seenKas[r] = kasSosial[G]
      BY <2>0, <2>6, <3>1 DEF Funded
    <3>4. \A g \in Groups : kasSosial'[g] = IF g = G THEN NewKasSosial(r) ELSE kasSosial[g]
      BY <3>1 DEF Types
    <3>5. /\ r \notin Unrecorded(G) /\ Unrecorded(G)' = Unrecorded(G) \cup {r}
          /\ \A g \in Groups : g # G => Unrecorded(g)' = Unrecorded(g)
      BY <2>0, <2>6, <3>1 DEF Unrecorded, NoRowYet, Bails
    <3>6. /\ Unlisted(G)' = Unlisted(G) + C /\ IsFiniteSet(Unrecorded(G)')
          /\ \A g \in Groups : g # G => Unlisted(g)' = Unlisted(g)
      <4>1. IsFiniteSet(Unrecorded(G)')
        BY <2>0, <3>5, FS_AddElement
      <4>2. Total(Costs, Unrecorded(G) \cup {r}) = Total(Costs, Unrecorded(G)) + Costs[r]
        <5>1. IsFiniteSet(Unrecorded(G)) /\ \A s \in Unrecorded(G) \cup {r} : Costs[s] \in Nat
          BY <2>0
        <5>2. QED
          BY <3>5, <5>1, TotalAdds
      <4>3. QED
        BY <2>0, <2>1, <3>5, <4>1, <4>2
    <3>7. kasSosial'[G] = Debited(KasAwal[G], Spent(G)' + Unlisted(G)')
      <4>1. kasSosial'[G] = Debited(kasSosial[G], C)
        BY <2>0, <3>3, <3>4 DEF NewKasSosial, Debited
      <4>2. kasSosial[G] = Debited(KasAwal[G], Spent(G) + Unlisted(G))
        BY <2>0 DEF Funded, KasMatchesEvents
      <4>3. \A n, m \in Nat : Debited(Debited(KasAwal[G], n), m) = Debited(KasAwal[G], n + m)
        BY <2>0 DEF Debited
      <4>4. QED
        BY <2>0, <3>2, <3>6, <4>1, <4>2, <4>3
    <3>8. \A g \in Groups : g # G => kasSosial'[g] = Debited(KasAwal[g], Spent(g)' + Unlisted(g)')
      BY <3>2, <3>4, <3>6 DEF Funded, KasMatchesEvents
    <3>9. ASSUME NEW s \in running, Bails(s), pc'[s] \in Reading
          PROVE  seenKas'[s] = kasSosial'[GroupFor(s)]
      <4>1. s # r
        BY <3>1, <3>9
      <4>2. GroupFor(s) # G
        BY <2>0, <2>6, <3>1, <3>9, <4>1, BailsAlone DEF Ended
      <4>3. QED
        BY <2>0, <3>1, <3>4, <3>9, <4>1, <4>2 DEF Funded
    <3>10. QED
      BY <2>0, <3>5, <3>6, <3>7, <3>8, <3>9 DEF Funded, KasMatchesEvents
  <2>7. CASE Bails(r) /\ WriteEvent(r) /\ pc'[r] # "unwritten"
    <3> DEFINE e == [loanId |-> RowOf(r), event |-> "Ditalangi"]
    <3>1. /\ events' = Append(events, e) /\ UNCHANGED <<kasSosial, seenKas>>
          /\ pc[r] = "event" /\ pc'[r] = "done"
      BY <2>0, <2>7 DEF WriteEvent, At, Goto, reads, Bails
    <3>2. e \in Events /\ e.event = "Ditalangi" /\ GroupOf[e.loanId] = G /\ e.loanId = RowOf(r)
      BY <2>0 DEF Events, GroupFor
    <3> HIDE DEF e
    <3>3. \A g \in Groups : Spent(g)' = IF g = G THEN Spent(g) + C ELSE Spent(g)
      BY <2>0, <3>1, <3>2, SpentGrows
    <3>4. /\ Unrecorded(G)' = Unrecorded(G) \ {r} /\ r \in Unrecorded(G)
          /\ \A g \in Groups : g # G => Unrecorded(g)' = Unrecorded(g)
      BY <2>0, <2>7, <3>1 DEF Unrecorded, NoRowYet, Bails
    <3>5. /\ Unlisted(G) = Unlisted(G)' + C /\ Unlisted(G)' \in Nat /\ IsFiniteSet(Unrecorded(G)')
          /\ \A g \in Groups : g # G => Unlisted(g)' = Unlisted(g)
      <4>1. IsFiniteSet(Unrecorded(G)') /\ r \notin Unrecorded(G)'
            /\ Unrecorded(G) = Unrecorded(G)' \cup {r} /\ Unrecorded(G)' \subseteq Requests
        BY <2>0, <3>4, FS_Subset
      <4>2. /\ Total(Costs, Unrecorded(G)' \cup {r}) = Total(Costs, Unrecorded(G)') + Costs[r]
            /\ Total(Costs, Unrecorded(G)') \in Nat
        <5>1. \A s \in Unrecorded(G)' \cup {r} : Costs[s] \in Nat
          BY <2>0, <4>1
        <5>2. QED
          BY <4>1, <5>1, TotalAdds
      <4>3. QED
        BY <2>0, <2>1, <3>4, <4>1, <4>2
    <3>6. \A g \in Groups : Spent(g)' + Unlisted(g)' = Spent(g) + Unlisted(g)
      BY <2>0, <3>3, <3>5
    <3>7. \A s \in running : Bails(s) /\ pc'[s] \in Reading => seenKas'[s] = kasSosial'[GroupFor(s)]
      BY <2>0, <3>1 DEF Funded
    <3>8. QED
      BY <2>0, <3>1, <3>4, <3>5, <3>6, <3>7 DEF Funded, KasMatchesEvents
  <2>8. QED
    BY <1>2, <2>3, <2>4, <2>5, <2>6, <2>7 DEF Step, Sends
<1>3. QED
  BY <1>1, <1>2, Steps

\* Where the bailouts of a group are asked for one after the other, and whatever the
\* chain answers, wherever a restart cuts a request off and whichever rows cannot be
\* written: the fund is what it was less the installment of every bailout in the
\* history, and of every one that was charged and is not there.
THEOREM FundsCorrect ==
  ASSUME BailoutsInTurn
  PROVE  Spec => []KasMatchesEvents
<1> DEFINE Inv == Types /\ Queued /\ Funded
<1>1. Init => Inv
  BY InitTypes, InitQueued, InitFunded
<1>2. Inv /\ [Next]_vars => Inv'
  BY BailoutsInTurn, TypesStep, QueuedStep, FundedStep
<1>3. Inv => KasMatchesEvents
  BY DEF Funded
<1>4. QED
  BY <1>1, <1>2, <1>3, PTL DEF Spec
----------------------------------------------------------------------------
(* The history of bailouts *)

\* Requests about one loan come one after the other.
LoansInTurn ==
    \E order \in SUBSET (Requests \X Requests) :
        /\ Follows(order)
        /\ \A r, s \in Requests : r # s /\ RowOf(r) = RowOf(s) =>
              <<r, s>> \in order \/ <<s, r>> \in order

Bailed(k, x) == events[k] = [loanId |-> x, event |-> "Ditalangi"]
Settled(k, x) == events[k] = [loanId |-> x, event |-> "TalanganLunas"]

\* A loan's talangan that no event in the history settles; a settlement that has
\* marked the loan and has no row; and one that will never have it.
Owed(x) == \E i \in DOMAIN events : Bailed(i, x) /\ \A k \in i..Len(events) : ~Settled(k, x)
Settling(r, x) == RowOf(r) = x /\ Kind(r) = "repay" /\ pc[r] \in NoRowYet
LostSettlement(x) == \E r \in Requests : Ended(r) /\ Settling(r, x)

\* A bailout that found the loan not DITALANGI.
GoesThrough(r) ==
    /\ Bails(r)
    /\ \/ pc[r] \in {"missed", "social", "renteng", "loan", "kas", "audit", "event"}
       \/ pc[r] = "group" /\ ~AlreadyBailedOut(r)

Recorded ==
    /\ \A x \in Rows : \A i, j \in DOMAIN events : i < j /\ Bailed(i, x) /\ Bailed(j, x) =>
          (\E k \in i..j : Settled(k, x)) \/ LostSettlement(x)
    /\ \A x \in Rows : Owed(x) =>
          statusCicilan[x] = "DITALANGI" \/ \E r \in Requests : Settling(r, x)
    /\ \A r \in running : Bails(r) /\ pc[r] \in {"kas", "audit", "event"} =>
          statusCicilan[RowOf(r)] = "DITALANGI"
    /\ \A r \in running : GoesThrough(r) => ~Owed(RowOf(r)) \/ LostSettlement(RowOf(r))

LEMMA InitRecorded == Init => Recorded
<1> SUFFICES ASSUME Init PROVE Recorded
  OBVIOUS
<1>1. DOMAIN events = {}
  BY DEF Init
<1>2. \A r \in Requests : pc[r] = "start"
  BY DEF Init
<1>3. QED
  BY <1>1, <1>2 DEF Recorded, Owed, GoesThrough, Init

\* A request that is under way has the loan for itself.
LEMMA LoanAlone ==
  ASSUME LoansInTurn, Types, Queued, NEW r \in Requests, NEW s \in Requests, r # s,
         RowOf(r) = RowOf(s), r \in running, pc[r] \notin {"start", "done", "unwritten"}, pc[s] # "start"
  PROVE  Ended(s)
<1>1. PICK order : Follows(order) /\ (<<r, s>> \in order \/ <<s, r>> \in order)
  BY DEF LoansInTurn
<1>2. QED
  BY <1>1, OneAtATime

\* What the history owes stays as it is while no event is written.
LEMMA HistoryStays ==
  ASSUME UNCHANGED events, NEW x
  PROVE  Owed(x)' = Owed(x) /\ \A k : Bailed(k, x)' = Bailed(k, x) /\ Settled(k, x)' = Settled(k, x)
BY DEF Owed, Bailed, Settled

\* What an event adds to the history.
LEMMA HistoryGrows ==
  ASSUME Types, NEW e \in Events, events' = Append(events, e), NEW x \in Rows,
         NEW n, n = Len(events) + 1
  PROVE  /\ Len(events) \in Nat /\ DOMAIN events = 1..Len(events)
         /\ DOMAIN events' = 1..n /\ Len(events') = n
         /\ \A k \in DOMAIN events : Bailed(k, x)' = Bailed(k, x) /\ Settled(k, x)' = Settled(k, x)
         /\ Bailed(n, x)' <=> (e.loanId = x /\ e.event = "Ditalangi")
         /\ Settled(n, x)' <=> (e.loanId = x /\ e.event = "TalanganLunas")
         /\ e.loanId = x /\ e.event = "TalanganLunas" => ~Owed(x)'
         /\ ~(e.loanId = x /\ e.event = "Ditalangi") /\ Owed(x)' => Owed(x)
<1>1. /\ Len(events) \in Nat /\ DOMAIN events = 1..Len(events)
      /\ DOMAIN events' = 1..n /\ Len(events') = n
      /\ \A k \in DOMAIN events : events'[k] = events[k]
      /\ events'[n] = e
  BY DEF Types
<1>2. \A k \in DOMAIN events : Bailed(k, x)' = Bailed(k, x) /\ Settled(k, x)' = Settled(k, x)
  BY <1>1 DEF Bailed, Settled
<1>3. /\ events'[n] = [loanId |-> x, event |-> "Ditalangi"] <=> (e.loanId = x /\ e.event = "Ditalangi")
      /\ events'[n] = [loanId |-> x, event |-> "TalanganLunas"] <=> (e.loanId = x /\ e.event = "TalanganLunas")
  BY <1>1 DEF Events
<1>4. /\ Bailed(n, x)' <=> events'[n] = [loanId |-> x, event |-> "Ditalangi"]
      /\ Settled(n, x)' <=> events'[n] = [loanId |-> x, event |-> "TalanganLunas"]
  BY <1>1 DEF Bailed, Settled
<1>5. ASSUME e.loanId = x, e.event = "TalanganLunas"
      PROVE  ~Owed(x)'
  BY <1>1, <1>3, <1>5 DEF Owed, Settled, Bailed
<1>6. ASSUME ~(e.loanId = x /\ e.event = "Ditalangi"), Owed(x)'
      PROVE  Owed(x)
  <2>1. PICK i \in DOMAIN events' : /\ events'[i] = [loanId |-> x, event |-> "Ditalangi"]
                                    /\ \A k \in i..n : events'[k] # [loanId |-> x, event |-> "TalanganLunas"]
    BY <1>1, <1>6 DEF Owed, Bailed, Settled
  <2>2. i \in DOMAIN events
    BY <1>1, <1>3, <1>6, <2>1
  <2>3. QED
    BY <1>1, <2>1, <2>2 DEF Owed, Bailed, Settled
<1>7. QED
  BY <1>1, <1>2, <1>3, <1>4, <1>5, <1>6

\* A step that keeps the history, the loan's status and who settles.
LEMMA RecordedKept ==
  ASSUME Recorded, UNCHANGED <<events, statusCicilan>>, running' \subseteq running,
         \A r \in Requests : Ended(r) => Ended(r)',
         \A r \in Requests : \A x : Settling(r, x)' = Settling(r, x),
         \A r \in running' : Bails(r) /\ pc'[r] \in {"kas", "audit", "event"} =>
             statusCicilan[RowOf(r)] = "DITALANGI",
         \A r \in running' : GoesThrough(r)' => ~Owed(RowOf(r)) \/ LostSettlement(RowOf(r))
  PROVE  Recorded'
<1>1. \A x : /\ Owed(x)' = Owed(x)
             /\ \A k : Bailed(k, x)' = Bailed(k, x) /\ Settled(k, x)' = Settled(k, x)
  BY HistoryStays
<1>2. \A x : LostSettlement(x) => LostSettlement(x)'
  BY DEF LostSettlement
<1>3. \A x \in Rows : \A i, j \in DOMAIN events : i < j /\ Bailed(i, x)' /\ Bailed(j, x)' =>
          (\E k \in i..j : Settled(k, x)') \/ LostSettlement(x)'
  BY <1>1, <1>2 DEF Recorded
<1>4. \A x \in Rows : Owed(x)' =>
          statusCicilan'[x] = "DITALANGI" \/ \E r \in Requests : Settling(r, x)'
  BY <1>1 DEF Recorded
<1>5. \A r \in running' : GoesThrough(r)' => ~Owed(RowOf(r))' \/ LostSettlement(RowOf(r))'
  BY <1>1, <1>2
<1>6. QED
  BY <1>3, <1>4, <1>5 DEF Recorded

LEMMA RecordedStep ==
  ASSUME LoansInTurn, Types, Queued, Queued', Recorded, [Next]_vars
  PROVE  Recorded'
<1>0. \A r \in Requests : Ended(r) => Ended(r)'
  BY EndedStays
<1>1. CASE Quiet
  <2>1. /\ UNCHANGED <<events, statusCicilan, pc, seenStatus>> /\ running' \subseteq running
    BY <1>1 DEF Quiet, db, reads
  <2>2. \A r, x : Settling(r, x)' = Settling(r, x) /\ GoesThrough(r)' = GoesThrough(r)
    BY <2>1 DEF Settling, GoesThrough, AlreadyBailedOut
  <2>3. QED
    BY <1>0, <2>1, <2>2, RecordedKept DEF Recorded
<1>2. ASSUME NEW r \in Requests, Step(r)
      PROVE  Recorded'
  <2> DEFINE x == RowOf(r)
  <2>0. /\ r \in running /\ running' = running /\ running \subseteq Requests
        /\ \A s \in Requests : s # r => pc'[s] = pc[s]
        /\ Kind(r) \in {"bailout", "repay"} /\ x \in Rows /\ \A s \in Requests : RowOf(s) \in Rows
        /\ DOMAIN pc = Requests /\ pc[r] \in StagesOf[Kind(r)] /\ pc'[r] \in StagesOf[Kind(r)]
    BY <1>2, Walks, Jobs DEF Types
  <2>1. ASSUME NEW s \in running, s # r, RowOf(s) = x, pc[r] # "start"
        PROVE  pc[s] \in {"start", "done", "unwritten"}
    <3>1. pc[r] \notin {"done", "unwritten"}
      BY <1>2, Walks
    <3>2. QED
      BY <2>0, <2>1, <3>1, LoanAlone DEF Ended
  <2>2. CASE FindLoan(r)
    <3>1. /\ UNCHANGED <<events, statusCicilan>> /\ pc[r] = "start"
          /\ pc'[r] \in {"group", "talangan"}
          /\ seenStatus'[r] = statusCicilan[x]
          /\ \A s \in Requests : s # r => seenStatus'[s] = seenStatus[s]
      BY <2>0, <2>2 DEF FindLoan, db, At, Goto, Types
    <3>2. \A s \in Requests : \A y : Settling(s, y)' = Settling(s, y)
      <4>1. \A s \in Requests : pc'[s] \in NoRowYet <=> pc[s] \in NoRowYet
        BY <2>0, <3>1 DEF NoRowYet
      <4>2. QED
        BY <4>1 DEF Settling
    <3>3. ASSUME GoesThrough(r)'
          PROVE  ~Owed(x) \/ LostSettlement(x)
      <4>1. Bails(r) /\ statusCicilan[x] # "DITALANGI"
        BY <3>1, <3>3 DEF GoesThrough, AlreadyBailedOut
      <4>2. ASSUME NEW s \in Requests, Settling(s, x)
            PROVE  LostSettlement(x)
        <5>1. s # r /\ RowOf(s) = RowOf(r) /\ pc'[s] = pc[s] /\ pc[s] # "start"
          BY <2>0, <4>1, <4>2 DEF Settling, NoRowYet, Bails
        <5>2. PICK order : Follows(order) /\ (<<r, s>> \in order \/ <<s, r>> \in order)
          BY <5>1 DEF LoansInTurn
        <5>3. ~Ended(r)
          BY <2>0, <3>1 DEF Ended
        <5>4. <<s, r>> \in order
          BY <5>1, <5>2, <5>3 DEF Queued
        <5>5. Ended(s)'
          BY <3>1, <5>2, <5>4 DEF Queued
        <5>6. Ended(s)
          BY <2>0, <5>1, <5>5 DEF Ended
        <5>7. QED
          BY <4>2, <5>6 DEF LostSettlement
      <4>3. QED
        BY <2>0, <4>1, <4>2 DEF Recorded
    <3>4. \A s \in running : s # r => GoesThrough(s)' = GoesThrough(s)
      BY <2>0, <3>1 DEF GoesThrough, AlreadyBailedOut
    <3>5. \A s \in running' : GoesThrough(s)' => ~Owed(RowOf(s)) \/ LostSettlement(RowOf(s))
      BY <2>0, <3>3, <3>4 DEF Recorded
    <3>6. \A s \in running' : Bails(s) /\ pc'[s] \in {"kas", "audit", "event"} =>
             statusCicilan[RowOf(s)] = "DITALANGI"
      BY <2>0, <3>1 DEF Recorded
    <3>7. QED
      BY <1>0, <2>0, <3>1, <3>2, <3>5, <3>6, RecordedKept
  <2>3. CASE \/ FindGroup(r) \/ Sends(r) \/ DebitKas(r) \/ AppendAudit(r)
             \/ WriteEvent(r) /\ pc'[r] = "unwritten"
    <3>1. UNCHANGED <<events, statusCicilan, seenStatus>>
      BY <2>0, <2>3 DEF FindGroup, Sends, SendMissed, SendSocial, SendRenteng, SendRepay, DebitKas,
                        AppendAudit, WriteEvent, Goto, db, reads
    <3>2. /\ Kind(r) = "repay" => (pc'[r] \in NoRowYet <=> pc[r] \in NoRowYet)
          /\ pc'[r] \in {"kas", "audit", "event"} => pc[r] \in {"kas", "audit", "event"}
          /\ GoesThrough(r)' => GoesThrough(r)
      BY <2>0, <2>3, <3>1
         DEF FindGroup, Sends, SendMissed, SendSocial, SendRenteng, SendRepay, DebitKas,
             AppendAudit, WriteEvent, NoRowYet, At, Goto, GoesThrough, AlreadyBailedOut, Bails, StagesOf
    <3>3. \A s \in Requests : \A y : Settling(s, y)' = Settling(s, y)
      BY <2>0, <3>2 DEF Settling
    <3>4. \A s \in running : s # r => GoesThrough(s)' = GoesThrough(s)
      BY <2>0, <3>1 DEF GoesThrough, AlreadyBailedOut
    <3>5. \A s \in running' : GoesThrough(s)' => ~Owed(RowOf(s)) \/ LostSettlement(RowOf(s))
      BY <2>0, <3>2, <3>4 DEF Recorded
    <3>6. \A s \in running' : Bails(s) /\ pc'[s] \in {"kas", "audit", "event"} =>
             statusCicilan[RowOf(s)] = "DITALANGI"
      BY <2>0, <3>2 DEF Recorded
    <3>7. QED
      BY <1>0, <2>0, <3>1, <3>3, <3>5, <3>6, RecordedKept
  <2>4. CASE MarkLoan(r)
    <3>1. /\ UNCHANGED <<events, seenStatus>> /\ pc[r] = "loan"
          /\ statusCicilan' = [statusCicilan EXCEPT ![x] = IF Bails(r) THEN "DITALANGI" ELSE "PAID"]
          /\ pc'[r] = IF Bails(r) THEN "kas" ELSE "audit"
      BY <2>0, <2>4 DEF MarkLoan, At, Goto, reads, Bails
    <3>2. \A y : /\ Owed(y)' = Owed(y)
                 /\ \A k : Bailed(k, y)' = Bailed(k, y) /\ Settled(k, y)' = Settled(k, y)
      BY <3>1, HistoryStays
    <3>3. /\ \A s \in Requests : \A y : s # r => Settling(s, y)' = Settling(s, y)
          /\ ~\E y : Settling(r, y)
          /\ ~Bails(r) => Settling(r, x)'
      BY <2>0, <3>1 DEF Settling, NoRowYet, Bails
    <3>4. \A y : LostSettlement(y)' = LostSettlement(y)
      <4>1. ~Ended(r) /\ ~Ended(r)' /\ \A s \in Requests : s # r => Ended(s)' = Ended(s)
        BY <2>0, <3>1 DEF Ended
      <4>2. QED
        BY <3>3, <4>1 DEF LostSettlement
    <3>5. \A y \in Rows : statusCicilan'[y] = IF y # x THEN statusCicilan[y]
                                              ELSE IF Bails(r) THEN "DITALANGI" ELSE "PAID"
      BY <3>1 DEF Types
    <3>6. \A y \in Rows : Owed(y)' =>
             statusCicilan'[y] = "DITALANGI" \/ \E s \in Requests : Settling(s, y)'
      BY <3>2, <3>3, <3>5 DEF Recorded
    <3>7. ASSUME NEW s \in running, Bails(s), pc'[s] \in {"kas", "audit", "event"}
          PROVE  statusCicilan'[RowOf(s)] = "DITALANGI"
      <4>1. CASE s = r
        BY <2>0, <3>5, <3>7, <4>1
      <4>2. CASE s # r
        <5>1. RowOf(s) # x /\ RowOf(s) \in Rows
          BY <2>0, <2>1, <3>1, <3>7, <4>2
        <5>2. QED
          BY <2>0, <3>5, <3>7, <4>2, <5>1 DEF Recorded
      <4>3. QED
        BY <4>1, <4>2
    <3>8. \A s \in running : GoesThrough(s)' => GoesThrough(s)
      BY <2>0, <3>1 DEF GoesThrough, AlreadyBailedOut, Bails
    <3>9. \A s \in running : GoesThrough(s)' => ~Owed(RowOf(s))' \/ LostSettlement(RowOf(s))'
      BY <3>2, <3>4, <3>8 DEF Recorded
    <3>10. \A y \in Rows : \A i, j \in DOMAIN events' : i < j /\ Bailed(i, y)' /\ Bailed(j, y)' =>
              (\E k \in i..j : Settled(k, y)') \/ LostSettlement(y)'
      BY <3>1, <3>2, <3>4 DEF Recorded
    <3>11. QED
      BY <2>0, <3>6, <3>7, <3>9, <3>10 DEF Recorded
  <2>5. CASE WriteEvent(r) /\ pc'[r] # "unwritten"
    <3>e. PICK e : e = [loanId |-> x, event |-> IF Kind(r) = "bailout" THEN "Ditalangi" ELSE "TalanganLunas"]
      OBVIOUS
    <3>n. PICK n : n = Len(events) + 1
      OBVIOUS
    <3>1. /\ UNCHANGED <<statusCicilan, seenStatus>> /\ pc[r] = "event" /\ pc'[r] = "done"
          /\ events' = Append(events, e) /\ e \in Events
          /\ e.loanId = x /\ (e.event = "Ditalangi" <=> Bails(r))
          /\ (e.event = "TalanganLunas" <=> ~Bails(r))
      BY <2>0, <2>5, <3>e DEF WriteEvent, At, Goto, reads, Bails, Events
    <3>2. /\ n \in Nat /\ DOMAIN events = 1..(n - 1) /\ DOMAIN events' = 1..n /\ Len(events) = n - 1
          /\ \A y \in Rows :
                /\ \A k \in DOMAIN events : Bailed(k, y)' = Bailed(k, y) /\ Settled(k, y)' = Settled(k, y)
                /\ Bailed(n, y)' <=> (x = y /\ Bails(r))
                /\ y = x /\ ~Bails(r) => ~Owed(y)'
                /\ ~(y = x /\ Bails(r)) /\ Owed(y)' => Owed(y)
      BY <2>0, <3>1, <3>n, HistoryGrows
    <3>3. /\ \A s \in Requests : \A y : s # r => Settling(s, y)' = Settling(s, y)
          /\ \A y : Settling(r, y) => y = x /\ ~Bails(r)
          /\ ~\E y : Settling(r, y)'
      BY <2>0, <3>1 DEF Settling, NoRowYet, Bails
    <3>4. \A y : LostSettlement(y)' = LostSettlement(y)
      <4>1. ~Ended(r) /\ \A s \in Requests : s # r => Ended(s)' = Ended(s)
        BY <2>0, <3>1 DEF Ended
      <4>2. QED
        BY <3>3, <4>1 DEF LostSettlement
    <3>5. ASSUME NEW y \in Rows, NEW i \in DOMAIN events', NEW j \in DOMAIN events',
                 i < j, Bailed(i, y)', Bailed(j, y)'
          PROVE  (\E k \in i..j : Settled(k, y)') \/ LostSettlement(y)'
      <4>1. i \in DOMAIN events
        BY <3>2, <3>5
      <4>2. CASE j \in DOMAIN events
        <5>1. (\E k \in i..j : Settled(k, y)) \/ LostSettlement(y)
          BY <3>2, <3>5, <4>1, <4>2 DEF Recorded
        <5>2. \A k \in i..j : k \in DOMAIN events
          BY <3>2, <4>1, <4>2
        <5>3. QED
          BY <3>2, <3>4, <5>1, <5>2
      <4>3. CASE j \notin DOMAIN events
        <5>1. j = n
          BY <3>2, <4>3
        <5>2. y = x /\ Bails(r)
          BY <3>2, <3>5, <5>1
        <5>3. ~Owed(x) \/ LostSettlement(x)
          BY <2>0, <3>1, <5>2 DEF Recorded, GoesThrough
        <5>4. ASSUME ~Owed(x)
              PROVE  \E k \in i..j : Settled(k, y)'
          <6>1. PICK k \in i..Len(events) : Settled(k, x)
            BY <3>2, <3>5, <4>1, <5>2, <5>4 DEF Owed
          <6>2. k \in i..j /\ k \in DOMAIN events
            BY <3>2, <4>1, <5>1, <6>1
          <6>3. QED
            BY <3>2, <5>2, <6>1, <6>2
        <5>5. QED
          BY <3>4, <5>2, <5>3, <5>4
      <4>4. QED
        BY <4>2, <4>3
    <3>6. ASSUME NEW y \in Rows, Owed(y)'
          PROVE  statusCicilan'[y] = "DITALANGI" \/ \E s \in Requests : Settling(s, y)'
      <4>1. CASE y = x /\ Bails(r)
        BY <2>0, <3>1, <4>1 DEF Recorded
      <4>2. CASE ~(y = x /\ Bails(r))
        <5>1. Owed(y) /\ y # x
          BY <3>2, <3>6, <4>2
        <5>2. QED
          BY <3>1, <3>3, <5>1 DEF Recorded
      <4>3. QED
        BY <4>1, <4>2
    <3>7. \A s \in running : Bails(s) /\ pc'[s] \in {"kas", "audit", "event"} =>
             statusCicilan'[RowOf(s)] = "DITALANGI"
      BY <2>0, <3>1 DEF Recorded
    <3>8. ASSUME NEW s \in running, GoesThrough(s)'
          PROVE  ~Owed(RowOf(s))' \/ LostSettlement(RowOf(s))'
      <4>1. s # r /\ GoesThrough(s)
        BY <2>0, <3>1, <3>8 DEF GoesThrough, AlreadyBailedOut
      <4>2. RowOf(s) # x
        BY <2>1, <3>1, <4>1 DEF GoesThrough
      <4>3. Owed(RowOf(s))' => Owed(RowOf(s))
        BY <2>0, <3>2, <4>2
      <4>4. QED
        BY <3>4, <4>1, <4>3 DEF Recorded
    <3>9. QED
      BY <2>0, <3>5, <3>6, <3>7, <3>8 DEF Recorded
  <2>6. QED
    BY <1>2, <2>2, <2>3, <2>4, <2>5 DEF Step, Sends
<1>3. QED
  BY <1>1, <1>2, Steps

\* Where requests about a loan come one after the other, and however often a bailout
\* is asked for, times out or is cut off by a restart: its history has a settlement
\* between two bailouts, or one that was cut off before its row or could not write it.
THEOREM BailoutsCorrect ==
  ASSUME LoansInTurn
  PROVE  Spec => []BailedOutOnce
<1> DEFINE Inv == Types /\ Queued /\ Recorded
<1>1. Init => Inv
  BY InitTypes, InitQueued, InitRecorded
<1>2. Inv /\ [Next]_vars => Inv'
  BY LoansInTurn, TypesStep, QueuedStep, RecordedStep
<1>3. Inv => BailedOutOnce
  <2> SUFFICES ASSUME Inv, NEW i \in DOMAIN events, NEW j \in DOMAIN events, i < j,
                      events[i] = events[j], events[i].event = "Ditalangi"
               PROVE  \/ \E k \in i..j : events[k] = [loanId |-> events[i].loanId, event |-> "TalanganLunas"]
                      \/ \E r \in Requests : /\ RowOf(r) = events[i].loanId /\ Kind(r) = "repay"
                                             /\ pc[r] \in NoRowYet
    BY DEF BailedOutOnce
  <2>1. events[i] \in Events
    BY DEF Types
  <2>2. PICK x \in Rows : x = events[i].loanId
    BY <2>1 DEF Events
  <2>3. Bailed(i, x) /\ Bailed(j, x)
    BY <2>1, <2>2 DEF Bailed, Events
  <2>4. (\E k \in i..j : Settled(k, x)) \/ LostSettlement(x)
    BY <2>3 DEF Recorded
  <2>5. QED
    BY <2>2, <2>4 DEF Settled, LostSettlement, Settling
<1>4. QED
  BY <1>1, <1>2, <1>3, PTL DEF Spec

==============================================================================
