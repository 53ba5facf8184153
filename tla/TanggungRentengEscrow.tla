----------------------- MODULE TanggungRentengEscrow -----------------------
(***************************************************************************)
(* The on-chain ledger of a tanggung-renteng (joint liability)             *)
(* cooperative: foundry/src/TanggungRentengEscrow.sol together with the    *)
(* two contracts it owns, RRLoanPosition and RRParticipationToken.  A      *)
(* transaction is atomic, so every external function is one action; a call *)
(* that reverts changes nothing and is no step.  Events are not modelled.  *)
(*                                                                         *)
(* Left out of the state: hashes and names that no condition reads (chair, *)
(* paramsHash, nominal and creation time of a loan) and the roles of the   *)
(* callers, which are fixed at deployment.  Arguments that are rejected    *)
(* whatever the state is (zero hashes, the zero address) are not offered.  *)
(***************************************************************************)
EXTENDS Integers, FiniteSets

CONSTANTS
    Members, Groups, Koperasi,  \* hashes of members, groups and cooperatives
    Wallets,                    \* addresses
    None,                       \* the zero hash, address or invite code
    MAX_TENOR, HARDSHIP_LIMIT, YEAR,   \* the contract's constants
    MONTH,                      \* the literal "30 days" of the schedule
    \* Arguments the cooperative and the relayer may send
    GroupTerms,                 \* [plafonMaks, inviteCodeHash]
    InviteCodes,                \* codes presented by a joining member
    Applications,               \* the arguments of createLoan
    Screenings,                 \* [skorAi, flagAi]
    Restructures,               \* [newInstallment, newRemaining]
    SavingsAmounts, FundAmounts, TalanganAmounts, GracePeriods,
    Appellants,                 \* addresses that send fileAppeal
    Stoppable,                  \* contracts whose administrator may pause them
    \* Bounds of the checked instance
    MaxLoans, MaxTime, MaxFund, MaxBalance

LoanStatus == {"Diajukan", "Disetujui", "Cair", "Ditunda", "Mangkir", "Lunas"}
InstallmentStatus == {"PAID", "UNPAID", "TUNGGAKAN", "DITALANGI"}
AIFlag == {"HIJAU", "KUNING", "MERAH"}
Contracts == {"escrow", "position", "token"}

LoanIds == 1..MaxLoans

\* The schedule is a mapping from any number: 0 and MAX_TENOR + 1 stand for
\* the periods before the first and after the last of every loan.
Periods == 0..(MAX_TENOR + 1)

ASSUME EscrowConstants ==
    /\ None \notin Members \cup Groups \cup Koperasi \cup Wallets
    /\ MAX_TENOR \in Nat \ {0}
    /\ HARDSHIP_LIMIT \in Nat
    /\ YEAR \in Nat \ {0}
    /\ MONTH \in Nat
    /\ MaxLoans \in Nat
    /\ MaxTime \in Nat
    /\ MaxFund \in Nat
    /\ MaxBalance \in Nat

ASSUME EscrowArguments ==
    /\ \A t \in GroupTerms : t.plafonMaks \in Nat
    /\ \A a \in Applications : /\ a.nominal \in Nat
                               /\ a.tenor \in Nat
                               /\ a.cicilanBulanan \in Nat
                               /\ a.skorAi \in Nat
                               /\ a.flagAi \in AIFlag
                               /\ a.firstDueDate \in Nat
    /\ \A s \in Screenings : s.skorAi \in Nat /\ s.flagAi \in AIFlag
    /\ \A r \in Restructures : r.newInstallment \in Nat /\ r.newRemaining \in Nat
    /\ SavingsAmounts \subseteq Nat
    /\ FundAmounts \subseteq Nat
    /\ TalanganAmounts \subseteq Nat
    /\ GracePeriods \subseteq Nat
    /\ Stoppable \subseteq Contracts

VARIABLES
    members,                    \* hash -> Member
    groups,                     \* id -> Group
    groupMembers,               \* the pairs <<group, member>> that hold
    loans,                      \* id -> Loan
    installmentDueDate,         \* id -> period -> timestamp
    installmentStatuses,        \* id -> period -> InstallmentStatus
    installmentSettled,         \* the pairs <<loan, period>> that are settled
    memberTalanganOutstanding,  \* hash -> amount
    nextLoanId,
    positions,                  \* RRLoanPosition: id -> Position
    balance,                    \* RRParticipationToken: address -> amount
    paused,                     \* the contracts that are paused
    now                         \* block.timestamp

vars == <<members, groups, groupMembers, loans, installmentDueDate,
          installmentStatuses, installmentSettled, memberTalanganOutstanding,
          nextLoanId, positions, balance, paused, now>>

schedule == <<installmentDueDate, installmentStatuses, installmentSettled>>
registry == <<groupMembers, nextLoanId>>

----------------------------------------------------------------------------

Member == [registered: BOOLEAN, koperasiId: Koperasi \cup {None},
           wallet: Wallets \cup {None}, hardship: BOOLEAN, blocked: BOOLEAN,
           hardshipYear: Nat, hardshipCount: Nat]

Group == [exists: BOOLEAN, koperasiId: Koperasi \cup {None},
          inviteCodeHash: {t.inviteCodeHash : t \in GroupTerms} \cup {None},
          plafonMaks: Nat, socialFundBalance: Nat, talanganOutstanding: Nat,
          rentengActive: BOOLEAN]

Loan == [exists: BOOLEAN, groupId: Groups \cup {None},
         memberHash: Members \cup {None}, installment: Nat,
         remainingPeriods: Nat, talanganOutstanding: Nat, tenor: Nat,
         status: LoanStatus, installmentStatus: InstallmentStatus,
         aiFlag: AIFlag, aiScore: Nat, appealOpen: BOOLEAN]

Position == [exists: BOOLEAN, memberHash: Members \cup {None},
             status: LoanStatus, installmentStatus: InstallmentStatus]

\* Every mapping starts at Solidity's zero value: the first enum member.
NoMember == [registered |-> FALSE, koperasiId |-> None, wallet |-> None,
             hardship |-> FALSE, blocked |-> FALSE,
             hardshipYear |-> 0, hardshipCount |-> 0]

NoGroup == [exists |-> FALSE, koperasiId |-> None, inviteCodeHash |-> None,
            plafonMaks |-> 0, socialFundBalance |-> 0,
            talanganOutstanding |-> 0, rentengActive |-> FALSE]

NoLoan == [exists |-> FALSE, groupId |-> None, memberHash |-> None,
           installment |-> 0, remainingPeriods |-> 0, talanganOutstanding |-> 0,
           tenor |-> 0, status |-> "Diajukan", installmentStatus |-> "PAID",
           aiFlag |-> "HIJAU", aiScore |-> 0, appealOpen |-> FALSE]

NoPosition == [exists |-> FALSE, memberHash |-> None,
               status |-> "Diajukan", installmentStatus |-> "PAID"]

Init ==
    /\ members = [m \in Members |-> NoMember]
    /\ groups = [g \in Groups |-> NoGroup]
    /\ groupMembers = {}
    /\ loans = [l \in LoanIds |-> NoLoan]
    /\ installmentDueDate = [l \in LoanIds |-> [p \in Periods |-> 0]]
    /\ installmentStatuses = [l \in LoanIds |-> [p \in Periods |-> "PAID"]]
    /\ installmentSettled = {}
    /\ memberTalanganOutstanding = [m \in Members |-> 0]
    /\ nextLoanId = 1
    /\ positions = [l \in LoanIds |-> NoPosition]
    /\ balance = [w \in Wallets |-> 0]
    /\ paused = {}
    /\ now = 0

----------------------------------------------------------------------------
(* Pausing, and the clock of the chain *)

WhenNotPaused(contract) == contract \notin paused

Pause(contract) ==
    /\ WhenNotPaused(contract)
    /\ paused' = paused \cup {contract}
    /\ UNCHANGED <<members, groups, loans, schedule, registry, positions,
                   memberTalanganOutstanding, balance, now>>

Unpause(contract) ==
    /\ ~WhenNotPaused(contract)
    /\ paused' = paused \ {contract}
    /\ UNCHANGED <<members, groups, loans, schedule, registry, positions,
                   memberTalanganOutstanding, balance, now>>

\* A later block; MaxTime bounds the checked instance.
Tick ==
    /\ now < MaxTime
    /\ now' = now + 1
    /\ UNCHANGED <<members, groups, loans, schedule, registry, positions,
                   memberTalanganOutstanding, balance, paused>>

----------------------------------------------------------------------------
(* Members, groups, savings and the social fund *)

RegisterMember(m, k, w) ==
    /\ WhenNotPaused("escrow")
    /\ ~members[m].registered
    /\ members' = [members EXCEPT ![m] = [NoMember EXCEPT !.registered = TRUE,
                                              !.koperasiId = k, !.wallet = w]]
    /\ UNCHANGED <<groups, loans, schedule, registry, positions,
                   memberTalanganOutstanding, balance, paused, now>>

RegisterGroup(g, k, chair, terms) ==
    /\ WhenNotPaused("escrow")
    /\ terms.plafonMaks # 0
    /\ ~groups[g].exists
    /\ members[chair].registered /\ members[chair].koperasiId = k
    /\ groups' = [groups EXCEPT ![g] = [NoGroup EXCEPT !.exists = TRUE,
                     !.koperasiId = k, !.plafonMaks = terms.plafonMaks,
                     !.inviteCodeHash = terms.inviteCodeHash]]
    /\ groupMembers' = groupMembers \cup {<<g, chair>>}
    /\ UNCHANGED <<members, loans, schedule, nextLoanId, positions,
                   memberTalanganOutstanding, balance, paused, now>>

\* Mutant: a member of any cooperative may join.
AnyKoperasi(g, m) == TRUE
SameKoperasi(g, m) == groups[g].koperasiId = members[m].koperasiId

JoinGroup(g, m, code) ==
    /\ WhenNotPaused("escrow")
    /\ groups[g].exists /\ members[m].registered
    /\ SameKoperasi(g, m)
    /\ groups[g].inviteCodeHash \in {None, code}
    /\ <<g, m>> \notin groupMembers
    /\ groupMembers' = groupMembers \cup {<<g, m>>}
    /\ UNCHANGED <<members, groups, loans, schedule, nextLoanId, positions,
                   memberTalanganOutstanding, balance, paused, now>>

\* RRParticipationToken.mint, which reverts while the token is paused.
Mint(wallet, amount) ==
    /\ WhenNotPaused("token")
    /\ balance' = [balance EXCEPT ![wallet] = @ + amount]

\* MaxBalance bounds the units saved in the checked instance.
RecordSavings(m, nominal) ==
    /\ WhenNotPaused("escrow")
    /\ members[m].registered
    /\ nominal # 0
    /\ balance[members[m].wallet] + nominal <= MaxBalance
    /\ Mint(members[m].wallet, nominal)
    /\ UNCHANGED <<members, groups, loans, schedule, registry, positions,
                   memberTalanganOutstanding, paused, now>>

\* MaxFund bounds the fund of the checked instance.
FundSocialFund(g, amount) ==
    /\ WhenNotPaused("escrow")
    /\ groups[g].exists
    /\ amount # 0
    /\ groups[g].socialFundBalance + amount <= MaxFund
    /\ groups' = [groups EXCEPT ![g].socialFundBalance = @ + amount]
    /\ UNCHANGED <<members, loans, schedule, registry, positions,
                   memberTalanganOutstanding, balance, paused, now>>

----------------------------------------------------------------------------
(* The life of a loan up to its disbursement *)

\* MaxLoans bounds the loans of the checked instance.
CreateLoan(g, m, a) ==
    /\ WhenNotPaused("escrow") /\ WhenNotPaused("position")
    /\ groups[g].exists /\ members[m].registered /\ <<g, m>> \in groupMembers
    /\ ~members[m].blocked
    /\ ~groups[g].rentengActive
    /\ a.nominal # 0 /\ a.nominal <= groups[g].plafonMaks
    /\ a.tenor # 0 /\ a.tenor <= MAX_TENOR
    /\ a.cicilanBulanan # 0
    /\ a.skorAi <= 100
    /\ a.firstDueDate > now
    /\ nextLoanId <= MaxLoans
    /\ ~positions[nextLoanId].exists
    /\ nextLoanId' = nextLoanId + 1
    /\ loans' = [loans EXCEPT ![nextLoanId] =
          [exists |-> TRUE, groupId |-> g, memberHash |-> m,
           installment |-> a.cicilanBulanan, remainingPeriods |-> a.tenor,
           talanganOutstanding |-> 0, tenor |-> a.tenor, status |-> "Diajukan",
           installmentStatus |-> "UNPAID", aiFlag |-> a.flagAi,
           aiScore |-> a.skorAi, appealOpen |-> FALSE]]
    /\ positions' = [positions EXCEPT ![nextLoanId] =
          [exists |-> TRUE, memberHash |-> m, status |-> "Diajukan",
           installmentStatus |-> "UNPAID"]]
    /\ installmentDueDate' = [installmentDueDate EXCEPT ![nextLoanId] =
          [p \in Periods |-> IF p \in 1..a.tenor
                             THEN a.firstDueDate + (p - 1) * MONTH ELSE @[p]]]
    /\ installmentStatuses' = [installmentStatuses EXCEPT ![nextLoanId] =
          [p \in Periods |-> IF p \in 1..a.tenor THEN "UNPAID" ELSE @[p]]]
    /\ UNCHANGED <<members, groups, groupMembers, installmentSettled,
                   memberTalanganOutstanding, balance, paused, now>>

RecordScreening(l, s) ==
    /\ WhenNotPaused("escrow")
    /\ loans[l].exists
    /\ s.skorAi <= 100
    /\ loans' = [loans EXCEPT ![l].aiScore = s.skorAi, ![l].aiFlag = s.flagAi]
    /\ UNCHANGED <<members, groups, schedule, registry, positions,
                   memberTalanganOutstanding, balance, paused, now>>

Borrower(l) == members[loans[l].memberHash]
GroupOf(l) == groups[loans[l].groupId]

\* Mutant: the gate looks at the borrower only.
MayBorrowAlone(l) == ~Borrower(l).blocked

\* The gate that approval and disbursement share.
MayBorrow(l) == ~Borrower(l).blocked /\ ~GroupOf(l).rentengActive

InStatus(l, status) == loans[l].exists /\ loans[l].status = status

\* Mutant: a paused position contract is skipped instead of reverting.
TrySetStatus(l, status) ==
    /\ WhenNotPaused("escrow")
    /\ positions' = IF WhenNotPaused("position")
                    THEN [positions EXCEPT ![l].status = status] ELSE positions

\* A status change of the escrow and its mirror in the position contract.
SetStatus(l, status) ==
    /\ WhenNotPaused("escrow") /\ WhenNotPaused("position")
    /\ positions[l].exists
    /\ positions' = [positions EXCEPT ![l].status = status]

ApproveLoan(l) ==
    /\ InStatus(l, "Diajukan")
    /\ MayBorrow(l)
    /\ SetStatus(l, "Disetujui")
    /\ loans' = [loans EXCEPT ![l].status = "Disetujui"]
    /\ UNCHANGED <<members, groups, schedule, registry,
                   memberTalanganOutstanding, balance, paused, now>>

DisburseLoan(l) ==
    /\ InStatus(l, "Disetujui")
    /\ MayBorrow(l)
    /\ SetStatus(l, "Cair")
    /\ loans' = [loans EXCEPT ![l].status = "Cair"]
    /\ UNCHANGED <<members, groups, schedule, registry,
                   memberTalanganOutstanding, balance, paused, now>>

DeferLoan(l) ==
    /\ InStatus(l, "Diajukan")
    /\ SetStatus(l, "Ditunda")
    /\ loans' = [loans EXCEPT ![l].status = "Ditunda"]
    /\ UNCHANGED <<members, groups, schedule, registry,
                   memberTalanganOutstanding, balance, paused, now>>

----------------------------------------------------------------------------
(* Installments: paid, paid by the social fund, relieved or bailed out *)

\* Mutant: an installment may be settled twice.
IsScheduled(l, p) == p # 0 /\ p <= loans[l].tenor

\* The installment can still be settled: it is in the schedule and open.
IsOpen(l, p) ==
    /\ p # 0 /\ p <= loans[l].tenor
    /\ <<l, p>> \notin installmentSettled

Settle(l, p, status) ==
    /\ installmentSettled' = installmentSettled \cup {<<l, p>>}
    /\ installmentStatuses' = [installmentStatuses EXCEPT ![l][p] = status]
    /\ UNCHANGED installmentDueDate

\* Mutant: the talangan is forgotten.
IsPaidUp(loan) == loan.remainingPeriods = 0

\* _closeIfComplete, on the loan and the position as the caller leaves them.
IsComplete(loan) == loan.remainingPeriods = 0 /\ loan.talanganOutstanding = 0

CloseIfComplete(l, loan, position) ==
    IF IsComplete(loan)
    THEN /\ WhenNotPaused("position")
         /\ loans' = [loans EXCEPT ![l] = [loan EXCEPT !.status = "Lunas"]]
         /\ positions' = [positions EXCEPT ![l] = [position EXCEPT !.status = "Lunas"]]
    ELSE /\ loans' = [loans EXCEPT ![l] = loan]
         /\ positions' = [positions EXCEPT ![l] = position]

\* One period of the loan is paid; remainingPeriods-- reverts below zero.
PayPeriod(l, p) ==
    /\ loans[l].remainingPeriods > 0
    /\ WhenNotPaused("position")
    /\ Settle(l, p, "PAID")
    /\ CloseIfComplete(l, [loans[l] EXCEPT !.remainingPeriods = @ - 1,
                                           !.installmentStatus = "PAID"],
                          [positions[l] EXCEPT !.installmentStatus = "PAID"])

RecordRepayment(l, p) ==
    /\ WhenNotPaused("escrow")
    /\ InStatus(l, "Cair")
    /\ IsOpen(l, p)
    /\ PayPeriod(l, p)
    /\ Mint(Borrower(l).wallet, loans[l].installment)
    /\ UNCHANGED <<members, groups, registry, memberTalanganOutstanding,
                   paused, now>>

\* Mutants: the balance is not compared with the installment; not debited.
FundExists(l) == GroupOf(l).socialFundBalance >= 0
FundUntouched(l) == UNCHANGED groups

FundCovers(l) == GroupOf(l).socialFundBalance >= loans[l].installment
DebitFund(l) ==
    groups' = [groups EXCEPT ![loans[l].groupId].socialFundBalance =
                                @ - loans[l].installment]

ApplySocialFund(l, p) ==
    /\ WhenNotPaused("escrow")
    /\ InStatus(l, "Cair")
    /\ Borrower(l).hardship
    /\ IsOpen(l, p)
    /\ FundCovers(l)
    /\ DebitFund(l)
    /\ PayPeriod(l, p)
    /\ UNCHANGED <<members, registry, memberTalanganOutstanding, balance,
                   paused, now>>

\* The period is not checked against the schedule, and the schedule and the
\* tenor stay as they are.
Restructure(l, p, r) ==
    /\ WhenNotPaused("escrow") /\ WhenNotPaused("position")
    /\ InStatus(l, "Cair")
    /\ Borrower(l).hardship
    /\ <<l, p>> \notin installmentSettled
    /\ r.newInstallment # 0
    /\ r.newRemaining # 0 /\ r.newRemaining <= MAX_TENOR
    /\ Settle(l, p, "PAID")
    /\ loans' = [loans EXCEPT ![l].installmentStatus = "PAID",
                              ![l].installment = r.newInstallment,
                              ![l].remainingPeriods = r.newRemaining]
    /\ positions' = [positions EXCEPT ![l].installmentStatus = "PAID"]
    /\ UNCHANGED <<members, groups, registry, memberTalanganOutstanding,
                   balance, paused, now>>

\* Mutant: the grace period shortens the term.
IsAlmostDue(l, p, gracePeriod) == now + gracePeriod > installmentDueDate[l][p]
IsOverdue(l, p, gracePeriod) == now > installmentDueDate[l][p] + gracePeriod

ActivateRenteng(l, p, gracePeriod) ==
    LET amount == loans[l].installment IN
    /\ WhenNotPaused("escrow") /\ WhenNotPaused("position")
    /\ InStatus(l, "Cair")
    /\ ~Borrower(l).hardship
    /\ IsOpen(l, p)
    /\ IsOverdue(l, p, gracePeriod)
    /\ loans[l].remainingPeriods > 0
    /\ Settle(l, p, "DITALANGI")
    /\ loans' = [loans EXCEPT ![l].installmentStatus = "DITALANGI",
                              ![l].remainingPeriods = @ - 1,
                              ![l].talanganOutstanding = @ + amount]
    /\ positions' = [positions EXCEPT ![l].installmentStatus = "DITALANGI"]
    /\ memberTalanganOutstanding' =
          [memberTalanganOutstanding EXCEPT ![loans[l].memberHash] = @ + amount]
    /\ groups' = [groups EXCEPT ![loans[l].groupId].talanganOutstanding = @ + amount,
                                ![loans[l].groupId].rentengActive = TRUE]
    /\ members' = [members EXCEPT ![loans[l].memberHash].blocked = TRUE]
    /\ UNCHANGED <<registry, balance, paused, now>>

\* Mutants: the whole debt of the member is struck; the block is never lifted.
StrikeMemberDebt(l, amount) ==
    /\ memberTalanganOutstanding' =
          [memberTalanganOutstanding EXCEPT ![loans[l].memberHash] = 0]
    /\ members' = [members EXCEPT ![loans[l].memberHash].blocked = FALSE]
NeverUnblock(l, amount) ==
    /\ memberTalanganOutstanding' =
          [memberTalanganOutstanding EXCEPT ![loans[l].memberHash] = @ - amount]
    /\ UNCHANGED members

\* Checked arithmetic: a subtraction below zero reverts, here and for the group.
RepayMember(l, amount) ==
    LET m == loans[l].memberHash
        owed == memberTalanganOutstanding[m]
    IN  /\ amount <= owed
        /\ memberTalanganOutstanding' =
              [memberTalanganOutstanding EXCEPT ![m] = owed - amount]
        /\ members' = [members EXCEPT ![m].blocked = @ /\ owed # amount]

\* Mutant: the gate of the group follows the loan alone.
ReopenWithLoan(l, amount) ==
    groups' = [groups EXCEPT
        ![loans[l].groupId].talanganOutstanding = @ - amount,
        ![loans[l].groupId].rentengActive = @ /\ loans[l].talanganOutstanding # amount]

RepayGroup(l, amount) ==
    LET g == loans[l].groupId
        lent == groups[g].talanganOutstanding
    IN  /\ amount <= lent
        /\ groups' = [groups EXCEPT ![g].talanganOutstanding = lent - amount,
                                    ![g].rentengActive = @ /\ lent # amount]

RepayTalangan(l, amount) ==
    /\ WhenNotPaused("escrow")
    /\ loans[l].exists
    /\ amount # 0
    /\ amount <= loans[l].talanganOutstanding
    /\ RepayMember(l, amount)
    /\ RepayGroup(l, amount)
    /\ CloseIfComplete(l, [loans[l] EXCEPT !.talanganOutstanding = @ - amount],
                          positions[l])
    /\ UNCHANGED <<schedule, registry, balance, paused, now>>

----------------------------------------------------------------------------
(* Hardship, sanctions and appeals *)

Year == now \div YEAR

\* Mutant: clearing the mark renews the quota.
HardshipsSinceCleared(m) ==
    IF members[m].hardship THEN members[m].hardshipCount ELSE 0

\* Hardships already marked in the current year: the count of an earlier
\* year is void.
HardshipsThisYear(m) ==
    IF members[m].hardshipYear = Year THEN members[m].hardshipCount ELSE 0

MarkHardship(m, g) ==
    /\ WhenNotPaused("escrow")
    /\ members[m].registered /\ <<g, m>> \in groupMembers
    /\ HardshipsThisYear(m) < HARDSHIP_LIMIT
    /\ members' = [members EXCEPT ![m].hardship = TRUE,
                                  ![m].hardshipYear = Year,
                                  ![m].hardshipCount = HardshipsThisYear(m) + 1]
    /\ UNCHANGED <<groups, loans, schedule, registry, positions,
                   memberTalanganOutstanding, balance, paused, now>>

ClearHardship(m, g) ==
    /\ WhenNotPaused("escrow")
    /\ members[m].registered /\ <<g, m>> \in groupMembers
    /\ members' = [members EXCEPT ![m].hardship = FALSE]
    /\ UNCHANGED <<groups, loans, schedule, registry, positions,
                   memberTalanganOutstanding, balance, paused, now>>

\* Accepted whatever the status of the loan.
ApplySanction(l) ==
    /\ loans[l].exists
    /\ SetStatus(l, "Mangkir")
    /\ loans' = [loans EXCEPT ![l].status = "Mangkir", ![l].aiFlag = "MERAH"]
    /\ members' = [members EXCEPT ![loans[l].memberHash].blocked = TRUE]
    /\ UNCHANGED <<groups, schedule, registry, memberTalanganOutstanding,
                   balance, paused, now>>

FileAppeal(l, sender) ==
    /\ WhenNotPaused("escrow")
    /\ loans[l].exists
    /\ sender = Borrower(l).wallet
    /\ ~loans[l].appealOpen
    /\ loans' = [loans EXCEPT ![l].appealOpen = TRUE]
    /\ UNCHANGED <<members, groups, schedule, registry, positions,
                   memberTalanganOutstanding, balance, paused, now>>

ResolveAppeal(l, accepted) ==
    LET m == loans[l].memberHash IN
    /\ WhenNotPaused("escrow")
    /\ loans[l].exists
    /\ loans[l].appealOpen
    /\ loans' = [loans EXCEPT ![l].appealOpen = FALSE]
    /\ members' = IF accepted /\ memberTalanganOutstanding[m] = 0
                  THEN [members EXCEPT ![m].blocked = FALSE]
                  ELSE members
    /\ UNCHANGED <<groups, schedule, registry, positions,
                   memberTalanganOutstanding, balance, paused, now>>

----------------------------------------------------------------------------

Administration ==
    \/ \E c \in Stoppable : Pause(c) \/ Unpause(c)
    \/ Tick

Registration ==
    \/ \E m \in Members, k \in Koperasi, w \in Wallets : RegisterMember(m, k, w)
    \/ \E g \in Groups, k \in Koperasi, m \in Members, t \in GroupTerms :
          RegisterGroup(g, k, m, t)
    \/ \E g \in Groups, m \in Members, c \in InviteCodes : JoinGroup(g, m, c)
    \/ \E m \in Members, n \in SavingsAmounts : RecordSavings(m, n)
    \/ \E g \in Groups, n \in FundAmounts : FundSocialFund(g, n)

Lending ==
    \/ \E g \in Groups, m \in Members, a \in Applications : CreateLoan(g, m, a)
    \/ \E l \in LoanIds, s \in Screenings : RecordScreening(l, s)
    \/ \E l \in LoanIds : ApproveLoan(l) \/ DisburseLoan(l) \/ DeferLoan(l)

Repayment ==
    \/ \E l \in LoanIds, p \in Periods :
          \/ RecordRepayment(l, p)
          \/ ApplySocialFund(l, p)
          \/ \E r \in Restructures : Restructure(l, p, r)
          \/ \E gp \in GracePeriods : ActivateRenteng(l, p, gp)
    \/ \E l \in LoanIds, n \in TalanganAmounts : RepayTalangan(l, n)

Standing ==
    \/ \E m \in Members, g \in Groups : MarkHardship(m, g) \/ ClearHardship(m, g)
    \/ \E l \in LoanIds :
          \/ ApplySanction(l)
          \/ \E w \in Appellants : FileAppeal(l, w)
          \/ \E accepted \in BOOLEAN : ResolveAppeal(l, accepted)

Next == Administration \/ Registration \/ Lending \/ Repayment \/ Standing

Spec == Init /\ [][Next]_vars

----------------------------------------------------------------------------
(* Properties *)

\* Every mapping of the three contracts holds values of its type.
TypeOK ==
    /\ members \in [Members -> Member]
    /\ groups \in [Groups -> Group]
    /\ groupMembers \subseteq Groups \X Members
    /\ loans \in [LoanIds -> Loan]
    /\ installmentDueDate \in [LoanIds -> [Periods -> Nat]]
    /\ installmentStatuses \in [LoanIds -> [Periods -> InstallmentStatus]]
    /\ installmentSettled \subseteq LoanIds \X Periods
    /\ memberTalanganOutstanding \in [Members -> Nat]
    /\ nextLoanId \in 1..(MaxLoans + 1)
    /\ positions \in [LoanIds -> Position]
    /\ balance \in [Wallets -> Nat]
    /\ paused \subseteq Contracts
    /\ now \in Nat

\* A group has members of its own cooperative only, a loan ties one of them to
\* the group, and ids are handed out without a gap: whatever order members,
\* groups and loans of several cooperatives are registered in.
LoanParties ==
    /\ \A g \in Groups, m \in Members : <<g, m>> \in groupMembers =>
          /\ groups[g].exists
          /\ members[m].registered
          /\ groups[g].koperasiId = members[m].koperasiId
    /\ \A l \in LoanIds :
          /\ loans[l].exists <=> l < nextLoanId
          /\ loans[l].exists =>
                /\ <<loans[l].groupId, loans[l].memberHash>> \in groupMembers
                /\ loans[l].tenor \in 1..MAX_TENOR
                /\ loans[l].installment > 0

\* The soulbound receipt always shows what the escrow holds, whichever of the
\* two setters an operation calls and in which order.
PositionMirrorsLoan ==
    \A l \in LoanIds :
        positions[l] = [exists |-> loans[l].exists,
                        memberHash |-> loans[l].memberHash,
                        status |-> loans[l].status,
                        installmentStatus |-> loans[l].installmentStatus]

\* The outstanding talangan of a set of loans, one element for each rupiah.
Rupiah(S) == UNION {{l} \X (1..loans[l].talanganOutstanding) : l \in S}

\* The escrow keeps one debt three times: on the loan, on its member and on its
\* group.  The three never drift apart, so no checked subtraction of
\* repayTalangan ever reverts.
TalanganBalanced ==
    /\ \A g \in Groups : groups[g].talanganOutstanding =
          Cardinality(Rupiah({l \in LoanIds : loans[l].groupId = g}))
    /\ \A m \in Members : memberTalanganOutstanding[m] =
          Cardinality(Rupiah({l \in LoanIds : loans[l].memberHash = m}))

\* The gate of a group is closed exactly while the group has lent talangan.
RentengGate ==
    \A g \in Groups : groups[g].rentengActive <=> groups[g].talanganOutstanding > 0

\* A member who owes talangan is blocked: neither a repayment on another loan
\* nor an accepted appeal lifts the block.
DebtorBlocked ==
    \A m \in Members : memberTalanganOutstanding[m] > 0 => members[m].blocked

\* The two flags that lending looks at follow the debts, over bailouts, parts
\* repaid on several loans, sanctions and appeals in any order.
GatesFollowDebt == RentengGate /\ DebtorBlocked

\* Nobody stays locked out for no reason: a blocked member owes talangan or has
\* a sanctioned loan.
BlockedForAReason ==
    \A m \in Members : members[m].blocked =>
        \/ memberTalanganOutstanding[m] > 0
        \/ \E l \in LoanIds : /\ loans[l].exists
                              /\ loans[l].memberHash = m
                              /\ loans[l].status = "Mangkir"

\* The group covers an installment only once it is overdue, and an installment
\* it covered is settled.
BailedOutIsOverdue ==
    \A l \in LoanIds, p \in Periods :
        installmentStatuses[l][p] = "DITALANGI" =>
            /\ <<l, p>> \in installmentSettled
            /\ now > installmentDueDate[l][p]

\* A closed loan owes nothing, neither installments nor talangan, and its
\* borrower cannot be left with a debt the closing hid.
ClosedOwesNothing ==
    \A l \in LoanIds : loans[l].status = "Lunas" =>
        loans[l].remainingPeriods = 0 /\ loans[l].talanganOutstanding = 0

\* Where nothing is restructured, the counter of remaining periods is the
\* number of open installments of the schedule, so that "Lunas" means that all
\* of them were settled.
RemainingCountsOpen ==
    \A l \in LoanIds : loans[l].exists =>
        loans[l].remainingPeriods =
            Cardinality({p \in 1..loans[l].tenor : <<l, p>> \notin installmentSettled})

\* Where nothing is restructured, a loan's talangan never exceeds the
\* installments the group covered, and every part of it is one of those.
DebtFromBailouts ==
    \A l \in LoanIds :
        loans[l].talanganOutstanding <= loans[l].installment *
            Cardinality({p \in Periods : installmentStatuses[l][p] = "DITALANGI"})

\* Where nothing is restructured, the two counters that close a loan say what its
\* schedule says, whichever of the four ways each installment was settled in.
CountersFollowSchedule == RemainingCountsOpen /\ DebtFromBailouts

NewlySettled(l, p) == <<l, p>> \in installmentSettled' \ installmentSettled

\* An installment is settled once, for good: no later operation opens it again
\* or turns a bailout into a payment.
SettledForGood ==
    [][\A l \in LoanIds, p \in Periods : <<l, p>> \in installmentSettled =>
           /\ <<l, p>> \in installmentSettled'
           /\ installmentStatuses'[l][p] = installmentStatuses[l][p]]_vars

\* The new terms that a step gives the loan of a member in hardship.
ReliefTerms(l) ==
    {r \in Restructures : /\ Borrower(l).hardship
                          /\ loans'[l].installment = r.newInstallment
                          /\ loans'[l].remainingPeriods = r.newRemaining}

\* An installment that becomes settled has exactly one source: the borrower
\* (who receives participation units), the social fund or the talangan of the
\* group, for exactly the amount of the installment; or it is relieved by new
\* terms for a member in hardship.  Fund and debt move for nothing else.
ExactlyOnePayer ==
    [][/\ \A l \in LoanIds, p \in Periods : NewlySettled(l, p) =>
             LET i == loans[l].installment
                 g == loans[l].groupId
                 w == Borrower(l).wallet
             IN  << balance'[w] - balance[w],
                    groups[g].socialFundBalance - groups'[g].socialFundBalance,
                    loans'[l].talanganOutstanding - loans[l].talanganOutstanding >>
                 \in {<<i, 0, 0>>, <<0, i, 0>>, <<0, 0, i>>} \cup
                     {<<0, 0, 0>> : r \in ReliefTerms(l)}
       /\ \A g \in Groups :
             \/ groups'[g].socialFundBalance < groups[g].socialFundBalance
             \/ groups'[g].talanganOutstanding > groups[g].talanganOutstanding
             => \E l \in LoanIds, p \in Periods :
                   loans[l].groupId = g /\ NewlySettled(l, p)]_vars

\* No loan is asked for, approved or disbursed while any loan of its group, or
\* any loan of its borrower in any group, owes talangan.
NoLendingUnderDebt ==
    [][\A l \in LoanIds :
          /\ loans'[l].exists
          /\ \/ ~loans[l].exists
             \/ loans'[l].status # loans[l].status /\ loans'[l].status \in {"Disetujui", "Cair"}
          => \A k \in LoanIds :
                \/ loans[k].groupId = loans'[l].groupId
                \/ loans[k].memberHash = loans'[l].memberHash
                => loans[k].talanganOutstanding = 0]_vars

\* The statuses a loan may take next, whichever operations are combined.
Successors(status) ==
    CASE status = "Diajukan"  -> {"Disetujui", "Ditunda", "Mangkir"}
      [] status = "Disetujui" -> {"Cair", "Mangkir"}
      [] status = "Cair"      -> {"Lunas", "Mangkir"}
      [] status = "Ditunda"   -> {"Mangkir"}
      [] status = "Mangkir"   -> {"Lunas"}
      [] status = "Lunas"     -> {"Mangkir"}

\* A loan never returns to an earlier stage: a deferred loan is not approved, a
\* sanctioned one not disbursed, a closed one not repaid again.
LoanLifecycle ==
    [][\A l \in LoanIds : loans'[l].status # loans[l].status =>
          loans'[l].status \in Successors(loans[l].status)]_vars

\* A hardship quota is used up within a year and renewed only by the next one:
\* clearing the mark and setting it again does not get around the limit.
HardshipQuota ==
    [][\A m \in Members :
          /\ members'[m].hardshipCount <= HARDSHIP_LIMIT
          /\ members'[m].hardshipCount < members[m].hardshipCount =>
                members'[m].hardshipYear > members[m].hardshipYear
          /\ ~members[m].hardship /\ members'[m].hardship =>
                \/ members'[m].hardshipCount > members[m].hardshipCount
                \/ members'[m].hardshipYear > members[m].hardshipYear]_vars
============================================================================
