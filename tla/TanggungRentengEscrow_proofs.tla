-------------------- MODULE TanggungRentengEscrow_proofs --------------------
(***************************************************************************)
(* Theorems about the escrow, for every set of members, groups and loans,  *)
(* every argument the callers may send and every value of the bounds: its  *)
(* types, parties and gates, and what is kept beside a loan, its receipt,  *)
(* its schedule, the hardships of its borrower in a year and its remaining *)
(* periods.                                                                *)
(***************************************************************************)
EXTENDS TanggungRentengEscrow, FiniteSetTheorems, TLAPS

USE DEF LoanStatus, InstallmentStatus, AIFlag, Contracts

\* An update of a mapping keeps its type; outside the domain it does nothing.
LEMMA UpdateType ==
  ASSUME NEW S, NEW T, NEW f \in [S -> T], NEW x, NEW y, x \in S => y \in T
  PROVE  [f EXCEPT ![x] = y] \in [S -> T]
  OBVIOUS

LEMMA YearType == ASSUME TypeOK PROVE Year \in Nat
<1>1. now \in Nat /\ YEAR \in Nat \ {0}
  BY EscrowConstants DEF TypeOK
<1>2. QED
  BY <1>1 DEF Year

LEMMA InitTypeOK == Init => TypeOK
  BY EscrowConstants DEF Init, TypeOK, NoMember, NoGroup, NoLoan, NoPosition,
     Member, Group, Loan, Position, LoanIds

\* What the operations set of a loan.
LEMMA LoanUpdates ==
  ASSUME NEW loan \in Loan
  PROVE  /\ \A n \in Nat, s \in InstallmentStatus :
               [loan EXCEPT !.remainingPeriods = n, !.installmentStatus = s] \in Loan
         /\ \A n, i \in Nat, s \in InstallmentStatus :
               [loan EXCEPT !.installmentStatus = s, !.installment = i,
                            !.remainingPeriods = n] \in Loan
         /\ \A n, t \in Nat, s \in InstallmentStatus :
               [loan EXCEPT !.installmentStatus = s, !.remainingPeriods = n,
                            !.talanganOutstanding = t] \in Loan
         /\ \A n \in Nat : [loan EXCEPT !.talanganOutstanding = n] \in Loan
         /\ \A n \in Nat, f \in AIFlag :
               [loan EXCEPT !.aiScore = n, !.aiFlag = f] \in Loan
         /\ \A s \in LoanStatus, f \in AIFlag :
               [loan EXCEPT !.status = s, !.aiFlag = f] \in Loan
         /\ \A b \in BOOLEAN : [loan EXCEPT !.appealOpen = b] \in Loan
<1> USE DEF Loan
<1>1. \A n \in Nat, s \in InstallmentStatus :
         [loan EXCEPT !.remainingPeriods = n, !.installmentStatus = s] \in Loan
  BY Zenon
<1>2. \A n, i \in Nat, s \in InstallmentStatus :
         [loan EXCEPT !.installmentStatus = s, !.installment = i,
                      !.remainingPeriods = n] \in Loan
  BY Zenon
<1>3. \A n, t \in Nat, s \in InstallmentStatus :
         [loan EXCEPT !.installmentStatus = s, !.remainingPeriods = n,
                      !.talanganOutstanding = t] \in Loan
  BY Zenon
<1>4. \A n \in Nat : [loan EXCEPT !.talanganOutstanding = n] \in Loan
  BY Zenon
<1>5. \A n \in Nat, f \in AIFlag :
         [loan EXCEPT !.aiScore = n, !.aiFlag = f] \in Loan
  BY Zenon
<1>6. \A s \in LoanStatus, f \in AIFlag :
         [loan EXCEPT !.status = s, !.aiFlag = f] \in Loan
  BY Zenon
<1>7. \A b \in BOOLEAN : [loan EXCEPT !.appealOpen = b] \in Loan
  BY Zenon
<1>8. QED
  BY <1>1, <1>2, <1>3, <1>4, <1>5, <1>6, <1>7, Zenon

\* What the talangan operations set of a group.
LEMMA GroupUpdate ==
  ASSUME NEW group \in Group, NEW n \in Nat, NEW b \in BOOLEAN
  PROVE  [group EXCEPT !.talanganOutstanding = n, !.rentengActive = b] \in Group
  BY Zenon DEF Group

----------------------------------------------------------------------------
(* What the shared steps do to the types *)

LEMMA SetStatusType ==
  ASSUME positions \in [LoanIds -> Position], NEW l \in LoanIds,
         NEW s \in LoanStatus, SetStatus(l, s)
  PROVE  positions' \in [LoanIds -> Position]
<1>1. [positions[l] EXCEPT !.status = s] \in Position
  BY DEF Position
<1>2. QED
  BY <1>1, UpdateType DEF SetStatus

LEMMA SettleType ==
  ASSUME installmentStatuses \in [LoanIds -> [Periods -> InstallmentStatus]],
         installmentSettled \subseteq LoanIds \X Periods,
         installmentDueDate \in [LoanIds -> [Periods -> Nat]],
         NEW l \in LoanIds, NEW p \in Periods, NEW s \in InstallmentStatus,
         Settle(l, p, s)
  PROVE  /\ installmentStatuses' \in [LoanIds -> [Periods -> InstallmentStatus]]
         /\ installmentSettled' \subseteq LoanIds \X Periods
         /\ installmentDueDate' \in [LoanIds -> [Periods -> Nat]]
<1>1. [installmentStatuses[l] EXCEPT ![p] = s] \in [Periods -> InstallmentStatus]
  OBVIOUS
<1>2. installmentStatuses' \in [LoanIds -> [Periods -> InstallmentStatus]]
  BY <1>1, UpdateType DEF Settle
<1>3. QED
  BY <1>2 DEF Settle

LEMMA CloseType ==
  ASSUME loans \in [LoanIds -> Loan], positions \in [LoanIds -> Position],
         NEW l \in LoanIds, NEW loan \in Loan, NEW position \in Position,
         CloseIfComplete(l, loan, position)
  PROVE  loans' \in [LoanIds -> Loan] /\ positions' \in [LoanIds -> Position]
<1>1. /\ [loan EXCEPT !.status = "Lunas"] \in Loan
      /\ [position EXCEPT !.status = "Lunas"] \in Position
  BY DEF Loan, Position
<1>2. QED
  BY <1>1 DEF CloseIfComplete

LEMMA PayPeriodType ==
  ASSUME TypeOK, NEW l \in LoanIds, NEW p \in Periods, PayPeriod(l, p)
  PROVE  /\ loans' \in [LoanIds -> Loan]
         /\ positions' \in [LoanIds -> Position]
         /\ installmentStatuses' \in [LoanIds -> [Periods -> InstallmentStatus]]
         /\ installmentSettled' \subseteq LoanIds \X Periods
         /\ installmentDueDate' \in [LoanIds -> [Periods -> Nat]]
<1>1. /\ loans[l] \in Loan
      /\ positions[l] \in Position
  BY DEF TypeOK
<1>2. [loans[l] EXCEPT !.remainingPeriods = @ - 1, !.installmentStatus = "PAID"] \in Loan
  <2>1. loans[l].remainingPeriods - 1 \in Nat
    BY <1>1 DEF PayPeriod, Loan
  <2>2. QED
    BY <1>1, <2>1, LoanUpdates
<1>3. [positions[l] EXCEPT !.installmentStatus = "PAID"] \in Position
  BY <1>1 DEF Position
<1>4. /\ Settle(l, p, "PAID")
      /\ CloseIfComplete(l, [loans[l] EXCEPT !.remainingPeriods = @ - 1,
                                             !.installmentStatus = "PAID"],
                            [positions[l] EXCEPT !.installmentStatus = "PAID"])
  BY DEF PayPeriod
<1>5. loans' \in [LoanIds -> Loan] /\ positions' \in [LoanIds -> Position]
  BY <1>2, <1>3, <1>4, CloseType DEF TypeOK
<1>6. QED
  BY <1>4, <1>5, SettleType DEF TypeOK

LEMMA MintType ==
  ASSUME balance \in [Wallets -> Nat], NEW w, NEW n \in Nat, Mint(w, n)
  PROVE  balance' \in [Wallets -> Nat]
<1>1. w \in Wallets => balance[w] + n \in Nat
  OBVIOUS
<1>2. QED
  BY <1>1, UpdateType DEF Mint

----------------------------------------------------------------------------

LEMMA StepTypeOK == TypeOK /\ [Next]_vars => TypeOK'
<1> SUFFICES ASSUME TypeOK, [Next]_vars PROVE TypeOK'
  OBVIOUS
<1>m. members \in [Members -> Member]
  BY DEF TypeOK
<1>g. groups \in [Groups -> Group]
  BY DEF TypeOK
<1>l. loans \in [LoanIds -> Loan]
  BY DEF TypeOK
<1>p. positions \in [LoanIds -> Position]
  BY DEF TypeOK
<1>d. memberTalanganOutstanding \in [Members -> Nat]
  BY DEF TypeOK
<1>b. balance \in [Wallets -> Nat]
  BY DEF TypeOK
<1>s. /\ installmentStatuses \in [LoanIds -> [Periods -> InstallmentStatus]]
      /\ installmentSettled \subseteq LoanIds \X Periods
      /\ installmentDueDate \in [LoanIds -> [Periods -> Nat]]
  BY DEF TypeOK
<1>1. ASSUME NEW c \in Stoppable, Pause(c) \/ Unpause(c) PROVE TypeOK'
  BY <1>1, EscrowArguments DEF TypeOK, Pause, Unpause, schedule, registry
<1>2. CASE Tick
  BY <1>2 DEF TypeOK, Tick, schedule, registry
<1>3. ASSUME NEW m \in Members, NEW k \in Koperasi, NEW w \in Wallets,
             RegisterMember(m, k, w)
      PROVE TypeOK'
  BY <1>3 DEF TypeOK, RegisterMember, NoMember, Member, schedule, registry
<1>4. ASSUME NEW g \in Groups, NEW k \in Koperasi, NEW m \in Members,
             NEW t \in GroupTerms, RegisterGroup(g, k, m, t)
      PROVE TypeOK'
  <2>1. t.plafonMaks \in Nat
    BY EscrowArguments
  <2>2. [NoGroup EXCEPT !.exists = TRUE, !.koperasiId = k,
            !.plafonMaks = t.plafonMaks,
            !.inviteCodeHash = t.inviteCodeHash] \in Group
    BY <2>1 DEF NoGroup, Group
  <2>3. groups' \in [Groups -> Group]
    BY <1>4, <1>g, <2>2, UpdateType DEF RegisterGroup
  <2>4. QED
    BY <1>4, <2>3 DEF TypeOK, RegisterGroup, schedule
<1>5. ASSUME NEW g \in Groups, NEW m \in Members, NEW c \in InviteCodes,
             JoinGroup(g, m, c)
      PROVE TypeOK'
  BY <1>5 DEF TypeOK, JoinGroup, schedule
<1>6. ASSUME NEW m \in Members, NEW n \in SavingsAmounts, RecordSavings(m, n)
      PROVE TypeOK'
  <2>1. n \in Nat
    BY EscrowArguments
  <2>2. balance' \in [Wallets -> Nat]
    BY <1>6, <1>b, <2>1, MintType DEF RecordSavings
  <2>3. QED
    BY <1>6, <2>2 DEF TypeOK, RecordSavings, schedule, registry
<1>7. ASSUME NEW g \in Groups, NEW n \in FundAmounts, FundSocialFund(g, n)
      PROVE TypeOK'
  <2>1. n \in Nat
    BY EscrowArguments
  <2>2. [groups[g] EXCEPT !.socialFundBalance = @ + n] \in Group
    BY <1>g, <2>1 DEF Group
  <2>3. groups' \in [Groups -> Group]
    BY <1>7, <1>g, <2>2, UpdateType DEF FundSocialFund
  <2>4. QED
    BY <1>7, <2>3 DEF TypeOK, FundSocialFund, schedule, registry
<1>8. ASSUME NEW g \in Groups, NEW m \in Members, NEW a \in Applications,
             CreateLoan(g, m, a)
      PROVE TypeOK'
  <2>1. PICK n \in LoanIds : n = nextLoanId
    BY <1>8, EscrowConstants DEF CreateLoan, TypeOK, LoanIds
  <2>2. loans' \in [LoanIds -> Loan]
    BY <1>8, EscrowArguments DEF CreateLoan, TypeOK, Loan
  <2>3. positions' \in [LoanIds -> Position]
    BY <1>8 DEF CreateLoan, TypeOK, Position
  <2>4. installmentDueDate' \in [LoanIds -> [Periods -> Nat]]
    <3>1. \A p \in Periods : p \in 1..a.tenor =>
             a.firstDueDate + (p - 1) * MONTH \in Nat
      BY EscrowArguments, EscrowConstants DEF Periods
    <3>2. [p \in Periods |-> IF p \in 1..a.tenor
              THEN a.firstDueDate + (p - 1) * MONTH
              ELSE installmentDueDate[n][p]] \in [Periods -> Nat]
      BY <3>1 DEF TypeOK
    <3>3. QED
      BY <1>8, <2>1, <3>2 DEF CreateLoan, TypeOK
  <2>5. installmentStatuses' \in [LoanIds -> [Periods -> InstallmentStatus]]
    BY <1>8, <2>1 DEF CreateLoan, TypeOK
  <2>6. nextLoanId' \in 1..(MaxLoans + 1)
    BY <1>8, EscrowConstants DEF CreateLoan, TypeOK
  <2>7. QED
    BY <1>8, <2>2, <2>3, <2>4, <2>5, <2>6 DEF CreateLoan, TypeOK
<1>9. ASSUME NEW l \in LoanIds, NEW s \in Screenings, RecordScreening(l, s)
      PROVE TypeOK'
  <2>1. s.skorAi \in Nat /\ s.flagAi \in AIFlag
    BY EscrowArguments
  <2>2. loans' \in [LoanIds -> Loan]
    <3> DEFINE new == [loans[l] EXCEPT !.aiScore = s.skorAi, !.aiFlag = s.flagAi]
    <3>1. new \in Loan
      BY <1>l, <2>1, LoanUpdates
    <3>2. loans' = [loans EXCEPT ![l] = new]
      BY <1>9, <1>l DEF RecordScreening
    <3>3. QED
      BY <1>l, <3>1, <3>2, UpdateType
  <2>3. QED
    BY <1>9, <2>2 DEF TypeOK, RecordScreening, schedule, registry
<1>10. ASSUME NEW l \in LoanIds, NEW s \in LoanStatus, SetStatus(l, s),
              loans' = [loans EXCEPT ![l].status = s],
              UNCHANGED <<members, groups, schedule, registry,
                          memberTalanganOutstanding, balance, paused, now>>
       PROVE TypeOK'
  <2>1. loans' \in [LoanIds -> Loan]
    BY <1>10, <1>l DEF Loan
  <2>2. positions' \in [LoanIds -> Position]
    BY <1>10, <1>p, SetStatusType
  <2>3. QED
    BY <1>10, <2>1, <2>2 DEF TypeOK, schedule, registry
<1>11. ASSUME NEW l \in LoanIds, NEW p \in Periods, RecordRepayment(l, p)
       PROVE TypeOK'
  <2>1. loans[l].installment \in Nat
    BY <1>l DEF Loan
  <2>2. balance' \in [Wallets -> Nat]
    BY <1>11, <1>b, <2>1, MintType DEF RecordRepayment
  <2>3. PayPeriod(l, p)
    BY <1>11 DEF RecordRepayment
  <2>4. QED
    BY <1>11, <2>2, <2>3, PayPeriodType DEF TypeOK, RecordRepayment, registry
<1>12. ASSUME NEW l \in LoanIds, NEW p \in Periods, ApplySocialFund(l, p)
       PROVE TypeOK'
  <2> DEFINE g == loans[l].groupId
  <2>1. g \in Groups =>
          [groups[g] EXCEPT !.socialFundBalance = @ - loans[l].installment] \in Group
    <3>1. loans[l].installment \in Nat
      BY <1>l DEF Loan
    <3>2. groups[g].socialFundBalance >= loans[l].installment
      BY <1>12 DEF ApplySocialFund, FundCovers, GroupOf
    <3>3. QED
      BY <1>g, <3>1, <3>2 DEF Group
  <2>2. groups' = [groups EXCEPT ![g].socialFundBalance = @ - loans[l].installment]
    BY <1>12 DEF ApplySocialFund, DebitFund
  <2>3. groups' \in [Groups -> Group]
    BY <1>g, <2>1, <2>2, UpdateType
  <2>4. PayPeriod(l, p)
    BY <1>12 DEF ApplySocialFund
  <2>5. QED
    BY <1>12, <2>3, <2>4, PayPeriodType DEF TypeOK, ApplySocialFund, registry
<1>13. ASSUME NEW l \in LoanIds, NEW p \in Periods, NEW r \in Restructures,
              Restructure(l, p, r)
       PROVE TypeOK'
  <2>1. r.newInstallment \in Nat /\ r.newRemaining \in Nat
    BY EscrowArguments
  <2>2. loans' \in [LoanIds -> Loan]
    <3> DEFINE new == [loans[l] EXCEPT !.installmentStatus = "PAID",
                          !.installment = r.newInstallment,
                          !.remainingPeriods = r.newRemaining]
    <3>1. new \in Loan
      BY <1>l, <2>1, LoanUpdates
    <3>2. loans' = [loans EXCEPT ![l] = new]
      BY <1>13, <1>l DEF Restructure
    <3>3. QED
      BY <1>l, <3>1, <3>2, UpdateType
  <2>3. positions' \in [LoanIds -> Position]
    BY <1>13, <1>p DEF Restructure, Position
  <2>4. Settle(l, p, "PAID")
    BY <1>13 DEF Restructure
  <2>5. QED
    BY <1>13, <1>s, <2>2, <2>3, <2>4, SettleType DEF TypeOK, Restructure, registry
<1>14. ASSUME NEW l \in LoanIds, NEW p \in Periods, NEW gp \in GracePeriods,
              ActivateRenteng(l, p, gp)
       PROVE TypeOK'
  <2> DEFINE g == loans[l].groupId
             m == loans[l].memberHash
             i == loans[l].installment
  <2>1. i \in Nat
    BY <1>l DEF Loan
  <2>2. [loans[l] EXCEPT !.installmentStatus = "DITALANGI",
            !.remainingPeriods = @ - 1, !.talanganOutstanding = @ + i] \in Loan
    <3>1. /\ loans[l].remainingPeriods - 1 \in Nat
          /\ loans[l].talanganOutstanding + i \in Nat
      BY <1>14, <1>l, <2>1 DEF ActivateRenteng, Loan
    <3>2. QED
      BY <1>l, <3>1, LoanUpdates
  <2>3. loans' \in [LoanIds -> Loan]
    BY <1>14, <1>l, <2>2, UpdateType DEF ActivateRenteng
  <2>4. positions' \in [LoanIds -> Position]
    BY <1>14, <1>p DEF ActivateRenteng, Position
  <2>5. memberTalanganOutstanding' \in [Members -> Nat]
    <3>1. m \in Members => memberTalanganOutstanding[m] + i \in Nat
      BY <1>d, <2>1
    <3>2. memberTalanganOutstanding' =
             [memberTalanganOutstanding EXCEPT ![m] = @ + i]
      BY <1>14 DEF ActivateRenteng
    <3>3. QED
      BY <1>d, <3>1, <3>2, UpdateType
  <2>6. groups' \in [Groups -> Group]
    <3> DEFINE new == [groups[g] EXCEPT !.talanganOutstanding = @ + i,
                                        !.rentengActive = TRUE]
    <3>1. g \in Groups => new \in Group
      <4>1. g \in Groups => groups[g] \in Group /\ groups[g].talanganOutstanding + i \in Nat
        BY <1>g, <2>1 DEF Group
      <4>2. QED
        BY <4>1, GroupUpdate
    <3>2. groups' = [groups EXCEPT ![g] = new]
      BY <1>14 DEF ActivateRenteng
    <3>3. QED
      BY <1>g, <3>1, <3>2, UpdateType
  <2>7. members' \in [Members -> Member]
    <3>1. m \in Members => [members[m] EXCEPT !.blocked = TRUE] \in Member
      BY <1>m, ZenonT(60) DEF Member
    <3>2. members' = [members EXCEPT ![m].blocked = TRUE]
      BY <1>14 DEF ActivateRenteng
    <3>3. QED
      BY <1>m, <3>1, <3>2, UpdateType
  <2>8. Settle(l, p, "DITALANGI")
    BY <1>14 DEF ActivateRenteng
  <2>9. QED
    BY <1>14, <1>s, <2>3, <2>4, <2>5, <2>6, <2>7, <2>8, SettleType
    DEF TypeOK, ActivateRenteng, registry
<1>15. ASSUME NEW l \in LoanIds, NEW n \in TalanganAmounts, RepayTalangan(l, n)
       PROVE TypeOK'
  <2> DEFINE g == loans[l].groupId
             m == loans[l].memberHash
  <2>1. n \in Nat
    BY EscrowArguments
  <2>2. RepayMember(l, n) /\ RepayGroup(l, n)
    BY <1>15 DEF RepayTalangan
  <2>3. memberTalanganOutstanding' \in [Members -> Nat]
    <3>1. m \in Members => memberTalanganOutstanding[m] - n \in Nat
      BY <1>d, <2>1, <2>2 DEF RepayMember
    <3>2. memberTalanganOutstanding' = [memberTalanganOutstanding EXCEPT
              ![m] = memberTalanganOutstanding[m] - n]
      BY <2>2 DEF RepayMember
    <3>3. QED
      BY <1>d, <3>1, <3>2, UpdateType
  <2>4. members' \in [Members -> Member]
    <3> DEFINE b == members[m].blocked /\ memberTalanganOutstanding[m] # n
    <3>1. b \in BOOLEAN
      OBVIOUS
    <3> HIDE DEF b
    <3>2. m \in Members => [members[m] EXCEPT !.blocked = b] \in Member
      BY <1>m, <3>1 DEF Member
    <3>3. members' = [members EXCEPT ![m].blocked = b]
      BY <2>2 DEF RepayMember, b
    <3>4. QED
      BY <1>m, <3>2, <3>3, UpdateType
  <2>5. groups' \in [Groups -> Group]
    <3> DEFINE b == groups[g].rentengActive /\ groups[g].talanganOutstanding # n
    <3>1. b \in BOOLEAN
      OBVIOUS
    <3> HIDE DEF b
    <3> DEFINE new == [groups[g] EXCEPT
              !.talanganOutstanding = groups[g].talanganOutstanding - n,
              !.rentengActive = b]
    <3>2. g \in Groups => new \in Group
      <4>1. g \in Groups => groups[g] \in Group /\ groups[g].talanganOutstanding - n \in Nat
        BY <1>g, <2>1, <2>2 DEF RepayGroup, Group
      <4>2. QED
        BY <3>1, <4>1, GroupUpdate
    <3>3. groups' = [groups EXCEPT ![g] = new]
      BY <2>2 DEF RepayGroup, b
    <3>4. QED
      BY <1>g, <3>2, <3>3, UpdateType
  <2>6. [loans[l] EXCEPT !.talanganOutstanding = @ - n] \in Loan
    <3>1. loans[l].talanganOutstanding - n \in Nat
      BY <1>15, <1>l, <2>1 DEF RepayTalangan, Loan
    <3>2. QED
      BY <1>l, <3>1, LoanUpdates
  <2>7. loans' \in [LoanIds -> Loan] /\ positions' \in [LoanIds -> Position]
    BY <1>15, <1>l, <1>p, <2>6, CloseType DEF RepayTalangan
  <2>8. QED
    BY <1>15, <2>3, <2>4, <2>5, <2>7 DEF TypeOK, RepayTalangan, schedule, registry
<1>16. ASSUME NEW m \in Members, NEW g \in Groups,
              MarkHardship(m, g) \/ ClearHardship(m, g)
       PROVE TypeOK'
  <2>1. Year \in Nat /\ HardshipsThisYear(m) \in Nat
    BY <1>m, YearType DEF HardshipsThisYear, Member
  <2>2. /\ [members[m] EXCEPT !.hardship = FALSE] \in Member
        /\ [members[m] EXCEPT !.hardship = TRUE, !.hardshipYear = Year,
               !.hardshipCount = HardshipsThisYear(m) + 1] \in Member
    <3>1. \A y, n \in Nat : [members[m] EXCEPT !.hardship = TRUE,
              !.hardshipYear = y, !.hardshipCount = n] \in Member
      BY <1>m, Zenon DEF Member
    <3>2. [members[m] EXCEPT !.hardship = FALSE] \in Member
      BY <1>m DEF Member
    <3>3. HardshipsThisYear(m) + 1 \in Nat
      BY <2>1
    <3>4. QED
      BY <2>1, <3>1, <3>2, <3>3, Zenon
  <2>3. members' \in [Members -> Member]
    BY <1>16, <1>m, <2>2, UpdateType, ZenonT(60) DEF MarkHardship, ClearHardship
  <2>4. QED
    BY <1>16, <2>3 DEF TypeOK, MarkHardship, ClearHardship, schedule, registry
<1>17. ASSUME NEW l \in LoanIds, ApplySanction(l) PROVE TypeOK'
  <2> DEFINE m == loans[l].memberHash
  <2>1. loans' \in [LoanIds -> Loan]
    BY <1>17, <1>l, LoanUpdates, UpdateType DEF ApplySanction
  <2>2. positions' \in [LoanIds -> Position]
    BY <1>17, <1>p, SetStatusType DEF ApplySanction
  <2>3. m \in Members => [members[m] EXCEPT !.blocked = TRUE] \in Member
    BY <1>m DEF Member
  <2>4. members' = [members EXCEPT ![m].blocked = TRUE]
    BY <1>17 DEF ApplySanction
  <2>5. members' \in [Members -> Member]
    BY <1>m, <2>3, <2>4, UpdateType
  <2>6. QED
    BY <1>17, <2>1, <2>2, <2>5 DEF TypeOK, ApplySanction, schedule, registry
<1>18. ASSUME NEW l \in LoanIds, NEW w \in Appellants, FileAppeal(l, w)
       PROVE TypeOK'
  <2>1. loans' \in [LoanIds -> Loan]
    BY <1>18, <1>l, LoanUpdates, UpdateType DEF FileAppeal
  <2>2. QED
    BY <1>18, <2>1 DEF TypeOK, FileAppeal, schedule, registry
<1>19. ASSUME NEW l \in LoanIds, NEW accepted \in BOOLEAN, ResolveAppeal(l, accepted)
       PROVE TypeOK'
  <2> DEFINE m == loans[l].memberHash
  <2>1. loans' \in [LoanIds -> Loan]
    BY <1>19, <1>l, LoanUpdates, UpdateType DEF ResolveAppeal
  <2>2. m \in Members => [members[m] EXCEPT !.blocked = FALSE] \in Member
    BY <1>m, ZenonT(60) DEF Member
  <2>3. members' \in {members, [members EXCEPT ![m].blocked = FALSE]}
    BY <1>19 DEF ResolveAppeal
  <2>4. members' \in [Members -> Member]
    BY <1>m, <2>2, <2>3, UpdateType
  <2>5. QED
    BY <1>19, <2>1, <2>4 DEF TypeOK, ResolveAppeal, schedule, registry
<1>20. CASE UNCHANGED vars
  BY <1>20 DEF TypeOK, vars
<1>21. QED
  <2>1. \A l \in LoanIds : ApproveLoan(l) \/ DisburseLoan(l) \/ DeferLoan(l) => TypeOK'
    BY <1>10 DEF ApproveLoan, DisburseLoan, DeferLoan
  <2>2. CASE Administration
    BY <2>2, <1>1, <1>2 DEF Administration
  <2>3. CASE Registration
    BY <2>3, <1>3, <1>4, <1>5, <1>6, <1>7 DEF Registration
  <2>4. CASE Lending
    BY <2>4, <2>1, <1>8, <1>9 DEF Lending
  <2>5. CASE Repayment
    BY <2>5, <1>11, <1>12, <1>13, <1>14, <1>15 DEF Repayment
  <2>6. CASE Standing
    BY <2>6, <1>16, <1>17, <1>18, <1>19 DEF Standing
  <2>7. QED
    BY <1>20, <2>2, <2>3, <2>4, <2>5, <2>6 DEF Next

\* The mappings of the three contracts always hold values of their types: no
\* amount is ever negative and no id is out of range.
THEOREM TypeCorrect == Spec => []TypeOK
  BY InitTypeOK, StepTypeOK, PTL DEF Spec

----------------------------------------------------------------------------
(* Registry: groups, memberships and loans fit together *)

\* What identifies a loan stays, and so does a positive installment.
SameLoan(new, old) ==
    /\ new.exists = old.exists
    /\ new.groupId = old.groupId
    /\ new.memberHash = old.memberHash
    /\ new.tenor = old.tenor
    /\ old.installment > 0 => new.installment > 0

\* What a group or a member belongs to stays.
SameGroup(new, old) == new.exists = old.exists /\ new.koperasiId = old.koperasiId
SameMember(new, old) ==
    new.registered = old.registered /\ new.koperasiId = old.koperasiId

LEMMA OneLoan ==
  ASSUME TypeOK, NEW l \in LoanIds, NEW new, loans' = [loans EXCEPT ![l] = new],
         SameLoan(new, loans[l])
  PROVE  \A k \in LoanIds : SameLoan(loans'[k], loans[k])
<1>1. loans \in [LoanIds -> Loan]
  BY DEF TypeOK
<1>2. QED
  BY <1>1 DEF SameLoan

LEMMA CloseKeepsLoan ==
  ASSUME TypeOK, NEW l \in LoanIds, NEW loan \in Loan, NEW position,
         CloseIfComplete(l, loan, position), SameLoan(loan, loans[l])
  PROVE  \A k \in LoanIds : SameLoan(loans'[k], loans[k])
<1>1. SameLoan([loan EXCEPT !.status = "Lunas"], loans[l])
  BY DEF SameLoan, Loan
<1>2. QED
  BY <1>1, OneLoan DEF CloseIfComplete

\* No operation but createLoan touches what identifies a loan.
LEMMA LoansKept ==
  ASSUME TypeOK, NEW l \in LoanIds,
         \/ \E s \in Screenings : RecordScreening(l, s)
         \/ ApproveLoan(l) \/ DisburseLoan(l) \/ DeferLoan(l)
         \/ \E p \in Periods : \/ RecordRepayment(l, p)
                               \/ ApplySocialFund(l, p)
                               \/ \E r \in Restructures : Restructure(l, p, r)
                               \/ \E gp \in GracePeriods : ActivateRenteng(l, p, gp)
         \/ \E n \in TalanganAmounts : RepayTalangan(l, n)
         \/ ApplySanction(l)
         \/ \E w \in Appellants : FileAppeal(l, w)
         \/ \E accepted \in BOOLEAN : ResolveAppeal(l, accepted)
  PROVE  \A k \in LoanIds : SameLoan(loans'[k], loans[k])
<1>l. loans \in [LoanIds -> Loan] /\ loans[l] \in Loan
  BY DEF TypeOK
<1>1. ASSUME NEW s \in Screenings, RecordScreening(l, s)
      PROVE  \A k \in LoanIds : SameLoan(loans'[k], loans[k])
  BY <1>1, <1>l DEF RecordScreening, SameLoan, Loan
<1>2. ASSUME NEW s, loans' = [loans EXCEPT ![l].status = s]
      PROVE  \A k \in LoanIds : SameLoan(loans'[k], loans[k])
  BY <1>2, <1>l DEF SameLoan, Loan
<1>3. ASSUME NEW p \in Periods, PayPeriod(l, p)
      PROVE  \A k \in LoanIds : SameLoan(loans'[k], loans[k])
  <2> DEFINE new == [loans[l] EXCEPT !.remainingPeriods = @ - 1,
                                     !.installmentStatus = "PAID"]
  <2>1. loans[l].remainingPeriods - 1 \in Nat
    BY <1>3, <1>l DEF PayPeriod, Loan
  <2>2. new \in Loan
    BY <1>l, <2>1, LoanUpdates
  <2>3. SameLoan(new, loans[l])
    BY <1>l DEF SameLoan, Loan
  <2>4. CloseIfComplete(l, new, [positions[l] EXCEPT !.installmentStatus = "PAID"])
    BY <1>3 DEF PayPeriod
  <2> HIDE DEF new
  <2>5. QED
    BY <2>2, <2>3, <2>4, CloseKeepsLoan
<1>4. ASSUME NEW p \in Periods, NEW r \in Restructures, Restructure(l, p, r)
      PROVE  \A k \in LoanIds : SameLoan(loans'[k], loans[k])
  <2> DEFINE new == [loans[l] EXCEPT !.installmentStatus = "PAID",
                        !.installment = r.newInstallment,
                        !.remainingPeriods = r.newRemaining]
  <2>1. r.newInstallment > 0
    <3>1. r.newInstallment \in Nat
      BY EscrowArguments
    <3>2. r.newInstallment # 0
      BY <1>4 DEF Restructure
    <3>3. QED
      BY <3>1, <3>2
  <2>2. SameLoan(new, loans[l])
    <3>1. /\ new.exists = loans[l].exists
          /\ new.groupId = loans[l].groupId
          /\ new.memberHash = loans[l].memberHash
          /\ new.tenor = loans[l].tenor
          /\ new.installment = r.newInstallment
      BY <1>l, Zenon DEF Loan
    <3>2. QED
      BY <2>1, <3>1 DEF SameLoan
  <2>3. loans' = [loans EXCEPT ![l] = new]
    BY <1>4, <1>l DEF Restructure
  <2>4. QED
    BY <2>2, <2>3, OneLoan
<1>5. ASSUME NEW p \in Periods, NEW gp \in GracePeriods, ActivateRenteng(l, p, gp)
      PROVE  \A k \in LoanIds : SameLoan(loans'[k], loans[k])
  <2> DEFINE new == [loans[l] EXCEPT !.installmentStatus = "DITALANGI",
                        !.remainingPeriods = @ - 1,
                        !.talanganOutstanding = @ + loans[l].installment]
  <2>1. \A n, t : SameLoan([loans[l] EXCEPT !.installmentStatus = "DITALANGI",
                     !.remainingPeriods = n, !.talanganOutstanding = t], loans[l])
    BY <1>l DEF SameLoan, Loan
  <2>2. loans' = [loans EXCEPT ![l] = new]
    BY <1>5, <1>l DEF ActivateRenteng
  <2>3. QED
    BY <2>1, <2>2, OneLoan
<1>6. ASSUME NEW n \in TalanganAmounts, RepayTalangan(l, n)
      PROVE  \A k \in LoanIds : SameLoan(loans'[k], loans[k])
  <2> DEFINE new == [loans[l] EXCEPT !.talanganOutstanding = @ - n]
  <2>1. loans[l].talanganOutstanding - n \in Nat
    BY <1>6, <1>l, EscrowArguments DEF RepayTalangan, Loan
  <2>2. new \in Loan
    BY <1>l, <2>1, LoanUpdates
  <2>3. SameLoan(new, loans[l])
    BY <1>l DEF SameLoan, Loan
  <2>4. CloseIfComplete(l, new, positions[l])
    BY <1>6 DEF RepayTalangan
  <2> HIDE DEF new
  <2>5. QED
    BY <2>2, <2>3, <2>4, CloseKeepsLoan
<1>7. ASSUME ApplySanction(l)
      PROVE  \A k \in LoanIds : SameLoan(loans'[k], loans[k])
  BY <1>7, <1>l DEF ApplySanction, SameLoan, Loan
<1>8. ASSUME NEW b \in BOOLEAN, loans' = [loans EXCEPT ![l].appealOpen = b]
      PROVE  \A k \in LoanIds : SameLoan(loans'[k], loans[k])
  BY <1>8, <1>l DEF SameLoan, Loan
<1>9. QED
  BY <1>1, <1>2, <1>3, <1>4, <1>5, <1>6, <1>7, <1>8
  DEF ApproveLoan, DisburseLoan, DeferLoan, RecordRepayment, ApplySocialFund,
      FileAppeal, ResolveAppeal

\* No operation but registerGroup and registerMember touches what a group or a
\* member belongs to.
LEMMA UpdateKeepsGroup ==
  ASSUME TypeOK, NEW g, NEW new, groups' = [groups EXCEPT ![g] = new],
         g \in Groups => SameGroup(new, groups[g])
  PROVE  \A h \in Groups : SameGroup(groups'[h], groups[h])
<1>1. groups \in [Groups -> Group]
  BY DEF TypeOK
<1>2. QED
  BY <1>1 DEF SameGroup

LEMMA UpdateKeepsMember ==
  ASSUME TypeOK, NEW m, NEW new, members' = [members EXCEPT ![m] = new],
         m \in Members => SameMember(new, members[m])
  PROVE  \A n \in Members : SameMember(members'[n], members[n])
<1>1. members \in [Members -> Member]
  BY DEF TypeOK
<1>2. QED
  BY <1>1 DEF SameMember

LEMMA LoanPartiesStep == TypeOK /\ LoanParties /\ [Next]_vars => LoanParties'
<1> SUFFICES ASSUME TypeOK, LoanParties, [Next]_vars PROVE LoanParties'
  OBVIOUS
<1>t. /\ members \in [Members -> Member]
      /\ groups \in [Groups -> Group]
      /\ groupMembers \subseteq Groups \X Members
      /\ loans \in [LoanIds -> Loan]
      /\ nextLoanId \in Nat
  BY EscrowConstants DEF TypeOK
\* Most operations leave all that the invariant speaks of as it is.
<1>f. ASSUME /\ UNCHANGED <<groupMembers, nextLoanId>>
             /\ \A g \in Groups : SameGroup(groups'[g], groups[g])
             /\ \A m \in Members : SameMember(members'[m], members[m])
             /\ \A l \in LoanIds : SameLoan(loans'[l], loans[l])
      PROVE  LoanParties'
  BY <1>f DEF LoanParties, SameGroup, SameMember, SameLoan
<1>g. UNCHANGED groups => \A g \in Groups : SameGroup(groups'[g], groups[g])
  BY DEF SameGroup
<1>m. UNCHANGED members => \A m \in Members : SameMember(members'[m], members[m])
  BY DEF SameMember
<1>l. UNCHANGED loans => \A l \in LoanIds : SameLoan(loans'[l], loans[l])
  BY DEF SameLoan
<1>1. CASE Administration
  BY <1>1, <1>f, <1>g, <1>m, <1>l DEF Administration, Pause, Unpause, Tick, registry
<1>2. ASSUME NEW m \in Members, NEW k \in Koperasi, NEW w \in Wallets,
             RegisterMember(m, k, w)
      PROVE  LoanParties'
  <2>1. \A n \in Members : members[n].registered => members'[n] = members[n]
    BY <1>2, <1>t DEF RegisterMember
  <2>2. QED
    BY <1>2, <1>t, <2>1 DEF RegisterMember, LoanParties, registry
<1>3. ASSUME NEW g \in Groups, NEW k \in Koperasi, NEW m \in Members,
             NEW t \in GroupTerms, RegisterGroup(g, k, m, t)
      PROVE  LoanParties'
  <2>1. \A h \in Groups : groups[h].exists => groups'[h] = groups[h]
    BY <1>3, <1>t DEF RegisterGroup
  <2>2. groups'[g].exists /\ groups'[g].koperasiId = k
    BY <1>3, <1>t DEF RegisterGroup, NoGroup
  <2>3. QED
    BY <1>3, <1>t, <2>1, <2>2 DEF RegisterGroup, LoanParties
<1>4. ASSUME NEW g \in Groups, NEW m \in Members, NEW c \in InviteCodes,
             JoinGroup(g, m, c)
      PROVE  LoanParties'
  BY <1>4, <1>t DEF JoinGroup, SameKoperasi, LoanParties
<1>5. ASSUME NEW m \in Members, NEW n \in SavingsAmounts, RecordSavings(m, n)
      PROVE  LoanParties'
  BY <1>5, <1>f, <1>g, <1>m, <1>l DEF RecordSavings, registry
<1>6. ASSUME NEW g \in Groups, NEW n \in FundAmounts, FundSocialFund(g, n)
      PROVE  LoanParties'
  <2>1. \A k : SameGroup([groups[g] EXCEPT !.socialFundBalance = k], groups[g])
    BY <1>t DEF SameGroup, Group
  <2>2. \A h \in Groups : SameGroup(groups'[h], groups[h])
    BY <1>6, <2>1, UpdateKeepsGroup DEF FundSocialFund
  <2>3. QED
    BY <1>6, <1>f, <1>m, <1>l, <2>2 DEF FundSocialFund, registry
<1>7. ASSUME NEW g \in Groups, NEW m \in Members, NEW a \in Applications,
             CreateLoan(g, m, a)
      PROVE  LoanParties'
  <2>1. nextLoanId \in LoanIds
    BY <1>7, EscrowConstants DEF CreateLoan, TypeOK, LoanIds
  <2>2. \A l \in LoanIds : l # nextLoanId => loans'[l] = loans[l]
    BY <1>7, <1>t DEF CreateLoan
  <2>3. /\ loans'[nextLoanId].exists
        /\ loans'[nextLoanId].groupId = g
        /\ loans'[nextLoanId].memberHash = m
        /\ loans'[nextLoanId].tenor = a.tenor
        /\ loans'[nextLoanId].installment = a.cicilanBulanan
    BY <1>7, <1>t, <2>1 DEF CreateLoan
  <2>4. a.tenor \in 1..MAX_TENOR /\ a.cicilanBulanan > 0
    BY <1>7, EscrowArguments, EscrowConstants DEF CreateLoan
  <2>5. /\ nextLoanId' = nextLoanId + 1 /\ <<g, m>> \in groupMembers
        /\ UNCHANGED <<members, groups, groupMembers>>
    BY <1>7 DEF CreateLoan
  <2>6. \A l \in LoanIds :
          /\ loans'[l].exists <=> l < nextLoanId'
          /\ loans'[l].exists =>
                /\ <<loans'[l].groupId, loans'[l].memberHash>> \in groupMembers
                /\ loans'[l].tenor \in 1..MAX_TENOR
                /\ loans'[l].installment > 0
    <3> SUFFICES ASSUME NEW l \in LoanIds
                 PROVE  /\ loans'[l].exists <=> l < nextLoanId'
                        /\ loans'[l].exists =>
                              /\ <<loans'[l].groupId, loans'[l].memberHash>> \in groupMembers
                              /\ loans'[l].tenor \in 1..MAX_TENOR
                              /\ loans'[l].installment > 0
      OBVIOUS
    <3>1. CASE l = nextLoanId
      BY <3>1, <1>t, <2>3, <2>4, <2>5
    <3>2. CASE l # nextLoanId
      BY <3>2, <1>t, <2>2, <2>5 DEF LoanParties, LoanIds
    <3>3. QED
      BY <3>1, <3>2
  <2>7. QED
    BY <2>5, <2>6 DEF LoanParties
<1>8. ASSUME NEW l \in LoanIds,
             \/ \E s \in Screenings : RecordScreening(l, s)
             \/ ApproveLoan(l) \/ DisburseLoan(l) \/ DeferLoan(l)
             \/ \E w \in Appellants : FileAppeal(l, w)
      PROVE  LoanParties'
  <2>1. \A k \in LoanIds : SameLoan(loans'[k], loans[k])
    BY <1>8, LoansKept
  <2>2. QED
    BY <1>8, <1>f, <1>g, <1>m, <2>1
    DEF RecordScreening, ApproveLoan, DisburseLoan, DeferLoan, FileAppeal, registry
<1>9. ASSUME NEW l \in LoanIds, NEW p \in Periods,
             \/ RecordRepayment(l, p)
             \/ \E r \in Restructures : Restructure(l, p, r)
      PROVE  LoanParties'
  <2>1. \A k \in LoanIds : SameLoan(loans'[k], loans[k])
    BY <1>9, LoansKept
  <2>2. QED
    BY <1>9, <1>f, <1>g, <1>m, <2>1 DEF RecordRepayment, Restructure, registry
<1>10. ASSUME NEW l \in LoanIds, NEW p \in Periods, ApplySocialFund(l, p)
       PROVE  LoanParties'
  <2> DEFINE g == loans[l].groupId
  <2>1. \A k \in LoanIds : SameLoan(loans'[k], loans[k])
    BY <1>10, LoansKept
  <2>2. \A k : g \in Groups =>
           SameGroup([groups[g] EXCEPT !.socialFundBalance = k], groups[g])
    BY <1>t DEF SameGroup, Group
  <2>3. \A h \in Groups : SameGroup(groups'[h], groups[h])
    BY <1>10, <2>2, UpdateKeepsGroup DEF ApplySocialFund, DebitFund
  <2>4. QED
    BY <1>10, <1>f, <1>m, <2>1, <2>3 DEF ApplySocialFund, registry
\* The two operations on talangan update group and member in the same fields.
<1>k. ASSUME NEW g, NEW m, NEW n, NEW active, NEW blocked,
             groups' = [groups EXCEPT ![g].talanganOutstanding = n,
                                      ![g].rentengActive = active],
             members' = [members EXCEPT ![m].blocked = blocked]
      PROVE  /\ \A h \in Groups : SameGroup(groups'[h], groups[h])
             /\ \A h \in Members : SameMember(members'[h], members[h])
  <2> DEFINE new == [groups[g] EXCEPT !.talanganOutstanding = n,
                                      !.rentengActive = active]
  <2>1. groups' = [groups EXCEPT ![g] = new] /\ (g \in Groups => SameGroup(new, groups[g]))
    BY <1>k, <1>t DEF SameGroup, Group
  <2>2. m \in Members => SameMember([members[m] EXCEPT !.blocked = blocked], members[m])
    BY <1>t DEF SameMember, Member
  <2>3. \A h \in Groups : SameGroup(groups'[h], groups[h])
    <3> HIDE DEF new
    <3>1. QED
      BY <2>1, UpdateKeepsGroup
  <2>4. QED
    BY <1>k, <2>2, <2>3, UpdateKeepsMember
<1>11. ASSUME NEW l \in LoanIds, NEW p \in Periods, NEW gp \in GracePeriods,
              ActivateRenteng(l, p, gp)
       PROVE  LoanParties'
  <2>1. \A k \in LoanIds : SameLoan(loans'[k], loans[k])
    BY <1>11, LoansKept
  <2>2. /\ \A h \in Groups : SameGroup(groups'[h], groups[h])
        /\ \A h \in Members : SameMember(members'[h], members[h])
    BY <1>11, <1>k DEF ActivateRenteng
  <2>3. QED
    BY <1>11, <1>f, <2>1, <2>2 DEF ActivateRenteng, registry
<1>12. ASSUME NEW l \in LoanIds, NEW n \in TalanganAmounts, RepayTalangan(l, n)
       PROVE  LoanParties'
  <2>1. \A k \in LoanIds : SameLoan(loans'[k], loans[k])
    BY <1>12, LoansKept
  <2>2. /\ \A h \in Groups : SameGroup(groups'[h], groups[h])
        /\ \A h \in Members : SameMember(members'[h], members[h])
    BY <1>12, <1>k DEF RepayTalangan, RepayMember, RepayGroup
  <2>3. QED
    BY <1>12, <1>f, <2>1, <2>2 DEF RepayTalangan, registry
<1>13. ASSUME NEW m \in Members, NEW g \in Groups,
              MarkHardship(m, g) \/ ClearHardship(m, g)
       PROVE  LoanParties'
  <2>1. \A n \in Members : SameMember(members'[n], members[n])
    BY <1>13, <1>t DEF MarkHardship, ClearHardship, SameMember, Member
  <2>2. QED
    BY <1>13, <1>f, <1>g, <1>l, <2>1 DEF MarkHardship, ClearHardship, registry
<1>14. ASSUME NEW l \in LoanIds,
              \/ ApplySanction(l)
              \/ \E accepted \in BOOLEAN : ResolveAppeal(l, accepted)
       PROVE  LoanParties'
  <2> DEFINE m == loans[l].memberHash
  <2>1. \A k \in LoanIds : SameLoan(loans'[k], loans[k])
    BY <1>14, LoansKept
  <2>2. \A b : m \in Members =>
          SameMember([members[m] EXCEPT !.blocked = b], members[m])
    BY <1>t DEF SameMember, Member
  <2>3. \/ UNCHANGED members
        \/ \E b \in BOOLEAN : members' = [members EXCEPT ![m].blocked = b]
    BY <1>14 DEF ApplySanction, ResolveAppeal
  <2>4. \A n \in Members : SameMember(members'[n], members[n])
    BY <1>m, <2>2, <2>3, UpdateKeepsMember
  <2>5. QED
    BY <1>14, <1>f, <1>g, <2>1, <2>4 DEF ApplySanction, ResolveAppeal, registry
<1>15. CASE UNCHANGED vars
  BY <1>15, <1>f, <1>g, <1>m, <1>l DEF vars
<1>16. QED
  <2>1. CASE Registration
    BY <2>1, <1>2, <1>3, <1>4, <1>5, <1>6 DEF Registration
  <2>2. CASE Lending
    BY <2>2, <1>7, <1>8 DEF Lending
  <2>3. CASE Repayment
    BY <2>3, <1>9, <1>10, <1>11, <1>12 DEF Repayment
  <2>4. CASE Standing
    BY <2>4, <1>8, <1>13, <1>14 DEF Standing
  <2>5. QED
    BY <1>1, <1>15, <2>1, <2>2, <2>3, <2>4 DEF Next

\* Memberships and loans never cross cooperatives, and loan ids have no gap.
THEOREM PartiesCorrect == Spec => []LoanParties
<1>1. Init => LoanParties
  BY EscrowConstants DEF Init, LoanParties, NoLoan, LoanIds
<1>2. QED
  BY <1>1, LoanPartiesStep, TypeCorrect, PTL DEF Spec

----------------------------------------------------------------------------
(* The two gates: a group that lends talangan and a member who owes it *)

\* Registering a member lifts no block of a debtor: nobody owes talangan before
\* being registered.
DebtorRegistered ==
    \A m \in Members : memberTalanganOutstanding[m] > 0 => members[m].registered

Debtors == DebtorBlocked /\ DebtorRegistered
Gates == RentengGate /\ Debtors

\* An update that leaves the debt and the gate of a group in step.
LEMMA UpdateKeepsGate ==
  ASSUME TypeOK, RentengGate, NEW g, NEW new, groups' = [groups EXCEPT ![g] = new],
         g \in Groups => (new.rentengActive <=> new.talanganOutstanding > 0)
  PROVE  RentengGate'
<1>1. groups \in [Groups -> Group]
  BY DEF TypeOK
<1>2. QED
  BY <1>1 DEF RentengGate

\* An update of one member, and of what the member owes.
LEMMA UpdateKeepsDebtors ==
  ASSUME TypeOK, Debtors, NEW m, NEW new, NEW owed,
         members' = [members EXCEPT ![m] = new],
         memberTalanganOutstanding' = [memberTalanganOutstanding EXCEPT ![m] = owed],
         m \in Members => (owed > 0 => new.blocked /\ new.registered)
  PROVE  Debtors'
<1>1. /\ members \in [Members -> Member]
      /\ memberTalanganOutstanding \in [Members -> Nat]
  BY DEF TypeOK
<1>2. QED
  BY <1>1 DEF Debtors, DebtorBlocked, DebtorRegistered

\* An update of one member that neither lifts a block nor touches a debt.
LEMMA UpdateKeepsBlock ==
  ASSUME TypeOK, Debtors, NEW m, NEW new, members' = [members EXCEPT ![m] = new],
         UNCHANGED memberTalanganOutstanding,
         m \in Members /\ memberTalanganOutstanding[m] > 0 => new.blocked /\ new.registered
  PROVE  Debtors'
<1>1. /\ members \in [Members -> Member]
      /\ memberTalanganOutstanding \in [Members -> Nat]
  BY DEF TypeOK
<1>2. QED
  BY <1>1 DEF Debtors, DebtorBlocked, DebtorRegistered

LEMMA GatesStep == TypeOK /\ LoanParties /\ Gates /\ [Next]_vars => Gates'
<1> SUFFICES ASSUME TypeOK, LoanParties, RentengGate, Debtors, [Next]_vars
             PROVE  RentengGate' /\ Debtors'
  BY DEF Gates
<1>t. /\ members \in [Members -> Member]
      /\ groups \in [Groups -> Group]
      /\ loans \in [LoanIds -> Loan]
      /\ memberTalanganOutstanding \in [Members -> Nat]
  BY DEF TypeOK
<1>g. UNCHANGED groups => RentengGate'
  BY DEF RentengGate
<1>m. UNCHANGED <<members, memberTalanganOutstanding>> => Debtors'
  BY DEF Debtors, DebtorBlocked, DebtorRegistered
\* The fund of a group is neither its debt nor its gate.
<1>f. ASSUME NEW g, NEW n, groups' = [groups EXCEPT ![g].socialFundBalance = n]
      PROVE  RentengGate'
  <2> DEFINE new == [groups[g] EXCEPT !.socialFundBalance = n]
  <2>1. g \in Groups => /\ new.rentengActive = groups[g].rentengActive
                        /\ new.talanganOutstanding = groups[g].talanganOutstanding
    BY <1>t DEF Group
  <2>2. groups' = [groups EXCEPT ![g] = new]
    BY <1>f
  <2> HIDE DEF new
  <2>3. g \in Groups => (new.rentengActive <=> new.talanganOutstanding > 0)
    BY <2>1 DEF RentengGate
  <2>4. QED
    BY <2>2, <2>3, UpdateKeepsGate
\* Only the block and the registration of a debtor matter, not the rest.
<1>d. ASSUME NEW m, NEW b, members' = [members EXCEPT ![m].blocked = b],
             UNCHANGED memberTalanganOutstanding,
             m \in Members /\ memberTalanganOutstanding[m] > 0 => b
      PROVE  Debtors'
  <2> DEFINE new == [members[m] EXCEPT !.blocked = b]
  <2>1. m \in Members => new.blocked = b /\ new.registered = members[m].registered
    BY <1>t DEF Member
  <2>2. members' = [members EXCEPT ![m] = new]
    BY <1>d
  <2> HIDE DEF new
  <2>3. m \in Members /\ memberTalanganOutstanding[m] > 0 => new.blocked /\ new.registered
    BY <2>1, <1>d DEF Debtors, DebtorRegistered
  <2>4. QED
    BY <1>d, <2>2, <2>3, UpdateKeepsBlock
<1>1. ASSUME NEW m \in Members, NEW k \in Koperasi, NEW w \in Wallets,
             RegisterMember(m, k, w)
      PROVE  RentengGate' /\ Debtors'
  <2>1. ~(memberTalanganOutstanding[m] > 0)
    BY <1>1 DEF RegisterMember, Debtors, DebtorRegistered
  <2>2. PICK new : members' = [members EXCEPT ![m] = new]
    BY <1>1 DEF RegisterMember
  <2>3. UNCHANGED <<groups, memberTalanganOutstanding>>
    BY <1>1 DEF RegisterMember
  <2>4. QED
    BY <1>g, <2>1, <2>2, <2>3, UpdateKeepsBlock
<1>2. ASSUME NEW g \in Groups, NEW k \in Koperasi, NEW m \in Members,
             NEW t \in GroupTerms, RegisterGroup(g, k, m, t)
      PROVE  RentengGate' /\ Debtors'
  <2> DEFINE new == [NoGroup EXCEPT !.exists = TRUE, !.koperasiId = k,
                        !.plafonMaks = t.plafonMaks,
                        !.inviteCodeHash = t.inviteCodeHash]
  <2>1. new.rentengActive = FALSE /\ ~(new.talanganOutstanding > 0)
    BY DEF NoGroup
  <2>2. groups' = [groups EXCEPT ![g] = new]
    BY <1>2 DEF RegisterGroup
  <2> HIDE DEF new
  <2>3. RentengGate'
    <3>1. new.rentengActive <=> new.talanganOutstanding > 0
      BY <2>1, Zenon
    <3>2. QED
      BY <2>2, <3>1, UpdateKeepsGate
  <2>4. QED
    BY <1>2, <1>m, <2>3 DEF RegisterGroup
<1>3. ASSUME NEW g \in Groups, NEW n \in FundAmounts, FundSocialFund(g, n)
      PROVE  RentengGate' /\ Debtors'
  BY <1>3, <1>f, <1>m DEF FundSocialFund
<1>4. ASSUME NEW l \in LoanIds, NEW p \in Periods, ApplySocialFund(l, p)
      PROVE  RentengGate' /\ Debtors'
  BY <1>4, <1>f, <1>m DEF ApplySocialFund, DebitFund
<1>5. ASSUME NEW l \in LoanIds, NEW p \in Periods, NEW gp \in GracePeriods,
             ActivateRenteng(l, p, gp)
      PROVE  RentengGate' /\ Debtors'
  <2> DEFINE g == loans[l].groupId
             m == loans[l].memberHash
             i == loans[l].installment
             newGroup == [groups[g] EXCEPT !.talanganOutstanding = @ + i,
                                           !.rentengActive = TRUE]
             newMember == [members[m] EXCEPT !.blocked = TRUE]
  <2>1. /\ loans[l].exists
        /\ <<g, m>> \in groupMembers
        /\ i \in Nat /\ i > 0
    BY <1>5, <1>t DEF ActivateRenteng, InStatus, LoanParties, Loan
  <2>2. g \in Groups /\ m \in Members /\ members[m].registered
    BY <2>1 DEF LoanParties, TypeOK
  <2>3. RentengGate'
    <3>1. groups[g].talanganOutstanding \in Nat
      BY <1>t, <2>2 DEF Group
    <3>2. newGroup.rentengActive = TRUE /\ newGroup.talanganOutstanding > 0
      BY <1>t, <2>1, <2>2, <3>1 DEF Group
    <3>3. groups' = [groups EXCEPT ![g] = newGroup]
      BY <1>5 DEF ActivateRenteng
    <3> HIDE DEF newGroup
    <3>4. QED
      BY <3>2, <3>3, UpdateKeepsGate
  <2>4. Debtors'
    <3>1. newMember.blocked /\ newMember.registered
      BY <1>t, <2>2 DEF Member
    <3>2. /\ members' = [members EXCEPT ![m] = newMember]
          /\ memberTalanganOutstanding' = [memberTalanganOutstanding EXCEPT ![m] = @ + i]
      BY <1>5 DEF ActivateRenteng
    <3> HIDE DEF newMember
    <3>3. QED
      BY <3>1, <3>2, UpdateKeepsDebtors
  <2>5. QED
    BY <2>3, <2>4
<1>6. ASSUME NEW l \in LoanIds, NEW n \in TalanganAmounts, RepayTalangan(l, n)
      PROVE  RentengGate' /\ Debtors'
  <2> DEFINE g == loans[l].groupId
             m == loans[l].memberHash
             lent == groups[g].talanganOutstanding
             owed == memberTalanganOutstanding[m]
             newGroup == [groups[g] EXCEPT !.talanganOutstanding = lent - n,
                                           !.rentengActive = @ /\ lent # n]
             newMember == [members[m] EXCEPT !.blocked = @ /\ owed # n]
  <2>1. /\ loans[l].exists
        /\ n \in Nat /\ n > 0 /\ n <= lent /\ n <= owed
    BY <1>6, EscrowArguments DEF RepayTalangan, RepayMember, RepayGroup
  <2>2. g \in Groups /\ m \in Members
    BY <2>1 DEF LoanParties, TypeOK
  <2>3. RentengGate'
    <3>1. lent \in Nat /\ (groups[g].rentengActive <=> lent > 0)
      BY <1>t, <2>2 DEF Group, RentengGate
    <3>2. /\ newGroup.talanganOutstanding = lent - n
          /\ newGroup.rentengActive = (groups[g].rentengActive /\ lent # n)
      BY <1>t, <2>2 DEF Group
    <3>3. newGroup.rentengActive <=> newGroup.talanganOutstanding > 0
      <4> HIDE DEF newGroup, lent
      <4>1. (groups[g].rentengActive /\ lent # n) <=> lent - n > 0
        BY <2>1, <3>1
      <4>2. QED
        BY <3>2, <4>1
    <3>4. groups' = [groups EXCEPT ![g] = newGroup]
      BY <1>6 DEF RepayTalangan, RepayGroup
    <3> HIDE DEF newGroup
    <3>5. QED
      BY <3>3, <3>4, UpdateKeepsGate
  <2>4. Debtors'
    <3>1. owed > 0
      BY <1>t, <2>1, <2>2
    <3>2. members[m].blocked /\ members[m].registered
      BY <2>2, <3>1 DEF Debtors, DebtorBlocked, DebtorRegistered
    <3>3. newMember.blocked = (owed # n) /\ newMember.registered
      BY <1>t, <2>2, <3>2 DEF Member
    <3>4. owed - n > 0 => owed # n
      BY <1>t, <2>1, <2>2
    <3>5. /\ members' = [members EXCEPT ![m] = newMember]
          /\ memberTalanganOutstanding' = [memberTalanganOutstanding EXCEPT ![m] = owed - n]
      BY <1>6 DEF RepayTalangan, RepayMember
    <3> HIDE DEF newMember, owed
    <3>6. QED
      BY <3>3, <3>4, <3>5, UpdateKeepsDebtors
  <2>5. QED
    BY <2>3, <2>4
<1>7. ASSUME NEW m \in Members, NEW g \in Groups,
             MarkHardship(m, g) \/ ClearHardship(m, g)
      PROVE  RentengGate' /\ Debtors'
  <2>1. PICK new : /\ members' = [members EXCEPT ![m] = new]
                   /\ new.blocked = members[m].blocked
                   /\ new.registered = members[m].registered
    BY <1>7, <1>t DEF MarkHardship, ClearHardship, Member
  <2>2. UNCHANGED <<groups, memberTalanganOutstanding>>
    BY <1>7 DEF MarkHardship, ClearHardship
  <2>3. memberTalanganOutstanding[m] > 0 => new.blocked /\ new.registered
    BY <2>1 DEF Debtors, DebtorBlocked, DebtorRegistered
  <2>4. QED
    BY <1>g, <2>1, <2>2, <2>3, UpdateKeepsBlock
<1>8. ASSUME NEW l \in LoanIds, ApplySanction(l)
      PROVE  RentengGate' /\ Debtors'
  BY <1>8, <1>d, <1>g DEF ApplySanction
<1>9. ASSUME NEW l \in LoanIds, NEW accepted \in BOOLEAN, ResolveAppeal(l, accepted)
      PROVE  RentengGate' /\ Debtors'
  BY <1>9, <1>d, <1>g, <1>m DEF ResolveAppeal
\* Every other operation leaves groups, members and debts alone.
<1>10. ASSUME UNCHANGED <<groups, members, memberTalanganOutstanding>>
       PROVE  RentengGate' /\ Debtors'
  BY <1>10, <1>g, <1>m
<1>a. ASSUME NEW g \in Groups, NEW m \in Members,
             \/ \E c \in InviteCodes : JoinGroup(g, m, c)
             \/ \E a \in Applications : CreateLoan(g, m, a)
      PROVE  RentengGate' /\ Debtors'
  BY <1>a, <1>10 DEF JoinGroup, CreateLoan
<1>b. ASSUME NEW l \in LoanIds,
             \/ \E s \in Screenings : RecordScreening(l, s)
             \/ ApproveLoan(l) \/ DisburseLoan(l) \/ DeferLoan(l)
      PROVE  RentengGate' /\ Debtors'
  BY <1>b, <1>10 DEF RecordScreening, ApproveLoan, DisburseLoan, DeferLoan
<1>11. QED
  <2>1. CASE Administration
    BY <2>1, <1>10 DEF Administration, Pause, Unpause, Tick
  <2>2. CASE Registration
    <3>1. ASSUME NEW m \in Members, NEW n \in SavingsAmounts, RecordSavings(m, n)
          PROVE  RentengGate' /\ Debtors'
      BY <3>1, <1>10 DEF RecordSavings
    <3>2. QED
      BY <2>2, <1>1, <1>2, <1>3, <1>a, <3>1 DEF Registration
  <2>3. CASE Lending
    BY <2>3, <1>a, <1>b DEF Lending
  <2>4. CASE Repayment
    BY <2>4, <1>4, <1>5, <1>6, <1>10, ZenonT(60) DEF Repayment, RecordRepayment, Restructure
  <2>5. CASE Standing
    BY <2>5, <1>7, <1>8, <1>9, <1>10 DEF Standing, FileAppeal
  <2>6. QED
    BY <2>1, <2>2, <2>3, <2>4, <2>5, <1>10 DEF Next, vars

\* The gate of a group is closed exactly while it lends talangan, and whoever
\* owes talangan is blocked.
THEOREM GatesCorrect == Spec => []GatesFollowDebt
<1>1. Init => Gates
  BY DEF Init, Gates, RentengGate, Debtors, DebtorBlocked, DebtorRegistered, NoGroup
<1>2. Gates => GatesFollowDebt
  BY DEF Gates, Debtors, GatesFollowDebt
<1>3. QED
  BY <1>1, <1>2, GatesStep, TypeCorrect, PartiesCorrect, PTL DEF Spec

----------------------------------------------------------------------------
(* The receipt *)

\* The receipt of one loan.
ReceiptOf(loan) == [exists |-> loan.exists, memberHash |-> loan.memberHash,
                    status |-> loan.status,
                    installmentStatus |-> loan.installmentStatus]

\* The two setters of the receipt.
LEMMA ReceiptSetters ==
  ASSUME NEW old, NEW new, new.exists = old.exists, new.memberHash = old.memberHash
  PROVE  /\ new.installmentStatus = old.installmentStatus =>
               [ReceiptOf(old) EXCEPT !.status = new.status] = ReceiptOf(new)
         /\ new.status = old.status =>
               [ReceiptOf(old) EXCEPT !.installmentStatus = new.installmentStatus]
                  = ReceiptOf(new)
  BY DEF ReceiptOf

\* One loan is written, and its receipt with it.
LEMMA OneReceipt ==
  ASSUME TypeOK, PositionMirrorsLoan, NEW l \in LoanIds, NEW loan,
         loans' = [loans EXCEPT ![l] = loan],
         positions' = [positions EXCEPT ![l] = ReceiptOf(loan)]
  PROVE  PositionMirrorsLoan'
<1>1. loans \in [LoanIds -> Loan] /\ positions \in [LoanIds -> Position]
  BY DEF TypeOK
<1>2. QED
  BY <1>1 DEF PositionMirrorsLoan, ReceiptOf

\* A loan is written in fields that its receipt does not show.
LEMMA NoReceiptNeeded ==
  ASSUME TypeOK, PositionMirrorsLoan, NEW l \in LoanIds, NEW loan,
         loans' = [loans EXCEPT ![l] = loan], UNCHANGED positions,
         ReceiptOf(loan) = ReceiptOf(loans[l])
  PROVE  PositionMirrorsLoan'
<1>1. loans \in [LoanIds -> Loan]
  BY DEF TypeOK
<1>2. QED
  BY <1>1 DEF PositionMirrorsLoan, ReceiptOf

LEMMA CloseKeepsReceipt ==
  ASSUME TypeOK, PositionMirrorsLoan, NEW l \in LoanIds, NEW loan \in Loan,
         CloseIfComplete(l, loan, ReceiptOf(loan))
  PROVE  PositionMirrorsLoan'
<1>1. [ReceiptOf(loan) EXCEPT !.status = "Lunas"]
         = ReceiptOf([loan EXCEPT !.status = "Lunas"])
  BY DEF ReceiptOf, Loan
<1>2. CASE IsComplete(loan)
  BY <1>1, <1>2, OneReceipt DEF CloseIfComplete
<1>3. CASE ~IsComplete(loan)
  BY <1>3, OneReceipt DEF CloseIfComplete
<1>4. QED
  BY <1>2, <1>3

LEMMA ReceiptStep == TypeOK /\ PositionMirrorsLoan /\ [Next]_vars => PositionMirrorsLoan'
<1> SUFFICES ASSUME TypeOK, PositionMirrorsLoan, [Next]_vars PROVE PositionMirrorsLoan'
  OBVIOUS
<1>t. loans \in [LoanIds -> Loan] /\ positions \in [LoanIds -> Position]
  BY DEF TypeOK
<1>r. \A l \in LoanIds : positions[l] = ReceiptOf(loans[l])
  BY DEF PositionMirrorsLoan, ReceiptOf
<1>u. UNCHANGED <<loans, positions>> => PositionMirrorsLoan'
  BY DEF PositionMirrorsLoan
<1>1. ASSUME NEW g \in Groups, NEW m \in Members, NEW a \in Applications,
             CreateLoan(g, m, a)
      PROVE  PositionMirrorsLoan'
  <2>1. nextLoanId \in LoanIds
    BY <1>1, EscrowConstants DEF CreateLoan, TypeOK, LoanIds
  <2> DEFINE new == [exists |-> TRUE, groupId |-> g, memberHash |-> m,
                     installment |-> a.cicilanBulanan, remainingPeriods |-> a.tenor,
                     talanganOutstanding |-> 0, tenor |-> a.tenor, status |-> "Diajukan",
                     installmentStatus |-> "UNPAID", aiFlag |-> a.flagAi,
                     aiScore |-> a.skorAi, appealOpen |-> FALSE]
  <2>2. ReceiptOf(new) = [exists |-> TRUE, memberHash |-> m, status |-> "Diajukan",
                          installmentStatus |-> "UNPAID"]
    BY DEF ReceiptOf
  <2>3. /\ loans' = [loans EXCEPT ![nextLoanId] = new]
        /\ positions' = [positions EXCEPT ![nextLoanId] = ReceiptOf(new)]
    BY <1>1, <2>2 DEF CreateLoan
  <2>4. QED
    BY <2>1, <2>3, OneReceipt
<1>2. ASSUME NEW l \in LoanIds, NEW s, SetStatus(l, s),
             \/ loans' = [loans EXCEPT ![l].status = s]
             \/ loans' = [loans EXCEPT ![l].status = s, ![l].aiFlag = "MERAH"]
      PROVE  PositionMirrorsLoan'
  <2>1. PICK new : /\ loans' = [loans EXCEPT ![l] = new]
                   /\ new.exists = loans[l].exists
                   /\ new.memberHash = loans[l].memberHash
                   /\ new.status = s
                   /\ new.installmentStatus = loans[l].installmentStatus
    BY <1>2, <1>t DEF Loan
  <2>2. [positions[l] EXCEPT !.status = s] = ReceiptOf(new)
    <3>1. [ReceiptOf(loans[l]) EXCEPT !.status = new.status] = ReceiptOf(new)
      BY <2>1, ReceiptSetters
    <3>2. QED
      BY <1>r, <2>1, <3>1
  <2>3. QED
    BY <1>2, <2>1, <2>2, OneReceipt DEF SetStatus
<1>3. ASSUME NEW l \in LoanIds, NEW s \in Screenings, RecordScreening(l, s)
      PROVE  PositionMirrorsLoan'
  <2> DEFINE new == [loans[l] EXCEPT !.aiScore = s.skorAi, !.aiFlag = s.flagAi]
  <2>1. ReceiptOf(new) = ReceiptOf(loans[l])
    BY <1>t DEF ReceiptOf, Loan
  <2>2. loans' = [loans EXCEPT ![l] = new]
    BY <1>3, <1>t DEF RecordScreening
  <2>3. QED
    BY <1>3, <2>1, <2>2, NoReceiptNeeded DEF RecordScreening
<1>4. ASSUME NEW l \in LoanIds, NEW p \in Periods, PayPeriod(l, p)
      PROVE  PositionMirrorsLoan'
  <2> DEFINE new == [loans[l] EXCEPT !.remainingPeriods = @ - 1,
                                     !.installmentStatus = "PAID"]
  <2>1. loans[l].remainingPeriods - 1 \in Nat
    BY <1>4, <1>t DEF PayPeriod, Loan
  <2>2. new \in Loan
    BY <1>t, <2>1, LoanUpdates
  <2>3. [positions[l] EXCEPT !.installmentStatus = "PAID"] = ReceiptOf(new)
    BY <1>r, <1>t DEF ReceiptOf, Loan
  <2>4. CloseIfComplete(l, new, [positions[l] EXCEPT !.installmentStatus = "PAID"])
    BY <1>4 DEF PayPeriod
  <2> HIDE DEF new
  <2>5. QED
    BY <2>2, <2>3, <2>4, CloseKeepsReceipt
<1>5. ASSUME NEW l \in LoanIds, NEW p \in Periods, NEW r \in Restructures,
             Restructure(l, p, r)
      PROVE  PositionMirrorsLoan'
  <2> DEFINE new == [loans[l] EXCEPT !.installmentStatus = "PAID",
                        !.installment = r.newInstallment,
                        !.remainingPeriods = r.newRemaining]
  <2>1. /\ new.exists = loans[l].exists /\ new.memberHash = loans[l].memberHash
        /\ new.status = loans[l].status /\ new.installmentStatus = "PAID"
    BY <1>t, ZenonT(60) DEF Loan
  <2>2. loans' = [loans EXCEPT ![l] = new]
    BY <1>5, <1>t DEF Restructure
  <2> HIDE DEF new
  <2>3. [positions[l] EXCEPT !.installmentStatus = "PAID"] = ReceiptOf(new)
    <3>1. [ReceiptOf(loans[l]) EXCEPT !.installmentStatus = new.installmentStatus]
             = ReceiptOf(new)
      BY <2>1, ReceiptSetters
    <3>2. QED
      BY <1>r, <2>1, <3>1
  <2>4. QED
    BY <1>5, <2>2, <2>3, OneReceipt DEF Restructure
<1>6. ASSUME NEW l \in LoanIds, NEW p \in Periods, NEW gp \in GracePeriods,
             ActivateRenteng(l, p, gp)
      PROVE  PositionMirrorsLoan'
  <2> DEFINE new == [loans[l] EXCEPT !.installmentStatus = "DITALANGI",
                        !.remainingPeriods = @ - 1,
                        !.talanganOutstanding = @ + loans[l].installment]
  <2>1. \A n, t : ReceiptOf([loans[l] EXCEPT !.installmentStatus = "DITALANGI",
                        !.remainingPeriods = n, !.talanganOutstanding = t])
                  = [ReceiptOf(loans[l]) EXCEPT !.installmentStatus = "DITALANGI"]
    BY <1>t DEF ReceiptOf, Loan
  <2>2. loans' = [loans EXCEPT ![l] = new]
    BY <1>6, <1>t DEF ActivateRenteng
  <2>3. [positions[l] EXCEPT !.installmentStatus = "DITALANGI"] = ReceiptOf(new)
    BY <1>r, <2>1
  <2> HIDE DEF new
  <2>4. QED
    BY <1>6, <2>2, <2>3, OneReceipt DEF ActivateRenteng
<1>7. ASSUME NEW l \in LoanIds, NEW n \in TalanganAmounts, RepayTalangan(l, n)
      PROVE  PositionMirrorsLoan'
  <2> DEFINE new == [loans[l] EXCEPT !.talanganOutstanding = @ - n]
  <2>1. loans[l].talanganOutstanding - n \in Nat
    BY <1>7, <1>t, EscrowArguments DEF RepayTalangan, Loan
  <2>2. new \in Loan
    BY <1>t, <2>1, LoanUpdates
  <2>3. positions[l] = ReceiptOf(new)
    BY <1>r, <1>t DEF ReceiptOf, Loan
  <2>4. CloseIfComplete(l, new, positions[l])
    BY <1>7 DEF RepayTalangan
  <2> HIDE DEF new
  <2>5. QED
    BY <2>2, <2>3, <2>4, CloseKeepsReceipt
<1>8. ASSUME NEW l \in LoanIds, NEW b \in BOOLEAN,
             loans' = [loans EXCEPT ![l].appealOpen = b], UNCHANGED positions
      PROVE  PositionMirrorsLoan'
  <2>1. ReceiptOf([loans[l] EXCEPT !.appealOpen = b]) = ReceiptOf(loans[l])
    BY <1>t DEF ReceiptOf, Loan
  <2>2. QED
    BY <1>8, <2>1, NoReceiptNeeded
<1>9. QED
  <2>1. CASE Administration
    BY <2>1, <1>u DEF Administration, Pause, Unpause, Tick
  <2>2. CASE Registration
    BY <2>2, <1>u DEF Registration, RegisterMember, RegisterGroup, JoinGroup,
       RecordSavings, FundSocialFund
  <2>3. CASE Lending
    BY <2>3, <1>1, <1>2, <1>3 DEF Lending, ApproveLoan, DisburseLoan, DeferLoan
  <2>4. CASE Repayment
    BY <2>4, <1>4, <1>5, <1>6, <1>7 DEF Repayment, RecordRepayment, ApplySocialFund
  <2>5. CASE Standing
    BY <2>5, <1>u, <1>2, <1>8
    DEF Standing, MarkHardship, ClearHardship, ApplySanction, FileAppeal, ResolveAppeal
  <2>6. QED
    BY <1>u, <2>1, <2>2, <2>3, <2>4, <2>5 DEF Next, vars

\* The soulbound receipt of a loan always shows what the escrow holds of it.
THEOREM ReceiptCorrect == Spec => []PositionMirrorsLoan
<1>1. ASSUME Init PROVE PositionMirrorsLoan
  <2>1. \A l \in LoanIds : loans[l] = NoLoan /\ positions[l] = NoPosition
    BY <1>1 DEF Init
  <2>2. NoPosition = ReceiptOf(NoLoan)
    BY DEF NoPosition, NoLoan, ReceiptOf
  <2>3. QED
    BY <2>1, <2>2 DEF PositionMirrorsLoan, ReceiptOf
<1>2. QED
  BY <1>1, ReceiptStep, TypeCorrect, PTL DEF Spec

----------------------------------------------------------------------------
(* The schedule *)

\* createLoan writes the schedule of a new loan: no installment of it can have
\* been settled before.
SettledIsOfALoan ==
    \A l \in LoanIds, p \in Periods : <<l, p>> \in installmentSettled => loans[l].exists

Schedules == BailedOutIsOverdue /\ SettledIsOfALoan

\* What SettledForGood says of one step.
NoneReopened ==
    \A l \in LoanIds, p \in Periods : <<l, p>> \in installmentSettled =>
        /\ <<l, p>> \in installmentSettled'
        /\ installmentStatuses'[l][p] = installmentStatuses[l][p]

\* No operation makes a loan disappear.
NoLoanLost == \A l \in LoanIds : loans[l].exists => loans'[l].exists

LEMMA ScheduleStep ==
  TypeOK /\ LoanParties /\ Schedules /\ [Next]_vars => Schedules' /\ NoneReopened
<1> SUFFICES ASSUME TypeOK, LoanParties, Schedules, [Next]_vars
             PROVE  Schedules' /\ NoneReopened
  OBVIOUS
<1>t. /\ loans \in [LoanIds -> Loan]
      /\ installmentStatuses \in [LoanIds -> [Periods -> InstallmentStatus]]
      /\ installmentDueDate \in [LoanIds -> [Periods -> Nat]]
      /\ now \in Nat
  BY DEF TypeOK
<1>f. ASSUME UNCHANGED schedule, now' \in {now, now + 1}, NoLoanLost
      PROVE  Schedules' /\ NoneReopened
  BY <1>f, <1>t DEF schedule, Schedules, BailedOutIsOverdue, SettledIsOfALoan,
     NoneReopened, NoLoanLost
<1>u. UNCHANGED loans => NoLoanLost
  BY DEF NoLoanLost
<1>s. ASSUME NEW l \in LoanIds, NEW p \in Periods, NEW s, Settle(l, p, s),
             loans[l].exists, <<l, p>> \notin installmentSettled,
             s = "DITALANGI" => now > installmentDueDate[l][p],
             UNCHANGED now, NoLoanLost
      PROVE  Schedules' /\ NoneReopened
  <2>1. \A k \in LoanIds, q \in Periods :
           installmentStatuses'[k][q] = IF k = l /\ q = p THEN s ELSE installmentStatuses[k][q]
    BY <1>s, <1>t DEF Settle
  <2>2. \A k \in LoanIds, q \in Periods :
           <<k, q>> \in installmentSettled' <=>
               <<k, q>> \in installmentSettled \/ (k = l /\ q = p)
    BY <1>s DEF Settle
  <2>3. UNCHANGED <<installmentDueDate, now>>
    BY <1>s DEF Settle
  <2>4. BailedOutIsOverdue'
    BY <1>s, <2>1, <2>2, <2>3 DEF Schedules, BailedOutIsOverdue
  <2>5. SettledIsOfALoan'
    BY <1>s, <2>2 DEF Schedules, SettledIsOfALoan, NoLoanLost
  <2>6. NoneReopened
    BY <1>s, <2>1, <2>2 DEF NoneReopened
  <2>7. QED
    BY <2>4, <2>5, <2>6 DEF Schedules
\* The operations on an existing loan keep it.
<1>k. ASSUME \A k \in LoanIds : SameLoan(loans'[k], loans[k]) PROVE NoLoanLost
  BY <1>k DEF NoLoanLost, SameLoan
<1>1. ASSUME NEW g \in Groups, NEW m \in Members, NEW a \in Applications,
             CreateLoan(g, m, a)
      PROVE  Schedules' /\ NoneReopened
  <2>1. nextLoanId \in LoanIds
    BY <1>1, EscrowConstants DEF CreateLoan, TypeOK, LoanIds
  <2>2. ~loans[nextLoanId].exists
    <3>1. ~(nextLoanId < nextLoanId)
      BY <2>1, EscrowConstants DEF LoanIds
    <3>2. QED
      BY <2>1, <3>1 DEF LoanParties
  <2>3. \A p \in Periods : <<nextLoanId, p>> \notin installmentSettled
    BY <2>1, <2>2 DEF Schedules, SettledIsOfALoan
  <2>4. /\ \A l \in LoanIds : l # nextLoanId => /\ loans'[l] = loans[l]
                                                /\ installmentDueDate'[l] = installmentDueDate[l]
                                                /\ installmentStatuses'[l] = installmentStatuses[l]
        /\ UNCHANGED <<installmentSettled, now>>
    BY <1>1, <1>t DEF CreateLoan
  <2>5. \A p \in Periods : installmentStatuses'[nextLoanId][p]
                              \in {"UNPAID", installmentStatuses[nextLoanId][p]}
    BY <1>1, <1>t, <2>1 DEF CreateLoan
  <2>6. \A p \in Periods : installmentStatuses[nextLoanId][p] # "DITALANGI"
    BY <2>1, <2>3 DEF Schedules, BailedOutIsOverdue
  <2>7. BailedOutIsOverdue'
    <3> SUFFICES ASSUME NEW l \in LoanIds, NEW p \in Periods,
                        installmentStatuses'[l][p] = "DITALANGI"
                 PROVE  /\ <<l, p>> \in installmentSettled'
                        /\ now' > installmentDueDate'[l][p]
      BY DEF BailedOutIsOverdue
    <3>1. l # nextLoanId
      BY <2>5, <2>6
    <3>2. QED
      BY <2>4, <3>1 DEF Schedules, BailedOutIsOverdue
  <2>8. SettledIsOfALoan' /\ NoneReopened
    BY <2>3, <2>4 DEF Schedules, SettledIsOfALoan, NoneReopened
  <2>9. QED
    BY <2>7, <2>8 DEF Schedules
<1>2. ASSUME NEW l \in LoanIds, NEW p \in Periods,
             \/ RecordRepayment(l, p) \/ ApplySocialFund(l, p)
             \/ \E r \in Restructures : Restructure(l, p, r)
      PROVE  Schedules' /\ NoneReopened
  <2>1. NoLoanLost
    BY <1>2, <1>k, LoansKept
  <2>2. /\ Settle(l, p, "PAID") /\ UNCHANGED now
        /\ loans[l].exists /\ <<l, p>> \notin installmentSettled
    BY <1>2 DEF RecordRepayment, ApplySocialFund, Restructure, PayPeriod, IsOpen, InStatus
  <2>3. QED
    BY <1>s, <2>1, <2>2
<1>3. ASSUME NEW l \in LoanIds, NEW p \in Periods, NEW gp \in GracePeriods,
             ActivateRenteng(l, p, gp)
      PROVE  Schedules' /\ NoneReopened
  <2>1. NoLoanLost
    BY <1>3, <1>k, LoansKept
  <2>2. /\ Settle(l, p, "DITALANGI") /\ UNCHANGED now
        /\ loans[l].exists /\ <<l, p>> \notin installmentSettled
    BY <1>3 DEF ActivateRenteng, IsOpen, InStatus
  <2>3. now > installmentDueDate[l][p]
    <3>1. gp \in Nat /\ installmentDueDate[l][p] \in Nat
      BY <1>t, EscrowArguments
    <3>2. QED
      BY <1>3, <1>t, <3>1 DEF ActivateRenteng, IsOverdue
  <2>4. QED
    BY <1>s, <2>1, <2>2, <2>3
<1>4. ASSUME NEW l \in LoanIds,
             \/ \E s \in Screenings : RecordScreening(l, s)
             \/ ApproveLoan(l) \/ DisburseLoan(l) \/ DeferLoan(l)
             \/ \E n \in TalanganAmounts : RepayTalangan(l, n)
             \/ ApplySanction(l)
             \/ \E w \in Appellants : FileAppeal(l, w)
             \/ \E accepted \in BOOLEAN : ResolveAppeal(l, accepted)
      PROVE  Schedules' /\ NoneReopened
  <2>1. NoLoanLost
    BY <1>4, <1>k, LoansKept
  <2>2. UNCHANGED <<schedule, now>>
    BY <1>4 DEF RecordScreening, ApproveLoan, DisburseLoan, DeferLoan, RepayTalangan,
       ApplySanction, FileAppeal, ResolveAppeal
  <2>3. QED
    BY <1>f, <2>1, <2>2
<1>5. QED
  <2>1. CASE Administration
    BY <2>1, <1>f, <1>u DEF Administration, Pause, Unpause, Tick
  <2>2. CASE Registration
    BY <2>2, <1>f, <1>u DEF Registration, RegisterMember, RegisterGroup, JoinGroup,
       RecordSavings, FundSocialFund
  <2>3. CASE Lending
    BY <2>3, <1>1, <1>4 DEF Lending
  <2>4. CASE Repayment
    BY <2>4, <1>2, <1>3, <1>4 DEF Repayment
  <2>5. CASE Standing
    BY <2>5, <1>f, <1>u, <1>4 DEF Standing, MarkHardship, ClearHardship
  <2>6. CASE UNCHANGED vars
    BY <2>6, <1>f, <1>u DEF vars, schedule
  <2>7. QED
    BY <2>1, <2>2, <2>3, <2>4, <2>5, <2>6 DEF Next

LEMMA SchedulesCorrect == Spec => [](TypeOK /\ LoanParties /\ Schedules)
<1>1. ASSUME Init PROVE Schedules
  BY <1>1 DEF Init, Schedules, BailedOutIsOverdue, SettledIsOfALoan
<1>2. QED
  BY <1>1, ScheduleStep, TypeCorrect, PartiesCorrect, PTL DEF Spec

\* The group covers an installment only when it is overdue, and covers it once.
THEOREM BailoutsCorrect == Spec => []BailedOutIsOverdue
<1>1. Schedules => BailedOutIsOverdue
  BY DEF Schedules
<1>2. QED
  BY <1>1, SchedulesCorrect, PTL

\* What is settled stays settled, and how it was settled stays what it was.
THEOREM SettledCorrect == Spec => SettledForGood
<1>1. TypeOK /\ LoanParties /\ Schedules /\ [Next]_vars =>
        [\A l \in LoanIds, p \in Periods : <<l, p>> \in installmentSettled =>
           /\ <<l, p>> \in installmentSettled'
           /\ installmentStatuses'[l][p] = installmentStatuses[l][p]]_vars
  BY ScheduleStep DEF NoneReopened
<1>2. QED
  BY <1>1, SchedulesCorrect, PTL DEF Spec, SettledForGood

----------------------------------------------------------------------------
(* Hardships *)

\* No count is of a year to come, none exceeds the limit, and a member who is
\* not registered yet has none that registering could reset.
Quotas ==
    \A m \in Members :
        /\ members[m].hardshipCount <= HARDSHIP_LIMIT
        /\ members[m].hardshipYear <= Year
        /\ ~members[m].registered => members[m].hardshipCount = 0 /\ members[m].hardshipYear = 0

\* What HardshipQuota says of one step.
QuotaKept(m) ==
    /\ members'[m].hardshipCount <= HARDSHIP_LIMIT
    /\ members'[m].hardshipCount < members[m].hardshipCount =>
          members'[m].hardshipYear > members[m].hardshipYear
    /\ ~members[m].hardship /\ members'[m].hardship =>
          \/ members'[m].hardshipCount > members[m].hardshipCount
          \/ members'[m].hardshipYear > members[m].hardshipYear

\* Time does not run backwards, years included.
LEMMA YearGrows ==
  ASSUME TypeOK, now' \in {now, now + 1}
  PROVE  Year \in Nat /\ Year' \in Nat /\ Year <= Year'
<1>1. now \in Nat /\ YEAR \in Nat \ {0}
  BY EscrowConstants DEF TypeOK
<1>2. \A n \in Nat, y \in Nat \ {0} : n \div y \in Nat
  OBVIOUS
<1>3. ASSUME NEW n \in Nat, NEW y \in Nat \ {0}
      PROVE  n \div y <= (n + 1) \div y
  <2>1. /\ n = y * (n \div y) + (n % y) /\ n % y \in 0..(y - 1)
        /\ n + 1 = y * ((n + 1) \div y) + ((n + 1) % y) /\ (n + 1) % y \in 0..(y - 1)
    OBVIOUS
  <2> DEFINE q == n \div y
             s == (n + 1) \div y
  <2>2. q \in Nat /\ s \in Nat
    BY <1>2
  <2>3. SUFFICES ASSUME q >= s + 1 PROVE FALSE
    BY <2>2
  <2>4. y * q <= n /\ n + 1 < y * s + y
    BY <2>1
  <2> HIDE DEF q, s
  <2>5. y * q >= y * (s + 1)
    BY <2>2, <2>3
  <2>6. y * (s + 1) = y * s + y
    BY <2>2
  <2>7. y * q \in Nat /\ y * s \in Nat
    BY <2>2
  <2>8. QED
    BY <2>4, <2>5, <2>6, <2>7
<1>4. now \div YEAR \in Nat /\ (now + 1) \div YEAR \in Nat
  BY <1>1, <1>2
<1>5. now \div YEAR <= (now + 1) \div YEAR
  BY <1>1, <1>3
<1>6. Year = now \div YEAR /\ Year' = now' \div YEAR
  BY DEF Year
<1>7. Year' = Year \/ Year' = (now + 1) \div YEAR
  BY <1>6
<1> HIDE DEF Year
<1>8. QED
  BY <1>4, <1>5, <1>6, <1>7

LEMMA QuotaStep ==
  ASSUME TypeOK, Quotas, [Next]_vars
  PROVE  Quotas' /\ \A m \in Members : QuotaKept(m)
<1> DEFINE Goal == Quotas' /\ \A m \in Members : QuotaKept(m)
<1> SUFFICES Goal
  OBVIOUS
<1>t. members \in [Members -> Member] /\ HARDSHIP_LIMIT \in Nat
  BY EscrowConstants DEF TypeOK
\* Whatever else a step does to a member, and whatever the clock does.
<1>1. ASSUME NEW k \in Members, NEW new,
             members' = [members EXCEPT ![k] = new],
             new.hardshipCount = members[k].hardshipCount,
             new.hardshipYear = members[k].hardshipYear,
             members[k].registered => new.registered,
             new.hardship => members[k].hardship,
             now' \in {now, now + 1}
      PROVE  Goal
  <2>1. Year \in Nat /\ Year' \in Nat /\ Year <= Year'
    BY <1>1, YearGrows
  <2>2. \A m \in Members : /\ members[m].hardshipCount \in Nat
                           /\ members[m].hardshipYear \in Nat
    BY <1>t DEF Member
  <2>3. \A m \in Members : /\ members'[m].hardshipCount = members[m].hardshipCount
                           /\ members'[m].hardshipYear = members[m].hardshipYear
                           /\ members[m].registered => members'[m].registered
                           /\ members'[m].hardship => members[m].hardship
    BY <1>t, <1>1
  <2>4. QED
    BY <1>t, <2>1, <2>2, <2>3 DEF Quotas, QuotaKept
<1>2. ASSUME UNCHANGED members, now' \in {now, now + 1}
      PROVE  Goal
  <2>1. Year \in Nat /\ Year' \in Nat /\ Year <= Year'
    BY <1>2, YearGrows
  <2>2. \A m \in Members : /\ members[m].hardshipCount \in Nat
                           /\ members[m].hardshipYear \in Nat
    BY <1>t DEF Member
  <2>3. QED
    BY <1>t, <1>2, <2>1, <2>2 DEF Quotas, QuotaKept
<1>3. ASSUME NEW m, NEW b, members' = [members EXCEPT ![m].blocked = b], UNCHANGED now
      PROVE  Goal
  <2>1. CASE m \in Members
    <3> DEFINE new == [members[m] EXCEPT !.blocked = b]
    <3>1. /\ members' = [members EXCEPT ![m] = new]
          /\ new.hardshipCount = members[m].hardshipCount
          /\ new.hardshipYear = members[m].hardshipYear
          /\ new.registered = members[m].registered
          /\ new.hardship = members[m].hardship
      BY <1>t, <1>3, <2>1 DEF Member
    <3> HIDE DEF new
    <3>2. QED
      BY <1>1, <1>3, <2>1, <3>1
  <2>2. CASE m \notin Members
    <3>1. members' = members
      BY <1>t, <1>3, <2>2
    <3>2. QED
      BY <1>2, <1>3, <3>1
  <2>3. QED
    BY <2>1, <2>2
<1>4. ASSUME NEW m \in Members, NEW k \in Koperasi, NEW w \in Wallets, RegisterMember(m, k, w)
      PROVE  Goal
  <2> DEFINE new == [NoMember EXCEPT !.registered = TRUE, !.koperasiId = k, !.wallet = w]
  <2>1. /\ members' = [members EXCEPT ![m] = new]
        /\ new.hardshipCount = 0 /\ new.hardshipYear = 0
        /\ new.registered = TRUE /\ new.hardship = FALSE
        /\ ~members[m].registered /\ UNCHANGED now
    BY <1>4 DEF RegisterMember, NoMember
  <2>2. members[m].hardshipCount = 0 /\ members[m].hardshipYear = 0
    BY <2>1 DEF Quotas
  <2> HIDE DEF new
  <2>3. QED
    BY <1>1, <2>1, <2>2
<1>5. ASSUME NEW m \in Members, NEW g \in Groups, MarkHardship(m, g)
      PROVE  Goal
  <2> DEFINE count == HardshipsThisYear(m)
  <2>1. /\ members' = [members EXCEPT ![m].hardship = TRUE, ![m].hardshipYear = Year,
                                      ![m].hardshipCount = count + 1]
        /\ count < HARDSHIP_LIMIT /\ UNCHANGED now /\ members[m].registered
    BY <1>5 DEF MarkHardship
  <2>2. Year \in Nat /\ Year' = Year
    BY <2>1, YearType DEF Year
  <2>3. /\ members[m].hardshipCount \in Nat /\ members[m].hardshipYear \in Nat
        /\ members[m].hardshipYear <= Year
    BY <1>t DEF Member, Quotas
  <2>4. count \in Nat /\ \/ members[m].hardshipYear < Year
                         \/ count = members[m].hardshipCount
    BY <2>2, <2>3 DEF HardshipsThisYear
  <2> HIDE DEF count
  <2>5. /\ members'[m].hardshipYear = Year
        /\ members'[m].hardshipCount = count + 1
        /\ members'[m].registered
        /\ \A k \in Members : k # m => members'[k] = members[k]
    BY <1>t, <2>1 DEF Member
  <2>6. Quotas'
    BY <1>t, <2>1, <2>2, <2>4, <2>5 DEF Quotas
  <2>7. QuotaKept(m)
    BY <1>t, <2>1, <2>2, <2>3, <2>4, <2>5 DEF QuotaKept
  <2>8. \A k \in Members : k # m => QuotaKept(k)
    <3>1. \A k \in Members : members[k].hardshipCount \in Nat /\ members[k].hardshipYear \in Nat
      BY <1>t DEF Member
    <3>2. QED
      BY <1>t, <2>5, <3>1 DEF QuotaKept, Quotas
  <2>9. QED
    BY <2>6, <2>7, <2>8
<1>6. ASSUME NEW m \in Members, NEW g \in Groups, ClearHardship(m, g)
      PROVE  Goal
  <2> DEFINE new == [members[m] EXCEPT !.hardship = FALSE]
  <2>1. /\ members' = [members EXCEPT ![m] = new] /\ UNCHANGED now
        /\ new.hardshipCount = members[m].hardshipCount
        /\ new.hardshipYear = members[m].hardshipYear
        /\ new.registered = members[m].registered
        /\ new.hardship = FALSE
    BY <1>6, <1>t DEF ClearHardship, Member
  <2> HIDE DEF new
  <2>2. QED
    BY <1>1, <2>1
<1> HIDE DEF Goal
<1>7. QED
  <2>1. CASE Administration
    BY <2>1, <1>2 DEF Administration, Pause, Unpause, Tick
  <2>2. CASE Registration
    BY <2>2, <1>2, <1>4 DEF Registration, RegisterGroup, JoinGroup, RecordSavings, FundSocialFund
  <2>3. CASE Lending
    BY <2>3, <1>2, ZenonT(60) DEF Lending, CreateLoan, RecordScreening, ApproveLoan, DisburseLoan, DeferLoan
  <2>4. CASE Repayment
    <3>1. ASSUME NEW l \in LoanIds, NEW p \in Periods, NEW gp \in GracePeriods,
                 ActivateRenteng(l, p, gp)
          PROVE  Goal
      BY <3>1, <1>3 DEF ActivateRenteng
    <3>2. ASSUME NEW l \in LoanIds, NEW n \in TalanganAmounts, RepayTalangan(l, n)
          PROVE  Goal
      <4> DEFINE m == loans[l].memberHash
                 b == members[m].blocked /\ memberTalanganOutstanding[m] # n
      <4>1. members' = [members EXCEPT ![m].blocked = b] /\ UNCHANGED now
        BY <3>2 DEF RepayTalangan, RepayMember
      <4> HIDE DEF m, b
      <4>2. QED
        BY <1>3, <4>1
    <3>3. QED
      BY <2>4, <1>2, <3>1, <3>2, ZenonT(60) DEF Repayment, RecordRepayment, Restructure, ApplySocialFund
  <2>5. CASE Standing
    BY <2>5, <1>2, <1>3, <1>5, <1>6
       DEF Standing, ApplySanction, FileAppeal, ResolveAppeal
  <2>6. QED
    BY <2>1, <2>2, <2>3, <2>4, <2>5, <1>2 DEF Next, vars

\* The quota holds over the turn of any number of years, however often a mark is
\* cleared and set again.
THEOREM QuotaCorrect == Spec => HardshipQuota
<1>1. Init => Quotas
  <2>1. ASSUME Init PROVE Quotas
    <3>1. TypeOK
      BY <2>1, InitTypeOK
    <3>2. Year \in Nat /\ HARDSHIP_LIMIT \in Nat
      BY <3>1, YearType, EscrowConstants
    <3>3. \A m \in Members : members[m].hardshipCount = 0 /\ members[m].hardshipYear = 0
      BY <2>1 DEF Init, NoMember
    <3>4. QED
      BY <3>2, <3>3 DEF Quotas
  <2>2. QED
    BY <2>1
<1>2. TypeOK /\ Quotas /\ [Next]_vars => Quotas'
  BY QuotaStep
<1>3. TypeOK /\ Quotas /\ [Next]_vars =>
         [\A m \in Members :
            /\ members'[m].hardshipCount <= HARDSHIP_LIMIT
            /\ members'[m].hardshipCount < members[m].hardshipCount =>
                  members'[m].hardshipYear > members[m].hardshipYear
            /\ ~members[m].hardship /\ members'[m].hardship =>
                  \/ members'[m].hardshipCount > members[m].hardshipCount
                  \/ members'[m].hardshipYear > members[m].hardshipYear]_vars
  BY QuotaStep DEF QuotaKept
<1>4. QED
  BY <1>1, <1>2, <1>3, TypeCorrect, PTL DEF Spec, HardshipQuota

----------------------------------------------------------------------------
(* Remaining periods and talangan, where nothing is restructured *)

Open(l) == {p \in 1..loans[l].tenor : <<l, p>> \notin installmentSettled}
Covered(l) == {p \in Periods : installmentStatuses[l][p] = "DITALANGI"}

RemainingIsOpen(l) == loans[l].exists => loans[l].remainingPeriods = Cardinality(Open(l))
DebtIsBailedOut(l) ==
    loans[l].talanganOutstanding <= loans[l].installment * Cardinality(Covered(l))

Counts == \A l \in LoanIds : RemainingIsOpen(l) /\ DebtIsBailedOut(l)

LEMMA CountsAre == (Counts <=> RemainingCountsOpen /\ DebtFromBailouts)
BY DEF Counts, RemainingIsOpen, DebtIsBailedOut, Open, Covered,
       RemainingCountsOpen, DebtFromBailouts

LEMMA Finite ==
  ASSUME TypeOK, NEW l \in LoanIds
  PROVE  /\ IsFiniteSet(Open(l)) /\ Cardinality(Open(l)) \in Nat
         /\ IsFiniteSet(Covered(l)) /\ Cardinality(Covered(l)) \in Nat
<1>1. loans[l].tenor \in Nat /\ MAX_TENOR \in Nat
  BY EscrowConstants DEF TypeOK, Loan
<1>2. IsFiniteSet(1..loans[l].tenor) /\ IsFiniteSet(Periods)
  <2>1. \A a, b \in Int : IsFiniteSet(a..b)
    BY FS_Interval
  <2>2. 0 \in Int /\ 1 \in Int /\ loans[l].tenor \in Int /\ MAX_TENOR + 1 \in Int
    BY <1>1
  <2> HIDE DEF LoanIds
  <2>3. QED
    BY <2>1, <2>2 DEF Periods
<1>3. IsFiniteSet(Open(l)) /\ IsFiniteSet(Covered(l))
  <2>1. Open(l) \subseteq 1..loans[l].tenor /\ Covered(l) \subseteq Periods
    BY DEF Open, Covered
  <2>2. QED
    BY <1>2, <2>1, FS_Subset
<1>4. QED
  BY <1>3, FS_CardinalityType

\* A loan whose terms and schedule a step leaves alone.
SameTerms(l) ==
    /\ loans'[l].exists => loans[l].exists
    /\ loans'[l].tenor = loans[l].tenor
    /\ loans'[l].remainingPeriods = loans[l].remainingPeriods
    /\ loans'[l].installment = loans[l].installment
    /\ loans'[l].talanganOutstanding <= loans[l].talanganOutstanding

LEMMA SameCounts ==
  ASSUME TypeOK, TypeOK', NEW l \in LoanIds, RemainingIsOpen(l), DebtIsBailedOut(l),
         SameTerms(l),
         \A p \in Periods : <<l, p>> \in installmentSettled' <=> <<l, p>> \in installmentSettled,
         installmentStatuses'[l] = installmentStatuses[l],
         loans[l].exists => loans[l].tenor \in 1..MAX_TENOR
  PROVE  RemainingIsOpen(l)' /\ DebtIsBailedOut(l)'
<1>1. RemainingIsOpen(l)'
  <2>1. loans[l].exists => Open(l)' = Open(l)
    BY EscrowConstants DEF Open, SameTerms, Periods
  <2>2. QED
    BY <2>1 DEF RemainingIsOpen, SameTerms
<1>2. DebtIsBailedOut(l)'
  <2>1. Covered(l)' = Covered(l)
    BY DEF Covered
  <2>2. /\ loans[l].talanganOutstanding \in Nat /\ loans'[l].talanganOutstanding \in Nat
        /\ loans[l].installment \in Nat /\ Cardinality(Covered(l)) \in Nat
    BY Finite DEF TypeOK, Loan
  <2>3. loans[l].installment * Cardinality(Covered(l)) \in Nat
    BY <2>2
  <2>4. /\ Cardinality(Covered(l))' = Cardinality(Covered(l))
        /\ loans'[l].installment = loans[l].installment
        /\ loans'[l].talanganOutstanding <= loans[l].talanganOutstanding
    BY <2>1 DEF SameTerms
  <2>5. QED
    BY <2>2, <2>3, <2>4 DEF DebtIsBailedOut
<1>3. QED
  BY <1>1, <1>2

\* An open installment is settled, and its amount becomes talangan if the group
\* pays for it.
LEMMA SettledCounts ==
  ASSUME TypeOK, TypeOK', NEW l \in LoanIds, RemainingIsOpen(l), DebtIsBailedOut(l),
         NEW p \in Periods, NEW s \in {"PAID", "DITALANGI"}, Settle(l, p, s),
         loans[l].exists, IsOpen(l, p), loans[l].remainingPeriods > 0,
         installmentStatuses[l][p] # "DITALANGI",
         loans'[l].tenor = loans[l].tenor,
         loans'[l].installment = loans[l].installment,
         loans'[l].remainingPeriods = loans[l].remainingPeriods - 1,
         loans'[l].talanganOutstanding = loans[l].talanganOutstanding +
            (IF s = "DITALANGI" THEN loans[l].installment ELSE 0)
  PROVE  RemainingIsOpen(l)' /\ DebtIsBailedOut(l)'
<1>t. /\ loans[l].tenor \in Nat /\ loans[l].remainingPeriods \in Nat
      /\ loans[l].talanganOutstanding \in Nat /\ loans[l].installment \in Nat
      /\ MAX_TENOR \in Nat
      /\ installmentStatuses \in [LoanIds -> [Periods -> InstallmentStatus]]
  BY EscrowConstants DEF TypeOK, Loan
<1>1. RemainingIsOpen(l)'
  <2>1. p \in Open(l)
    BY <1>t DEF Open, IsOpen, Periods
  <2>2. Open(l)' = Open(l) \ {p}
    BY <1>t DEF Open, Settle
  <2>3. Cardinality(Open(l) \ {p}) = Cardinality(Open(l)) - 1
    BY <2>1, Finite, FS_RemoveElement
  <2>4. Cardinality(Open(l))' = Cardinality(Open(l)) - 1
    BY <2>2, <2>3
  <2>5. QED
    BY <2>4 DEF RemainingIsOpen
<1>2. DebtIsBailedOut(l)'
  <2> DEFINE i == loans[l].installment
             c == Cardinality(Covered(l))
  <2>0. c \in Nat /\ loans[l].talanganOutstanding <= i * c
    BY Finite DEF DebtIsBailedOut
  <2>1. \A q \in Periods : installmentStatuses'[l][q] =
           IF q = p THEN s ELSE installmentStatuses[l][q]
    BY <1>t DEF Settle
  <2>2. CASE s = "PAID"
    <3>1. Covered(l)' = Covered(l)
      BY <2>1, <2>2 DEF Covered
    <3>2. Cardinality(Covered(l))' = c
      BY <3>1
    <3>3. QED
      BY <1>t, <2>0, <2>2, <3>2 DEF DebtIsBailedOut
  <2>3. CASE s = "DITALANGI"
    <3>1. Covered(l)' = Covered(l) \cup {p} /\ p \notin Covered(l)
      BY <2>1, <2>3 DEF Covered
    <3>2. Cardinality(Covered(l) \cup {p}) = c + 1
      BY <3>1, Finite, FS_AddElement
    <3>3. Cardinality(Covered(l))' = c + 1
      BY <3>1, <3>2
    <3>4. loans'[l].talanganOutstanding = loans[l].talanganOutstanding + i
      BY <2>3
    <3>5. i * (c + 1) = i * c + i /\ i * c \in Nat
      BY <1>t, <2>0
    <3>6. loans[l].talanganOutstanding + i <= i * (c + 1)
      <4> HIDE DEF i, c
      <4>1. i \in Nat
        BY <1>t DEF i
      <4>2. QED
        BY <1>t, <2>0, <3>5, <4>1
    <3>7. QED
      BY <3>3, <3>4, <3>6 DEF DebtIsBailedOut
  <2>4. QED
    BY <2>2, <2>3
<1>3. QED
  BY <1>1, <1>2

\* Operations that write no schedule: every loan they write keeps its terms.
NoScheduling ==
    \/ \E l \in LoanIds :
          \/ \E s \in Screenings : RecordScreening(l, s)
          \/ ApproveLoan(l) \/ DisburseLoan(l) \/ DeferLoan(l)
          \/ \E n \in TalanganAmounts : RepayTalangan(l, n)
          \/ ApplySanction(l)
          \/ \E w \in Appellants : FileAppeal(l, w)
          \/ \E accepted \in BOOLEAN : ResolveAppeal(l, accepted)
    \/ UNCHANGED loans

LEMMA TermsKept ==
  ASSUME TypeOK, NoScheduling, NEW l \in LoanIds
  PROVE  SameTerms(l)
<1>t. loans \in [LoanIds -> Loan] /\ TalanganAmounts \subseteq Nat
  BY EscrowArguments DEF TypeOK
<1>1. ASSUME NEW k \in LoanIds, \A j \in LoanIds : j # k => loans'[j] = loans[j],
             loans'[k].exists = loans[k].exists, loans'[k].tenor = loans[k].tenor,
             loans'[k].remainingPeriods = loans[k].remainingPeriods,
             loans'[k].installment = loans[k].installment,
             loans'[k].talanganOutstanding <= loans[k].talanganOutstanding
      PROVE  SameTerms(l)
  <2>1. loans[l].talanganOutstanding \in Nat
    BY <1>t DEF Loan
  <2>2. CASE l = k
    BY <1>1, <2>2 DEF SameTerms
  <2>3. CASE l # k
    BY <1>1, <2>1, <2>3 DEF SameTerms
  <2>4. QED
    BY <2>2, <2>3
<1>2. ASSUME NEW k \in LoanIds,
             \/ \E s \in Screenings : RecordScreening(k, s)
             \/ ApproveLoan(k) \/ DisburseLoan(k) \/ DeferLoan(k)
             \/ ApplySanction(k)
             \/ \E w \in Appellants : FileAppeal(k, w)
             \/ \E accepted \in BOOLEAN : ResolveAppeal(k, accepted)
      PROVE  SameTerms(l)
  <2>1. \/ \E s, f : loans' = [loans EXCEPT ![k].aiScore = s, ![k].aiFlag = f]
        \/ \E s : loans' = [loans EXCEPT ![k].status = s]
        \/ \E s, f : loans' = [loans EXCEPT ![k].status = s, ![k].aiFlag = f]
        \/ \E b : loans' = [loans EXCEPT ![k].appealOpen = b]
    <3>1. ASSUME NEW s \in Screenings, RecordScreening(k, s)
          PROVE  loans' = [loans EXCEPT ![k].aiScore = s.skorAi, ![k].aiFlag = s.flagAi]
      BY <3>1 DEF RecordScreening
    <3>2. CASE ApproveLoan(k) \/ DisburseLoan(k) \/ DeferLoan(k)
      BY <3>2 DEF ApproveLoan, DisburseLoan, DeferLoan
    <3>3. CASE ApplySanction(k)
      BY <3>3 DEF ApplySanction
    <3>4. ASSUME NEW w \in Appellants, FileAppeal(k, w)
          PROVE  loans' = [loans EXCEPT ![k].appealOpen = TRUE]
      BY <3>4 DEF FileAppeal
    <3>5. ASSUME NEW accepted \in BOOLEAN, ResolveAppeal(k, accepted)
          PROVE  loans' = [loans EXCEPT ![k].appealOpen = FALSE]
      BY <3>5 DEF ResolveAppeal
    <3>6. QED
      BY <1>2, <3>1, <3>2, <3>3, <3>4, <3>5
  <2>2. loans[k].talanganOutstanding \in Nat
    BY <1>t DEF Loan
  <2>3. /\ \A j \in LoanIds : j # k => loans'[j] = loans[j]
        /\ loans'[k].exists = loans[k].exists
        /\ loans'[k].tenor = loans[k].tenor
        /\ loans'[k].remainingPeriods = loans[k].remainingPeriods
        /\ loans'[k].installment = loans[k].installment
        /\ loans'[k].talanganOutstanding = loans[k].talanganOutstanding
    <3>1. CASE \E s, f : loans' = [loans EXCEPT ![k].aiScore = s, ![k].aiFlag = f]
      BY <1>t, <3>1 DEF Loan
    <3>2. CASE \E s : loans' = [loans EXCEPT ![k].status = s]
      BY <1>t, <3>2 DEF Loan
    <3>3. CASE \E s, f : loans' = [loans EXCEPT ![k].status = s, ![k].aiFlag = f]
      BY <1>t, <3>3 DEF Loan
    <3>4. CASE \E b : loans' = [loans EXCEPT ![k].appealOpen = b]
      BY <1>t, <3>4 DEF Loan
    <3>5. QED
      BY <2>1, <3>1, <3>2, <3>3, <3>4
  <2>4. QED
    BY <1>1, <2>2, <2>3
<1>3. ASSUME NEW k \in LoanIds, NEW n \in TalanganAmounts, RepayTalangan(k, n)
      PROVE  SameTerms(l)
  <2> DEFINE loan == [loans[k] EXCEPT !.talanganOutstanding = @ - n]
  <2>1. /\ loan.exists = loans[k].exists
        /\ loan.tenor = loans[k].tenor
        /\ loan.remainingPeriods = loans[k].remainingPeriods
        /\ loan.installment = loans[k].installment
        /\ loan.talanganOutstanding = loans[k].talanganOutstanding - n
    BY <1>t DEF Loan
  <2>2. /\ loans[k].talanganOutstanding \in Nat /\ n \in Nat
        /\ n <= loans[k].talanganOutstanding
    BY <1>3, <1>t DEF Loan, RepayTalangan
  <2>3. loan \in Loan
    <3>1. loans[k].talanganOutstanding - n \in Nat
      BY <2>2
    <3>2. QED
      BY <1>t, <3>1, LoanUpdates
  <2>4. CloseIfComplete(k, loan, positions[k])
    BY <1>3 DEF RepayTalangan
  <2> HIDE DEF loan
  <2>5. loans' = [loans EXCEPT ![k] = loan]
        \/ loans' = [loans EXCEPT ![k] = [loan EXCEPT !.status = "Lunas"]]
    BY <2>4 DEF CloseIfComplete
  <2>6. /\ \A j \in LoanIds : j # k => loans'[j] = loans[j]
        /\ loans'[k].exists = loan.exists
        /\ loans'[k].tenor = loan.tenor
        /\ loans'[k].remainingPeriods = loan.remainingPeriods
        /\ loans'[k].installment = loan.installment
        /\ loans'[k].talanganOutstanding = loan.talanganOutstanding
    BY <1>t, <2>3, <2>5 DEF Loan
  <2>7. loans'[k].talanganOutstanding <= loans[k].talanganOutstanding
    BY <2>1, <2>2, <2>6
  <2>8. QED
    BY <1>1, <2>1, <2>6, <2>7
<1>4. CASE UNCHANGED loans
  <2>1. loans[l].talanganOutstanding \in Nat
    BY <1>t DEF Loan
  <2>2. QED
    BY <1>4, <2>1 DEF SameTerms
<1>5. QED
  BY <1>2, <1>3, <1>4 DEF NoScheduling

\* createLoan: a new schedule, of which nothing is settled.
LEMMA CreatedCounts ==
  ASSUME TypeOK, TypeOK', LoanParties, LoanParties', Schedules, Counts,
         NEW g \in Groups, NEW m \in Members, NEW a \in Applications, CreateLoan(g, m, a)
  PROVE  Counts'
<1>t. /\ loans \in [LoanIds -> Loan]
      /\ installmentStatuses \in [LoanIds -> [Periods -> InstallmentStatus]]
  BY DEF TypeOK
<1>1. nextLoanId \in LoanIds
  BY EscrowConstants DEF CreateLoan, TypeOK, LoanIds
<1>2. ~loans[nextLoanId].exists
  <2>1. ~(nextLoanId < nextLoanId)
    BY <1>1, EscrowConstants DEF LoanIds
  <2>2. QED
    BY <1>1, <2>1 DEF LoanParties
<1>3. \A p \in Periods : <<nextLoanId, p>> \notin installmentSettled
  BY <1>1, <1>2 DEF Schedules, SettledIsOfALoan
<1>4. ASSUME NEW l \in LoanIds
      PROVE  RemainingIsOpen(l)' /\ DebtIsBailedOut(l)'
  <2>1. CASE l = nextLoanId
    <3>1. /\ loans'[l].tenor = a.tenor /\ loans'[l].remainingPeriods = a.tenor
          /\ loans'[l].talanganOutstanding = 0
          /\ loans'[l].installment \in Nat
          /\ a.tenor \in Nat /\ a.tenor <= MAX_TENOR
          /\ UNCHANGED installmentSettled
      <4>1. loans'[l].installment \in Nat
        BY DEF TypeOK, Loan
      <4>2. QED
        BY <1>1, <1>t, <2>1, <4>1, EscrowArguments DEF CreateLoan
    <3>2. 1..a.tenor \subseteq Periods
      BY <3>1, EscrowConstants DEF Periods
    <3>3. Open(l)' = 1..a.tenor
      BY <1>3, <2>1, <3>1, <3>2 DEF Open
    <3>4. Cardinality(1..a.tenor) = a.tenor
      <4>1. 1 \in Int /\ a.tenor \in Int
        BY <3>1
      <4>2. Cardinality(1..a.tenor) = IF 1 > a.tenor THEN 0 ELSE a.tenor - 1 + 1
        BY <4>1, FS_Interval
      <4>3. QED
        BY <3>1, <4>2
    <3>5. RemainingIsOpen(l)'
      BY <3>1, <3>3, <3>4 DEF RemainingIsOpen
    <3>6. Cardinality(Covered(l))' \in Nat
      <4>1. IsFiniteSet(Periods)
        <5>1. 0 \in Int /\ MAX_TENOR + 1 \in Int
          BY EscrowConstants
        <5>2. QED
          BY <5>1, FS_Interval DEF Periods
      <4>2. Covered(l)' \subseteq Periods
        BY DEF Covered
      <4>3. IsFiniteSet(Covered(l)')
        BY <4>1, <4>2, FS_Subset
      <4>4. QED
        BY <4>3, FS_CardinalityType
    <3>7. loans'[l].installment * Cardinality(Covered(l))' \in Nat
      BY <3>1, <3>6
    <3>8. DebtIsBailedOut(l)'
      BY <3>1, <3>7 DEF DebtIsBailedOut
    <3>9. QED
      BY <3>5, <3>8
  <2>2. CASE l # nextLoanId
    <3>1. /\ loans'[l] = loans[l] /\ UNCHANGED installmentSettled
          /\ installmentStatuses'[l] = installmentStatuses[l]
      BY <1>t, <2>2 DEF CreateLoan
    <3>2. loans[l].talanganOutstanding \in Nat
      BY <1>t DEF Loan
    <3>3. SameTerms(l)
      BY <3>1, <3>2 DEF SameTerms
    <3>4. loans[l].exists => loans[l].tenor \in 1..MAX_TENOR
      BY DEF LoanParties
    <3>5. RemainingIsOpen(l) /\ DebtIsBailedOut(l)
      BY DEF Counts
    <3>6. QED
      BY <3>1, <3>3, <3>4, <3>5, SameCounts
  <2>3. QED
    BY <2>1, <2>2
<1>5. QED
  BY <1>4 DEF Counts

\* An installment is paid, by the member or the social fund, or bailed out.
LEMMA SettlingCounts ==
  ASSUME TypeOK, TypeOK', LoanParties, Schedules, Counts,
         NEW k \in LoanIds, NEW p \in Periods,
         \/ RecordRepayment(k, p) \/ ApplySocialFund(k, p)
         \/ \E gp \in GracePeriods : ActivateRenteng(k, p, gp)
  PROVE  Counts'
<1>t. /\ loans \in [LoanIds -> Loan]
      /\ installmentStatuses \in [LoanIds -> [Periods -> InstallmentStatus]]
  BY DEF TypeOK
<1>1. PICK s \in {"PAID", "DITALANGI"} :
         /\ Settle(k, p, s)
         /\ \A j \in LoanIds : j # k => loans'[j] = loans[j]
         /\ loans'[k].tenor = loans[k].tenor
         /\ loans'[k].installment = loans[k].installment
         /\ loans'[k].remainingPeriods = loans[k].remainingPeriods - 1
         /\ loans'[k].talanganOutstanding = loans[k].talanganOutstanding +
               (IF s = "DITALANGI" THEN loans[k].installment ELSE 0)
  <2>1. ASSUME PayPeriod(k, p)
        PROVE  /\ Settle(k, p, "PAID")
               /\ \A j \in LoanIds : j # k => loans'[j] = loans[j]
               /\ loans'[k].tenor = loans[k].tenor
               /\ loans'[k].installment = loans[k].installment
               /\ loans'[k].remainingPeriods = loans[k].remainingPeriods - 1
               /\ loans'[k].talanganOutstanding = loans[k].talanganOutstanding
    <3> DEFINE loan == [loans[k] EXCEPT !.remainingPeriods = @ - 1,
                                        !.installmentStatus = "PAID"]
    <3>1. /\ loan.tenor = loans[k].tenor
          /\ loan.installment = loans[k].installment
          /\ loan.remainingPeriods = loans[k].remainingPeriods - 1
          /\ loan.talanganOutstanding = loans[k].talanganOutstanding
      BY <1>t DEF Loan
    <3>2. loan \in Loan
      <4>1. loans[k].remainingPeriods - 1 \in Nat
        BY <1>t, <2>1 DEF PayPeriod, Loan
      <4>2. QED
        BY <1>t, <4>1, LoanUpdates
    <3>3. \E r : CloseIfComplete(k, loan, r)
      BY <2>1 DEF PayPeriod
    <3> HIDE DEF loan
    <3>4. loans' = [loans EXCEPT ![k] = loan]
          \/ loans' = [loans EXCEPT ![k] = [loan EXCEPT !.status = "Lunas"]]
      BY <3>3 DEF CloseIfComplete
    <3>5. /\ \A j \in LoanIds : j # k => loans'[j] = loans[j]
          /\ loans'[k].tenor = loan.tenor
          /\ loans'[k].installment = loan.installment
          /\ loans'[k].remainingPeriods = loan.remainingPeriods
          /\ loans'[k].talanganOutstanding = loan.talanganOutstanding
      BY <1>t, <3>2, <3>4 DEF Loan
    <3>6. Settle(k, p, "PAID")
      BY <2>1 DEF PayPeriod
    <3>7. QED
      BY <3>1, <3>5, <3>6
  <2>2. CASE RecordRepayment(k, p) \/ ApplySocialFund(k, p)
    <3>1. PayPeriod(k, p)
      BY <2>2 DEF RecordRepayment, ApplySocialFund
    <3>2. loans[k].talanganOutstanding + 0 = loans[k].talanganOutstanding
      BY <1>t DEF Loan
    <3>3. QED
      BY <2>1, <3>1, <3>2
  <2>3. ASSUME NEW gp \in GracePeriods, ActivateRenteng(k, p, gp)
        PROVE  /\ Settle(k, p, "DITALANGI")
               /\ \A j \in LoanIds : j # k => loans'[j] = loans[j]
               /\ loans'[k].tenor = loans[k].tenor
               /\ loans'[k].installment = loans[k].installment
               /\ loans'[k].remainingPeriods = loans[k].remainingPeriods - 1
               /\ loans'[k].talanganOutstanding =
                     loans[k].talanganOutstanding + loans[k].installment
    BY <1>t, <2>3 DEF ActivateRenteng, Loan
  <2>4. QED
    BY <2>2, <2>3
<1>2. loans[k].exists /\ IsOpen(k, p) /\ loans[k].remainingPeriods > 0
  BY DEF RecordRepayment, ApplySocialFund, ActivateRenteng, PayPeriod, InStatus
<1>3. installmentStatuses[k][p] # "DITALANGI"
  BY <1>2 DEF IsOpen, Schedules, BailedOutIsOverdue
<1>4. ASSUME NEW l \in LoanIds
      PROVE  RemainingIsOpen(l)' /\ DebtIsBailedOut(l)'
  <2>0. RemainingIsOpen(l) /\ DebtIsBailedOut(l)
    BY DEF Counts
  <2>1. CASE l = k
    BY <1>1, <1>2, <1>3, <2>0, <2>1, SettledCounts
  <2>2. CASE l # k
    <3>1. loans'[l] = loans[l]
      BY <1>1, <2>2
    <3>2. /\ installmentStatuses'[l] = installmentStatuses[l]
          /\ \A q \in Periods :
                <<l, q>> \in installmentSettled' <=> <<l, q>> \in installmentSettled
      BY <1>1, <1>t, <2>2 DEF Settle
    <3>3. loans[l].talanganOutstanding \in Nat
      BY <1>t DEF Loan
    <3>4. SameTerms(l)
      BY <3>1, <3>3 DEF SameTerms
    <3>5. loans[l].exists => loans[l].tenor \in 1..MAX_TENOR
      BY DEF LoanParties
    <3>6. QED
      BY <2>0, <3>2, <3>4, <3>5, SameCounts
  <2>3. QED
    BY <2>1, <2>2
<1>5. QED
  BY <1>4 DEF Counts

LEMMA CountsStep ==
  ASSUME TypeOK, TypeOK', LoanParties, LoanParties', Schedules, Counts,
         Restructures = {}, [Next]_vars
  PROVE  Counts'
<1>1. ASSUME NoScheduling, UNCHANGED schedule PROVE Counts'
  <2> SUFFICES ASSUME NEW l \in LoanIds
               PROVE  RemainingIsOpen(l)' /\ DebtIsBailedOut(l)'
    BY DEF Counts
  <2>1. RemainingIsOpen(l) /\ DebtIsBailedOut(l) /\ SameTerms(l)
    BY <1>1, TermsKept DEF Counts
  <2>2. loans[l].exists => loans[l].tenor \in 1..MAX_TENOR
    BY DEF LoanParties
  <2>3. /\ installmentStatuses'[l] = installmentStatuses[l]
        /\ \A q \in Periods :
              <<l, q>> \in installmentSettled' <=> <<l, q>> \in installmentSettled
    BY <1>1 DEF schedule
  <2>4. QED
    BY <2>1, <2>2, <2>3, SameCounts
<1>2. CASE Administration
  BY <1>1, <1>2 DEF Administration, Pause, Unpause, Tick, NoScheduling
<1>3. CASE Registration
  BY <1>1, <1>3 DEF Registration, RegisterMember, RegisterGroup, JoinGroup, RecordSavings,
     FundSocialFund, NoScheduling
<1>4. CASE Lending
  <2>1. CASE \E g \in Groups, m \in Members, a \in Applications : CreateLoan(g, m, a)
    BY <2>1, CreatedCounts
  <2>2. ASSUME NEW l \in LoanIds,
               \/ \E s \in Screenings : RecordScreening(l, s)
               \/ ApproveLoan(l) \/ DisburseLoan(l) \/ DeferLoan(l)
        PROVE  Counts'
    <3>1. UNCHANGED schedule
      BY <2>2 DEF RecordScreening, ApproveLoan, DisburseLoan, DeferLoan
    <3>2. QED
      BY <1>1, <2>2, <3>1 DEF NoScheduling
  <2>3. QED
    BY <1>4, <2>1, <2>2 DEF Lending
<1>5. CASE Repayment
  <2>1. ASSUME NEW l \in LoanIds, NEW n \in TalanganAmounts, RepayTalangan(l, n)
        PROVE  Counts'
    <3>1. UNCHANGED schedule
      BY <2>1 DEF RepayTalangan
    <3>2. QED
      BY <1>1, <2>1, <3>1 DEF NoScheduling
  <2>2. QED
    BY <1>5, <2>1, SettlingCounts DEF Repayment
<1>6. CASE Standing
  <2>1. CASE \E m \in Members, g \in Groups : MarkHardship(m, g) \/ ClearHardship(m, g)
    BY <1>1, <2>1 DEF MarkHardship, ClearHardship, NoScheduling
  <2>2. ASSUME NEW l \in LoanIds,
               \/ ApplySanction(l)
               \/ \E w \in Appellants : FileAppeal(l, w)
               \/ \E accepted \in BOOLEAN : ResolveAppeal(l, accepted)
        PROVE  Counts'
    <3>1. UNCHANGED schedule
      BY <2>2 DEF ApplySanction, FileAppeal, ResolveAppeal
    <3>2. QED
      BY <1>1, <2>2, <3>1 DEF NoScheduling
  <2>3. QED
    BY <1>6, <2>1, <2>2 DEF Standing
<1>7. CASE UNCHANGED vars
  BY <1>1, <1>7 DEF vars, schedule, NoScheduling
<1>8. QED
  BY <1>2, <1>3, <1>4, <1>5, <1>6, <1>7 DEF Next

LEMMA InitCounts == Init => Counts
<1> SUFFICES ASSUME Init, NEW l \in LoanIds
             PROVE  RemainingIsOpen(l) /\ DebtIsBailedOut(l)
  BY DEF Counts
<1>1. loans[l].talanganOutstanding = 0 /\ loans[l].installment = 0 /\ ~loans[l].exists
  BY DEF Init, NoLoan
<1>2. Cardinality(Covered(l)) \in Nat
  BY InitTypeOK, Finite
<1>3. 0 * Cardinality(Covered(l)) = 0
  BY <1>2
<1>4. QED
  BY <1>1, <1>3 DEF RemainingIsOpen, DebtIsBailedOut

LEMMA CountsCorrect == Spec => [](Restructures = {} => Counts)
<1> DEFINE Inv == Restructures = {} => Counts
<1>1. Init => Inv
  BY InitCounts
<1>2. TypeOK /\ TypeOK' /\ LoanParties /\ LoanParties' /\ Schedules /\ Inv /\ [Next]_vars
         => Inv'
  BY CountsStep
<1>3. Inv => (Restructures = {} => Counts)
  OBVIOUS
<1> HIDE DEF Inv
<1>4. QED
  BY <1>1, <1>2, <1>3, SchedulesCorrect, PTL DEF Spec

\* Where no loan is restructured, the counter that decides when a loan closes is
\* the number of installments of its schedule that are still open, and its
\* talangan comes to no more than the installments that the group covered.
THEOREM CountersCorrect == Spec => [](Restructures = {} => CountersFollowSchedule)
<1>1. (Restructures = {} => Counts) => (Restructures = {} => CountersFollowSchedule)
  BY CountsAre DEF CountersFollowSchedule
<1>2. QED
  BY <1>1, CountsCorrect, PTL
============================================================================
