------------------ MODULE TanggungRentengLiability_proofs ------------------
(***************************************************************************)
(* Theorems about joint liability: what each step does to a loan, the      *)
(* stages a loan takes, the three records of a debt, who pays an           *)
(* installment, and that the escrow implements JointLiability.             *)
(***************************************************************************)
EXTENDS TanggungRentengEscrow_proofs, TanggungRentengRefinement, Amounts_proofs

USE DEF LoanStatus, InstallmentStatus, AIFlag, Contracts

----------------------------------------------------------------------------
(* What a step may do to one loan *)

\* The gate that a loan passes to be asked for, approved and disbursed.
Gate(loan) == ~members[loan.memberHash].blocked /\ ~groups[loan.groupId].rentengActive

Kept(old, new) ==
    /\ old.exists /\ new.exists
    /\ new.groupId = old.groupId /\ new.memberHash = old.memberHash

\* Neither a group's total nor a member's moves.
TotalsStay ==
    /\ \A g \in Groups : groups'[g].talanganOutstanding = groups[g].talanganOutstanding
    /\ UNCHANGED memberTalanganOutstanding

\* The totals of its group and of its member move as the loan's debt does.
TotalsFollow(old, new) ==
    /\ \A g \in Groups : groups'[g].talanganOutstanding = groups[g].talanganOutstanding +
          IF g = old.groupId THEN new.talanganOutstanding - old.talanganOutstanding ELSE 0
    /\ \A m \in Members : memberTalanganOutstanding'[m] = memberTalanganOutstanding[m] +
          IF m = old.memberHash THEN new.talanganOutstanding - old.talanganOutstanding ELSE 0

Asked(old, new) ==
    /\ ~old.exists /\ new.exists
    /\ <<new.groupId, new.memberHash>> \in groupMembers
    /\ Gate(new)
    /\ new.status = "Diajukan" /\ new.talanganOutstanding = 0
    /\ TotalsStay

Unmoved(old, new) ==
    /\ Kept(old, new)
    /\ new.status = old.status
    /\ new.talanganOutstanding = old.talanganOutstanding
    /\ new.remainingPeriods = old.remainingPeriods
    /\ TotalsStay

Moved(old, new) ==
    /\ Kept(old, new)
    /\ \/ old.status = "Diajukan" /\ new.status = "Disetujui" /\ Gate(old)
       \/ old.status = "Disetujui" /\ new.status = "Cair" /\ Gate(old)
       \/ old.status = "Diajukan" /\ new.status = "Ditunda"
       \/ new.status = "Mangkir"
    /\ new.talanganOutstanding = old.talanganOutstanding
    /\ TotalsStay

StaysOrCloses(old, new) ==
    \/ new.status = old.status
    \/ /\ new.status = "Lunas"
       /\ new.remainingPeriods = 0 /\ new.talanganOutstanding = 0

Paid(old, new) ==
    /\ Kept(old, new)
    /\ old.status = "Cair"
    /\ new.talanganOutstanding = old.talanganOutstanding
    /\ StaysOrCloses(old, new)
    /\ TotalsStay

BailedOut(old, new) ==
    /\ Kept(old, new)
    /\ old.status = "Cair" /\ new.status = "Cair"
    /\ new.talanganOutstanding > old.talanganOutstanding
    /\ TotalsFollow(old, new)

Repaid(old, new) ==
    /\ Kept(old, new)
    /\ new.talanganOutstanding < old.talanganOutstanding
    /\ StaysOrCloses(old, new)
    /\ TotalsFollow(old, new)

NewlySettles(l, how) ==
    \E p \in Periods : <<l, p>> \notin installmentSettled /\ Settle(l, p, how)

\* createLoan writes the schedule of the new loan and of no other.
NewSchedule(l) ==
    /\ UNCHANGED installmentSettled
    /\ \A k \in LoanIds : k # l => installmentStatuses'[k] = installmentStatuses[k]

\* The record of a loan becomes the given one.
Change(l, new) ==
    /\ loans' = [loans EXCEPT ![l] = new]
    /\ \/ Asked(loans[l], new) /\ NewSchedule(l)
       \/ Unmoved(loans[l], new) /\ UNCHANGED schedule
       \/ Moved(loans[l], new) /\ UNCHANGED schedule
       \/ Paid(loans[l], new) /\ NewlySettles(l, "PAID")
       \/ BailedOut(loans[l], new) /\ NewlySettles(l, "DITALANGI")
       \/ Repaid(loans[l], new) /\ UNCHANGED schedule

\* No loan changes; a group that is registered starts without talangan.
NoChange ==
    /\ UNCHANGED <<loans, schedule, memberTalanganOutstanding>>
    /\ \A g \in Groups :
          \/ groups'[g].talanganOutstanding = groups[g].talanganOutstanding
          \/ ~groups[g].exists /\ groups'[g].talanganOutstanding = 0

\* A loan is written and closed if nothing of it is left.
LEMMA CloseChange ==
  ASSUME TypeOK, NEW l \in LoanIds, NEW loan \in Loan, NEW position,
         CloseIfComplete(l, loan, position), loan.status = loans[l].status,
         Kept(loans[l], loan)
  PROVE  \E new : /\ loans' = [loans EXCEPT ![l] = new]
                  /\ Kept(loans[l], new)
                  /\ new.talanganOutstanding = loan.talanganOutstanding
                  /\ StaysOrCloses(loans[l], new)
<1>1. CASE IsComplete(loan)
  <2> DEFINE new == [loan EXCEPT !.status = "Lunas"]
  <2>1. loans' = [loans EXCEPT ![l] = new]
    BY <1>1 DEF CloseIfComplete
  <2>2. /\ Kept(loans[l], new)
        /\ new.talanganOutstanding = loan.talanganOutstanding
        /\ StaysOrCloses(loans[l], new)
    BY <1>1 DEF IsComplete, StaysOrCloses, Kept, Loan
  <2> HIDE DEF new
  <2>3. QED
    BY <2>1, <2>2
<1>2. CASE ~IsComplete(loan)
  BY <1>2 DEF CloseIfComplete, StaysOrCloses
<1>3. QED
  BY <1>1, <1>2

\* A fund is not a debt.
LEMMA FundIsNoDebt ==
  ASSUME TypeOK, NEW g, NEW n, groups' = [groups EXCEPT ![g].socialFundBalance = n]
  PROVE  \A h \in Groups : groups'[h].talanganOutstanding = groups[h].talanganOutstanding
<1>1. groups \in [Groups -> Group]
  BY DEF TypeOK
<1>2. QED
  BY <1>1 DEF Group

LEMMA Changes ==
  ASSUME TypeOK, LoanParties, [Next]_vars
  PROVE  NoChange \/ \E l \in LoanIds : \E new : Change(l, new)
<1> DEFINE Goal == NoChange \/ \E l \in LoanIds : \E new : Change(l, new)
<1>t. /\ loans \in [LoanIds -> Loan]
      /\ groups \in [Groups -> Group]
      /\ memberTalanganOutstanding \in [Members -> Nat]
  BY DEF TypeOK
<1>u. ASSUME UNCHANGED <<loans, schedule, groups, memberTalanganOutstanding>>
      PROVE  Goal
  BY <1>u DEF NoChange
<1>s. UNCHANGED <<groups, memberTalanganOutstanding>> => TotalsStay
  BY DEF TotalsStay
<1>1. ASSUME NEW g \in Groups, NEW m \in Members, NEW a \in Applications,
             CreateLoan(g, m, a)
      PROVE  Goal
  <2>1. nextLoanId \in LoanIds
    BY <1>1, EscrowConstants DEF CreateLoan, TypeOK, LoanIds
  <2>2. ~loans[nextLoanId].exists
    <3>1. ~(nextLoanId < nextLoanId)
      BY <2>1, EscrowConstants DEF LoanIds
    <3>2. QED
      BY <2>1, <3>1 DEF LoanParties
  <2> DEFINE new == [exists |-> TRUE, groupId |-> g, memberHash |-> m,
                     installment |-> a.cicilanBulanan, remainingPeriods |-> a.tenor,
                     talanganOutstanding |-> 0, tenor |-> a.tenor, status |-> "Diajukan",
                     installmentStatus |-> "UNPAID", aiFlag |-> a.flagAi,
                     aiScore |-> a.skorAi, appealOpen |-> FALSE]
  <2>3. /\ loans' = [loans EXCEPT ![nextLoanId] = new]
        /\ new.exists /\ new.status = "Diajukan" /\ new.talanganOutstanding = 0
        /\ new.groupId = g /\ new.memberHash = m
    BY <1>1 DEF CreateLoan
  <2> HIDE DEF new
  <2>4. Asked(loans[nextLoanId], new)
    BY <1>1, <1>s, <2>2, <2>3 DEF Asked, Gate, CreateLoan
  <2>5. NewSchedule(nextLoanId)
    BY <1>1 DEF CreateLoan, NewSchedule, TypeOK
  <2>6. QED
    BY <2>1, <2>3, <2>4, <2>5 DEF Change
\* A status is set: the four ways into one.
<1>2. ASSUME NEW l \in LoanIds, NEW s \in LoanStatus, loans[l].exists,
             \/ loans[l].status = "Diajukan" /\ s = "Disetujui" /\ Gate(loans[l])
             \/ loans[l].status = "Disetujui" /\ s = "Cair" /\ Gate(loans[l])
             \/ loans[l].status = "Diajukan" /\ s = "Ditunda"
             \/ s = "Mangkir",
             \/ loans' = [loans EXCEPT ![l].status = s]
             \/ loans' = [loans EXCEPT ![l].status = s, ![l].aiFlag = "MERAH"],
             UNCHANGED <<schedule, groups, memberTalanganOutstanding>>
      PROVE  Goal
  <2> DEFINE new == loans'[l]
  <2>1. loans' = [loans EXCEPT ![l] = new]
    <3>1. CASE loans' = [loans EXCEPT ![l].status = s]
      BY <3>1, <1>t
    <3>2. CASE loans' = [loans EXCEPT ![l].status = s, ![l].aiFlag = "MERAH"]
      BY <3>2, <1>t
    <3>3. QED
      BY <1>2, <3>1, <3>2
  <2>2. /\ Kept(loans[l], new) /\ new.status = s
        /\ new.talanganOutstanding = loans[l].talanganOutstanding
    <3>1. loans[l] \in Loan /\ new \in {[loans[l] EXCEPT !.status = s],
                                        [loans[l] EXCEPT !.status = s, !.aiFlag = "MERAH"]}
      BY <1>2, <1>t
    <3> HIDE DEF new
    <3>2. QED
      BY <1>2, <3>1 DEF Loan, Kept
  <2> HIDE DEF new
  <2>3. Moved(loans[l], new)
    BY <1>2, <1>s, <2>2 DEF Moved
  <2>4. QED
    BY <1>2, <2>1, <2>3 DEF Change
\* Fields that say nothing of stage or debt.
<1>3. ASSUME NEW l \in LoanIds, NEW new, loans' = [loans EXCEPT ![l] = new], loans[l].exists,
             Kept(loans[l], new), new.status = loans[l].status,
             new.talanganOutstanding = loans[l].talanganOutstanding,
             new.remainingPeriods = loans[l].remainingPeriods,
             UNCHANGED <<schedule, groups, memberTalanganOutstanding>>
      PROVE  Goal
  BY <1>3, <1>s DEF Change, Unmoved
<1>4. ASSUME NEW l \in LoanIds, NEW s \in Screenings, RecordScreening(l, s)
      PROVE  Goal
  <2> DEFINE new == [loans[l] EXCEPT !.aiScore = s.skorAi, !.aiFlag = s.flagAi]
  <2>1. /\ Kept(loans[l], new) /\ new.status = loans[l].status
        /\ new.talanganOutstanding = loans[l].talanganOutstanding
        /\ new.remainingPeriods = loans[l].remainingPeriods
    BY <1>4, <1>t DEF RecordScreening, Kept, Loan
  <2>2. loans' = [loans EXCEPT ![l] = new]
    BY <1>4, <1>t DEF RecordScreening
  <2> HIDE DEF new
  <2>3. QED
    BY <1>3, <1>4, <2>1, <2>2 DEF RecordScreening
<1>5. ASSUME NEW l \in LoanIds, NEW b \in BOOLEAN, loans[l].exists,
             loans' = [loans EXCEPT ![l].appealOpen = b],
             UNCHANGED <<schedule, groups, memberTalanganOutstanding>>
      PROVE  Goal
  <2> DEFINE new == [loans[l] EXCEPT !.appealOpen = b]
  <2>1. /\ Kept(loans[l], new) /\ new.status = loans[l].status
        /\ new.talanganOutstanding = loans[l].talanganOutstanding
        /\ new.remainingPeriods = loans[l].remainingPeriods
    BY <1>5, <1>t DEF Kept, Loan
  <2>2. loans' = [loans EXCEPT ![l] = new]
    BY <1>5
  <2> HIDE DEF new
  <2>3. QED
    BY <1>3, <1>5, <2>1, <2>2
<1>6. ASSUME NEW l \in LoanIds, NEW p \in Periods,
             PayPeriod(l, p), InStatus(l, "Cair"), IsOpen(l, p), TotalsStay
      PROVE  Goal
  <2> DEFINE loan == [loans[l] EXCEPT !.remainingPeriods = @ - 1,
                                      !.installmentStatus = "PAID"]
  <2>1. loans[l].remainingPeriods - 1 \in Nat
    BY <1>6, <1>t DEF PayPeriod, Loan
  <2>2. loan \in Loan
    BY <1>t, <2>1, LoanUpdates
  <2>3. /\ loan.status = loans[l].status /\ Kept(loans[l], loan)
        /\ loan.talanganOutstanding = loans[l].talanganOutstanding
    BY <1>6, <1>t DEF InStatus, Kept, Loan
  <2>4. CloseIfComplete(l, loan, [positions[l] EXCEPT !.installmentStatus = "PAID"])
    BY <1>6 DEF PayPeriod
  <2> HIDE DEF loan
  <2>5. PICK new : /\ loans' = [loans EXCEPT ![l] = new]
                   /\ Kept(loans[l], new)
                   /\ new.talanganOutstanding = loan.talanganOutstanding
                   /\ StaysOrCloses(loans[l], new)
    BY <2>2, <2>3, <2>4, CloseChange
  <2>6. Paid(loans[l], new)
    BY <1>6, <2>3, <2>5 DEF InStatus, Paid
  <2>7. NewlySettles(l, "PAID")
    BY <1>6 DEF PayPeriod, IsOpen, NewlySettles
  <2>8. QED
    BY <2>5, <2>6, <2>7 DEF Change
<1>7. ASSUME NEW l \in LoanIds, NEW p \in Periods, NEW r \in Restructures,
             Restructure(l, p, r)
      PROVE  Goal
  <2> DEFINE new == [loans[l] EXCEPT !.installmentStatus = "PAID",
                        !.installment = r.newInstallment,
                        !.remainingPeriods = r.newRemaining]
  <2>1. /\ new.exists = loans[l].exists /\ new.status = loans[l].status
        /\ new.groupId = loans[l].groupId /\ new.memberHash = loans[l].memberHash
        /\ new.talanganOutstanding = loans[l].talanganOutstanding
    BY <1>t, ZenonT(60) DEF Loan
  <2>2. loans' = [loans EXCEPT ![l] = new]
    BY <1>7, <1>t DEF Restructure
  <2> HIDE DEF new
  <2>3. Paid(loans[l], new)
    BY <1>7, <1>s, <2>1 DEF Restructure, InStatus, Paid, Kept, StaysOrCloses
  <2>4. NewlySettles(l, "PAID")
    BY <1>7 DEF Restructure, NewlySettles
  <2>5. QED
    BY <2>2, <2>3, <2>4 DEF Change
<1>8. ASSUME NEW l \in LoanIds, NEW p \in Periods, NEW gp \in GracePeriods,
             ActivateRenteng(l, p, gp)
      PROVE  Goal
  <2> DEFINE i == loans[l].installment
             t == loans[l].talanganOutstanding
             g == loans[l].groupId
             m == loans[l].memberHash
             new == [loans[l] EXCEPT !.installmentStatus = "DITALANGI",
                        !.remainingPeriods = @ - 1, !.talanganOutstanding = @ + i]
  <2>1. i \in Nat /\ i > 0 /\ t \in Nat
    BY <1>8, <1>t DEF ActivateRenteng, InStatus, LoanParties, Loan
  <2>2. /\ loans' = [loans EXCEPT ![l] = new]
        /\ new.exists = loans[l].exists /\ new.status = loans[l].status
        /\ new.groupId = g /\ new.memberHash = m
        /\ new.talanganOutstanding = t + i
    BY <1>8, <1>t DEF ActivateRenteng, Loan
  <2> HIDE DEF new
  <2>3. \A h \in Groups : groups'[h].talanganOutstanding =
                             groups[h].talanganOutstanding + IF h = g THEN i ELSE 0
    BY <1>8, <1>t, <2>1 DEF ActivateRenteng, Group
  <2>4. \A n \in Members : memberTalanganOutstanding'[n] =
                              memberTalanganOutstanding[n] + IF n = m THEN i ELSE 0
    BY <1>8, <1>t, <2>1 DEF ActivateRenteng
  <2>5. new.talanganOutstanding - t = i
    BY <2>1, <2>2
  <2>6. TotalsFollow(loans[l], new)
    BY <2>3, <2>4, <2>5 DEF TotalsFollow
  <2>7. BailedOut(loans[l], new)
    BY <1>8, <2>1, <2>2, <2>6 DEF ActivateRenteng, InStatus, BailedOut, Kept
  <2>8. NewlySettles(l, "DITALANGI")
    BY <1>8 DEF ActivateRenteng, IsOpen, NewlySettles
  <2>9. QED
    BY <2>2, <2>7, <2>8 DEF Change
<1>9. ASSUME NEW l \in LoanIds, NEW n \in TalanganAmounts, RepayTalangan(l, n)
      PROVE  Goal
  <2> DEFINE loan == [loans[l] EXCEPT !.talanganOutstanding = @ - n]
             t == loans[l].talanganOutstanding
             g == loans[l].groupId
             m == loans[l].memberHash
  <2>1. n \in Nat /\ n > 0 /\ t \in Nat /\ n <= t
    BY <1>9, <1>t, EscrowArguments DEF RepayTalangan, Loan
  <2>2. loan \in Loan
    <3>1. t - n \in Nat
      BY <2>1
    <3>2. QED
      BY <1>t, <3>1, LoanUpdates
  <2>3. /\ loan.status = loans[l].status /\ Kept(loans[l], loan)
        /\ loan.talanganOutstanding = t - n
    BY <1>9, <1>t DEF RepayTalangan, Kept, Loan
  <2>4. CloseIfComplete(l, loan, positions[l])
    BY <1>9 DEF RepayTalangan
  <2> HIDE DEF loan
  <2>5. PICK new : /\ loans' = [loans EXCEPT ![l] = new]
                   /\ Kept(loans[l], new)
                   /\ new.talanganOutstanding = loan.talanganOutstanding
                   /\ StaysOrCloses(loans[l], new)
    BY <2>2, <2>3, <2>4, CloseChange
  <2>6. \A h \in Groups : groups'[h].talanganOutstanding =
                             groups[h].talanganOutstanding + IF h = g THEN 0 - n ELSE 0
    BY <1>9, <1>t, <2>1 DEF RepayTalangan, RepayGroup, Group
  <2>7. \A k \in Members : memberTalanganOutstanding'[k] =
                              memberTalanganOutstanding[k] + IF k = m THEN 0 - n ELSE 0
    BY <1>9, <1>t, <2>1 DEF RepayTalangan, RepayMember
  <2>8. new.talanganOutstanding - t = 0 - n /\ new.talanganOutstanding < t
    BY <2>1, <2>3, <2>5
  <2>9. TotalsFollow(loans[l], new)
    BY <2>6, <2>7, <2>8 DEF TotalsFollow
  <2>10. Repaid(loans[l], new)
    BY <2>5, <2>8, <2>9 DEF Repaid
  <2>11. UNCHANGED schedule
    BY <1>9 DEF RepayTalangan
  <2>12. QED
    BY <2>5, <2>10, <2>11 DEF Change
<1>10. ASSUME NEW g \in Groups, NEW k \in Koperasi, NEW m \in Members,
              NEW t \in GroupTerms, RegisterGroup(g, k, m, t)
       PROVE  Goal
  <2>1. \A h \in Groups : h # g => groups'[h] = groups[h]
    BY <1>10, <1>t DEF RegisterGroup
  <2>2. groups'[g].talanganOutstanding = 0 /\ ~groups[g].exists
    BY <1>10, <1>t DEF RegisterGroup, NoGroup
  <2>3. UNCHANGED <<loans, schedule, memberTalanganOutstanding>>
    BY <1>10 DEF RegisterGroup
  <2>4. QED
    BY <2>1, <2>2, <2>3 DEF NoChange
<1>11. ASSUME NEW g \in Groups, NEW n \in FundAmounts, FundSocialFund(g, n)
       PROVE  Goal
  BY <1>11, FundIsNoDebt DEF FundSocialFund, NoChange
<1>12. QED
  <2>1. CASE Administration
    BY <2>1, <1>u DEF Administration, Pause, Unpause, Tick
  <2>2. CASE Registration
    <3>1. ASSUME NEW m \in Members,
                 \/ \E k \in Koperasi, w \in Wallets : RegisterMember(m, k, w)
                 \/ \E g \in Groups, c \in InviteCodes : JoinGroup(g, m, c)
                 \/ \E n \in SavingsAmounts : RecordSavings(m, n)
          PROVE  Goal
      BY <3>1, <1>u DEF RegisterMember, JoinGroup, RecordSavings, schedule
    <3>2. QED
      BY <2>2, <3>1, <1>10, <1>11 DEF Registration
  <2>3. CASE Lending
    <3>1. ASSUME NEW l \in LoanIds, ApproveLoan(l) \/ DisburseLoan(l) \/ DeferLoan(l)
          PROVE  Goal
      BY <3>1, <1>2 DEF ApproveLoan, DisburseLoan, DeferLoan, InStatus, MayBorrow,
         Borrower, GroupOf, Gate
    <3>2. QED
      BY <2>3, <1>1, <1>4, <3>1 DEF Lending
  <2>4. CASE Repayment
    <3>1. ASSUME NEW l \in LoanIds, NEW p \in Periods, RecordRepayment(l, p)
          PROVE  Goal
      BY <3>1, <1>6, <1>s DEF RecordRepayment
    <3>2. ASSUME NEW l \in LoanIds, NEW p \in Periods, ApplySocialFund(l, p)
          PROVE  Goal
      <4>1. TotalsStay
        BY <3>2, FundIsNoDebt DEF ApplySocialFund, DebitFund, TotalsStay
      <4>2. QED
        BY <3>2, <4>1, <1>6 DEF ApplySocialFund
    <3>3. QED
      BY <2>4, <3>1, <3>2, <1>7, <1>8, <1>9 DEF Repayment
  <2>5. CASE Standing
    <3>1. ASSUME NEW m \in Members, NEW g \in Groups, MarkHardship(m, g) \/ ClearHardship(m, g)
          PROVE  Goal
      BY <3>1, <1>u DEF MarkHardship, ClearHardship
    <3>2. ASSUME NEW l \in LoanIds, ApplySanction(l)
          PROVE  Goal
      <4>1. /\ loans[l].exists
            /\ loans' = [loans EXCEPT ![l].status = "Mangkir", ![l].aiFlag = "MERAH"]
            /\ UNCHANGED <<schedule, groups, memberTalanganOutstanding>>
        BY <3>2 DEF ApplySanction
      <4>2. QED
        BY <4>1, <1>2
    <3>3. ASSUME NEW l \in LoanIds, NEW w \in Appellants, FileAppeal(l, w)
          PROVE  Goal
      BY <3>3, <1>5 DEF FileAppeal
    <3>4. ASSUME NEW l \in LoanIds, NEW accepted \in BOOLEAN, ResolveAppeal(l, accepted)
          PROVE  Goal
      BY <3>4, <1>5 DEF ResolveAppeal
    <3>5. QED
      BY <2>5, <3>1, <3>2, <3>3, <3>4 DEF Standing
  <2>6. CASE UNCHANGED vars
    BY <2>6, <1>u DEF vars, schedule
  <2>7. QED
    BY <2>1, <2>2, <2>3, <2>4, <2>5, <2>6 DEF Next

----------------------------------------------------------------------------
(* The stages of a loan *)

\* Only a disbursed loan owes talangan, and an id not given out holds nothing.
Stages ==
    /\ ClosedOwesNothing
    /\ \A l \in LoanIds :
          /\ loans[l].talanganOutstanding > 0 => loans[l].status \in {"Cair", "Mangkir"}
          /\ ~loans[l].exists => loans[l] = NoLoan

LEMMA StagesStep ==
  ASSUME TypeOK, LoanParties, Stages, [Next]_vars
  PROVE  /\ Stages'
         /\ \A l \in LoanIds : loans'[l].status # loans[l].status =>
               loans'[l].status \in Successors(loans[l].status)
<1> DEFINE
    \* What the lemma says of one loan.
    Fine(old, new) ==
        /\ new.status = "Lunas" => new.remainingPeriods = 0 /\ new.talanganOutstanding = 0
        /\ new.talanganOutstanding > 0 => new.status \in {"Cair", "Mangkir"}
        /\ ~new.exists => new = NoLoan
        /\ new.status # old.status => new.status \in Successors(old.status)
<1>t. loans \in [LoanIds -> Loan] /\ loans' \in [LoanIds -> Loan]
  BY StepTypeOK DEF TypeOK
<1>1. \A l \in LoanIds : Fine(loans[l], loans[l])
  BY DEF Stages, ClosedOwesNothing
<1>2. ASSUME NEW l \in LoanIds, NEW new, Change(l, new)
      PROVE  Fine(loans[l], new)
  <2> DEFINE old == loans[l]
  <2>1. new = loans'[l]
    BY <1>2, <1>t DEF Change
  <2>2. /\ old.talanganOutstanding \in Nat /\ new.talanganOutstanding \in Nat
        /\ old.status \in LoanStatus /\ new.status \in LoanStatus
    BY <1>t, <2>1 DEF Loan
  <2>3. /\ old.status = "Lunas" => old.remainingPeriods = 0 /\ old.talanganOutstanding = 0
        /\ old.talanganOutstanding > 0 => old.status \in {"Cair", "Mangkir"}
        /\ ~old.exists => old.status = "Diajukan"
    BY DEF Stages, ClosedOwesNothing, NoLoan
  <2>f. SUFFICES Fine(old, new)
    OBVIOUS
  <2> HIDE DEF old
  <2>4. CASE Asked(old, new)
    BY <2>4, <2>2, <2>3 DEF Asked
  <2>5. CASE Unmoved(old, new)
    BY <2>5, <2>3 DEF Unmoved, Kept
  <2>6. CASE Moved(old, new)
    BY <2>6, <2>2, <2>3 DEF Moved, Kept, Successors
  <2>7. CASE Paid(old, new)
    BY <2>7, <2>2, <2>3 DEF Paid, Kept, StaysOrCloses, Successors
  <2>8. CASE BailedOut(old, new)
    BY <2>8, <2>2 DEF BailedOut, Kept
  <2>9. CASE Repaid(old, new)
    BY <2>9, <2>2, <2>3 DEF Repaid, Kept, StaysOrCloses, Successors
  <2>10. QED
    BY <1>2, <2>4, <2>5, <2>6, <2>7, <2>8, <2>9 DEF Change, old
<1>3. \A l \in LoanIds : Fine(loans[l], loans'[l])
  <2>1. CASE NoChange
    BY <2>1, <1>1 DEF NoChange
  <2>2. ASSUME NEW l \in LoanIds, NEW new, Change(l, new)
        PROVE  \A k \in LoanIds : Fine(loans[k], loans'[k])
    <3>1. Fine(loans[l], new)
      BY <2>2, <1>2
    <3>2. \A k \in LoanIds : loans'[k] = IF k = l THEN new ELSE loans[k]
      BY <2>2, <1>t DEF Change
    <3> HIDE DEF Fine
    <3>3. QED
      BY <3>1, <3>2, <1>1
  <2> HIDE DEF Fine
  <2>3. QED
    BY <2>1, <2>2, Changes
<1>4. QED
  BY <1>3 DEF Stages, ClosedOwesNothing

LEMMA StagesCorrect == Spec => [](TypeOK /\ LoanParties /\ Stages)
<1>1. ASSUME Init PROVE Stages
  BY <1>1 DEF Init, Stages, ClosedOwesNothing, NoLoan
<1>2. TypeOK /\ LoanParties /\ Stages /\ [Next]_vars => Stages'
  BY StagesStep
<1>3. QED
  BY <1>1, <1>2, TypeCorrect, PartiesCorrect, PTL DEF Spec

\* A closed loan owes neither installments nor talangan.
THEOREM ClosedCorrect == Spec => []ClosedOwesNothing
<1>1. Stages => ClosedOwesNothing
  BY DEF Stages
<1>2. QED
  BY <1>1, StagesCorrect, PTL

\* A loan never returns to an earlier stage.
THEOREM LifecycleCorrect == Spec => LoanLifecycle
<1>1. TypeOK /\ LoanParties /\ Stages /\ [Next]_vars =>
        [\A l \in LoanIds : loans'[l].status # loans[l].status =>
            loans'[l].status \in Successors(loans[l].status)]_vars
  BY StagesStep
<1>2. QED
  BY <1>1, StagesCorrect, PTL DEF Spec, LoanLifecycle
----------------------------------------------------------------------------
(* The three records of a debt *)

\* The total of a set of loans moves as the debt of the one that changes; a
\* loan without debt may join the set.
LEMMA TotalMoves ==
  ASSUME NEW owed \in [LoanIds -> Nat], NEW owes \in [LoanIds -> Nat],
         NEW S \in SUBSET LoanIds, NEW T \in SUBSET LoanIds, NEW l \in LoanIds,
         T = S \/ (l \notin S /\ T = S \cup {l} /\ owed[l] = 0),
         \A k \in LoanIds : k # l => owes[k] = owed[k]
  PROVE  Cardinality(Coins(owes, T)) =
            Cardinality(Coins(owed, S)) + IF l \in T THEN owes[l] - owed[l] ELSE 0
<1>1. IsFiniteSet(S) /\ IsFiniteSet(T)
  <2>1. IsFiniteSet(LoanIds)
    BY EscrowConstants, FS_Interval DEF LoanIds
  <2>2. QED
    BY <2>1, FS_Subset
<1>2. Coins(owes, T \ {l}) = Coins(owed, S \ {l})
  <2>1. T \ {l} = S \ {l} /\ \A k \in S \ {l} : owes[k] = owed[k]
    OBVIOUS
  <2>2. QED
    BY <2>1, CoinsAgree, ZenonT(60)
<1>3. Cardinality(Coins(owed, S)) \in Nat
  BY <1>1, CoinsFinite, FS_CardinalityType
<1>4. CASE l \notin T
  <2>1. T = S /\ \A k \in S : owes[k] = owed[k]
    BY <1>4
  <2>2. Coins(owes, T) = Coins(owed, S)
    BY <2>1, CoinsAgree
  <2>3. QED
    BY <1>3, <1>4, <2>2
<1>5. CASE l \in T
  <2>1. Cardinality(Coins(owes, T)) = Cardinality(Coins(owes, T \ {l})) + owes[l]
    BY <1>1, <1>5, CoinsSplit
  <2>2. CASE l \in S
    <3>1. /\ Cardinality(Coins(owed, S)) = Cardinality(Coins(owed, S \ {l})) + owed[l]
          /\ Cardinality(Coins(owed, S \ {l})) \in Nat
      BY <1>1, <2>2, CoinsSplit
    <3>2. owed[l] \in Nat /\ owes[l] \in Nat
      OBVIOUS
    <3>3. QED
      BY <1>2, <1>5, <2>1, <3>1, <3>2
  <2>3. CASE l \notin S
    <3>1. S \ {l} = S /\ owed[l] = 0 /\ owes[l] \in Nat
      BY <1>5, <2>3
    <3>2. Cardinality(Coins(owes, T)) = Cardinality(Coins(owed, S)) + owes[l]
      BY <1>2, <2>1, <3>1
    <3>3. QED
      BY <1>3, <1>5, <3>1, <3>2
  <2>4. QED
    BY <2>2, <2>3
<1>6. QED
  BY <1>4, <1>5

\* The loans of a group and the loans of a member.
LoansOfGroup(g) == {l \in LoanIds : loans[l].groupId = g}
LoansOfMember(m) == {l \in LoanIds : loans[l].memberHash = m}

Owed(S) == Cardinality(Coins(debt, S))

LEMMA TotalsAreOwed ==
  /\ TalanganBalanced <=>
        /\ \A g \in Groups : groups[g].talanganOutstanding = Owed(LoansOfGroup(g))
        /\ \A m \in Members : memberTalanganOutstanding[m] = Owed(LoansOfMember(m))
  /\ TalanganBalanced' <=>
        /\ \A g \in Groups : groups'[g].talanganOutstanding = Owed(LoansOfGroup(g))'
        /\ \A m \in Members : memberTalanganOutstanding'[m] = Owed(LoansOfMember(m))'
<1>1. \A S \in SUBSET LoanIds : Rupiah(S) = Coins(debt, S)
  BY DEF Rupiah, Coins, debt
<1>2. \A S \in SUBSET LoanIds : Rupiah(S)' = Coins(debt', S)
  BY DEF Rupiah, Coins, debt
<1>3. QED
  BY <1>1, <1>2 DEF TalanganBalanced, Owed, LoansOfGroup, LoansOfMember

\* How a change of one loan moves what a set of loans owes: a loan joins the
\* loans of its group and of its member when it is asked for.
LEMMA ChangeMoves ==
  ASSUME TypeOK, TypeOK', Stages, NEW l \in LoanIds, NEW new, Change(l, new)
  PROVE  /\ \A g \in Groups : Owed(LoansOfGroup(g))' = Owed(LoansOfGroup(g)) +
               IF g = new.groupId THEN debt'[l] - debt[l] ELSE 0
         /\ \A m \in Members : Owed(LoansOfMember(m))' = Owed(LoansOfMember(m)) +
               IF m = new.memberHash THEN debt'[l] - debt[l] ELSE 0
<1>1. debt \in [LoanIds -> Nat] /\ debt' \in [LoanIds -> Nat]
  BY DEF debt, TypeOK, Loan
<1>2. \A k \in LoanIds : loans'[k] = IF k = l THEN new ELSE loans[k]
  BY DEF Change, TypeOK
<1>3. \A k \in LoanIds : k # l => debt'[k] = debt[k]
  BY <1>2 DEF debt
<1>4. \/ new.groupId = loans[l].groupId /\ new.memberHash = loans[l].memberHash
      \/ /\ loans[l].groupId = None /\ loans[l].memberHash = None /\ debt[l] = 0
  BY DEF Change, Asked, Unmoved, Moved, Paid, BailedOut, Repaid, Kept, Stages, NoLoan, debt
<1>5. ASSUME NEW g \in Groups
      PROVE  Owed(LoansOfGroup(g))' = Owed(LoansOfGroup(g)) +
               IF g = new.groupId THEN debt'[l] - debt[l] ELSE 0
  <2> DEFINE S == LoansOfGroup(g)
             T == {k \in LoanIds : loans'[k].groupId = g}
  <2>1. l \in T <=> g = new.groupId
    BY <1>2
  <2>2. T = S \/ (l \notin S /\ T = S \cup {l} /\ debt[l] = 0)
    BY <1>2, <1>4, EscrowConstants DEF LoansOfGroup
  <2>3. S \in SUBSET LoanIds /\ T \in SUBSET LoanIds
    BY DEF LoansOfGroup
  <2>4. Owed(LoansOfGroup(g))' = Cardinality(Coins(debt', T))
    BY DEF Owed, LoansOfGroup
  <2> HIDE DEF S, T
  <2>5. Cardinality(Coins(debt', T)) =
           Cardinality(Coins(debt, S)) + IF l \in T THEN debt'[l] - debt[l] ELSE 0
    BY <1>1, <1>3, <2>2, <2>3, TotalMoves
  <2>6. QED
    BY <2>1, <2>4, <2>5 DEF Owed, S
<1>6. ASSUME NEW m \in Members
      PROVE  Owed(LoansOfMember(m))' = Owed(LoansOfMember(m)) +
               IF m = new.memberHash THEN debt'[l] - debt[l] ELSE 0
  <2> DEFINE S == LoansOfMember(m)
             T == {k \in LoanIds : loans'[k].memberHash = m}
  <2>1. l \in T <=> m = new.memberHash
    BY <1>2
  <2>2. T = S \/ (l \notin S /\ T = S \cup {l} /\ debt[l] = 0)
    BY <1>2, <1>4, EscrowConstants DEF LoansOfMember
  <2>3. S \in SUBSET LoanIds /\ T \in SUBSET LoanIds
    BY DEF LoansOfMember
  <2>4. Owed(LoansOfMember(m))' = Cardinality(Coins(debt', T))
    BY DEF Owed, LoansOfMember
  <2> HIDE DEF S, T
  <2>5. Cardinality(Coins(debt', T)) =
           Cardinality(Coins(debt, S)) + IF l \in T THEN debt'[l] - debt[l] ELSE 0
    BY <1>1, <1>3, <2>2, <2>3, TotalMoves
  <2>6. QED
    BY <2>1, <2>4, <2>5 DEF Owed, S
<1>7. QED
  BY <1>5, <1>6

LEMMA BalancedStep ==
  ASSUME TypeOK, LoanParties, Stages, TalanganBalanced, [Next]_vars
  PROVE  TalanganBalanced'
<1>t. TypeOK'
  BY StepTypeOK
<1>b. /\ \A g \in Groups : groups[g].talanganOutstanding = Owed(LoansOfGroup(g))
      /\ \A m \in Members : memberTalanganOutstanding[m] = Owed(LoansOfMember(m))
  BY TotalsAreOwed
<1>n. /\ \A g \in Groups : groups[g].talanganOutstanding \in Nat
      /\ \A m \in Members : memberTalanganOutstanding[m] \in Nat
  BY DEF TypeOK, Group
<1>1. CASE NoChange
  <2>1. /\ \A g \in Groups : Owed(LoansOfGroup(g))' = Owed(LoansOfGroup(g))
        /\ \A m \in Members : Owed(LoansOfMember(m))' = Owed(LoansOfMember(m))
    BY <1>1 DEF NoChange, Owed, LoansOfGroup, LoansOfMember, debt
  <2>2. ASSUME NEW g \in Groups, ~groups[g].exists PROVE Owed(LoansOfGroup(g)) = 0
    <3>1. \A l \in LoanIds : loans[l].groupId # g
      <4>1. SUFFICES ASSUME NEW l \in LoanIds, loans[l].groupId = g PROVE FALSE
        OBVIOUS
      <4>2. CASE loans[l].exists
        BY <4>1, <4>2, <2>2 DEF LoanParties, TypeOK
      <4>3. CASE ~loans[l].exists
        BY <4>1, <4>3, EscrowConstants DEF Stages, NoLoan
      <4>4. QED
        BY <4>2, <4>3
    <3>2. Coins(debt, LoansOfGroup(g)) = {}
      BY <3>1 DEF LoansOfGroup, Coins
    <3>3. QED
      BY <3>2, FS_EmptySet DEF Owed
  <2>3. \A g \in Groups : groups'[g].talanganOutstanding = Owed(LoansOfGroup(g))
    BY <1>1, <1>b, <2>2 DEF NoChange
  <2>4. memberTalanganOutstanding' = memberTalanganOutstanding
    BY <1>1 DEF NoChange
  <2>5. QED
    BY <1>b, <2>1, <2>3, <2>4, TotalsAreOwed
<1>2. ASSUME NEW l \in LoanIds, NEW new, Change(l, new)
      PROVE  TalanganBalanced'
  <2> DEFINE d == debt'[l] - debt[l]
  <2>1. /\ debt[l] = loans[l].talanganOutstanding /\ debt[l] \in Nat
        /\ debt'[l] = new.talanganOutstanding /\ debt'[l] \in Nat
    BY <1>2, <1>t DEF Change, debt, TypeOK, Loan
  <2>2. CASE Asked(loans[l], new) \/ Unmoved(loans[l], new) \/ Moved(loans[l], new)
             \/ Paid(loans[l], new)
    <3>1. d = 0 /\ TotalsStay
      BY <2>1, <2>2 DEF Asked, Unmoved, Moved, Paid, Stages, NoLoan
    <3>2. /\ \A g \in Groups : Owed(LoansOfGroup(g))' = Owed(LoansOfGroup(g))
          /\ \A m \in Members : Owed(LoansOfMember(m))' = Owed(LoansOfMember(m))
      BY <1>2, <1>t, <1>b, <1>n, <3>1, ChangeMoves
    <3>3. QED
      BY <1>b, <3>1, <3>2, TotalsAreOwed DEF TotalsStay
  <2>3. CASE BailedOut(loans[l], new) \/ Repaid(loans[l], new)
    <3>1. TotalsFollow(loans[l], new) /\ Kept(loans[l], new)
      BY <2>3 DEF BailedOut, Repaid
    <3>2. /\ \A g \in Groups : groups'[g].talanganOutstanding =
                groups[g].talanganOutstanding + IF g = new.groupId THEN d ELSE 0
          /\ \A m \in Members : memberTalanganOutstanding'[m] =
                memberTalanganOutstanding[m] + IF m = new.memberHash THEN d ELSE 0
      BY <2>1, <3>1 DEF TotalsFollow, Kept
    <3>3. /\ \A g \in Groups : Owed(LoansOfGroup(g))' =
                Owed(LoansOfGroup(g)) + IF g = new.groupId THEN d ELSE 0
          /\ \A m \in Members : Owed(LoansOfMember(m))' =
                Owed(LoansOfMember(m)) + IF m = new.memberHash THEN d ELSE 0
      BY <1>2, <1>t, ChangeMoves
    <3> HIDE DEF d
    <3>4. QED
      BY <1>b, <3>2, <3>3, TotalsAreOwed
  <2>4. QED
    BY <1>2, <2>2, <2>3 DEF Change
<1>3. QED
  BY <1>1, <1>2, Changes

LEMMA DebtsCorrect == Spec => [](TypeOK /\ LoanParties /\ Stages /\ TalanganBalanced)
<1>1. ASSUME Init PROVE TalanganBalanced
  <2>1. /\ \A g \in Groups : groups[g].talanganOutstanding = 0
        /\ \A m \in Members : memberTalanganOutstanding[m] = 0
        /\ \A l \in LoanIds : debt[l] = 0
    BY <1>1 DEF Init, NoGroup, NoLoan, debt
  <2>2. \A S \in SUBSET LoanIds : Coins(debt, S) = {}
    BY <2>1 DEF Coins
  <2>3. \A S \in SUBSET LoanIds : Owed(S) = 0
    BY <2>2, FS_EmptySet DEF Owed
  <2>4. QED
    BY <2>1, <2>3, TotalsAreOwed DEF LoansOfGroup, LoansOfMember
<1>2. TypeOK /\ LoanParties /\ Stages /\ TalanganBalanced /\ [Next]_vars => TalanganBalanced'
  BY BalancedStep
<1>3. QED
  BY <1>1, <1>2, StagesCorrect, PTL DEF Spec

\* The loan, its member and its group always agree on the talangan owed, so no
\* checked subtraction of repayTalangan reverts.
THEOREM BalancedCorrect == Spec => []TalanganBalanced
BY DebtsCorrect, PTL

----------------------------------------------------------------------------
(* What the gates are for *)

BothGates == RentengGate /\ DebtorBlocked

\* While the gate of a group and of a member is open, no loan of either owes.
LEMMA OpenGate ==
  ASSUME TypeOK, TalanganBalanced, RentengGate, DebtorBlocked,
         NEW g \in Groups, NEW m \in Members,
         ~groups[g].rentengActive, ~members[m].blocked
  PROVE  \A k \in LoanIds : loans[k].groupId = g \/ loans[k].memberHash = m =>
            loans[k].talanganOutstanding = 0
<1>1. groups[g].talanganOutstanding = 0 /\ memberTalanganOutstanding[m] = 0
  BY DEF RentengGate, DebtorBlocked, TypeOK, Group
<1>2. Owed(LoansOfGroup(g)) = 0 /\ Owed(LoansOfMember(m)) = 0
  BY <1>1, TotalsAreOwed
<1>3. /\ \A k \in LoanIds : debt[k] = loans[k].talanganOutstanding /\ debt[k] \in Nat
      /\ LoansOfGroup(g) \in SUBSET LoanIds /\ LoansOfMember(m) \in SUBSET LoanIds
  BY DEF debt, TypeOK, Loan, LoansOfGroup, LoansOfMember
<1>4. IsFiniteSet(LoansOfGroup(g)) /\ IsFiniteSet(LoansOfMember(m))
  <2>1. IsFiniteSet(LoanIds)
    BY EscrowConstants, FS_Interval DEF LoanIds
  <2>2. QED
    BY <1>3, <2>1, FS_Subset
<1>5. \A k \in LoansOfGroup(g) : debt[k] = 0
  BY <1>2, <1>3, <1>4, NoCoins DEF Owed
<1>6. \A k \in LoansOfMember(m) : debt[k] = 0
  BY <1>2, <1>3, <1>4, NoCoins DEF Owed
<1>7. QED
  BY <1>3, <1>5, <1>6 DEF LoansOfGroup, LoansOfMember

\* The loans that share a group or a borrower with the loan owe nothing.
DebtFreeFor(loan) ==
    \A k \in LoanIds : loans[k].groupId = loan.groupId \/ loans[k].memberHash = loan.memberHash =>
        loans[k].talanganOutstanding = 0

LEMMA GatePassed ==
  ASSUME TypeOK, LoanParties, TalanganBalanced, BothGates, NEW old, NEW new,
         old.exists => <<old.groupId, old.memberHash>> \in groupMembers
  PROVE  /\ Asked(old, new) => DebtFreeFor(new)
         /\ Moved(old, new) /\ Gate(old) => DebtFreeFor(new)
<1>1. ASSUME NEW loan, <<loan.groupId, loan.memberHash>> \in groupMembers, Gate(loan)
      PROVE  DebtFreeFor(loan)
  <2>1. loan.groupId \in Groups /\ loan.memberHash \in Members
    BY <1>1 DEF TypeOK
  <2>2. ~groups[loan.groupId].rentengActive /\ ~members[loan.memberHash].blocked
    BY <1>1 DEF Gate
  <2>3. QED
    BY <2>1, <2>2, OpenGate DEF DebtFreeFor, BothGates
<1>2. Asked(old, new) => DebtFreeFor(new)
  BY <1>1 DEF Asked
<1>3. Moved(old, new) /\ Gate(old) => DebtFreeFor(new)
  <2> SUFFICES ASSUME Moved(old, new), Gate(old) PROVE DebtFreeFor(new)
    OBVIOUS
  <2>1. DebtFreeFor(old)
    BY <1>1 DEF Moved, Kept
  <2>2. QED
    BY <2>1 DEF DebtFreeFor, Moved, Kept
<1>4. QED
  BY <1>2, <1>3

LEMMA DebtsAndGates == Spec => [](TypeOK /\ LoanParties /\ Stages /\ TalanganBalanced /\ BothGates)
BY DebtsCorrect, GatesCorrect, PTL DEF BothGates, GatesFollowDebt

\* Nobody gets, or is promised, a loan while the group or the borrower owes.
THEOREM NoLendingCorrect == Spec => NoLendingUnderDebt
<1> DEFINE
    Advances(l) ==
        /\ loans'[l].exists
        /\ \/ ~loans[l].exists
           \/ loans'[l].status # loans[l].status /\ loans'[l].status \in {"Disetujui", "Cair"}
    Lends(l) == \A k \in LoanIds :
        \/ loans[k].groupId = loans'[l].groupId
        \/ loans[k].memberHash = loans'[l].memberHash
        => loans[k].talanganOutstanding = 0
<1>1. ASSUME TypeOK, LoanParties, Stages, TalanganBalanced, BothGates, [Next]_vars,
             NEW l \in LoanIds, Advances(l)
      PROVE  Lends(l)
  <2>1. ~NoChange
    BY <1>1 DEF NoChange
  <2>k. PICK k \in LoanIds : \E r : Change(k, r)
    BY <1>1, <2>1, Changes
  <2>2. PICK new : Change(k, new)
    BY <2>k
  <2>3. loans'[l] = IF l = k THEN new ELSE loans[l]
    BY <1>1, <2>2 DEF Change, TypeOK
  <2>4. l = k
    BY <1>1, <2>3
  <2>5. Asked(loans[l], new) \/ (Moved(loans[l], new) /\ Gate(loans[l]))
    BY <1>1, <2>2, <2>3, <2>4 DEF Change, Unmoved, Moved, Paid, BailedOut, Repaid, Kept,
       StaysOrCloses
  <2>6. DebtFreeFor(new)
    BY <1>1, <2>5, GatePassed DEF LoanParties
  <2>7. QED
    BY <2>3, <2>4, <2>6 DEF DebtFreeFor
<1>2. TypeOK /\ LoanParties /\ Stages /\ TalanganBalanced /\ BothGates /\ [Next]_vars =>
        [\A l \in LoanIds : Advances(l) => Lends(l)]_vars
  BY <1>1
<1>3. QED
  BY <1>2, DebtsAndGates, PTL DEF Spec, NoLendingUnderDebt

----------------------------------------------------------------------------
(* Why a member is blocked *)

Sanctioned(m, l) ==
    loans[l].exists /\ loans[l].memberHash = m /\ loans[l].status = "Mangkir"

Reason(m) ==
    memberTalanganOutstanding[m] > 0 \/ \E l \in LoanIds : Sanctioned(m, l)

\* A sanction ends only with the repayment of the last talangan, and talangan
\* only with a repayment.
LEMMA ReasonStays ==
  ASSUME TypeOK, LoanParties, [Next]_vars, NEW m \in Members, Reason(m),
         \A k \in Members : memberTalanganOutstanding'[k] >= memberTalanganOutstanding[k]
  PROVE  Reason(m)'
<1>1. CASE memberTalanganOutstanding[m] > 0
  <2>1. memberTalanganOutstanding' \in [Members -> Nat]
        /\ memberTalanganOutstanding \in [Members -> Nat]
    BY StepTypeOK DEF TypeOK
  <2>2. QED
    BY <1>1, <2>1 DEF Reason
<1>2. ASSUME NEW l \in LoanIds, Sanctioned(m, l)
      PROVE  Reason(m)'
  <2>1. CASE NoChange
    BY <1>2, <2>1 DEF NoChange, Reason, Sanctioned
  <2>2. ASSUME NEW k \in LoanIds, NEW new, Change(k, new)
        PROVE  Reason(m)'
    <3>1. loans'[l] = IF l = k THEN new ELSE loans[l]
      BY <2>2 DEF Change, TypeOK
    <3>2. CASE l # k
      BY <1>2, <3>1, <3>2 DEF Reason, Sanctioned
    <3>3. CASE l = k
      <4>1. ~Repaid(loans[l], new)
        <5>1. loans[l].talanganOutstanding \in Nat /\ memberTalanganOutstanding[m] \in Nat
          BY DEF TypeOK, Loan
        <5>2. SUFFICES ASSUME Repaid(loans[l], new), new.talanganOutstanding \in Nat
                       PROVE  FALSE
          <6>1. loans' \in [LoanIds -> Loan]
            BY StepTypeOK DEF TypeOK
          <6>2. QED
            BY <3>1, <3>3, <6>1 DEF Loan
        <5>3. memberTalanganOutstanding'[m] = memberTalanganOutstanding[m]
                 + (new.talanganOutstanding - loans[l].talanganOutstanding)
          BY <1>2, <5>2 DEF Repaid, TotalsFollow, Sanctioned
        <5>4. new.talanganOutstanding < loans[l].talanganOutstanding
          BY <5>2 DEF Repaid
        <5>5. QED
          BY <5>1, <5>2, <5>3, <5>4
      <4>2. new.exists /\ new.memberHash = m /\ new.status = "Mangkir"
        BY <1>2, <2>2, <3>3, <4>1
           DEF Change, Asked, Unmoved, Moved, Paid, BailedOut, Kept, Sanctioned
      <4>3. QED
        BY <3>1, <3>3, <4>2 DEF Reason, Sanctioned
    <3>4. QED
      BY <3>2, <3>3
  <2>3. QED
    BY <2>1, <2>2, Changes
<1>3. QED
  BY <1>1, <1>2 DEF Reason

LEMMA ReasonStep ==
  ASSUME TypeOK, LoanParties, BlockedForAReason, [Next]_vars
  PROVE  BlockedForAReason'
<1> SUFFICES ASSUME NEW m \in Members, members'[m].blocked
             PROVE  Reason(m)'
  BY DEF BlockedForAReason, Reason, Sanctioned
<1>t. /\ members \in [Members -> Member]
      /\ loans \in [LoanIds -> Loan]
      /\ memberTalanganOutstanding \in [Members -> Nat]
  BY DEF TypeOK
\* No step but those below blocks anybody or lowers anybody's talangan.
<1>1. ASSUME members'[m].blocked => members[m].blocked,
             UNCHANGED memberTalanganOutstanding
      PROVE  Reason(m)'
  <2>1. Reason(m)
    BY <1>1 DEF BlockedForAReason, Reason, Sanctioned
  <2>2. \A k \in Members : memberTalanganOutstanding'[k] >= memberTalanganOutstanding[k]
    BY <1>1, <1>t
  <2>3. QED
    BY <2>1, <2>2, ReasonStays
<1>2. ASSUME NEW l \in LoanIds, NEW p \in Periods, NEW gp \in GracePeriods,
             ActivateRenteng(l, p, gp)
      PROVE  Reason(m)'
  <2> DEFINE b == loans[l].memberHash
             i == loans[l].installment
  <2>1. loans[l].exists /\ i \in Nat /\ i > 0
    BY <1>2, <1>t DEF ActivateRenteng, InStatus, LoanParties, Loan
  <2>2. /\ memberTalanganOutstanding' = [memberTalanganOutstanding EXCEPT ![b] = @ + i]
        /\ members' = [members EXCEPT ![b].blocked = TRUE]
    BY <1>2 DEF ActivateRenteng
  <2>3. CASE m = b
    <3>1. memberTalanganOutstanding'[m] = memberTalanganOutstanding[m] + i
      BY <1>t, <2>2, <2>3
    <3>2. QED
      BY <1>t, <2>1, <3>1 DEF Reason
  <2>4. CASE m # b
    <3>1. members'[m].blocked = members[m].blocked
      BY <1>t, <2>2, <2>4
    <3>2. \A k \in Members : memberTalanganOutstanding'[k] >= memberTalanganOutstanding[k]
      BY <1>t, <2>1, <2>2
    <3>3. Reason(m)
      BY <3>1 DEF BlockedForAReason, Reason, Sanctioned
    <3>4. QED
      BY <3>2, <3>3, ReasonStays
  <2>5. QED
    BY <2>3, <2>4
<1>3. ASSUME NEW l \in LoanIds, NEW n \in TalanganAmounts, RepayTalangan(l, n)
      PROVE  Reason(m)'
  <2> DEFINE b == loans[l].memberHash
             owed == memberTalanganOutstanding[b]
  <2>1. /\ n \in Nat /\ n <= owed
        /\ memberTalanganOutstanding' = [memberTalanganOutstanding EXCEPT ![b] = owed - n]
        /\ members' = [members EXCEPT ![b].blocked = @ /\ owed # n]
    BY <1>3, EscrowArguments DEF RepayTalangan, RepayMember
  <2>2. CASE m = b
    <3>1. owed # n /\ memberTalanganOutstanding'[m] = owed - n /\ owed \in Nat
      BY <1>t, <2>1, <2>2 DEF Member
    <3>2. QED
      BY <2>1, <3>1 DEF Reason
  <2>3. CASE m # b
    <3>1. members'[m].blocked = members[m].blocked
          /\ memberTalanganOutstanding'[m] = memberTalanganOutstanding[m]
      BY <1>t, <2>1, <2>3
    <3>2. Reason(m)
      BY <3>1 DEF BlockedForAReason, Reason, Sanctioned
    <3>3. PICK new : loans' = [loans EXCEPT ![l] = new]
      BY <1>3 DEF RepayTalangan, CloseIfComplete
    <3>4. \A k \in LoanIds : Sanctioned(m, k) => k # l /\ loans'[k] = loans[k]
      BY <1>t, <2>3, <3>3 DEF Sanctioned
    <3>5. QED
      BY <3>1, <3>2, <3>4 DEF Reason, Sanctioned
  <2>4. QED
    BY <2>2, <2>3
<1>4. ASSUME NEW l \in LoanIds, ApplySanction(l)
      PROVE  Reason(m)'
  <2>1. /\ loans[l].exists
        /\ loans' = [loans EXCEPT ![l].status = "Mangkir", ![l].aiFlag = "MERAH"]
        /\ members' = [members EXCEPT ![loans[l].memberHash].blocked = TRUE]
        /\ UNCHANGED memberTalanganOutstanding
    BY <1>4 DEF ApplySanction
  <2>2. CASE m = loans[l].memberHash
    <3>1. loans'[l].exists /\ loans'[l].memberHash = m /\ loans'[l].status = "Mangkir"
      BY <1>t, <2>1, <2>2 DEF Loan
    <3>2. QED
      BY <3>1 DEF Reason, Sanctioned
  <2>3. CASE m # loans[l].memberHash
    <3>1. members'[m].blocked = members[m].blocked
      BY <1>t, <2>1, <2>3
    <3>2. QED
      BY <1>1, <2>1, <3>1
  <2>4. QED
    BY <2>2, <2>3
<1>5. ASSUME NEW k \in Members, NEW c \in Koperasi, NEW w \in Wallets,
             RegisterMember(k, c, w)
      PROVE  Reason(m)'
  <2> DEFINE fresh == [NoMember EXCEPT !.registered = TRUE, !.koperasiId = c, !.wallet = w]
  <2>f. members' = [members EXCEPT ![k] = fresh] /\ fresh.blocked = FALSE
    BY <1>5 DEF RegisterMember, NoMember
  <2> HIDE DEF fresh
  <2>1. PICK new : members' = [members EXCEPT ![k] = new] /\ new.blocked = FALSE
    BY <2>f
  <2>2. UNCHANGED memberTalanganOutstanding
    BY <1>5 DEF RegisterMember
  <2>3. QED
    BY <1>1, <1>t, <2>1, <2>2
<1>6. ASSUME NEW k \in Members, NEW g \in Groups, MarkHardship(k, g) \/ ClearHardship(k, g)
      PROVE  Reason(m)'
  <2>1. PICK new : members' = [members EXCEPT ![k] = new] /\ new.blocked = members[k].blocked
    BY <1>6, <1>t DEF MarkHardship, ClearHardship, Member
  <2>2. UNCHANGED memberTalanganOutstanding
    BY <1>6 DEF MarkHardship, ClearHardship
  <2>3. QED
    BY <1>1, <1>t, <2>1, <2>2
<1>7. ASSUME NEW l \in LoanIds, NEW accepted \in BOOLEAN, ResolveAppeal(l, accepted)
      PROVE  Reason(m)'
  <2>1. members'[m].blocked => members[m].blocked
    BY <1>7, <1>t DEF ResolveAppeal, Member
  <2>2. QED
    BY <1>1, <1>7, <2>1 DEF ResolveAppeal
<1>8. ASSUME UNCHANGED <<members, memberTalanganOutstanding>>
      PROVE  Reason(m)'
  BY <1>1, <1>8
<1>9. QED
  <2>1. CASE Administration
    BY <2>1, <1>8 DEF Administration, Pause, Unpause, Tick
  <2>2. CASE Registration
    BY <2>2, <1>5, <1>8 DEF Registration, RegisterGroup, JoinGroup, RecordSavings, FundSocialFund
  <2>3. CASE Lending
    BY <2>3, <1>8, ZenonT(60) DEF Lending, CreateLoan, RecordScreening, ApproveLoan, DisburseLoan, DeferLoan
  <2>4. CASE Repayment
    BY <2>4, <1>2, <1>3, <1>8 DEF Repayment, RecordRepayment, Restructure, ApplySocialFund
  <2>5. CASE Standing
    BY <2>5, <1>4, <1>6, <1>7, <1>8 DEF Standing, FileAppeal
  <2>6. QED
    BY <2>1, <2>2, <2>3, <2>4, <2>5, <1>8 DEF Next, vars

\* Nobody stays locked out for no reason, in whatever order loans are bailed
\* out, repaid, sanctioned and appealed.
THEOREM BlocksCorrect == Spec => []BlockedForAReason
<1>1. Init => BlockedForAReason
  BY DEF Init, BlockedForAReason, NoMember
<1>2. TypeOK /\ LoanParties /\ BlockedForAReason /\ [Next]_vars => BlockedForAReason'
  BY ReasonStep
<1>3. QED
  BY <1>1, <1>2, TypeCorrect, PartiesCorrect, PTL DEF Spec

----------------------------------------------------------------------------
(* Who pays an installment *)

\* A group that is not registered yet holds no fund that registering it could
\* take away, and a registered member can receive participation units.
FundNeedsGroup == \A g \in Groups : ~groups[g].exists => groups[g].socialFundBalance = 0
WalletKnown == \A m \in Members : members[m].registered => members[m].wallet \in Wallets

\* The two parts of ExactlyOnePayer.
PaidOnce(l) ==
    LET i == loans[l].installment
        g == loans[l].groupId
        w == Borrower(l).wallet
    IN  << balance'[w] - balance[w],
           groups[g].socialFundBalance - groups'[g].socialFundBalance,
           loans'[l].talanganOutstanding - loans[l].talanganOutstanding >>
        \in {<<i, 0, 0>>, <<0, i, 0>>, <<0, 0, i>>} \cup
            {<<0, 0, 0>> : r \in ReliefTerms(l)}

\* The fund of the group is drawn on, or the group lends talangan.
Spends(g) ==
    \/ groups'[g].socialFundBalance < groups[g].socialFundBalance
    \/ groups'[g].talanganOutstanding > groups[g].talanganOutstanding

Payers ==
    /\ \A l \in LoanIds, p \in Periods : NewlySettled(l, p) => PaidOnce(l)
    /\ \A g \in Groups : Spends(g) =>
          \E l \in LoanIds, p \in Periods : loans[l].groupId = g /\ NewlySettled(l, p)

\* An update of the fund of one group moves no other fund and no talangan.
LEMMA FundMoves ==
  ASSUME TypeOK, NEW g \in Groups, NEW n, groups' = [groups EXCEPT ![g].socialFundBalance = n]
  PROVE  /\ groups'[g].socialFundBalance = n
         /\ \A h \in Groups : /\ groups'[h].exists = groups[h].exists
                              /\ groups'[h].talanganOutstanding = groups[h].talanganOutstanding
                              /\ h # g => groups'[h] = groups[h]
<1>1. groups \in [Groups -> Group]
  BY DEF TypeOK
<1>2. QED
  BY <1>1 DEF Group

LEMMA FundNeedsGroupStep ==
  ASSUME TypeOK, LoanParties, FundNeedsGroup, [Next]_vars
  PROVE  FundNeedsGroup'
<1>t. groups \in [Groups -> Group] /\ loans \in [LoanIds -> Loan]
  BY DEF TypeOK
<1>1. ASSUME UNCHANGED groups PROVE FundNeedsGroup'
  BY <1>1 DEF FundNeedsGroup
<1>2. ASSUME NEW g \in Groups, NEW k \in Koperasi, NEW m \in Members,
             NEW t \in GroupTerms, RegisterGroup(g, k, m, t)
      PROVE  FundNeedsGroup'
  BY <1>2, <1>t DEF RegisterGroup, FundNeedsGroup, NoGroup
<1>3. ASSUME NEW g \in Groups, groups[g].exists, NEW n,
             groups' = [groups EXCEPT ![g].socialFundBalance = n]
      PROVE  FundNeedsGroup'
  BY <1>3, FundMoves DEF FundNeedsGroup
<1>4. ASSUME NEW g \in Groups, groups[g].exists, NEW n, NEW b,
             groups' = [groups EXCEPT ![g].talanganOutstanding = n, ![g].rentengActive = b]
      PROVE  FundNeedsGroup'
  <2>1. \A h \in Groups : /\ groups'[h].exists = groups[h].exists
                          /\ groups'[h].socialFundBalance = groups[h].socialFundBalance
    BY <1>4, <1>t DEF Group
  <2>2. QED
    BY <2>1 DEF FundNeedsGroup
<1>5. ASSUME NEW l \in LoanIds, loans[l].exists
      PROVE  loans[l].groupId \in Groups /\ groups[loans[l].groupId].exists
  BY <1>5, ZenonT(60) DEF LoanParties, TypeOK
<1>6. ASSUME NEW g \in Groups, NEW n \in FundAmounts, FundSocialFund(g, n)
      PROVE  FundNeedsGroup'
  BY <1>6, <1>3 DEF FundSocialFund
<1>7. ASSUME NEW l \in LoanIds, NEW p \in Periods, ApplySocialFund(l, p)
      PROVE  FundNeedsGroup'
  BY <1>7, <1>3, <1>5 DEF ApplySocialFund, DebitFund, InStatus
<1>8. ASSUME NEW l \in LoanIds, NEW p \in Periods, NEW gp \in GracePeriods,
             ActivateRenteng(l, p, gp)
      PROVE  FundNeedsGroup'
  BY <1>8, <1>4, <1>5 DEF ActivateRenteng, InStatus
<1>9. ASSUME NEW l \in LoanIds, NEW n \in TalanganAmounts, RepayTalangan(l, n)
      PROVE  FundNeedsGroup'
  BY <1>9, <1>4, <1>5 DEF RepayTalangan, RepayGroup
<1>10. QED
  <2>1. CASE Administration
    BY <2>1, <1>1 DEF Administration, Pause, Unpause, Tick
  <2>2. CASE Registration
    BY <2>2, <1>1, <1>2, <1>6 DEF Registration, RegisterMember, JoinGroup, RecordSavings
  <2>3. CASE Lending
    BY <2>3, <1>1, ZenonT(60) DEF Lending, CreateLoan, RecordScreening, ApproveLoan, DisburseLoan, DeferLoan
  <2>4. CASE Repayment
    BY <2>4, <1>1, <1>7, <1>8, <1>9 DEF Repayment, RecordRepayment, Restructure
  <2>5. CASE Standing
    BY <2>5, <1>1 DEF Standing, MarkHardship, ClearHardship, ApplySanction, FileAppeal, ResolveAppeal
  <2>6. QED
    BY <2>1, <2>2, <2>3, <2>4, <2>5, <1>1 DEF Next, vars

LEMMA WalletKnownStep ==
  ASSUME TypeOK, WalletKnown, [Next]_vars
  PROVE  WalletKnown'
<1>t. members \in [Members -> Member]
  BY DEF TypeOK
<1>1. ASSUME UNCHANGED members PROVE WalletKnown'
  BY <1>1 DEF WalletKnown
<1>2. ASSUME NEW m \in Members, NEW k \in Koperasi, NEW w \in Wallets, RegisterMember(m, k, w)
      PROVE  WalletKnown'
  BY <1>2, <1>t DEF RegisterMember, WalletKnown, NoMember
<1>3. ASSUME NEW m, NEW b, members' = [members EXCEPT ![m].blocked = b]
      PROVE  WalletKnown'
  <2>1. \A h \in Members : /\ members'[h].registered = members[h].registered
                           /\ members'[h].wallet = members[h].wallet
    <3>1. TAKE h \in Members
    <3>2. CASE h = m
      BY <1>3, <1>t, <3>2 DEF Member
    <3>3. CASE h # m
      BY <1>3, <1>t, <3>3
    <3>4. QED
      BY <3>2, <3>3
  <2>2. QED
    BY <2>1 DEF WalletKnown
<1>4. ASSUME NEW m \in Members, NEW g \in Groups, MarkHardship(m, g) \/ ClearHardship(m, g)
      PROVE  WalletKnown'
  BY <1>4, <1>t DEF MarkHardship, ClearHardship, WalletKnown, Member
<1>5. QED
  <2>1. CASE Administration
    BY <2>1, <1>1 DEF Administration, Pause, Unpause, Tick
  <2>2. CASE Registration
    BY <2>2, <1>1, <1>2 DEF Registration, RegisterGroup, JoinGroup, RecordSavings, FundSocialFund
  <2>3. CASE Lending
    BY <2>3, <1>1, ZenonT(60) DEF Lending, CreateLoan, RecordScreening, ApproveLoan, DisburseLoan, DeferLoan
  <2>4. CASE Repayment
    <3>1. ASSUME NEW l \in LoanIds, NEW p \in Periods, NEW gp \in GracePeriods,
                 ActivateRenteng(l, p, gp)
          PROVE  WalletKnown'
      BY <3>1, <1>3 DEF ActivateRenteng
    <3>2. ASSUME NEW l \in LoanIds, NEW n \in TalanganAmounts, RepayTalangan(l, n)
          PROVE  WalletKnown'
      <4> DEFINE m == loans[l].memberHash
                 b == members[m].blocked /\ memberTalanganOutstanding[m] # n
      <4>1. members' = [members EXCEPT ![m].blocked = b]
        BY <3>2 DEF RepayTalangan, RepayMember
      <4> HIDE DEF m, b
      <4>2. QED
        BY <4>1, <1>3
    <3>3. QED
      BY <2>4, <1>1, <3>1, <3>2, ZenonT(60) DEF Repayment, RecordRepayment, ApplySocialFund, Restructure
  <2>5. CASE Standing
    BY <2>5, <1>1, <1>3, <1>4 DEF Standing, ApplySanction, FileAppeal, ResolveAppeal
  <2>6. QED
    BY <2>1, <2>2, <2>3, <2>4, <2>5, <1>1 DEF Next, vars

\* An installment that is settled is the only one, and PaidOnce is about its loan.
LEMMA OneSettled ==
  ASSUME NEW l \in LoanIds, NEW p \in Periods, NEW s, Settle(l, p, s),
         <<l, p>> \notin installmentSettled, PaidOnce(l),
         \A g \in Groups : Spends(g) => g = loans[l].groupId
  PROVE  Payers
<1>1. \A k \in LoanIds, q \in Periods : NewlySettled(k, q) <=> k = l /\ q = p
  BY DEF NewlySettled, Settle
<1>2. QED
  BY <1>1 DEF Payers

\* The payer of a loan: the participation units of the borrower, the fund of the
\* group and the talangan of the loan, as the settling step leaves them.
LEMMA Bill ==
  ASSUME NEW l \in LoanIds, NEW i, i = loans[l].installment,
         NEW g, g = loans[l].groupId, NEW w, w = Borrower(l).wallet,
         NEW a, a = balance'[w] - balance[w],
         NEW b, b = groups[g].socialFundBalance - groups'[g].socialFundBalance,
         NEW c, c = loans'[l].talanganOutstanding - loans[l].talanganOutstanding,
         \/ a = i /\ b = 0 /\ c = 0
         \/ a = 0 /\ b = i /\ c = 0
         \/ a = 0 /\ b = 0 /\ c = i
         \/ a = 0 /\ b = 0 /\ c = 0 /\ ReliefTerms(l) # {}
  PROVE  PaidOnce(l)
BY DEF PaidOnce

\* Paying a period leaves the talangan of the loan as it is.
LEMMA PayPeriodTalangan ==
  ASSUME TypeOK, NEW l \in LoanIds, NEW p \in Periods, PayPeriod(l, p), loans[l].exists
  PROVE  loans'[l].talanganOutstanding = loans[l].talanganOutstanding
<1> DEFINE loan == [loans[l] EXCEPT !.remainingPeriods = @ - 1, !.installmentStatus = "PAID"]
<1>t. loans \in [LoanIds -> Loan]
  BY DEF TypeOK
<1>1. loans[l].remainingPeriods - 1 \in Nat
  BY <1>t DEF PayPeriod, Loan
<1>2. loan \in Loan
  BY <1>t, <1>1, LoanUpdates
<1>3. /\ loan.status = loans[l].status /\ Kept(loans[l], loan)
      /\ loan.talanganOutstanding = loans[l].talanganOutstanding
  BY <1>t DEF Kept, Loan
<1>4. CloseIfComplete(l, loan, [positions[l] EXCEPT !.installmentStatus = "PAID"])
  BY DEF PayPeriod
<1> HIDE DEF loan
<1>5. PICK new : /\ loans' = [loans EXCEPT ![l] = new]
                 /\ new.talanganOutstanding = loan.talanganOutstanding
  BY <1>2, <1>3, <1>4, CloseChange
<1>6. QED
  BY <1>t, <1>3, <1>5

LEMMA PayersStep ==
  ASSUME TypeOK, LoanParties, FundNeedsGroup, WalletKnown, [Next]_vars
  PROVE  Payers
<1>t. /\ groups \in [Groups -> Group]
      /\ loans \in [LoanIds -> Loan]
      /\ balance \in [Wallets -> Nat]
  BY DEF TypeOK
<1>n. \A g \in Groups : /\ groups[g].socialFundBalance \in Nat
                        /\ groups[g].talanganOutstanding \in Nat
  BY <1>t DEF Group
\* Who a loan belongs to.
<1>l. ASSUME NEW l \in LoanIds, loans[l].exists
      PROVE  /\ loans[l].groupId \in Groups
             /\ Borrower(l).wallet \in Wallets
             /\ loans[l].installment \in Nat /\ loans[l].talanganOutstanding \in Nat
  <2>1. /\ <<loans[l].groupId, loans[l].memberHash>> \in groupMembers
    BY <1>l DEF LoanParties
  <2>2. loans[l].groupId \in Groups /\ loans[l].memberHash \in Members
    BY <2>1 DEF TypeOK
  <2>3. members[loans[l].memberHash].registered
    BY <2>1, <2>2 DEF LoanParties
  <2>4. QED
    BY <1>t, <2>2, <2>3 DEF WalletKnown, Borrower, Loan
\* Every operation that settles nothing leaves the funds and the talangan of all
\* groups as they are, or fills a fund, or gives talangan back.
<1>1. ASSUME UNCHANGED installmentSettled, \A g \in Groups : ~Spends(g)
      PROVE  Payers
  BY <1>1 DEF Payers, NewlySettled
<1>2. ASSUME UNCHANGED <<installmentSettled, groups>>
      PROVE  Payers
  BY <1>1, <1>2, <1>n DEF Spends
<1>3. ASSUME NEW g \in Groups, NEW k \in Koperasi, NEW m \in Members,
             NEW t \in GroupTerms, RegisterGroup(g, k, m, t)
      PROVE  Payers
  <2>1. /\ groups[g].socialFundBalance = 0
        /\ groups'[g].socialFundBalance = 0 /\ groups'[g].talanganOutstanding = 0
        /\ \A h \in Groups \ {g} : groups'[h] = groups[h]
    BY <1>3, <1>t DEF RegisterGroup, NoGroup, FundNeedsGroup
  <2>2. \A h \in Groups : ~Spends(h)
    BY <1>n, <2>1 DEF Spends
  <2>3. QED
    BY <1>1, <1>3, <2>2 DEF RegisterGroup, schedule
<1>4. ASSUME NEW g \in Groups, NEW n \in FundAmounts, FundSocialFund(g, n)
      PROVE  Payers
  <2>1. n \in Nat
    BY EscrowArguments
  <2>2. groups' = [groups EXCEPT ![g].socialFundBalance = groups[g].socialFundBalance + n]
    BY <1>4 DEF FundSocialFund
  <2>3. \A h \in Groups : ~Spends(h)
    BY <1>n, <2>1, <2>2, FundMoves DEF Spends
  <2>4. QED
    BY <1>1, <1>4, <2>3 DEF FundSocialFund, schedule
<1>5. ASSUME NEW l \in LoanIds, NEW p \in Periods, RecordRepayment(l, p)
      PROVE  Payers
  <2> DEFINE i == loans[l].installment
             g == loans[l].groupId
             w == Borrower(l).wallet
  <2>1. loans[l].exists /\ <<l, p>> \notin installmentSettled /\ Settle(l, p, "PAID")
    BY <1>5 DEF RecordRepayment, InStatus, IsOpen, PayPeriod
  <2>2. /\ g \in Groups /\ w \in Wallets
        /\ i \in Nat /\ loans[l].talanganOutstanding \in Nat
    BY <1>l, <2>1
  <2>3. balance'[w] = balance[w] + i
    BY <1>5, <1>t, <2>2 DEF RecordRepayment, Mint
  <2>4. UNCHANGED groups
    BY <1>5 DEF RecordRepayment
  <2>5. loans'[l].talanganOutstanding = loans[l].talanganOutstanding
    BY <1>5, <2>1, PayPeriodTalangan DEF RecordRepayment
  <2>6. /\ balance'[w] - balance[w] = i
        /\ groups[g].socialFundBalance - groups'[g].socialFundBalance = 0
        /\ loans'[l].talanganOutstanding - loans[l].talanganOutstanding = 0
    BY <1>t, <1>n, <2>2, <2>3, <2>4, <2>5
  <2>7. PaidOnce(l)
    BY <2>6, Bill
  <2>8. \A h \in Groups : ~Spends(h)
    BY <1>n, <2>4 DEF Spends
  <2>9. QED
    BY <2>1, <2>7, <2>8, OneSettled
<1>6. ASSUME NEW l \in LoanIds, NEW p \in Periods, ApplySocialFund(l, p)
      PROVE  Payers
  <2> DEFINE i == loans[l].installment
             g == loans[l].groupId
             w == Borrower(l).wallet
  <2>1. loans[l].exists /\ <<l, p>> \notin installmentSettled /\ Settle(l, p, "PAID")
    BY <1>6 DEF ApplySocialFund, InStatus, IsOpen, PayPeriod
  <2>2. /\ g \in Groups /\ w \in Wallets
        /\ i \in Nat /\ loans[l].talanganOutstanding \in Nat
    BY <1>l, <2>1
  <2>3. UNCHANGED balance
    BY <1>6 DEF ApplySocialFund
  <2>4. groups' = [groups EXCEPT ![g].socialFundBalance = groups[g].socialFundBalance - i]
    BY <1>6 DEF ApplySocialFund, DebitFund
  <2>5. /\ groups'[g].socialFundBalance = groups[g].socialFundBalance - i
        /\ \A h \in Groups \ {g} : groups'[h] = groups[h]
    BY <2>2, <2>4, FundMoves
  <2>6. loans'[l].talanganOutstanding = loans[l].talanganOutstanding
    BY <1>6, <2>1, PayPeriodTalangan DEF ApplySocialFund
  <2>7. /\ balance'[w] - balance[w] = 0
        /\ groups[g].socialFundBalance - groups'[g].socialFundBalance = i
        /\ loans'[l].talanganOutstanding - loans[l].talanganOutstanding = 0
    BY <1>t, <1>n, <2>2, <2>3, <2>5, <2>6
  <2>8. PaidOnce(l)
    BY <2>7, Bill
  <2>9. \A h \in Groups : Spends(h) => h = g
    BY <1>n, <2>5 DEF Spends
  <2>10. QED
    BY <2>1, <2>8, <2>9, OneSettled
<1>7. ASSUME NEW l \in LoanIds, NEW p \in Periods, NEW r \in Restructures,
             Restructure(l, p, r)
      PROVE  Payers
  <2> DEFINE g == loans[l].groupId
             w == Borrower(l).wallet
  <2>1. loans[l].exists /\ <<l, p>> \notin installmentSettled /\ Settle(l, p, "PAID")
    BY <1>7 DEF Restructure, InStatus
  <2>2. g \in Groups /\ w \in Wallets /\ loans[l].talanganOutstanding \in Nat
    BY <1>l, <2>1
  <2>3. /\ loans'[l].installment = r.newInstallment
        /\ loans'[l].remainingPeriods = r.newRemaining
        /\ loans'[l].talanganOutstanding = loans[l].talanganOutstanding
    BY <1>7, <1>t DEF Restructure, Loan
  <2>4. r \in ReliefTerms(l)
    BY <1>7, <2>3 DEF Restructure, ReliefTerms
  <2>5. UNCHANGED <<groups, balance>>
    BY <1>7 DEF Restructure
  <2>6. /\ balance'[w] - balance[w] = 0
        /\ groups[g].socialFundBalance - groups'[g].socialFundBalance = 0
        /\ loans'[l].talanganOutstanding - loans[l].talanganOutstanding = 0
    BY <1>t, <1>n, <2>2, <2>3, <2>5
  <2>7. PaidOnce(l)
    BY <2>4, <2>6, Bill
  <2>8. \A h \in Groups : ~Spends(h)
    BY <1>n, <2>5 DEF Spends
  <2>9. QED
    BY <2>1, <2>7, <2>8, OneSettled
<1>8. ASSUME NEW l \in LoanIds, NEW p \in Periods, NEW gp \in GracePeriods,
             ActivateRenteng(l, p, gp)
      PROVE  Payers
  <2> DEFINE i == loans[l].installment
             g == loans[l].groupId
             w == Borrower(l).wallet
  <2>1. loans[l].exists /\ <<l, p>> \notin installmentSettled /\ Settle(l, p, "DITALANGI")
    BY <1>8 DEF ActivateRenteng, InStatus, IsOpen
  <2>2. /\ g \in Groups /\ w \in Wallets
        /\ i \in Nat /\ loans[l].talanganOutstanding \in Nat
    BY <1>l, <2>1
  <2>3. UNCHANGED balance
    BY <1>8 DEF ActivateRenteng
  <2>4. /\ groups'[g].socialFundBalance = groups[g].socialFundBalance
        /\ \A h \in Groups \ {g} : groups'[h] = groups[h]
    BY <1>8, <1>t, <2>2 DEF ActivateRenteng, Group
  <2>5. loans'[l].talanganOutstanding = loans[l].talanganOutstanding + i
    BY <1>8, <1>t DEF ActivateRenteng, Loan
  <2>6. /\ balance'[w] - balance[w] = 0
        /\ groups[g].socialFundBalance - groups'[g].socialFundBalance = 0
        /\ loans'[l].talanganOutstanding - loans[l].talanganOutstanding = i
    BY <1>t, <1>n, <2>2, <2>3, <2>4, <2>5
  <2>7. PaidOnce(l)
    BY <2>6, Bill
  <2>8. \A h \in Groups : Spends(h) => h = g
    BY <1>n, <2>4 DEF Spends
  <2>9. QED
    BY <2>1, <2>7, <2>8, OneSettled
<1>9. ASSUME NEW l \in LoanIds, NEW n \in TalanganAmounts, RepayTalangan(l, n)
      PROVE  Payers
  <2> DEFINE g == loans[l].groupId
             lent == groups[g].talanganOutstanding
  <2>1. /\ loans[l].exists /\ n \in Nat /\ n <= lent
        /\ groups' = [groups EXCEPT ![g].talanganOutstanding = lent - n,
                                    ![g].rentengActive = @ /\ lent # n]
        /\ UNCHANGED installmentSettled
    BY <1>9, EscrowArguments DEF RepayTalangan, RepayGroup, schedule
  <2>2. g \in Groups
    BY <1>l, <2>1
  <2>3. /\ groups'[g].socialFundBalance = groups[g].socialFundBalance
        /\ groups'[g].talanganOutstanding = lent - n
        /\ \A h \in Groups \ {g} : groups'[h] = groups[h]
    BY <1>t, <2>1, <2>2 DEF Group
  <2>4. \A h \in Groups : ~Spends(h)
    <3>1. ~Spends(g)
      <4>1. lent \in Nat /\ groups[g].socialFundBalance \in Nat
        BY <1>n, <2>2
      <4>2. ~(lent - n > lent) /\ ~(groups[g].socialFundBalance < groups[g].socialFundBalance)
        BY <2>1, <4>1
      <4> HIDE DEF g, lent
      <4>3. QED
        BY <2>3, <4>2 DEF Spends, lent
    <3>2. \A h \in Groups \ {g} : ~Spends(h)
      BY <1>n, <2>3 DEF Spends
    <3>3. QED
      BY <3>1, <3>2
  <2>5. QED
    BY <1>1, <2>1, <2>4
<1>10. QED
  <2>1. CASE Administration
    BY <2>1, <1>2 DEF Administration, Pause, Unpause, Tick, schedule
  <2>2. CASE Registration
    BY <2>2, <1>2, <1>3, <1>4 DEF Registration, RegisterMember, JoinGroup, RecordSavings, schedule
  <2>3. CASE Lending
    BY <2>3, <1>2, ZenonT(60) DEF Lending, CreateLoan, RecordScreening, ApproveLoan, DisburseLoan,
       DeferLoan, schedule
  <2>4. CASE Repayment
    BY <2>4, <1>5, <1>6, <1>7, <1>8, <1>9 DEF Repayment
  <2>5. CASE Standing
    BY <2>5, <1>2 DEF Standing, MarkHardship, ClearHardship, ApplySanction, FileAppeal,
       ResolveAppeal, schedule
  <2>6. QED
    BY <2>1, <2>2, <2>3, <2>4, <2>5, <1>2 DEF Next, vars

LEMMA FundsAndWallets == Spec => [](TypeOK /\ LoanParties /\ FundNeedsGroup /\ WalletKnown)
<1>1. Init => FundNeedsGroup /\ WalletKnown
  BY DEF Init, FundNeedsGroup, WalletKnown, NoGroup, NoMember
<1>2. TypeOK /\ LoanParties /\ FundNeedsGroup /\ WalletKnown /\ [Next]_vars
         => FundNeedsGroup' /\ WalletKnown'
  BY FundNeedsGroupStep, WalletKnownStep
<1>3. QED
  BY <1>1, <1>2, TypeCorrect, PartiesCorrect, PTL DEF Spec

\* Whichever operation settles an installment, exactly one source pays for it and
\* for exactly its amount, and no fund or talangan moves for anything else.
THEOREM PayerCorrect == Spec => ExactlyOnePayer
<1>1. TypeOK /\ LoanParties /\ FundNeedsGroup /\ WalletKnown /\ [Next]_vars => [Payers]_vars
  BY PayersStep
<1>2. Payers =>
        /\ \A l \in LoanIds, p \in Periods : NewlySettled(l, p) =>
             LET i == loans[l].installment
                 g == loans[l].groupId
                 w == Borrower(l).wallet
             IN  << balance'[w] - balance[w],
                    groups[g].socialFundBalance - groups'[g].socialFundBalance,
                    loans'[l].talanganOutstanding - loans[l].talanganOutstanding >>
                 \in {<<i, 0, 0>>, <<0, i, 0>>, <<0, 0, i>>} \cup
                     {<<0, 0, 0>> : r \in ReliefTerms(l)}
        /\ \A g \in Groups :
             \/ groups'[g].socialFundBalance < groups[g].socialFundBalance
             \/ groups'[g].talanganOutstanding > groups[g].talanganOutstanding
             => \E l \in LoanIds, p \in Periods :
                   loans[l].groupId = g /\ NewlySettled(l, p)
  BY Zenon DEF Payers, PaidOnce, Spends
<1>3. QED
  BY <1>1, <1>2, FundsAndWallets, PTL DEF Spec, ExactlyOnePayer

----------------------------------------------------------------------------
(* The escrow implements JointLiability: every step of it changes the record *)
(* of one loan, and each change is a step of the abstract specification or   *)
(* leaves stages, parties, outcomes and debts alone.                         *)

Known ==
    /\ TypeOK /\ LoanParties /\ Stages /\ Schedules /\ TalanganBalanced /\ BothGates

LEMMA KnownCorrect == Spec => []Known
BY DebtsAndGates, SchedulesCorrect, PTL DEF Known

LEMMA InitImplements ==
  ASSUME Init
  PROVE  Liability!Init
BY DEF Init, NoLoan, stage, parties, outcome, debt, Liability!Init, Liability!Nobody

----------------------------------------------------------------------------
(* What a change of one loan's record does to each abstract variable *)

StageOf(loan) == IF loan.exists THEN loan.status ELSE None

LEMMA Images ==
  ASSUME TypeOK, NEW l \in LoanIds, NEW new, Change(l, new)
  PROVE  /\ stage' = [stage EXCEPT ![l] = StageOf(new)]
         /\ parties' = [parties EXCEPT ![l] = [group |-> new.groupId, member |-> new.memberHash]]
         /\ debt' = [debt EXCEPT ![l] = new.talanganOutstanding]
<1>1. loans' = [loans EXCEPT ![l] = new] /\ loans \in [LoanIds -> Loan]
  BY DEF Change, TypeOK
<1>2. QED
  BY <1>1 DEF stage, parties, debt, StageOf

\* A loan that keeps its parties keeps them in the abstract state.
LEMMA PartiesKept ==
  ASSUME TypeOK, NEW l \in LoanIds, NEW new, Change(l, new), Kept(loans[l], new)
  PROVE  UNCHANGED parties
<1>1. parties' = [parties EXCEPT ![l] = [group |-> new.groupId, member |-> new.memberHash]]
  BY Images
<1>2. parties[l] = [group |-> new.groupId, member |-> new.memberHash]
  BY DEF Kept, parties
<1>3. parties = [k \in LoanIds |-> parties[k]]
  BY DEF parties
<1>4. QED
  BY <1>1, <1>2, <1>3

\* The outcome of an installment: the status counts only once it is settled.
OutcomeOf(l, p, settled, statuses) ==
    CASE <<l, p>> \notin settled -> "Open"
      [] statuses[l][p] = "DITALANGI" /\ <<l, p>> \in settled -> "Bailed"
      [] OTHER -> "Paid"

LEMMA OutcomeFacts ==
  /\ outcome = [l \in LoanIds |-> [p \in Periods |->
                  OutcomeOf(l, p, installmentSettled, installmentStatuses)]]
  /\ outcome' = [l \in LoanIds |-> [p \in Periods |->
                  OutcomeOf(l, p, installmentSettled', installmentStatuses')]]
BY DEF outcome, OutcomeOf

\* The schedule of a loan that is asked for holds no settled installment.
LEMMA OutcomeOfNew ==
  ASSUME SettledIsOfALoan, NEW l \in LoanIds, ~loans[l].exists, NewSchedule(l)
  PROVE  UNCHANGED outcome
<1>1. \A k \in LoanIds, p \in Periods :
         OutcomeOf(k, p, installmentSettled', installmentStatuses') =
         OutcomeOf(k, p, installmentSettled, installmentStatuses)
  BY DEF SettledIsOfALoan, NewSchedule, OutcomeOf
<1>2. QED
  BY <1>1, OutcomeFacts

LEMMA OutcomeSettles ==
  ASSUME TypeOK, NEW l \in LoanIds, NEW p \in Periods, <<l, p>> \notin installmentSettled,
         NEW how \in {"PAID", "DITALANGI"}, Settle(l, p, how)
  PROVE  /\ outcome[l][p] = "Open"
         /\ outcome' = [outcome EXCEPT ![l][p] = IF how = "PAID" THEN "Paid" ELSE "Bailed"]
<1> DEFINE word == IF how = "PAID" THEN "Paid" ELSE "Bailed"
           O(k, q) == OutcomeOf(k, q, installmentSettled, installmentStatuses)
           P(k, q) == OutcomeOf(k, q, installmentSettled', installmentStatuses')
<1>1. O(l, p) = "Open"
  BY DEF OutcomeOf
<1>2. \A k \in LoanIds, q \in Periods :
         /\ <<k, q>> \in installmentSettled' <=>
               <<k, q>> \in installmentSettled \/ (k = l /\ q = p)
         /\ installmentStatuses'[k][q] = IF k = l /\ q = p THEN how ELSE installmentStatuses[k][q]
  BY DEF Settle, TypeOK
<1>3. \A k \in LoanIds, q \in Periods : P(k, q) = IF k = l /\ q = p THEN word ELSE O(k, q)
  BY <1>2 DEF OutcomeOf
<1> HIDE DEF O, P, word
<1>4. /\ outcome = [k \in LoanIds |-> [q \in Periods |-> O(k, q)]]
      /\ outcome' = [k \in LoanIds |-> [q \in Periods |-> P(k, q)]]
  BY OutcomeFacts DEF O, P
<1>5. outcome' = [outcome EXCEPT ![l][p] = word]
  BY <1>3, <1>4
<1>6. QED
  BY <1>1, <1>4, <1>5 DEF word

----------------------------------------------------------------------------
(* Each kind of change is a step of joint liability *)

LEMMA ChangeImplements ==
  ASSUME Known, Known', NEW l \in LoanIds, NEW new, Change(l, new)
  PROVE  Liability!Next \/ UNCHANGED Liability!vars
<1> DEFINE old == loans[l]
<1>k. TypeOK /\ LoanParties /\ Stages /\ SettledIsOfALoan /\ TalanganBalanced /\ BothGates
  BY DEF Known, Schedules
<1>1. /\ stage' = [stage EXCEPT ![l] = StageOf(new)]
      /\ parties' = [parties EXCEPT ![l] = [group |-> new.groupId, member |-> new.memberHash]]
      /\ debt' = [debt EXCEPT ![l] = new.talanganOutstanding]
  BY <1>k, Images
<1>2. /\ stage = [k \in LoanIds |-> StageOf(loans[k])]
      /\ parties = [k \in LoanIds |->
                       [group |-> loans[k].groupId, member |-> loans[k].memberHash]]
      /\ debt = [k \in LoanIds |-> loans[k].talanganOutstanding]
      /\ debt \in [LoanIds -> Nat] /\ debt' \in [LoanIds -> Nat]
  <2>1. debt \in [LoanIds -> Nat] /\ debt' \in [LoanIds -> Nat]
    BY DEF debt, Known, TypeOK, Loan
  <2>2. QED
    BY <2>1 DEF stage, parties, debt, StageOf
<1>n. new.talanganOutstanding = debt'[l] /\ old.talanganOutstanding = debt[l]
  BY <1>1, <1>2
<1>p. Kept(old, new) => UNCHANGED parties
  BY <1>k, PartiesKept
<1>d. UNCHANGED schedule => UNCHANGED outcome
  BY OutcomeFacts DEF schedule
<1>u. new.talanganOutstanding = old.talanganOutstanding => UNCHANGED debt
  BY <1>1, <1>2
<1>s. Kept(old, new) /\ new.status = old.status => UNCHANGED stage
  BY <1>1, <1>2 DEF Kept, StageOf
<1>c. Kept(old, new) /\ StaysOrCloses(old, new) => Liability!StayOrClose(l)
  <2>1. CASE Kept(old, new) /\ new.status = old.status
    BY <2>1, <1>s DEF Liability!StayOrClose
  <2>2. CASE Kept(old, new) /\ new.status = "Lunas" /\ new.talanganOutstanding = 0
    <3>1. stage' = [stage EXCEPT ![l] = "Lunas"]
      BY <2>2, <1>1 DEF Kept, StageOf
    <3>2. QED
      BY <2>2, <3>1, <1>n DEF Liability!StayOrClose, Liability!MoveTo
  <2>3. QED
    BY <2>1, <2>2 DEF StaysOrCloses
<1>f. ASSUME NEW loan, DebtFreeFor(loan)
      PROVE  Liability!DebtFree(loan.groupId, loan.memberHash)
  BY <1>f, <1>2 DEF DebtFreeFor, Liability!DebtFree
<1>g. old.exists => <<old.groupId, old.memberHash>> \in groupMembers
  BY <1>k DEF LoanParties
<1> HIDE DEF old
<1>3. CASE Asked(old, new) /\ NewSchedule(l)
  <2>1. new.groupId \in Groups /\ new.memberHash \in Members
    BY <1>3, <1>k DEF Asked, TypeOK
  <2>2. Liability!DebtFree(new.groupId, new.memberHash)
    BY <1>3, <1>f, <1>g, <1>k, GatePassed
  <2>3. stage[l] = None /\ stage' = [stage EXCEPT ![l] = "Diajukan"]
    BY <1>3, <1>1, <1>2 DEF Asked, StageOf, old
  <2>4. UNCHANGED outcome
    BY <1>3, <1>k, OutcomeOfNew DEF Asked, old
  <2>5. UNCHANGED debt
    <3>1. old.talanganOutstanding = 0 /\ new.talanganOutstanding = 0
      BY <1>3, <1>k DEF Asked, Stages, NoLoan, old
    <3>2. QED
      BY <3>1, <1>u
  <2>6. Liability!Apply(l, new.groupId, new.memberHash)
    BY <2>2, <2>3, <2>4, <2>5, <1>1 DEF Liability!Apply, Liability!MoveTo
  <2>7. QED
    BY <2>1, <2>6 DEF Liability!Next
<1>4. CASE Unmoved(old, new) /\ UNCHANGED schedule
  BY <1>4, <1>p, <1>s, <1>d, <1>u DEF Unmoved, Liability!vars
<1>5. CASE Moved(old, new) /\ UNCHANGED schedule
  <2>1. UNCHANGED <<parties, outcome, debt>>
    BY <1>5, <1>p, <1>d, <1>u DEF Moved
  <2>2. /\ stage[l] = old.status /\ stage[l] # None
        /\ stage' = [stage EXCEPT ![l] = new.status]
    <3>1. stage[l] = old.status /\ stage' = [stage EXCEPT ![l] = new.status]
      BY <1>5, <1>1, <1>2 DEF Moved, Kept, StageOf, old
    <3>2. stage[l] # None
      BY <1>5, <1>k, <3>1, NoneIsNoStatus DEF TypeOK, Loan, old
    <3>3. QED
      BY <3>1, <3>2
  <2>3. Gate(old) => Liability!DebtFree(parties[l].group, parties[l].member)
    <3>1. Gate(old) => DebtFreeFor(new)
      BY <1>5, <1>g, <1>k, GatePassed
    <3>2. parties[l].group = new.groupId /\ parties[l].member = new.memberHash
      BY <1>5, <1>2 DEF Moved, Kept, old
    <3>3. QED
      BY <3>1, <3>2, <1>f
  <2>4. CASE old.status = "Diajukan" /\ new.status = "Disetujui" /\ Gate(old)
    <3>1. Liability!Advance(l, "Diajukan", "Disetujui")
      BY <2>1, <2>2, <2>3, <2>4 DEF Liability!Advance, Liability!MoveTo
    <3>2. QED
      BY <3>1 DEF Liability!Next
  <2>5. CASE old.status = "Disetujui" /\ new.status = "Cair" /\ Gate(old)
    <3>1. Liability!Advance(l, "Disetujui", "Cair")
      BY <2>1, <2>2, <2>3, <2>5 DEF Liability!Advance, Liability!MoveTo
    <3>2. QED
      BY <3>1 DEF Liability!Next
  <2>6. CASE old.status = "Diajukan" /\ new.status = "Ditunda"
    <3>1. Liability!Defer(l)
      BY <2>1, <2>2, <2>6 DEF Liability!Defer, Liability!MoveTo
    <3>2. QED
      BY <3>1 DEF Liability!Next
  <2>7. CASE new.status = "Mangkir"
    <3>1. Liability!Sanction(l)
      BY <2>1, <2>2, <2>7 DEF Liability!Sanction, Liability!MoveTo
    <3>2. QED
      BY <3>1 DEF Liability!Next
  <2>8. QED
    BY <1>5, <2>4, <2>5, <2>6, <2>7 DEF Moved
<1>6. CASE Paid(old, new) /\ NewlySettles(l, "PAID")
  <2>1. PICK p \in Periods : <<l, p>> \notin installmentSettled /\ Settle(l, p, "PAID")
    BY <1>6 DEF NewlySettles
  <2>2. outcome[l][p] = "Open" /\ outcome' = [outcome EXCEPT ![l][p] = "Paid"]
    BY <2>1, <1>k, OutcomeSettles
  <2>3. stage[l] = "Cair"
    BY <1>6, <1>2 DEF Paid, Kept, StageOf, old
  <2>4. Liability!Pay(l, p)
    BY <1>6, <2>2, <2>3, <1>p, <1>u, <1>c DEF Paid, Liability!Pay, Liability!Settle
  <2>5. QED
    BY <2>4 DEF Liability!Next
<1>7. CASE BailedOut(old, new) /\ NewlySettles(l, "DITALANGI")
  <2>1. PICK p \in Periods : <<l, p>> \notin installmentSettled /\ Settle(l, p, "DITALANGI")
    BY <1>7 DEF NewlySettles
  <2>2. outcome[l][p] = "Open" /\ outcome' = [outcome EXCEPT ![l][p] = "Bailed"]
    BY <2>1, <1>k, OutcomeSettles
  <2>3. stage[l] = "Cair" /\ UNCHANGED <<stage, parties>>
    BY <1>7, <1>2, <1>p, <1>s DEF BailedOut, Kept, StageOf, old
  <2>4. Liability!DebtChanges(l) /\ debt'[l] > debt[l]
    BY <1>7, <1>1, <1>2, <1>n DEF BailedOut, Liability!DebtChanges
  <2>5. Liability!BailOut(l, p)
    BY <2>2, <2>3, <2>4 DEF Liability!BailOut, Liability!Settle
  <2>6. QED
    BY <2>5 DEF Liability!Next
<1>8. CASE Repaid(old, new) /\ UNCHANGED schedule
  <2>1. Liability!DebtChanges(l) /\ debt'[l] < debt[l]
    BY <1>8, <1>1, <1>2, <1>n DEF Repaid, Liability!DebtChanges
  <2>2. Liability!Repay(l)
    BY <1>8, <2>1, <1>c, <1>p, <1>d DEF Repaid, Liability!Repay
  <2>3. QED
    BY <2>2 DEF Liability!Next
<1>9. QED
  BY <1>3, <1>4, <1>5, <1>6, <1>7, <1>8 DEF Change, old

LEMMA StepImplements ==
  ASSUME Known, Known', [Next]_vars
  PROVE  [Liability!Next]_(Liability!vars)
<1>1. CASE NoChange
  BY <1>1, OutcomeFacts DEF NoChange, schedule, stage, parties, debt, Liability!vars
<1>2. ASSUME NEW l \in LoanIds, NEW new, Change(l, new)
      PROVE  Liability!Next \/ UNCHANGED Liability!vars
  BY <1>2, ChangeImplements
<1>3. QED
  BY <1>1, <1>2, Changes DEF Known

\* The flags, counters and mappings of the escrow implement joint liability.
THEOREM RefinementCorrect == Spec => KeepsJointLiability
<1>1. Init => Liability!Init
  BY InitImplements
<1>2. Known /\ Known' /\ [Next]_vars => [Liability!Next]_(Liability!vars)
  BY StepImplements
<1>3. QED
  BY <1>1, <1>2, KnownCorrect, PTL DEF Spec, KeepsJointLiability, Liability!Spec
============================================================================
