-------------------------- MODULE SimulatorMember --------------------------
(***************************************************************************)
(* The prototype's phone (AnggotaView): what a member can touch and what   *)
(* each touch does.  Tabs can be changed at any time and are left out.     *)
(*                                                                         *)
(* A payment opens a dialog that covers the phone and keeps, in a closure, *)
(* the member, the loan and the amount of the moment it was opened; App's  *)
(* scenario buttons stay in reach beside the phone.                        *)
(***************************************************************************)
EXTENDS SimulatorState

\* The phone is on the screen, nothing covers it, and its account is one this
\* session plays with.
InHand ==
    /\ role = "anggota"
    /\ qris = NoQris
    /\ activeMemberId \in cast.accounts

\* The account switcher in the header lists every member.
SwitchUser(m) ==
    /\ role = "anggota" /\ qris = NoQris
    /\ m \in (DOMAIN members \cap cast.accounts) \ {activeMemberId}
    /\ activeMemberId' = m
    /\ UNCHANGED <<role, data, phone, cast>>

----------------------------------------------------------------------------
(* Savings *)

\* The savings form: Wajib is fixed at 50000, Sukarela is typed in.
SavingsForms ==
    {[jenis |-> "Wajib", amount |-> 50000]}
    \cup {[jenis |-> "Sukarela", amount |-> a] : a \in SukarelaAmounts}

triggerQris(config) == qris' = config

DepositSavings(form) ==
    /\ InHand
    /\ form.amount > 0
    /\ Len(savings) < Len(initialSavings) + cast.deposits
    /\ triggerQris([kind |-> "simpanan", member |-> currentMember,
                    jenis |-> form.jenis, amount |-> form.amount])
    /\ UNCHANGED <<role, activeMemberId, data, kyc, showSanggahArea, cast>>

Credit(m, jenis, amount) ==
    [m EXCEPT !.simpananWajib = IF jenis = "Wajib" THEN @ + amount ELSE @,
              !.simpananSukarela = IF jenis = "Wajib" THEN @ ELSE @ + amount,
              !.skorKeanggotaan = AtMost(100, @ + 2)]

\* Mutant: the closure reads the account of the moment it is run.
PayCurrent ==
    /\ members' = UpdateMember(currentMember, Credit(members[currentMember], qris.jenis, qris.amount))
    /\ savings' = Append(savings, Tx(qris.member, qris.jenis, qris.amount))
    /\ UNCHANGED <<groups, loans>>

\* The member may be gone by now: the transaction is appended all the same.
PaySavings ==
    /\ members' = UpdateMember(qris.member, Credit(members[qris.member], qris.jenis, qris.amount))
    /\ savings' = Append(savings, Tx(qris.member, qris.jenis, qris.amount))
    /\ UNCHANGED <<groups, loans>>

----------------------------------------------------------------------------
(* Installments *)

\* The card of the running loan offers a payment unless this month is PAID; it
\* does not look at the loan's status.
PayOffered == currentLoan # 0 /\ loans[currentLoan].statusCicilan \in {"UNPAID", "DITALANGI"}

PayInstallment ==
    /\ InHand
    /\ PayOffered
    /\ triggerQris([kind |-> "cicilan", member |-> currentMember, loan |-> currentLoan])
    /\ UNCHANGED <<role, activeMemberId, data, kyc, showSanggahArea, cast>>

\* Mutant: a loan is closed one installment late.
SettledLate(l) ==
    [l EXCEPT !.sisaCicilan = @ - 1,
              !.status = IF l.sisaCicilan - 1 < 0 THEN "Lunas" ELSE @,
              !.statusCicilan = "PAID"]
Settled(l) ==
    [l EXCEPT !.sisaCicilan = @ - 1,
              !.status = IF l.sisaCicilan - 1 <= 0 THEN "Lunas" ELSE @,
              !.statusCicilan = "PAID"]

\* The loan is found by its id: a reset may have removed it.
PayLoan ==
    /\ loans' = UpdateLoans([i \in {qris.loan} \cap DOMAIN loans |-> Settled(loans[i])])
    /\ members' = UpdateMember(qris.member,
           [members[qris.member] EXCEPT !.skorKeanggotaan = AtMost(100, @ + 4), !.isUzur = FALSE])
    /\ UNCHANGED <<groups, savings>>

DialogShown == qris # NoQris

\* The dialog: Bayar runs the closure, Batal drops it.
QrisPaymentConfirm ==
    /\ DialogShown
    /\ \/ qris.kind = "simpanan" /\ PaySavings
       \/ qris.kind = "cicilan" /\ PayLoan
    /\ qris' = NoQris
    /\ UNCHANGED <<role, activeMemberId, kyc, showSanggahArea, cast>>

CancelQris ==
    /\ DialogShown
    /\ qris' = NoQris
    /\ UNCHANGED <<role, activeMemberId, data, kyc, showSanggahArea, cast>>

----------------------------------------------------------------------------
(* Loans *)

\* The form takes the place of the loan card while the member has no open loan.
ApplyOffered == currentLoan = 0
Tenors == {6, 10, 12}

AiScore(nominal) ==
    LET skor == members[currentMember].skorKeanggotaan
        byHistory == IF skor > 85 THEN 90 ELSE IF skor < 60 THEN 55 ELSE 75
        byPlafon == IF nominal > groups[currentGroup].plafonMaks THEN 25 ELSE 0
    IN IF currentMember = "m3" THEN 48 ELSE byHistory - byPlafon

FlagFor(score) == IF score < 50 THEN "MERAH" ELSE IF score < 75 THEN "KUNING" ELSE "HIJAU"

\* Math.round(nominal * 1.1 / tenor)
Installment(nominal, tenor) == (11 * nominal + 5 * tenor) \div (10 * tenor)

ApplyLoan(nominal, tenor) ==
    /\ InHand /\ ApplyOffered
    /\ nominal > 0 /\ currentGroup # 0
    /\ Len(loans) < Len(initialLoans) + cast.applications
    /\ loans' = Append(loans, Loan(currentMember, currentGroup, "Diajukan", "UNPAID", tenor,
                                   Installment(nominal, tenor), FlagFor(AiScore(nominal))))
    /\ showSanggahArea' = FALSE
    /\ UNCHANGED <<role, activeMemberId, members, groups, savings, qris, kyc, cast>>

SanggahOffered == currentLoan # 0 /\ loans[currentLoan].status = "Diajukan"

ToggleSanggahArea ==
    /\ InHand /\ SanggahOffered
    /\ showSanggahArea' = ~showSanggahArea
    /\ UNCHANGED <<role, activeMemberId, data, qris, kyc, cast>>

SanggahSubmit ==
    /\ InHand /\ SanggahOffered /\ showSanggahArea
    /\ loans' = [loans EXCEPT ![currentLoan].isSanggah = TRUE]
    /\ showSanggahArea' = FALSE
    /\ UNCHANGED <<role, activeMemberId, members, groups, savings, qris, kyc, cast>>

----------------------------------------------------------------------------
(* Groups *)

\* The three ways into a group are shown to a member who is in none.
\* Mutant: they are shown to everybody.
AlwaysOffered == TRUE
GroupFormsOffered == currentGroup = 0

\* The choices of the form for a new group.
Plafons == {5000000, 10000000, 15000000}

Enter(g) == groups' = [groups EXCEPT ![g].anggotaIds = @ \cup {currentMember}]

CreateGroup(plafon) ==
    /\ InHand /\ GroupFormsOffered
    /\ Len(groups) < MaxGroups
    /\ groups' = Append(groups, Group(currentMember, {currentMember}, plafon, 0, "baik", "BARU"))
    /\ UNCHANGED <<role, activeMemberId, members, loans, savings, phone, cast>>

JoinGroup(g) ==
    /\ InHand /\ GroupFormsOffered
    /\ g \in DOMAIN groups
    /\ Enter(g)
    /\ UNCHANGED <<role, activeMemberId, members, loans, savings, phone, cast>>

\* An unknown code and a group the member is in already are refused.
JoinByInviteCode(code) ==
    LET target == SelectInSeq(groups, LAMBDA g : g.kodeUndangan = code) IN
    /\ InHand /\ GroupFormsOffered
    /\ target # 0 /\ currentMember \notin groups[target].anggotaIds
    /\ Enter(target)
    /\ UNCHANGED <<role, activeMemberId, members, loans, savings, phone, cast>>

----------------------------------------------------------------------------
(* Registration *)

EditKycOffered == members[currentMember].statusKyc # "Approved"

FormShown == InHand /\ kyc.step = 2

OpenKycForm ==
    /\ InHand /\ EditKycOffered /\ kyc.step = 1
    /\ kyc' = [kyc EXCEPT !.step = 2]
    /\ UNCHANGED <<role, activeMemberId, data, qris, showSanggahArea, cast>>

CloseKycForm ==
    /\ FormShown
    /\ kyc' = [kyc EXCEPT !.step = 1]
    /\ UNCHANGED <<role, activeMemberId, data, qris, showSanggahArea, cast>>

SendOtp ==
    /\ FormShown /\ ~kyc.otpSent
    /\ kyc' = [kyc EXCEPT !.otpSent = TRUE]
    /\ UNCHANGED <<role, activeMemberId, data, qris, showSanggahArea, cast>>

\* A wrong code changes nothing.
VerifyOtp ==
    /\ FormShown /\ kyc.otpSent /\ ~kyc.otpVerified
    /\ kyc' = [kyc EXCEPT !.otpVerified = TRUE]
    /\ UNCHANGED <<role, activeMemberId, data, qris, showSanggahArea, cast>>

\* Ids are made from the clock.
FreshIds == cast.accounts \ (DOMAIN initialMembers \cup {"m7"} \cup DOMAIN members)

\* One that never asked for a code needs none.
MaySubmit == FormShown /\ (kyc.otpSent => kyc.otpVerified)

\* A registration is a new member whatever account it was sent from.
SubmitKyc(id) ==
    /\ MaySubmit
    /\ id \in FreshIds
    /\ members' = WithMember(id, [Member("Requested", 70, 0, 0) EXCEPT !.isDorman = FALSE])
    /\ activeMemberId' = id
    /\ kyc' = [kyc EXCEPT !.step = 1]
    /\ UNCHANGED <<role, groups, loans, savings, qris, showSanggahArea, cast>>

MemberNext ==
    \/ \E m \in cast.accounts : SwitchUser(m) \/ SubmitKyc(m)
    \/ \E form \in SavingsForms : DepositSavings(form)
    \/ PayInstallment \/ QrisPaymentConfirm \/ CancelQris
    \/ \E nominal \in Nominals, tenor \in Tenors : ApplyLoan(nominal, tenor)
    \/ ToggleSanggahArea \/ SanggahSubmit
    \/ \E plafon \in Plafons : CreateGroup(plafon)
    \/ \E g \in 1..MaxGroups : JoinGroup(g)
    \/ \E code \in Codes : JoinByInviteCode(code)
    \/ OpenKycForm \/ CloseKycForm \/ SendOtp \/ VerifyOtp
=============================================================================
