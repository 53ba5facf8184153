------------------------- MODULE Simulator_proofs -------------------------
(***************************************************************************)
(* Theorems about the prototype, for any sessions: every account, any      *)
(* scenarios in any order, any number of deposits and applications.        *)
(***************************************************************************)
EXTENDS Simulator, Amounts_proofs, SequenceTheorems, WellFoundedInduction, TLAPS

----------------------------------------------------------------------------
(* What the views find *)

LEMMA Least ==
  ASSUME NEW I \in SUBSET Nat, I # {}
  PROVE  Min(I) \in I
<1> DEFINE R == OpToRel(<, Nat)
<1>1. PICK n \in I : \A m \in I : <<m, n>> \notin R
  BY WFMin, NatLessThanWellFounded
<1>2. \A m, n_1 \in Nat : m < n_1 => <<m, n_1>> \in R
  BY DEF OpToRel
<1> HIDE DEF R
<1>3. ASSUME NEW m \in I PROVE n <= m
  <2>1. m \in Nat /\ n \in Nat /\ ~(m < n)
    BY <1>1, <1>2
  <2>2. QED
    BY <2>1
<1>4. QED
  BY <1>3 DEF Min

LEMMA Opened ==
  ASSUME NEW m, NEW S, loans \in Seq(S)
  PROVE  /\ OpenLoan(m) = 0 =>
               \A i \in DOMAIN loans : loans[i].memberId = m => loans[i].status = "Lunas"
         /\ OpenLoan(m) # 0 =>
               /\ OpenLoan(m) \in DOMAIN loans
               /\ loans[OpenLoan(m)].memberId = m /\ loans[OpenLoan(m)].status # "Lunas"
<1> DEFINE I == {i \in 1..Len(loans) : loans[i].memberId = m /\ loans[i].status # "Lunas"}
<1>1. OpenLoan(m) = IF I # {} THEN Min(I) ELSE 0
  BY DEF OpenLoan, SelectInSeq
<1>2. I \in SUBSET Nat /\ DOMAIN loans = 1..Len(loans)
  OBVIOUS
<1>3. I # {} => Min(I) \in I
  BY <1>2, Least
<1>4. QED
  BY <1>1, <1>2, <1>3

LEMMA Grouped ==
  ASSUME NEW m, NEW S, groups \in Seq(S)
  PROVE  /\ GroupWith(m) = 0 => \A g \in DOMAIN groups : m \notin groups[g].anggotaIds
         /\ GroupWith(m) # 0 => GroupWith(m) \in DOMAIN groups /\ m \in groups[GroupWith(m)].anggotaIds
<1> DEFINE I == {i \in 1..Len(groups) : m \in groups[i].anggotaIds}
<1>1. GroupWith(m) = IF I # {} THEN Min(I) ELSE 0
  BY DEF GroupWith, SelectInSeq
<1>2. I \in SUBSET Nat /\ DOMAIN groups = 1..Len(groups)
  OBVIOUS
<1>3. I # {} => Min(I) \in I
  BY <1>2, Least
<1>4. QED
  BY <1>1, <1>2, <1>3

----------------------------------------------------------------------------
(* The invariant *)

GroupShape(M) ==
    [ketuaId : M, anggotaIds : SUBSET M, plafonMaks : Nat, kasSosial : Nat,
     reputasiKomunitas : {"baik", "cukup", "kurang"}, kodeUndangan : Codes]
LoanShape(M, G) ==
    [memberId : M, groupId : G,
     status : {"Diajukan", "Cair", "Lunas", "Ditunda"},
     statusCicilan : {"PAID", "UNPAID", "DITALANGI"}, sisaCicilan : Nat,
     cicilanBulanan : Nat, flagAi : {"HIJAU", "KUNING", "MERAH"}, isSanggah : BOOLEAN]

Sessions ==
    /\ role \in {"anggota", "pengurus"} /\ cast \in Casts
    /\ activeMemberId \in DOMAIN members

MembersOK ==
    /\ members = [m \in DOMAIN members |-> members[m]]
    /\ DOMAIN initialMembers \subseteq DOMAIN members
    /\ \A m \in DOMAIN members : members[m] \in MemberRecord

GroupsOK == groups \in Seq(GroupShape(DOMAIN members)) /\ Len(groups) >= 2

\* Nobody but Pak Deni (m2), for whom two scenarios call an installment due again,
\* pays more than one installment of a loan; Bu Sri (m1) and Bu Y (m4) never
\* have one to pay.
Sound(l) ==
    /\ l.status = "Lunas" => l.sisaCicilan = 0
    /\ l.sisaCicilan = 0 /\ l.memberId # "m1" => l.status = "Lunas"
    /\ l.memberId # "m2" => l.status # "Lunas"
    /\ l.memberId \in {"m1", "m4"} => l.statusCicilan = "PAID"
    /\ l.memberId \notin {"m1", "m2"} /\ l.statusCicilan # "PAID" => l.sisaCicilan >= 2

LoansOK ==
    /\ loans \in Seq(LoanShape(DOMAIN members, DOMAIN groups)) /\ Len(loans) >= 4
    /\ loans[1].memberId = "m1" /\ loans[4].memberId = "m4"
    /\ \A i \in DOMAIN loans : Sound(loans[i])

\* What the dialog's button pays is still owed when it is pressed, unless a reset
\* has removed the loan.
DialogOK ==
    qris # NoQris =>
        /\ role = "anggota"
        /\ \/ qris.kind = "simpanan" /\ qris.amount \in Nat
           \/ /\ qris.kind = "cicilan" /\ qris.loan \in Nat \ {1, 4}
              /\ qris.loan \in DOMAIN loans =>
                    loans[qris.loan].status # "Lunas" /\ loans[qris.loan].statusCicilan # "PAID"

Records == Sessions /\ MembersOK /\ GroupsOK /\ LoansOK /\ DialogOK
Parties == LiableGroup /\ OneOpenLoan

LEMMA GroupShapes ==
  ASSUME NEW M, NEW k \in M, NEW A \in SUBSET M, NEW p \in Nat, NEW kas \in Nat,
         NEW rep \in {"baik", "cukup", "kurang"}, NEW code \in Codes
  PROVE  Group(k, A, p, kas, rep, code) \in GroupShape(M)
BY SMT DEF Group, GroupShape

LEMMA LoanShapes ==
  ASSUME NEW M, NEW G, NEW m \in M, NEW g \in G, NEW st \in {"Diajukan", "Cair"},
         NEW p \in {"PAID", "UNPAID"}, NEW n \in Nat, NEW c \in Nat,
         NEW flag \in {"HIJAU", "KUNING", "MERAH"}
  PROVE  Loan(m, g, st, p, n, c, flag) \in LoanShape(M, G)
BY SMT DEF Loan, LoanShape

LEMMA Initially ==
  /\ DOMAIN initialMembers = {"m1", "m2", "m3", "m4", "m5", "m6"}
  /\ initialMembers = [m \in DOMAIN initialMembers |-> initialMembers[m]]
  /\ \A m \in DOMAIN initialMembers : initialMembers[m] \in MemberRecord
<1>1. /\ DOMAIN initialMembers = {"m1", "m2", "m3", "m4", "m5", "m6"}
      /\ initialMembers["m1"] = Member("Approved", 95, 450000, 1200000)
      /\ initialMembers["m2"] = Member("Approved", 78, 200000, 50000)
      /\ initialMembers["m3"] = Member("Approved", 48, 150000, 20000)
      /\ initialMembers["m4"] = Member("Approved", 68, 300000, 500000)
      /\ initialMembers["m5"] = Member("Approved", 88, 500000, 2500000)
      /\ initialMembers["m6"] = Member("Requested", 50, 0, 0)
      /\ initialMembers = [m \in DOMAIN initialMembers |-> initialMembers[m]]
  BY SMT DEF initialMembers
<1>2. /\ initialMembers["m1"] \in MemberRecord /\ initialMembers["m2"] \in MemberRecord
      /\ initialMembers["m3"] \in MemberRecord /\ initialMembers["m4"] \in MemberRecord
      /\ initialMembers["m5"] \in MemberRecord /\ initialMembers["m6"] \in MemberRecord
  BY <1>1, SMT DEF Member, MemberRecord
<1>3. QED
  BY <1>1, <1>2, SMT

\* The mock data are in order.
LEMMA MockData ==
  /\ initialGroups \in Seq(GroupShape(DOMAIN initialMembers)) /\ Len(initialGroups) = 2
  /\ initialLoans \in Seq(LoanShape(DOMAIN initialMembers, DOMAIN initialGroups))
  /\ Len(initialLoans) = 4
  /\ initialLoans[1].memberId = "m1" /\ initialLoans[4].memberId = "m4"
  /\ \A i \in DOMAIN initialLoans : Sound(initialLoans[i])
  /\ \A i \in {2, 3} : initialLoans[i].status # "Lunas" /\ initialLoans[i].statusCicilan # "PAID"
  /\ \A g, h \in DOMAIN initialGroups :
        initialGroups[g].anggotaIds \cap initialGroups[h].anggotaIds # {} => g = h
  /\ \A i \in DOMAIN initialLoans :
        /\ initialLoans[i].groupId \in DOMAIN initialGroups
        /\ initialLoans[i].memberId \in initialGroups[initialLoans[i].groupId].anggotaIds
  /\ \A i, j \in DOMAIN initialLoans :
        initialLoans[i].memberId = initialLoans[j].memberId => i = j
<1> DEFINE M == DOMAIN initialMembers
           G == DOMAIN initialGroups
<1>m. M = {"m1", "m2", "m3", "m4", "m5", "m6"}
  BY Initially
<1>g. G = DOMAIN initialGroups
  OBVIOUS
<1> HIDE DEF M, G
<1>1. /\ DOMAIN initialGroups = {1, 2} /\ Len(initialGroups) = 2
      /\ initialGroups[1] = Group("m1", {"m1", "m2", "m5"}, 10000000, 350000, "baik", "MAWAR9")
      /\ initialGroups[2] = Group("m4", {"m3", "m4", "m6"}, 5000000, 120000, "cukup", "KARYA4")
  BY SMT DEF initialGroups
<1>2. initialGroups[1] \in GroupShape(M) /\ initialGroups[2] \in GroupShape(M)
  <2>1. "m1" \in M /\ "m4" \in M /\ {"m1", "m2", "m5"} \in SUBSET M /\ {"m3", "m4", "m6"} \in SUBSET M
    BY <1>m
  <2>c. "MAWAR9" \in Codes /\ "KARYA4" \in Codes
    BY DEF Codes
  <2>n. 10000000 \in Nat /\ 350000 \in Nat /\ 5000000 \in Nat /\ 120000 \in Nat
    BY SMT
  <2>2. Group("m1", {"m1", "m2", "m5"}, 10000000, 350000, "baik", "MAWAR9") \in GroupShape(M)
    BY <2>1, <2>c, <2>n, SMT DEF Group, GroupShape
  <2>3. Group("m4", {"m3", "m4", "m6"}, 5000000, 120000, "cukup", "KARYA4") \in GroupShape(M)
    BY <2>1, <2>c, <2>n, SMT DEF Group, GroupShape
  <2>4. QED
    BY <1>1, <2>2, <2>3, SMT
<1>3. initialGroups \in Seq(GroupShape(M))
  <2>1. Group("m1", {"m1", "m2", "m5"}, 10000000, 350000, "baik", "MAWAR9") \in GroupShape(M)
        /\ Group("m4", {"m3", "m4", "m6"}, 5000000, 120000, "cukup", "KARYA4") \in GroupShape(M)
    BY <1>1, <1>2, SMT
  <2>2. QED
    BY <2>1, SMT DEF initialGroups
<1>4. /\ initialGroups[1].anggotaIds = {"m1", "m2", "m5"}
      /\ initialGroups[2].anggotaIds = {"m3", "m4", "m6"}
  BY <1>1, SMT DEF Group
<1>5. /\ DOMAIN initialLoans = {1, 2, 3, 4} /\ Len(initialLoans) = 4
      /\ initialLoans[1] = Loan("m1", 1, "Cair", "PAID", 6, 550000, "HIJAU")
      /\ initialLoans[2] = Loan("m2", 1, "Cair", "UNPAID", 3, 530000, "KUNING")
      /\ initialLoans[3] = Loan("m3", 2, "Diajukan", "UNPAID", 8, 550000, "MERAH")
      /\ initialLoans[4] = Loan("m4", 2, "Cair", "PAID", 4, 530000, "KUNING")
  BY SMT DEF initialLoans
<1>6. \A i \in {1, 2, 3, 4} : initialLoans[i] \in LoanShape(M, G)
  <2>1. {"m1", "m2", "m3", "m4"} \subseteq M /\ {1, 2} \subseteq G
    BY <1>m, <1>g, <1>1
  <2>2. /\ initialLoans[1] \in LoanShape(M, G) /\ initialLoans[2] \in LoanShape(M, G)
    BY <1>5, <2>1, LoanShapes, SMT
  <2>3. /\ initialLoans[3] \in LoanShape(M, G) /\ initialLoans[4] \in LoanShape(M, G)
    BY <1>5, <2>1, LoanShapes, SMT
  <2>4. QED
    BY <2>2, <2>3
<1>7. initialLoans \in Seq(LoanShape(M, G))
  <2>1. /\ Loan("m1", 1, "Cair", "PAID", 6, 550000, "HIJAU") \in LoanShape(M, G)
        /\ Loan("m2", 1, "Cair", "UNPAID", 3, 530000, "KUNING") \in LoanShape(M, G)
        /\ Loan("m3", 2, "Diajukan", "UNPAID", 8, 550000, "MERAH") \in LoanShape(M, G)
        /\ Loan("m4", 2, "Cair", "PAID", 4, 530000, "KUNING") \in LoanShape(M, G)
    BY <1>5, <1>6, SMT
  <2>2. QED
    BY <2>1, SMT DEF initialLoans
<1>8. /\ initialLoans[1].memberId = "m1" /\ initialLoans[1].groupId = 1
      /\ initialLoans[2].memberId = "m2" /\ initialLoans[2].groupId = 1
      /\ initialLoans[3].memberId = "m3" /\ initialLoans[3].groupId = 2
      /\ initialLoans[4].memberId = "m4" /\ initialLoans[4].groupId = 2
      /\ \A i \in {2, 3} : initialLoans[i].status # "Lunas" /\ initialLoans[i].statusCicilan # "PAID"
      /\ \A i \in {1, 2, 3, 4} : Sound(initialLoans[i])
  BY <1>5, SMT DEF Loan, Sound
<1>9. QED
  BY <1>1, <1>3, <1>4, <1>5, <1>7, <1>8, SMT DEF M, G

----------------------------------------------------------------------------
(* What a step changes *)

\* What each touch of the phone leaves alone.
LEMMA PhoneFrames ==
  /\ \A m : SwitchUser(m) => UNCHANGED <<role, members, groups, loans, phone, cast>>
  /\ \A m : SubmitKyc(m) => UNCHANGED <<role, groups, loans, qris, cast>>
  /\ \A form : DepositSavings(form) => UNCHANGED <<role, activeMemberId, members, groups, loans, cast>>
  /\ PayInstallment => UNCHANGED <<role, activeMemberId, members, groups, loans, cast>>
  /\ QrisPaymentConfirm =>
        /\ UNCHANGED <<role, activeMemberId, groups, cast>> /\ qris' = NoQris /\ DialogShown
        /\ \/ UNCHANGED loans /\ qris.kind = "simpanan" /\ PaySavings
           \/ qris.kind = "cicilan" /\ PayLoan
  /\ CancelQris => UNCHANGED <<role, activeMemberId, members, groups, loans, cast>> /\ qris' = NoQris
  /\ \A nominal, tenor : ApplyLoan(nominal, tenor) => UNCHANGED <<role, activeMemberId, members, groups, qris, cast>>
  /\ SanggahSubmit => UNCHANGED <<role, activeMemberId, members, groups, qris, cast>>
  /\ \A plafon : CreateGroup(plafon) => UNCHANGED <<role, activeMemberId, members, loans, qris, cast>>
  /\ \A g : JoinGroup(g) => UNCHANGED <<role, activeMemberId, members, loans, qris, cast>>
  /\ \A code : JoinByInviteCode(code) => UNCHANGED <<role, activeMemberId, members, loans, qris, cast>>
  /\ ToggleSanggahArea \/ OpenKycForm \/ CloseKycForm \/ SendOtp \/ VerifyOtp =>
        UNCHANGED <<role, activeMemberId, members, groups, loans, qris, cast>>
<1>1. \A m : /\ SwitchUser(m) => UNCHANGED <<role, members, groups, loans, phone, cast>>
             /\ SubmitKyc(m) => UNCHANGED <<role, groups, loans, qris, cast>>
  BY DEF SwitchUser, SubmitKyc, data
<1>2. /\ \A form : DepositSavings(form) => UNCHANGED <<role, activeMemberId, members, groups, loans, cast>>
      /\ PayInstallment => UNCHANGED <<role, activeMemberId, members, groups, loans, cast>>
  BY DEF DepositSavings, PayInstallment, data
<1>3. QrisPaymentConfirm =>
        /\ UNCHANGED <<role, activeMemberId, groups, cast>> /\ qris' = NoQris /\ DialogShown
        /\ \/ UNCHANGED loans /\ qris.kind = "simpanan" /\ PaySavings
           \/ qris.kind = "cicilan" /\ PayLoan
  <2>1. PaySavings \/ PayLoan => UNCHANGED groups
    BY DEF PaySavings, PayLoan
  <2>2. PaySavings => UNCHANGED loans
    BY DEF PaySavings
  <2>3. QED
    BY <2>1, <2>2 DEF QrisPaymentConfirm
<1>4. CancelQris => UNCHANGED <<role, activeMemberId, members, groups, loans, cast>> /\ qris' = NoQris
  BY DEF CancelQris, data
<1>5. /\ \A nominal, tenor : ApplyLoan(nominal, tenor) =>
            UNCHANGED <<role, activeMemberId, members, groups, qris, cast>>
      /\ SanggahSubmit => UNCHANGED <<role, activeMemberId, members, groups, qris, cast>>
  BY DEF ApplyLoan, SanggahSubmit
<1>6. /\ \A plafon : CreateGroup(plafon) => UNCHANGED <<role, activeMemberId, members, loans, qris, cast>>
      /\ \A g : JoinGroup(g) => UNCHANGED <<role, activeMemberId, members, loans, qris, cast>>
  BY DEF CreateGroup, JoinGroup, phone
<1>7. \A code : JoinByInviteCode(code) => UNCHANGED <<role, activeMemberId, members, loans, qris, cast>>
  BY DEF JoinByInviteCode, phone
<1>8. ToggleSanggahArea \/ OpenKycForm \/ CloseKycForm \/ SendOtp \/ VerifyOtp =>
        UNCHANGED <<role, activeMemberId, members, groups, loans, qris, cast>>
  BY DEF ToggleSanggahArea, OpenKycForm, CloseKycForm, SendOtp, VerifyOtp, data
<1>9. QED
  BY <1>1, <1>2, <1>3, <1>4, <1>5, <1>6, <1>7, <1>8

\* What each button of the panel leaves alone, what scenarios do.
LEMMA PanelFrames ==
  /\ OfficerNext => UNCHANGED <<role, activeMemberId, phone, cast>> /\ role = "pengurus"
  /\ \A id, action : KycAction(id, action) => UNCHANGED <<groups, loans>>
  /\ \A i, action : LoanAction(i, action) => UNCHANGED <<members, groups>>
  /\ \A i : ToggleUzur(i) => UNCHANGED <<groups, loans>>
  /\ \A i : ApplySocialFund(i) => UNCHANGED members
  /\ \A i : RestructureLoan(i) => UNCHANGED <<members, groups>>
  /\ \A i : TriggerJointLiability(i) => UNCHANGED groups
<1>1. /\ \A id, action : KycAction(id, action) =>
            UNCHANGED <<role, activeMemberId, phone, cast, groups, loans>> /\ role = "pengurus"
      /\ \A i, action : LoanAction(i, action) =>
            UNCHANGED <<role, activeMemberId, phone, cast, members, groups>> /\ role = "pengurus"
  BY DEF KycAction, LoanAction, OnPanel
<1>2. \A i : ToggleUzur(i) =>
         UNCHANGED <<role, activeMemberId, phone, cast, groups, loans>> /\ role = "pengurus"
  BY DEF ToggleUzur, OnPanel
<1>3. \A i : ApplySocialFund(i) =>
         UNCHANGED <<role, activeMemberId, phone, cast, members>> /\ role = "pengurus"
  BY DEF ApplySocialFund, OnPanel
<1>4. \A i : RestructureLoan(i) =>
         UNCHANGED <<role, activeMemberId, phone, cast, members, groups>> /\ role = "pengurus"
  BY DEF RestructureLoan, OnPanel
<1>5. \A i : TriggerJointLiability(i) =>
         UNCHANGED <<role, activeMemberId, phone, cast, groups>> /\ role = "pengurus"
  BY DEF TriggerJointLiability, OnPanel
<1>6. OfficerNext => UNCHANGED <<role, activeMemberId, phone, cast>> /\ role = "pengurus"
  BY <1>1, <1>2, <1>3, <1>4, <1>5 DEF OfficerNext
<1>7. QED
  BY <1>1, <1>2, <1>3, <1>4, <1>5, <1>6

LEMMA ScenarioFrames ==
  /\ ScenarioPositif => UNCHANGED <<groups, cast>> /\ activeMemberId' = "m1" /\ Show("anggota")
  /\ ScenarioUzur => UNCHANGED <<groups, cast>> /\ activeMemberId' = "m2" /\ Show("pengurus")
  /\ ScenarioNoNews => UNCHANGED <<groups, cast>> /\ activeMemberId' = "m2" /\ Show("anggota")
  /\ ScenarioMangkir => UNCHANGED <<activeMemberId, cast>> /\ Show("pengurus")
  /\ ScenarioKyc => UNCHANGED <<members, groups, loans, cast>> /\ activeMemberId' = "m6" /\ Show("anggota")
  /\ ScenarioGrupBaru \/ ScenarioUndangan =>
        UNCHANGED <<groups, loans, cast>> /\ AddFatimah /\ activeMemberId' = "m7" /\ Show("anggota")
<1>1. /\ ScenarioPositif => UNCHANGED <<groups, cast>> /\ activeMemberId' = "m1" /\ Show("anggota")
      /\ ScenarioUzur => UNCHANGED <<groups, cast>> /\ activeMemberId' = "m2" /\ Show("pengurus")
  BY DEF ScenarioPositif, ScenarioUzur
<1>2. /\ ScenarioNoNews => UNCHANGED <<groups, cast>> /\ activeMemberId' = "m2" /\ Show("anggota")
      /\ ScenarioMangkir => UNCHANGED <<activeMemberId, cast>> /\ Show("pengurus")
  BY DEF ScenarioNoNews, ScenarioMangkir
<1>3. /\ ScenarioKyc => UNCHANGED <<members, groups, loans, cast>> /\ activeMemberId' = "m6" /\ Show("anggota")
      /\ ScenarioGrupBaru \/ ScenarioUndangan =>
            UNCHANGED <<groups, loans, cast>> /\ AddFatimah /\ activeMemberId' = "m7" /\ Show("anggota")
  BY DEF ScenarioKyc, ScenarioGrupBaru, ScenarioUndangan, data
<1>4. QED
  BY <1>1, <1>2, <1>3

LEMMA MemberChanges ==
  ASSUME [Next]_vars
  PROVE  \/ UNCHANGED members
         \/ resetAllState
         \/ ScenarioPositif \/ ScenarioUzur \/ ScenarioNoNews \/ ScenarioMangkir
         \/ AddFatimah
         \/ \E id \in cast.accounts : SubmitKyc(id)
         \/ DialogShown /\ qris.kind = "simpanan" /\ PaySavings
         \/ DialogShown /\ qris.kind = "cicilan" /\ PayLoan
         \/ \E id \in cast.accounts, action \in {"Approved", "Rejected"} : KycAction(id, action)
         \/ \E i \in DOMAIN loans : ToggleUzur(i) \/ TriggerJointLiability(i)
<1>1. CASE MemberNext
  BY <1>1, PhoneFrames DEF MemberNext
<1>2. CASE OfficerNext
  BY <1>2, PanelFrames DEF OfficerNext
<1>3. CASE Scenario
  BY <1>3, ScenarioFrames DEF Scenario
<1>4. ASSUME NEW view, SwitchRole(view) PROVE UNCHANGED members
  BY <1>4 DEF SwitchRole, data
<1>5. QED
  BY <1>1, <1>2, <1>3, <1>4 DEF Next, vars, data

LEMMA GroupChanges ==
  ASSUME [Next]_vars
  PROVE  \/ UNCHANGED groups
         \/ resetAllState
         \/ ScenarioMangkir
         \/ \E plafon \in Plafons : CreateGroup(plafon)
         \/ \E g \in 1..MaxGroups : JoinGroup(g)
         \/ \E code \in Codes : JoinByInviteCode(code)
         \/ \E i \in DOMAIN loans : ApplySocialFund(i)
<1>1. CASE MemberNext
  BY <1>1, PhoneFrames DEF MemberNext
<1>2. CASE OfficerNext
  BY <1>2, PanelFrames DEF OfficerNext
<1>3. CASE Scenario
  BY <1>3, ScenarioFrames DEF Scenario
<1>4. ASSUME NEW view, SwitchRole(view) PROVE UNCHANGED groups
  BY <1>4 DEF SwitchRole, data
<1>5. QED
  BY <1>1, <1>2, <1>3, <1>4 DEF Next, vars, data

LEMMA LoanChanges ==
  ASSUME [Next]_vars
  PROVE  \/ UNCHANGED loans
         \/ resetAllState
         \/ ScenarioPositif \/ ScenarioUzur \/ ScenarioNoNews \/ ScenarioMangkir
         \/ DialogShown /\ qris.kind = "cicilan" /\ PayLoan
         \/ SanggahSubmit
         \/ \E nominal \in Nominals, tenor \in Tenors : ApplyLoan(nominal, tenor)
         \/ \E i \in DOMAIN loans :
               \/ \E action \in {"Disetujui", "Ditunda"} : LoanAction(i, action)
               \/ ApplySocialFund(i) \/ RestructureLoan(i) \/ TriggerJointLiability(i)
<1>1. CASE MemberNext
  BY <1>1, PhoneFrames DEF MemberNext
<1>2. CASE OfficerNext
  BY <1>2, PanelFrames DEF OfficerNext
<1>3. CASE Scenario
  BY <1>3, ScenarioFrames DEF Scenario
<1>4. ASSUME NEW view, SwitchRole(view) PROVE UNCHANGED loans
  BY <1>4 DEF SwitchRole, data
<1>5. QED
  BY <1>1, <1>2, <1>3, <1>4 DEF Next, vars, data

----------------------------------------------------------------------------
(* Members *)

LEMMA Updated ==
  ASSUME MembersOK, NEW id, NEW m, id \in DOMAIN members => m \in MemberRecord,
         members' = UpdateMember(id, m)
  PROVE  MembersOK' /\ DOMAIN members' = DOMAIN members
<1>1. CASE id \in DOMAIN members
  <2>1. members' = [members EXCEPT ![id] = m]
    BY <1>1 DEF UpdateMember
  <2>2. DOMAIN members' = DOMAIN members
    BY <2>1
  <2>3. \A n \in DOMAIN members : members'[n] = IF n = id THEN m ELSE members[n]
    BY <2>1
  <2>4. members' = [n \in DOMAIN members' |-> members'[n]]
    BY <2>1
  <2>5. QED
    BY <1>1, <2>2, <2>3, <2>4 DEF MembersOK
<1>2. CASE id \notin DOMAIN members
  <2>1. members' = members
    BY <1>2 DEF UpdateMember
  <2>2. QED
    BY <2>1 DEF MembersOK
<1>3. QED
  BY <1>1, <1>2

LEMMA Joined ==
  ASSUME MembersOK, NEW id, NEW m \in MemberRecord, members' = WithMember(id, m)
  PROVE  MembersOK' /\ DOMAIN members' = DOMAIN members \cup {id}
<1>1. members' = [n \in DOMAIN members \cup {id} |-> IF n \in DOMAIN members THEN members[n] ELSE m]
  BY DEF WithMember
<1>2. /\ DOMAIN members' = DOMAIN members \cup {id}
      /\ members' = [n \in DOMAIN members' |-> members'[n]]
  BY <1>1
<1>3. \A n \in DOMAIN members' : members'[n] = IF n \in DOMAIN members THEN members[n] ELSE m
  BY <1>1, <1>2
<1>4. QED
  BY <1>2, <1>3 DEF MembersOK

\* Rewards and penalties stay within the scale.
LEMMA Scored ==
  ASSUME NEW m \in MemberRecord, NEW n \in Nat
  PROVE  /\ AtMost(100, m.skorKeanggotaan + n) \in 0..100
         /\ AtLeast(0, m.skorKeanggotaan - n) \in 0..100
<1>1. m.skorKeanggotaan \in 0..100
  BY SMT DEF MemberRecord
<1>2. QED
  BY <1>1, SMT DEF AtMost, AtLeast

\* No edit leaves the record.
LEMMA Edited ==
  ASSUME NEW m \in MemberRecord, NEW s \in 0..100, NEW b \in BOOLEAN, NEW n \in Nat
  PROVE  /\ [m EXCEPT !.skorKeanggotaan = s] \in MemberRecord
         /\ [m EXCEPT !.skorKeanggotaan = s, !.isUzur = b] \in MemberRecord
         /\ [m EXCEPT !.isUzur = b, !.skorKeanggotaan = s] \in MemberRecord
         /\ [m EXCEPT !.skorKeanggotaan = s, !.isDorman = b] \in MemberRecord
         /\ [m EXCEPT !.isUzur = b, !.jumlahIzinUzur = n] \in MemberRecord
<1> DEFINE x == [m EXCEPT !.skorKeanggotaan = s]
           y == [m EXCEPT !.isUzur = b]
<1>1. x \in MemberRecord
  BY SMT DEF MemberRecord
<1>2. y \in MemberRecord
  BY SMT DEF MemberRecord
<1>3. [m EXCEPT !.skorKeanggotaan = s, !.isUzur = b] = [x EXCEPT !.isUzur = b]
  BY SMT
<1>4. [m EXCEPT !.isUzur = b, !.skorKeanggotaan = s] = [y EXCEPT !.skorKeanggotaan = s]
  BY SMT
<1>5. [m EXCEPT !.skorKeanggotaan = s, !.isDorman = b] = [x EXCEPT !.isDorman = b]
  BY SMT
<1>6. [m EXCEPT !.isUzur = b, !.jumlahIzinUzur = n] = [y EXCEPT !.jumlahIzinUzur = n]
  BY SMT
<1> HIDE DEF x, y
<1>7. [x EXCEPT !.isUzur = b] \in MemberRecord /\ [x EXCEPT !.isDorman = b] \in MemberRecord
  BY <1>1, SMT DEF MemberRecord
<1>8. [y EXCEPT !.skorKeanggotaan = s] \in MemberRecord
  BY <1>2, SMT DEF MemberRecord
<1>9. [y EXCEPT !.jumlahIzinUzur = n] \in MemberRecord
  BY <1>2, SMT DEF MemberRecord
<1>10. QED
  BY <1>1, <1>3, <1>4, <1>5, <1>6, <1>7, <1>8, <1>9, Zenon DEF x

LEMMA Credited ==
  ASSUME NEW m \in MemberRecord, NEW jenis, NEW n \in Nat
  PROVE  Credit(m, jenis, n) \in MemberRecord
<1> DEFINE w == IF jenis = "Wajib" THEN m.simpananWajib + n ELSE m.simpananWajib
           v == IF jenis = "Wajib" THEN m.simpananSukarela ELSE m.simpananSukarela + n
           s == AtMost(100, m.skorKeanggotaan + 2)
           x == [m EXCEPT !.simpananWajib = w]
           y == [x EXCEPT !.simpananSukarela = v]
<1>1. w \in Nat /\ v \in Nat
  <2>1. m.simpananWajib \in Nat /\ m.simpananSukarela \in Nat
    BY SMT DEF MemberRecord
  <2>2. QED
    BY <2>1
<1>2. s \in 0..100
  BY Scored, 2 \in Nat
<1>3. Credit(m, jenis, n) = [m EXCEPT !.simpananWajib = w, !.simpananSukarela = v, !.skorKeanggotaan = s]
  BY Zenon DEF Credit
<1> HIDE DEF w, v, s
<1>4. [m EXCEPT !.simpananWajib = w, !.simpananSukarela = v, !.skorKeanggotaan = s]
        = [y EXCEPT !.skorKeanggotaan = s]
  BY SMT
<1>5. x \in MemberRecord
  BY <1>1, SMT DEF MemberRecord
<1> HIDE DEF x
<1>6. y \in MemberRecord
  BY <1>1, <1>5, SMT DEF MemberRecord
<1> HIDE DEF y
<1>7. [y EXCEPT !.skorKeanggotaan = s] \in MemberRecord
  BY <1>2, <1>6, SMT DEF MemberRecord
<1>8. QED
  BY <1>3, <1>4, <1>7

LEMMA Decisions ==
  ASSUME NEW m \in MemberRecord, NEW action \in {"Approved", "Rejected"}
  PROVE  Decided(m, action) \in MemberRecord
<1> DEFINE d == (action # "Approved")
           p == IF action = "Approved" THEN 100000 ELSE 0
           x == [m EXCEPT !.statusKyc = action]
           y == [x EXCEPT !.isDorman = d]
<1>1. d \in BOOLEAN /\ p \in {0, 100000}
  BY SMT
<1>2. Decided(m, action) = [m EXCEPT !.statusKyc = action, !.isDorman = d, !.simpananPokok = p]
  BY SMT DEF Decided
<1> HIDE DEF d, p
<1>3. [m EXCEPT !.statusKyc = action, !.isDorman = d, !.simpananPokok = p] = [y EXCEPT !.simpananPokok = p]
  BY SMT
<1>4. x \in MemberRecord
  BY SMT DEF MemberRecord
<1> HIDE DEF x
<1>5. y \in MemberRecord
  BY <1>1, <1>4, SMT DEF MemberRecord
<1> HIDE DEF y
<1>6. [y EXCEPT !.simpananPokok = p] \in MemberRecord
  BY <1>1, <1>5, SMT DEF MemberRecord
<1>7. QED
  BY <1>2, <1>3, <1>6, SMT

LEMMA Newcomers ==
  /\ Member("Approved", 80, 0, 0) \in MemberRecord
  /\ [Member("Requested", 70, 0, 0) EXCEPT !.isDorman = FALSE] \in MemberRecord
<1>1. Member("Approved", 80, 0, 0) \in MemberRecord
  BY SMT DEF Member, MemberRecord
<1> DEFINE n == Member("Requested", 70, 0, 0)
<1>2. n \in MemberRecord
  BY SMT DEF Member, MemberRecord
<1> HIDE DEF n
<1>3. ASSUME NEW b \in BOOLEAN PROVE [n EXCEPT !.isDorman = b] \in MemberRecord
  BY <1>2, SMT DEF MemberRecord
<1>4. QED
  BY <1>1, <1>3, Zenon DEF n

MembersGrow == MembersOK' /\ DOMAIN members \subseteq DOMAIN members'

LEMMA MembersStep ==
  ASSUME Records, [Next]_vars
  PROVE  resetAllState \/ MembersGrow
<1>m. MembersOK /\ (\A m \in DOMAIN members : members[m] \in MemberRecord) /\ "m1" \in DOMAIN members
  BY Initially DEF Records, MembersOK
<1>u. ASSUME NEW id, NEW m, id \in DOMAIN members => m \in MemberRecord, members' = UpdateMember(id, m)
      PROVE  MembersGrow
  BY <1>m, <1>u, Updated DEF MembersGrow
<1>w. ASSUME NEW id, NEW m \in MemberRecord, members' = WithMember(id, m)
      PROVE  MembersGrow
  BY <1>m, <1>w, Joined DEF MembersGrow
<1>1. CASE UNCHANGED members
  BY <1>1, <1>m DEF MembersOK, MembersGrow
<1>2. CASE ScenarioPositif
  <2> DEFINE m == [members["m1"] EXCEPT !.skorKeanggotaan = AtMost(100, @ + 3)]
  <2>1. members' = UpdateMember("m1", m)
    BY <1>2 DEF ScenarioPositif
  <2>2. "m1" \in DOMAIN members => m \in MemberRecord
    <3> DEFINE s == AtMost(100, members["m1"].skorKeanggotaan + 3)
    <3>1. s \in 0..100
      BY <1>m, Scored, 3 \in Nat
    <3>2. m = [members["m1"] EXCEPT !.skorKeanggotaan = s]
      BY Zenon
    <3> HIDE DEF m, s
    <3>3. QED
      BY <1>m, <3>1, <3>2, Edited
  <2> HIDE DEF m
  <2>3. QED
    BY <2>1, <2>2, <1>u
<1>3. CASE ScenarioUzur
  <2> DEFINE m == [members["m2"] EXCEPT !.isUzur = TRUE, !.skorKeanggotaan = 78]
  <2>1. members' = UpdateMember("m2", m)
    BY <1>3 DEF ScenarioUzur
  <2>2. "m2" \in DOMAIN members => m \in MemberRecord
    <3> DEFINE s == 78
    <3>1. s \in 0..100
      OBVIOUS
    <3>2. m = [members["m2"] EXCEPT !.isUzur = TRUE, !.skorKeanggotaan = s]
      BY Zenon
    <3> HIDE DEF m, s
    <3>3. QED
      BY <1>m, <3>1, <3>2, Edited
  <2> HIDE DEF m
  <2>3. QED
    BY <2>1, <2>2, <1>u
<1>4. CASE ScenarioNoNews
  <2> DEFINE m == [members["m2"] EXCEPT !.skorKeanggotaan = AtLeast(0, @ - 15), !.isUzur = FALSE]
  <2>1. members' = UpdateMember("m2", m)
    BY <1>4 DEF ScenarioNoNews
  <2>2. "m2" \in DOMAIN members => m \in MemberRecord
    <3> DEFINE s == AtLeast(0, members["m2"].skorKeanggotaan - 15)
    <3>1. "m2" \in DOMAIN members => s \in 0..100
      BY <1>m, Scored, 15 \in Nat
    <3>2. m = [members["m2"] EXCEPT !.skorKeanggotaan = s, !.isUzur = FALSE]
      BY Zenon
    <3> HIDE DEF m, s
    <3>3. QED
      BY <1>m, <3>1, <3>2, Edited
  <2> HIDE DEF m
  <2>3. QED
    BY <2>1, <2>2, <1>u
<1>5. CASE ScenarioMangkir
  <2> DEFINE m == [members["m3"] EXCEPT !.skorKeanggotaan = 38, !.isDorman = TRUE]
  <2>1. members' = UpdateMember("m3", m)
    BY <1>5 DEF ScenarioMangkir
  <2>2. "m3" \in DOMAIN members => m \in MemberRecord
    <3> DEFINE s == 38
    <3>1. s \in 0..100
      OBVIOUS
    <3>2. m = [members["m3"] EXCEPT !.skorKeanggotaan = s, !.isDorman = TRUE]
      BY Zenon
    <3> HIDE DEF m, s
    <3>3. QED
      BY <1>m, <3>1, <3>2, Edited
  <2> HIDE DEF m
  <2>3. QED
    BY <2>1, <2>2, <1>u
<1>6. CASE AddFatimah
  BY <1>6, Newcomers, <1>w DEF AddFatimah
<1>7. ASSUME NEW id \in cast.accounts, SubmitKyc(id) PROVE MembersGrow
  BY <1>7, Newcomers, <1>w DEF SubmitKyc
<1>8. CASE DialogShown /\ qris.kind = "simpanan" /\ PaySavings
  <2> DEFINE m == Credit(members[qris.member], qris.jenis, qris.amount)
  <2>1. members' = UpdateMember(qris.member, m)
    BY <1>8 DEF PaySavings
  <2>2. qris.amount \in Nat
    BY <1>8 DEF Records, DialogOK, DialogShown
  <2>3. qris.member \in DOMAIN members => m \in MemberRecord
    BY <1>m, <2>2, Credited
  <2> HIDE DEF m
  <2>4. QED
    BY <2>1, <2>3, <1>u
<1>9. CASE DialogShown /\ qris.kind = "cicilan" /\ PayLoan
  <2> DEFINE m == [members[qris.member] EXCEPT !.skorKeanggotaan = AtMost(100, @ + 4), !.isUzur = FALSE]
  <2>1. members' = UpdateMember(qris.member, m)
    BY <1>9 DEF PayLoan
  <2>2. qris.member \in DOMAIN members => m \in MemberRecord
    <3> DEFINE s == AtMost(100, members[qris.member].skorKeanggotaan + 4)
    <3>1. qris.member \in DOMAIN members => s \in 0..100
      BY <1>m, Scored, 4 \in Nat
    <3>2. m = [members[qris.member] EXCEPT !.skorKeanggotaan = s, !.isUzur = FALSE]
      BY Zenon
    <3> HIDE DEF m, s
    <3>3. QED
      BY <1>m, <3>1, <3>2, Edited
  <2> HIDE DEF m
  <2>3. QED
    BY <2>1, <2>2, <1>u
<1>10. ASSUME NEW id \in cast.accounts, NEW action \in {"Approved", "Rejected"}, KycAction(id, action)
       PROVE  MembersGrow
  <2>1. members' = UpdateMember(id, Decided(members[id], action))
    BY <1>10 DEF KycAction
  <2>2. id \in DOMAIN members => Decided(members[id], action) \in MemberRecord
    BY <1>m, Decisions
  <2>3. QED
    BY <2>1, <2>2, <1>u
<1>11. ASSUME NEW i \in DOMAIN loans, ToggleUzur(i) PROVE MembersGrow
  <2> DEFINE id == loans[i].memberId
             m == [members[id] EXCEPT !.isUzur = ~@,
                                      !.jumlahIzinUzur = IF members[id].isUzur THEN @ ELSE @ + 1]
  <2>1. members' = UpdateMember(id, m)
    BY <1>11 DEF ToggleUzur
  <2>2. id \in DOMAIN members => m \in MemberRecord
    <3> DEFINE b == ~members[id].isUzur
               n == IF members[id].isUzur THEN members[id].jumlahIzinUzur
                    ELSE members[id].jumlahIzinUzur + 1
    <3>1. \A r \in MemberRecord : r.jumlahIzinUzur \in Nat
      BY SMT DEF MemberRecord
    <3>2. b \in BOOLEAN
      OBVIOUS
    <3>3. id \in DOMAIN members => n \in Nat
      <4>1. id \in DOMAIN members => members[id].jumlahIzinUzur \in Nat
        BY <1>m, <3>1
      <4>2. QED
        BY <4>1
    <3>4. m = [members[id] EXCEPT !.isUzur = b, !.jumlahIzinUzur = n]
      BY Zenon
    <3>5. 0 \in 0..100
      OBVIOUS
    <3> HIDE DEF m, b, n
    <3>6. QED
      BY <1>m, <3>2, <3>3, <3>4, <3>5, Edited
  <2> HIDE DEF m
  <2>3. QED
    BY <2>1, <2>2, <1>u
<1>12. ASSUME NEW i \in DOMAIN loans, TriggerJointLiability(i) PROVE MembersGrow
  <2> DEFINE id == loans[i].memberId
             m == [members[id] EXCEPT !.skorKeanggotaan = AtLeast(0, @ - 15)]
  <2>1. members' = UpdateMember(id, m)
    BY <1>12 DEF TriggerJointLiability
  <2>2. id \in DOMAIN members => m \in MemberRecord
    <3> DEFINE s == AtLeast(0, members[id].skorKeanggotaan - 15)
    <3>1. id \in DOMAIN members => s \in 0..100
      BY <1>m, Scored, 15 \in Nat
    <3>2. m = [members[id] EXCEPT !.skorKeanggotaan = s]
      BY Zenon
    <3> HIDE DEF m, s
    <3>3. QED
      BY <1>m, <3>1, <3>2, Edited
  <2> HIDE DEF m
  <2>3. QED
    BY <2>1, <2>2, <1>u
<1>13. QED
  BY MemberChanges, <1>1, <1>2, <1>3, <1>4, <1>5, <1>6, <1>7, <1>8, <1>9, <1>10, <1>11, <1>12

----------------------------------------------------------------------------
(* Groups *)

\* A sequence whose places are filled anew.
LEMMA Replaced ==
  ASSUME NEW S, NEW T, NEW s \in Seq(S), NEW t, t = [i \in DOMAIN s |-> t[i]],
         \A i \in DOMAIN s : t[i] \in T
  PROVE  t \in Seq(T) /\ DOMAIN t = DOMAIN s /\ Len(t) = Len(s)
<1>1. DOMAIN s = 1..Len(s) /\ Len(s) \in Nat
  OBVIOUS
<1>2. t \in [1..Len(s) -> T]
  BY <1>1
<1>3. t \in Seq(T)
  BY <1>1, <1>2, SeqDef
<1>4. QED
  BY <1>1, <1>2, <1>3

LEMMA Placed ==
  ASSUME NEW S, NEW s \in Seq(S)
  PROVE  /\ DOMAIN s = 1..Len(s) /\ Len(s) \in Nat
         /\ \A i \in DOMAIN s : s[i] \in S
         /\ \A x \in S : /\ Append(s, x) \in Seq(S) /\ Len(Append(s, x)) = Len(s) + 1
                         /\ DOMAIN Append(s, x) = DOMAIN s \cup {Len(s) + 1}
                         /\ Append(s, x)[Len(s) + 1] = x /\ Len(s) + 1 \notin DOMAIN s
                         /\ \A i \in DOMAIN s : Append(s, x)[i] = s[i]
OBVIOUS

Apart == \A g, h \in DOMAIN groups : groups[g].anggotaIds \cap groups[h].anggotaIds # {} => g = h

\* Groups only gain members, each from among those in no group.
GroupsGrow ==
    /\ groups' \in Seq(GroupShape(DOMAIN members)) /\ Len(groups') >= 2
    /\ DOMAIN groups \subseteq DOMAIN groups'
    /\ \A g \in DOMAIN groups : groups[g].anggotaIds \subseteq groups'[g].anggotaIds
    /\ Apart'

LEMMA GroupEdits ==
  ASSUME NEW M, NEW g \in GroupShape(M), NEW new
  PROVE  /\ \A A \in SUBSET M : new = [g EXCEPT !.anggotaIds = A] =>
               new \in GroupShape(M) /\ new.anggotaIds = A
         /\ \A n \in Nat : new = [g EXCEPT !.kasSosial = n] =>
               new \in GroupShape(M) /\ new.anggotaIds = g.anggotaIds
         /\ \A rep \in {"baik", "cukup", "kurang"} : new = [g EXCEPT !.reputasiKomunitas = rep] =>
               new \in GroupShape(M) /\ new.anggotaIds = g.anggotaIds
<1>1. ASSUME NEW A \in SUBSET M, new = [g EXCEPT !.anggotaIds = A]
      PROVE  new \in GroupShape(M) /\ new.anggotaIds = A
  BY <1>1, SMT DEF GroupShape
<1>2. ASSUME NEW n \in Nat, new = [g EXCEPT !.kasSosial = n]
      PROVE  new \in GroupShape(M) /\ new.anggotaIds = g.anggotaIds
  BY <1>2, SMT DEF GroupShape
<1>3. ASSUME NEW rep \in {"baik", "cukup", "kurang"}, new = [g EXCEPT !.reputasiKomunitas = rep]
      PROVE  new \in GroupShape(M) /\ new.anggotaIds = g.anggotaIds
  BY <1>3, SMT DEF GroupShape
<1>4. QED
  BY <1>1, <1>2, <1>3

LEMMA GroupSet ==
  ASSUME GroupsOK, Apart, NEW g \in DOMAIN groups, NEW new \in GroupShape(DOMAIN members),
         groups' = [groups EXCEPT ![g] = new],
         groups[g].anggotaIds \subseteq new.anggotaIds,
         \A m \in new.anggotaIds \ groups[g].anggotaIds :
            \A h \in DOMAIN groups : m \notin groups[h].anggotaIds
  PROVE  GroupsGrow
<1> DEFINE S == GroupShape(DOMAIN members)
<1>1. groups \in Seq(S) /\ Len(groups) >= 2 /\ \A h \in DOMAIN groups : groups[h] \in S
  BY Placed DEF GroupsOK
<1> HIDE DEF S
<1>2. \A h \in DOMAIN groups : groups'[h] = IF h = g THEN new ELSE groups[h]
  BY <1>1
<1>3. groups' = [h \in DOMAIN groups |-> groups'[h]]
  BY <1>1
<1>4. new \in S
  BY DEF S
<1>5. groups' \in Seq(S) /\ DOMAIN groups' = DOMAIN groups /\ Len(groups') = Len(groups)
  BY <1>1, <1>2, <1>3, <1>4, Replaced
<1>6. \A h \in DOMAIN groups : groups[h].anggotaIds \subseteq groups'[h].anggotaIds
  BY <1>2
<1>7. ASSUME NEW h \in DOMAIN groups, NEW k \in DOMAIN groups, NEW m,
             m \in groups'[h].anggotaIds, m \in groups'[k].anggotaIds
      PROVE  h = k
  <2>1. \A j \in DOMAIN groups : m \in groups'[j].anggotaIds =>
           m \in groups[j].anggotaIds \/ (j = g /\ \A i \in DOMAIN groups : m \notin groups[i].anggotaIds)
    BY <1>2
  <2>2. QED
    BY <1>7, <2>1 DEF Apart
<1>8. Apart'
  BY <1>5, <1>7 DEF Apart
<1>9. QED
  BY <1>1, <1>5, <1>6, <1>8 DEF GroupsGrow, S

LEMMA GroupsStep ==
  ASSUME Records, LiableGroup, [Next]_vars
  PROVE  resetAllState \/ GroupsGrow
<1> DEFINE M == DOMAIN members
<1>g. GroupsOK /\ Apart /\ groups \in Seq(GroupShape(M)) /\ Len(groups) >= 2
      /\ \A g \in DOMAIN groups : groups[g] \in GroupShape(M)
  BY Placed DEF Records, GroupsOK, LiableGroup, Apart
<1>m. currentMember \in M
  BY Initially DEF Records, Sessions, MembersOK, currentMember
<1>n. GroupFormsOffered => \A g \in DOMAIN groups : currentMember \notin groups[g].anggotaIds
  <2>1. CASE GroupWith(currentMember) = 0
    <3>1. \A g \in DOMAIN groups : currentMember \notin groups[g].anggotaIds
      BY <1>g, <2>1, Grouped
    <3>2. QED
      BY <3>1
  <2>2. QED
    BY <2>1 DEF GroupFormsOffered, currentGroup
<1> HIDE DEF M
<1>e. ASSUME NEW g \in DOMAIN groups, GroupFormsOffered, Enter(g) PROVE GroupsGrow
  <2> DEFINE A == groups[g].anggotaIds \cup {currentMember}
             new == [groups[g] EXCEPT !.anggotaIds = A]
  <2>1. groups' = [groups EXCEPT ![g] = new]
    BY <1>e DEF Enter
  <2>g. groups[g] \in GroupShape(M)
    BY <1>g
  <2>a. A \in SUBSET M
    <3>1. groups[g].anggotaIds \in SUBSET M
      BY <1>g, SMT DEF GroupShape
    <3>2. QED
      BY <1>m, <3>1
  <2>2. new \in GroupShape(M) /\ new.anggotaIds = groups[g].anggotaIds \cup {currentMember}
    <3>1. new = [groups[g] EXCEPT !.anggotaIds = A]
      OBVIOUS
    <3> HIDE DEF new, A
    <3>2. new \in GroupShape(M) /\ new.anggotaIds = A
      BY <2>g, <2>a, <3>1, GroupEdits
    <3>3. QED
      BY <3>2 DEF A
  <2> HIDE DEF new
  <2>3. QED
    BY <1>g, <1>n, <1>e, <2>1, <2>2, GroupSet DEF M
<1>k. ASSUME NEW g \in DOMAIN groups, NEW new \in GroupShape(M),
             new.anggotaIds = groups[g].anggotaIds, groups' = [groups EXCEPT ![g] = new]
      PROVE  GroupsGrow
  BY <1>g, <1>k, GroupSet DEF M
<1>1. CASE UNCHANGED groups
  BY <1>1, <1>g DEF GroupsGrow, Apart, M
<1>2. CASE ScenarioMangkir
  <2> DEFINE new == [groups[2] EXCEPT !.reputasiKomunitas = "kurang"]
  <2>g. 2 \in DOMAIN groups
    BY <1>g
  <2>1. groups' = [groups EXCEPT ![2] = new]
    BY <1>2, Zenon DEF ScenarioMangkir
  <2>2. new \in GroupShape(M) /\ new.anggotaIds = groups[2].anggotaIds
    <3>1. new = [groups[2] EXCEPT !.reputasiKomunitas = "kurang"]
      OBVIOUS
    <3> HIDE DEF new
    <3>2. QED
      BY <1>g, <2>g, <3>1, GroupEdits
  <2> HIDE DEF new
  <2>3. QED
    BY <2>g, <2>1, <2>2, <1>k
<1>3. ASSUME NEW plafon \in Plafons, CreateGroup(plafon) PROVE GroupsGrow
  <2> DEFINE new == Group(currentMember, {currentMember}, plafon, 0, "baik", "BARU")
  <2>1. GroupFormsOffered /\ groups' = Append(groups, new)
    BY <1>3 DEF CreateGroup
  <2>2. plafon \in Nat
    BY SMT DEF Plafons
  <2>3. new \in GroupShape(M)
    BY <1>m, <2>2, SMT DEF Group, GroupShape, Codes
  <2>4. new.anggotaIds = {currentMember}
    BY SMT DEF Group
  <2> HIDE DEF new
  <2>5. /\ groups' \in Seq(GroupShape(M)) /\ Len(groups') >= 2
        /\ DOMAIN groups' = DOMAIN groups \cup {Len(groups) + 1} /\ groups'[Len(groups) + 1] = new
        /\ \A g \in DOMAIN groups : groups'[g] = groups[g]
    BY <1>g, <2>1, <2>3, Placed
  <2>6. Apart'
    <3>1. ASSUME NEW g \in DOMAIN groups', NEW h \in DOMAIN groups', NEW m,
                 m \in groups'[g].anggotaIds, m \in groups'[h].anggotaIds
          PROVE  g = h
      BY <3>1, <1>g, <1>n, <2>1, <2>4, <2>5 DEF Apart
    <3>2. QED
      BY <3>1 DEF Apart
  <2>7. QED
    BY <2>5, <2>6 DEF GroupsGrow, M
<1>4. ASSUME NEW g \in 1..MaxGroups, JoinGroup(g) PROVE GroupsGrow
  BY <1>4, <1>e DEF JoinGroup
<1>5. ASSUME NEW code \in Codes, JoinByInviteCode(code) PROVE GroupsGrow
  <2> DEFINE k == SelectInSeq(groups, LAMBDA g : g.kodeUndangan = code)
  <2>1. GroupFormsOffered /\ k # 0 /\ Enter(k)
    BY <1>5 DEF JoinByInviteCode
  <2>2. k \in DOMAIN groups
    <3> DEFINE I == {i \in 1..Len(groups) : groups[i].kodeUndangan = code}
    <3>1. k = IF I # {} THEN Min(I) ELSE 0
      BY DEF SelectInSeq
    <3>2. I \in SUBSET Nat /\ I \subseteq DOMAIN groups
      BY <1>g
    <3> HIDE DEF k, I
    <3>3. QED
      BY <2>1, <3>1, <3>2, Least
  <2> HIDE DEF k
  <2>3. QED
    BY <1>e, <2>1, <2>2
<1>6. ASSUME NEW i \in DOMAIN loans, ApplySocialFund(i) PROVE GroupsGrow
  <2> DEFINE g == loans[i].groupId
             n == groups[g].kasSosial - loans[i].cicilanBulanan
             new == [groups[g] EXCEPT !.kasSosial = n]
  <2>1. groups' = [groups EXCEPT ![g] = new] /\ groups[g].kasSosial >= loans[i].cicilanBulanan
    BY <1>6 DEF ApplySocialFund, FundSuffices
  <2>2. loans[i] \in LoanShape(M, DOMAIN groups)
    BY Placed DEF Records, LoansOK, M
  <2>3. g \in DOMAIN groups /\ loans[i].cicilanBulanan \in Nat
    BY <2>2, SMT DEF LoanShape
  <2>4. groups[g].kasSosial \in Nat
    BY <1>g, <2>3, SMT DEF GroupShape
  <2>5. n \in Nat
    BY <2>1, <2>3, <2>4
  <2>6. new \in GroupShape(M) /\ new.anggotaIds = groups[g].anggotaIds
    <3>1. new = [groups[g] EXCEPT !.kasSosial = n]
      OBVIOUS
    <3> HIDE DEF new, n
    <3>2. QED
      BY <1>g, <2>3, <2>5, <3>1, GroupEdits
  <2> HIDE DEF g, n, new
  <2>7. QED
    BY <2>1, <2>3, <2>6, <1>k
<1>7. QED
  BY GroupChanges, <1>1, <1>2, <1>3, <1>4, <1>5, <1>6

----------------------------------------------------------------------------
(* Loans *)

\* A loan keeps its borrower and group, stays closed, and is sound.
Retold(l, new) ==
    /\ new.memberId = l.memberId /\ new.groupId = l.groupId
    /\ l.status = "Lunas" => new.status = "Lunas"
    /\ Sound(new)

Revised ==
    /\ loans' \in Seq(LoanShape(DOMAIN members, DOMAIN groups))
    /\ DOMAIN loans' = DOMAIN loans /\ Len(loans') = Len(loans)
    /\ \A i \in DOMAIN loans : Retold(loans[i], loans'[i])

\* An application of a member without an open loan, in the group that has them.
Applied ==
    \E l \in LoanShape(DOMAIN members, DOMAIN groups) :
        /\ loans' = Append(loans, l)
        /\ Sound(l)
        /\ \A i \in DOMAIN loans : loans[i].memberId = l.memberId => loans[i].status = "Lunas"
        /\ l.memberId \in groups[l.groupId].anggotaIds

LEMMA Revision ==
  ASSUME LoansOK, NEW C \in SUBSET DOMAIN loans, loans' = [i \in DOMAIN loans |-> loans'[i]],
         \A i \in C : loans'[i] \in LoanShape(DOMAIN members, DOMAIN groups) /\ Retold(loans[i], loans'[i]),
         \A i \in DOMAIN loans \ C : loans'[i] = loans[i]
  PROVE  Revised
<1> DEFINE S == LoanShape(DOMAIN members, DOMAIN groups)
<1>1. loans \in Seq(S) /\ \A i \in DOMAIN loans : loans[i] \in S /\ Retold(loans[i], loans[i])
  BY Placed DEF LoansOK, Retold
<1>2. \A i \in DOMAIN loans : loans'[i] \in S /\ Retold(loans[i], loans'[i])
  BY <1>1
<1> HIDE DEF S
<1>3. loans' \in Seq(S) /\ DOMAIN loans' = DOMAIN loans /\ Len(loans') = Len(loans)
  BY <1>1, <1>2, Replaced
<1>4. QED
  BY <1>2, <1>3 DEF Revised, S

LEMMA RevisedSome ==
  ASSUME LoansOK, NEW c, DOMAIN c \subseteq DOMAIN loans, loans' = UpdateLoans(c),
         \A i \in DOMAIN c : c[i] \in LoanShape(DOMAIN members, DOMAIN groups) /\ Retold(loans[i], c[i])
  PROVE  Revised
<1>1. loans' = [i \in DOMAIN loans |-> IF i \in DOMAIN c THEN c[i] ELSE loans[i]]
  BY DEF UpdateLoans
<1>2. /\ loans' = [i \in DOMAIN loans |-> loans'[i]]
      /\ \A i \in DOMAIN c : loans'[i] = c[i]
      /\ \A i \in DOMAIN loans \ DOMAIN c : loans'[i] = loans[i]
  BY <1>1
<1>3. QED
  BY <1>2, Revision

LEMMA RevisedOne ==
  ASSUME LoansOK, NEW i \in DOMAIN loans, NEW new \in LoanShape(DOMAIN members, DOMAIN groups),
         Retold(loans[i], new), loans' = [loans EXCEPT ![i] = new]
  PROVE  Revised
<1>1. loans \in Seq(LoanShape(DOMAIN members, DOMAIN groups))
  BY DEF LoansOK
<1>2. /\ loans' = [j \in DOMAIN loans |-> loans'[j]]
      /\ loans'[i] = new
      /\ \A j \in DOMAIN loans \ {i} : loans'[j] = loans[j]
  BY <1>1
<1> DEFINE C == {i}
<1>3. /\ C \in SUBSET DOMAIN loans
      /\ \A j \in C : loans'[j] \in LoanShape(DOMAIN members, DOMAIN groups) /\ Retold(loans[j], loans'[j])
      /\ \A j \in DOMAIN loans \ C : loans'[j] = loans[j]
  BY <1>2
<1> HIDE DEF C
<1>4. QED
  BY <1>2, <1>3, Revision

\* What each scenario and each button makes of a loan that is sound.
LEMMA ScenarioEdits ==
  ASSUME NEW M, NEW G, NEW l \in LoanShape(M, G), Sound(l)
  PROVE  /\ l.memberId = "m1" =>
               LET new == [l EXCEPT !.statusCicilan = "PAID", !.sisaCicilan = AtLeast(0, @ - 1)]
               IN  new \in LoanShape(M, G) /\ Retold(l, new)
         /\ l.memberId = "m2" => \A p \in {"UNPAID", "DITALANGI"} :
               LET new == [l EXCEPT !.statusCicilan = p]
               IN  new \in LoanShape(M, G) /\ Retold(l, new)
         /\ l.memberId = "m3" =>
               LET new == [l EXCEPT !.status = "Diajukan", !.flagAi = "MERAH"]
               IN  new \in LoanShape(M, G) /\ Retold(l, new)
<1>1. ASSUME l.memberId = "m1"
      PROVE  LET new == [l EXCEPT !.statusCicilan = "PAID", !.sisaCicilan = AtLeast(0, @ - 1)]
             IN  new \in LoanShape(M, G) /\ Retold(l, new)
  <2> DEFINE n == AtLeast(0, l.sisaCicilan - 1)
             x == [l EXCEPT !.statusCicilan = "PAID"]
             new == [l EXCEPT !.statusCicilan = "PAID", !.sisaCicilan = n]
  <2>1. n \in Nat /\ (l.sisaCicilan = 0 => n = 0)
    BY SMT DEF LoanShape, AtLeast
  <2> HIDE DEF n
  <2>2. x \in LoanShape(M, G)
    BY SMT DEF LoanShape
  <2>3. new = [x EXCEPT !.sisaCicilan = n]
    BY SMT
  <2>4. /\ new.memberId = l.memberId /\ new.groupId = l.groupId /\ new.status = l.status
        /\ new.statusCicilan = "PAID" /\ new.sisaCicilan = n
    BY SMT DEF LoanShape
  <2> HIDE DEF x
  <2>5. new \in LoanShape(M, G)
    BY <2>1, <2>2, <2>3, SMT DEF LoanShape
  <2> HIDE DEF new
  <2>6. Retold(l, new)
    BY <1>1, <2>1, <2>4, SMT DEF Retold, Sound
  <2>7. QED
    BY <2>5, <2>6 DEF new, n
<1>2. ASSUME l.memberId = "m2", NEW p \in {"UNPAID", "DITALANGI"}
      PROVE  LET new == [l EXCEPT !.statusCicilan = p]
             IN  new \in LoanShape(M, G) /\ Retold(l, new)
  BY <1>2, SMT DEF LoanShape, Sound, Retold
<1>3. ASSUME l.memberId = "m3"
      PROVE  LET new == [l EXCEPT !.status = "Diajukan", !.flagAi = "MERAH"]
             IN  new \in LoanShape(M, G) /\ Retold(l, new)
  <2> DEFINE x == [l EXCEPT !.status = "Diajukan"]
             new == [l EXCEPT !.status = "Diajukan", !.flagAi = "MERAH"]
  <2>1. x \in LoanShape(M, G)
    BY SMT DEF LoanShape
  <2>2. new = [x EXCEPT !.flagAi = "MERAH"]
    BY SMT
  <2>3. /\ new.memberId = l.memberId /\ new.groupId = l.groupId /\ new.status = "Diajukan"
        /\ new.statusCicilan = l.statusCicilan /\ new.sisaCicilan = l.sisaCicilan
    BY SMT DEF LoanShape
  <2> HIDE DEF x
  <2>4. new \in LoanShape(M, G)
    BY <2>1, <2>2, SMT DEF LoanShape
  <2> HIDE DEF new
  <2>5. Retold(l, new)
    BY <1>3, <2>3, SMT DEF Retold, Sound
  <2>6. QED
    BY <2>4, <2>5 DEF new
<1>4. QED
  BY <1>1, <1>2, <1>3

LEMMA Paying ==
  ASSUME NEW M, NEW G, NEW l \in LoanShape(M, G), Sound(l),
         l.status # "Lunas", l.statusCicilan # "PAID",
         NEW new \in LoanShape(M, G), new.memberId = l.memberId, new.groupId = l.groupId,
         new.statusCicilan = "PAID", new.sisaCicilan = l.sisaCicilan - 1,
         new.status = IF l.sisaCicilan - 1 <= 0 THEN "Lunas" ELSE l.status
  PROVE  Retold(l, new)
<1>1. l.sisaCicilan \in Nat /\ l.memberId \notin {"m1", "m4"} /\ l.sisaCicilan # 0
  BY SMT DEF LoanShape, Sound
<1>2. QED
  BY <1>1, SMT DEF Retold, Sound

\* The two orders in which a payment is written down.
LEMMA Payments ==
  ASSUME NEW M, NEW G, NEW l \in LoanShape(M, G), Sound(l),
         l.status # "Lunas", l.statusCicilan # "PAID",
         NEW st, st = IF l.sisaCicilan - 1 <= 0 THEN "Lunas" ELSE l.status,
         NEW n, n = l.sisaCicilan - 1,
         NEW new, \/ new = [l EXCEPT !.sisaCicilan = n, !.status = st, !.statusCicilan = "PAID"]
                  \/ new = [l EXCEPT !.statusCicilan = "PAID", !.sisaCicilan = n, !.status = st]
  PROVE  new \in LoanShape(M, G) /\ Retold(l, new)
<1>1. n \in Nat /\ st \in {"Diajukan", "Cair", "Lunas", "Ditunda"}
  BY SMT DEF LoanShape, Sound
<1>2. /\ new.memberId = l.memberId /\ new.groupId = l.groupId /\ new.statusCicilan = "PAID"
      /\ new.sisaCicilan = n /\ new.status = st
  <2>1. CASE new = [l EXCEPT !.sisaCicilan = n, !.status = st, !.statusCicilan = "PAID"]
    BY <2>1, SMT DEF LoanShape
  <2>2. CASE new = [l EXCEPT !.statusCicilan = "PAID", !.sisaCicilan = n, !.status = st]
    BY <2>2, SMT DEF LoanShape
  <2>3. QED
    BY <2>1, <2>2
<1>3. ASSUME new = [l EXCEPT !.sisaCicilan = n, !.status = st, !.statusCicilan = "PAID"]
      PROVE  new \in LoanShape(M, G)
  <2> DEFINE x == [l EXCEPT !.sisaCicilan = n]
             y == [x EXCEPT !.status = st]
  <2>1. new = [y EXCEPT !.statusCicilan = "PAID"]
    BY <1>3, SMT
  <2>2. x \in LoanShape(M, G)
    BY <1>1, SMT DEF LoanShape
  <2> HIDE DEF x
  <2>3. y \in LoanShape(M, G)
    BY <1>1, <2>2, SMT DEF LoanShape
  <2> HIDE DEF y
  <2>4. QED
    BY <2>1, <2>3, SMT DEF LoanShape
<1>4. ASSUME new = [l EXCEPT !.statusCicilan = "PAID", !.sisaCicilan = n, !.status = st]
      PROVE  new \in LoanShape(M, G)
  <2> DEFINE x == [l EXCEPT !.statusCicilan = "PAID"]
             y == [x EXCEPT !.sisaCicilan = n]
  <2>1. new = [y EXCEPT !.status = st]
    BY <1>4, SMT
  <2>2. x \in LoanShape(M, G)
    BY SMT DEF LoanShape
  <2> HIDE DEF x
  <2>3. y \in LoanShape(M, G)
    BY <1>1, <2>2, SMT DEF LoanShape
  <2> HIDE DEF y
  <2>4. QED
    BY <1>1, <2>1, <2>3, SMT DEF LoanShape
<1>5. new \in LoanShape(M, G)
  BY <1>3, <1>4
<1>6. QED
  BY <1>2, <1>5, Paying

LEMMA PanelEdits ==
  ASSUME NEW M, NEW G, NEW l \in LoanShape(M, G), Sound(l)
  PROVE  /\ LET new == [l EXCEPT !.isSanggah = TRUE]
            IN  new \in LoanShape(M, G) /\ Retold(l, new)
         /\ l.status = "Diajukan" => \A s \in {"Cair", "Ditunda"} :
               LET new == [l EXCEPT !.status = s]
               IN  new \in LoanShape(M, G) /\ Retold(l, new)
         /\ l.status = "Cair" /\ l.statusCicilan # "PAID" =>
               LET new == [l EXCEPT !.statusCicilan = "DITALANGI"]
               IN  new \in LoanShape(M, G) /\ Retold(l, new)
<1>1. LET new == [l EXCEPT !.isSanggah = TRUE]
      IN  new \in LoanShape(M, G) /\ Retold(l, new)
  <2> DEFINE new == [l EXCEPT !.isSanggah = TRUE]
  <2>1. new \in LoanShape(M, G)
    <3>1. ASSUME NEW b \in BOOLEAN PROVE [l EXCEPT !.isSanggah = b] \in LoanShape(M, G)
      BY SMT DEF LoanShape
    <3>2. QED
      BY <3>1, Zenon
  <2>2. /\ new.memberId = l.memberId /\ new.groupId = l.groupId /\ new.status = l.status
        /\ new.statusCicilan = l.statusCicilan /\ new.sisaCicilan = l.sisaCicilan
    BY SMT DEF LoanShape
  <2> HIDE DEF new
  <2>3. Retold(l, new)
    BY <2>2, SMT DEF Retold, Sound
  <2>4. QED
    BY <2>1, <2>3 DEF new
<1>2. ASSUME l.status = "Diajukan", NEW s \in {"Cair", "Ditunda"}
      PROVE  LET new == [l EXCEPT !.status = s]
             IN  new \in LoanShape(M, G) /\ Retold(l, new)
  BY <1>2, SMT DEF LoanShape, Sound, Retold
<1>3. ASSUME l.status = "Cair", l.statusCicilan # "PAID"
      PROVE  LET new == [l EXCEPT !.statusCicilan = "DITALANGI"]
             IN  new \in LoanShape(M, G) /\ Retold(l, new)
  BY <1>3, SMT DEF LoanShape, Sound, Retold
<1>4. QED
  BY <1>1, <1>2, <1>3

LEMMA Restructuring ==
  ASSUME NEW M, NEW G, NEW l \in LoanShape(M, G), Sound(l),
         l.status = "Cair", l.statusCicilan # "PAID",
         NEW c, c = (6 * l.cicilanBulanan + 5) \div 10, NEW n, n = l.sisaCicilan + 3,
         NEW new, new = [l EXCEPT !.cicilanBulanan = c, !.sisaCicilan = n, !.statusCicilan = "PAID"]
  PROVE  new \in LoanShape(M, G) /\ Retold(l, new)
<1>1. /\ l.sisaCicilan \in Nat /\ l.cicilanBulanan \in Nat /\ l.memberId \notin {"m1", "m4"}
  BY SMT DEF LoanShape, Sound
<1>2. c \in Nat /\ n \in Nat /\ n # 0
  BY <1>1, SMT
<1>3. new \in LoanShape(M, G)
  <2> DEFINE x == [l EXCEPT !.cicilanBulanan = c]
             y == [x EXCEPT !.sisaCicilan = n]
  <2>1. new = [y EXCEPT !.statusCicilan = "PAID"]
    BY SMT
  <2>2. x \in LoanShape(M, G)
    BY <1>2, SMT DEF LoanShape
  <2> HIDE DEF x
  <2>3. y \in LoanShape(M, G)
    BY <1>2, <2>2, SMT DEF LoanShape
  <2> HIDE DEF y
  <2>4. QED
    BY <2>1, <2>3, SMT DEF LoanShape
<1>4. /\ new.memberId = l.memberId /\ new.groupId = l.groupId /\ new.statusCicilan = "PAID"
      /\ new.sisaCicilan = n /\ new.status = l.status
  BY SMT DEF LoanShape
<1>5. QED
  BY <1>1, <1>2, <1>3, <1>4, SMT DEF Retold, Sound

LEMMA LoansStep ==
  ASSUME Records, LiableGroup, [Next]_vars
  PROVE  resetAllState \/ Revised \/ Applied
<1> DEFINE S == LoanShape(DOMAIN members, DOMAIN groups)
<1>l. LoansOK /\ loans \in Seq(S) /\ \A i \in DOMAIN loans : loans[i] \in S /\ Sound(loans[i])
  BY Placed DEF Records, LoansOK
<1> HIDE DEF S
<1>c. ASSUME NEW c, DOMAIN c \subseteq DOMAIN loans, loans' = UpdateLoans(c),
             \A i \in DOMAIN c : c[i] \in S /\ Retold(loans[i], c[i])
      PROVE  Revised
  BY <1>l, <1>c, RevisedSome DEF S
<1>o. ASSUME NEW i \in DOMAIN loans, NEW new \in S, Retold(loans[i], new), loans' = [loans EXCEPT ![i] = new]
      PROVE  Revised
  BY <1>l, <1>o, RevisedOne DEF S
<1>s. \A l \in S : Sound(l) => \A p \in {"UNPAID", "DITALANGI"} : l.memberId = "m2" =>
         [l EXCEPT !.statusCicilan = p] \in S /\ Retold(l, [l EXCEPT !.statusCicilan = p])
  BY ScenarioEdits DEF S
<1>1. CASE UNCHANGED loans
  <2>1. \A i \in DOMAIN loans : Retold(loans[i], loans[i])
    BY <1>l DEF Retold
  <2>2. QED
    BY <1>1, <1>l, <2>1 DEF Revised, S
<1>2. CASE ScenarioPositif
  <2> DEFINE c == [i \in LoansOf("m1") |->
                      [loans[i] EXCEPT !.statusCicilan = "PAID", !.sisaCicilan = AtLeast(0, @ - 1)]]
  <2>1. DOMAIN c \subseteq DOMAIN loans /\ loans' = UpdateLoans(c)
    BY <1>2 DEF ScenarioPositif, LoansOf
  <2>2. ASSUME NEW i \in DOMAIN c PROVE c[i] \in S /\ Retold(loans[i], c[i])
    <3>1. i \in DOMAIN loans /\ loans[i].memberId = "m1"
      BY DEF LoansOf
    <3>2. QED
      BY <3>1, <1>l, ScenarioEdits DEF S
  <2> HIDE DEF c
  <2>3. QED
    BY <2>1, <2>2, <1>c
<1>3. CASE ScenarioUzur
  <2> DEFINE c == [i \in LoansOf("m2") |-> [loans[i] EXCEPT !.statusCicilan = "UNPAID"]]
  <2>1. DOMAIN c \subseteq DOMAIN loans /\ loans' = UpdateLoans(c)
    BY <1>3 DEF ScenarioUzur, LoansOf
  <2>2. ASSUME NEW i \in DOMAIN c PROVE c[i] \in S /\ Retold(loans[i], c[i])
    <3>1. i \in DOMAIN loans /\ loans[i].memberId = "m2"
      BY DEF LoansOf
    <3>2. QED
      BY <3>1, <1>l, <1>s
  <2> HIDE DEF c
  <2>3. QED
    BY <2>1, <2>2, <1>c
<1>4. CASE ScenarioNoNews
  <2> DEFINE c == [i \in LoansOf("m2") |-> [loans[i] EXCEPT !.statusCicilan = "DITALANGI"]]
  <2>1. DOMAIN c \subseteq DOMAIN loans /\ loans' = UpdateLoans(c)
    BY <1>4 DEF ScenarioNoNews, LoansOf
  <2>2. ASSUME NEW i \in DOMAIN c PROVE c[i] \in S /\ Retold(loans[i], c[i])
    <3>1. i \in DOMAIN loans /\ loans[i].memberId = "m2"
      BY DEF LoansOf
    <3>2. QED
      BY <3>1, <1>l, <1>s
  <2> HIDE DEF c
  <2>3. QED
    BY <2>1, <2>2, <1>c
<1>5. CASE ScenarioMangkir
  <2> DEFINE c == [i \in LoansOf("m3") |-> [loans[i] EXCEPT !.status = "Diajukan", !.flagAi = "MERAH"]]
  <2>1. DOMAIN c \subseteq DOMAIN loans /\ loans' = UpdateLoans(c)
    BY <1>5 DEF ScenarioMangkir, LoansOf
  <2>2. ASSUME NEW i \in DOMAIN c PROVE c[i] \in S /\ Retold(loans[i], c[i])
    <3>1. i \in DOMAIN loans /\ loans[i].memberId = "m3"
      BY DEF LoansOf
    <3>2. QED
      BY <3>1, <1>l, ScenarioEdits DEF S
  <2> HIDE DEF c
  <2>3. QED
    BY <2>1, <2>2, <1>c
<1>6. CASE DialogShown /\ qris.kind = "cicilan" /\ PayLoan
  <2> DEFINE c == [i \in {qris.loan} \cap DOMAIN loans |-> Settled(loans[i])]
  <2>1. DOMAIN c \subseteq DOMAIN loans /\ loans' = UpdateLoans(c)
    BY <1>6 DEF PayLoan
  <2>2. ASSUME NEW i \in DOMAIN c PROVE c[i] \in S /\ Retold(loans[i], c[i])
    <3>1. i \in DOMAIN loans /\ loans[i].status # "Lunas" /\ loans[i].statusCicilan # "PAID"
      BY <1>6 DEF Records, DialogOK, DialogShown
    <3> DEFINE n == loans[i].sisaCicilan - 1
               st == IF loans[i].sisaCicilan - 1 <= 0 THEN "Lunas" ELSE loans[i].status
               new == c[i]
    <3>2. new = [loans[i] EXCEPT !.sisaCicilan = n, !.status = st, !.statusCicilan = "PAID"]
      BY DEF Settled
    <3>3. /\ st = IF loans[i].sisaCicilan - 1 <= 0 THEN "Lunas" ELSE loans[i].status
          /\ n = loans[i].sisaCicilan - 1
      OBVIOUS
    <3> HIDE DEF new, n, st
    <3>4. new \in S /\ Retold(loans[i], new)
      BY <3>1, <3>2, <3>3, <1>l, Payments DEF S
    <3>5. QED
      BY <3>4 DEF new
  <2> HIDE DEF c
  <2>3. QED
    BY <2>1, <2>2, <1>c
<1>7. CASE SanggahSubmit
  <2> DEFINE i == currentLoan
             new == [loans[i] EXCEPT !.isSanggah = TRUE]
  <2>1. loans' = [loans EXCEPT ![i] = new] /\ i # 0
    BY <1>7 DEF SanggahSubmit, SanggahOffered
  <2>2. i \in DOMAIN loans
    BY <1>l, <2>1, Opened DEF currentLoan
  <2>3. new \in S /\ Retold(loans[i], new)
    BY <1>l, <2>2, PanelEdits DEF S
  <2> HIDE DEF i, new
  <2>4. QED
    BY <2>1, <2>2, <2>3, <1>o
<1>8. ASSUME NEW nominal \in Nominals, NEW tenor \in Tenors, ApplyLoan(nominal, tenor) PROVE Applied
  <2> DEFINE flag == FlagFor(AiScore(nominal))
             n == Installment(nominal, tenor)
             l == Loan(currentMember, currentGroup, "Diajukan", "UNPAID", tenor, n, flag)
  <2>1. /\ loans' = Append(loans, l) /\ currentLoan = 0 /\ nominal > 0 /\ currentGroup # 0
    BY <1>8 DEF ApplyLoan, ApplyOffered
  <2>2. currentMember \in DOMAIN members
    BY Initially DEF Records, Sessions, MembersOK, currentMember
  <2>3. currentGroup \in DOMAIN groups /\ currentMember \in groups[currentGroup].anggotaIds
    BY <2>1, Grouped DEF currentGroup, Records, GroupsOK
  <2>4. flag \in {"HIJAU", "KUNING", "MERAH"}
    BY DEF FlagFor
  <2>5. n \in Nat /\ tenor \in Nat /\ tenor >= 2
    <3>1. nominal \in Nat
      BY <2>1, SimulatorBounds
    <3>2. tenor \in {6, 10, 12}
      BY DEF Tenors
    <3>3. /\ tenor = 6 => (11 * nominal + 5 * tenor) \div (10 * tenor) \in Nat
          /\ tenor = 10 => (11 * nominal + 5 * tenor) \div (10 * tenor) \in Nat
          /\ tenor = 12 => (11 * nominal + 5 * tenor) \div (10 * tenor) \in Nat
      BY <3>1, SMT
    <3>4. QED
      BY <3>2, <3>3, SMT DEF Installment
  <2> HIDE DEF n, flag
  <2>6. l \in S
    BY <2>2, <2>3, <2>4, <2>5, LoanShapes DEF S
  <2>7. /\ l.memberId = currentMember /\ l.groupId = currentGroup /\ l.status = "Diajukan"
        /\ l.statusCicilan = "UNPAID" /\ l.sisaCicilan = tenor
    BY SMT DEF Loan
  <2>8. \A i \in DOMAIN loans : loans[i].memberId = currentMember => loans[i].status = "Lunas"
    BY <1>l, <2>1, Opened DEF currentLoan
  <2>9. currentMember \notin {"m1", "m4"}
    <3>1. 1 \in DOMAIN loans /\ 4 \in DOMAIN loans /\ loans[1].memberId = "m1" /\ loans[4].memberId = "m4"
      BY <1>l, Placed DEF LoansOK
    <3>2. \A i \in DOMAIN loans : loans[i].memberId # "m2" => loans[i].status # "Lunas"
      BY <1>l DEF Sound
    <3>3. QED
      BY <3>1, <3>2, <2>8
  <2> HIDE DEF l
  <2>10. Sound(l)
    BY <2>5, <2>7, <2>9, SMT DEF Sound
  <2>11. QED
    BY <2>1, <2>3, <2>6, <2>7, <2>8, <2>10 DEF Applied, S
<1>9. ASSUME NEW i \in DOMAIN loans, NEW action \in {"Disetujui", "Ditunda"}, LoanAction(i, action)
      PROVE  Revised
  <2> DEFINE st == IF action = "Disetujui" THEN "Cair" ELSE "Ditunda"
             new == [loans[i] EXCEPT !.status = st]
  <2>1. loans' = [loans EXCEPT ![i] = new] /\ loans[i].status = "Diajukan"
    BY <1>9 DEF LoanAction, Cards, InReview
  <2>2. new \in S /\ Retold(loans[i], new)
    <3>1. st \in {"Cair", "Ditunda"}
      OBVIOUS
    <3> HIDE DEF st
    <3>2. QED
      BY <1>l, <2>1, <3>1, PanelEdits DEF S
  <2> HIDE DEF new
  <2>3. QED
    BY <2>1, <2>2, <1>o
<1>d. ASSUME NEW i \in DOMAIN loans, i \in Cards(ToCollect)
      PROVE  loans[i].status = "Cair" /\ loans[i].statusCicilan # "PAID"
  BY <1>d DEF Cards, ToCollect, InArrears
<1>10. ASSUME NEW i \in DOMAIN loans, ApplySocialFund(i) PROVE Revised
  <2> DEFINE n == loans[i].sisaCicilan - 1
             st == IF n <= 0 THEN "Lunas" ELSE loans[i].status
             new == [loans[i] EXCEPT !.statusCicilan = "PAID", !.sisaCicilan = n, !.status = st]
  <2>1. loans' = [loans EXCEPT ![i].statusCicilan = "PAID", ![i].sisaCicilan = n, ![i].status = st]
    BY <1>10, Zenon DEF ApplySocialFund
  <2>2. loans[i].status = "Cair" /\ loans[i].statusCicilan # "PAID"
    BY <1>10, <1>d DEF ApplySocialFund
  <2>3. new \in S /\ Retold(loans[i], new)
    BY <1>l, <2>2, Payments DEF S
  <2> HIDE DEF n, st
  <2>4. loans' = [loans EXCEPT ![i] = new]
    BY <2>1, <1>l, Zenon
  <2> HIDE DEF new
  <2>5. QED
    BY <2>3, <2>4, <1>o
<1>11. ASSUME NEW i \in DOMAIN loans, RestructureLoan(i) PROVE Revised
  <2> DEFINE c == (6 * loans[i].cicilanBulanan + 5) \div 10
             n == loans[i].sisaCicilan + 3
             new == [loans[i] EXCEPT !.cicilanBulanan = c, !.sisaCicilan = n, !.statusCicilan = "PAID"]
  <2>1. loans' = [loans EXCEPT ![i].cicilanBulanan = c, ![i].sisaCicilan = n, ![i].statusCicilan = "PAID"]
    BY <1>11, Zenon DEF RestructureLoan
  <2>2. loans[i].status = "Cair" /\ loans[i].statusCicilan # "PAID"
    BY <1>11, <1>d DEF RestructureLoan
  <2>3. new \in S /\ Retold(loans[i], new)
    BY <1>l, <2>2, Restructuring DEF S
  <2> HIDE DEF c, n
  <2>4. loans' = [loans EXCEPT ![i] = new]
    BY <2>1, <1>l, Zenon
  <2> HIDE DEF new
  <2>5. QED
    BY <2>3, <2>4, <1>o
<1>12. ASSUME NEW i \in DOMAIN loans, TriggerJointLiability(i) PROVE Revised
  <2> DEFINE new == [loans[i] EXCEPT !.statusCicilan = "DITALANGI"]
  <2>1. loans' = [loans EXCEPT ![i] = new]
    BY <1>12 DEF TriggerJointLiability
  <2>2. loans[i].status = "Cair" /\ loans[i].statusCicilan # "PAID"
    BY <1>12, <1>d DEF TriggerJointLiability
  <2>3. new \in S /\ Retold(loans[i], new)
    BY <1>l, <2>2, PanelEdits DEF S
  <2> HIDE DEF new
  <2>4. QED
    BY <2>1, <2>3, <1>o
<1>13. QED
  BY LoanChanges, <1>1, <1>2, <1>3, <1>4, <1>5, <1>6, <1>7, <1>8, <1>9, <1>10, <1>11, <1>12

----------------------------------------------------------------------------
(* The payment dialog *)

LEMMA DialogChanges ==
  ASSUME DialogOK, [Next]_vars
  PROVE  \/ qris' = NoQris
         \/ UNCHANGED <<role, qris, loans>>
         \/ role' = role /\ qris' = qris /\ (ScenarioPositif \/ ScenarioNoNews)
         \/ role' = role /\ qris' = qris /\ loans' = initialLoans
         \/ \E form \in SavingsForms : DepositSavings(form)
         \/ PayInstallment
<1>1. ASSUME qris # NoQris, MemberNext PROVE QrisPaymentConfirm \/ CancelQris
  BY <1>1 DEF MemberNext, InHand, SwitchUser, SubmitKyc, MaySubmit, FormShown, DepositSavings,
     PayInstallment, ApplyLoan, ToggleSanggahArea, SanggahSubmit, CreateGroup, JoinGroup,
     JoinByInviteCode, OpenKycForm, CloseKycForm, SendOtp, VerifyOtp
<1>2. CASE MemberNext
  <2>1. CASE qris # NoQris
    BY <1>1, <1>2, <2>1 DEF QrisPaymentConfirm, CancelQris
  <2>2. CASE qris = NoQris
    BY <1>2, <2>2 DEF MemberNext, SwitchUser, SubmitKyc, QrisPaymentConfirm, CancelQris, ApplyLoan,
       ToggleSanggahArea, SanggahSubmit, CreateGroup, JoinGroup, JoinByInviteCode, OpenKycForm,
       CloseKycForm, SendOtp, VerifyOtp, phone, data
  <2>3. QED
    BY <2>1, <2>2
<1>3. CASE OfficerNext
  <2>1. role = "pengurus" /\ UNCHANGED phone
    BY <1>3 DEF OfficerNext, KycAction, LoanAction, ToggleUzur, ApplySocialFund, RestructureLoan,
       TriggerJointLiability, OnPanel
  <2>2. QED
    BY <2>1 DEF DialogOK, phone
<1>4. ASSUME NEW view \in {"anggota", "pengurus"}, Show(view)
      PROVE  qris' = NoQris \/ (role' = role /\ qris' = qris /\ role = view)
  BY <1>4 DEF Show, phone
<1>5. CASE Scenario
  <2>1. CASE ScenarioPositif \/ ScenarioNoNews
    BY <1>4, <2>1 DEF ScenarioPositif, ScenarioNoNews
  <2>2. CASE ScenarioUzur \/ ScenarioMangkir
    <3>1. Show("pengurus")
      BY <2>2 DEF ScenarioUzur, ScenarioMangkir
    <3>2. QED
      BY <3>1, <1>4 DEF DialogOK
  <2>3. CASE ScenarioKyc \/ ScenarioGrupBaru \/ ScenarioUndangan
    BY <1>4, <2>3 DEF ScenarioKyc, ScenarioGrupBaru, ScenarioUndangan, data
  <2>4. QED
    BY <1>5, <2>1, <2>2, <2>3 DEF Scenario
<1>6. ASSUME NEW view \in {"anggota", "pengurus"}, SwitchRole(view) PROVE qris' = NoQris
  BY <1>6 DEF SwitchRole, Show
<1>7. CASE resetAllState
  BY <1>7 DEF resetAllState, ResetData, phone
<1>8. CASE UNCHANGED vars
  BY <1>8 DEF vars, data, phone
<1>9. QED
  BY <1>2, <1>3, <1>5, <1>6, <1>7, <1>8 DEF Next

LEMMA DialogStep ==
  ASSUME Records, [Next]_vars
  PROVE  DialogOK'
<1>d. DialogOK
  BY DEF Records
<1>l. LoansOK /\ \A i \in DOMAIN loans : Sound(loans[i])
  BY DEF Records, LoansOK
<1>1. CASE qris' = NoQris
  BY <1>1 DEF DialogOK, NoQris
<1>2. CASE UNCHANGED <<role, qris, loans>>
  BY <1>2, <1>d DEF DialogOK, NoQris
<1>o. ASSUME role' = role, qris' = qris,
             qris # NoQris /\ qris.kind = "cicilan" /\ qris.loan \in Nat \ {1, 4} /\ qris.loan \in DOMAIN loans'
                /\ (qris.loan \in DOMAIN loans => loans[qris.loan].status # "Lunas"
                                                  /\ loans[qris.loan].statusCicilan # "PAID")
             => loans'[qris.loan].status # "Lunas" /\ loans'[qris.loan].statusCicilan # "PAID"
      PROVE  DialogOK'
  <2>1. SUFFICES ASSUME qris # NoQris PROVE DialogOK'
    BY <1>o DEF DialogOK, NoQris
  <2>2. QED
    BY <1>d, <1>o, <2>1 DEF DialogOK, NoQris
<1>3. CASE role' = role /\ qris' = qris /\ ScenarioPositif
  <2>1. \A i \in DOMAIN loans' : i \in DOMAIN loans /\ (loans'[i] = loans[i] \/ loans[i].memberId = "m1")
    BY <1>3 DEF ScenarioPositif, UpdateLoans, LoansOf
  <2>2. \A i \in DOMAIN loans : loans[i].memberId = "m1" => loans[i].statusCicilan = "PAID"
    BY <1>l DEF Sound
  <2>3. QED
    BY <1>o, <1>3, <2>1, <2>2
<1>4. CASE role' = role /\ qris' = qris /\ ScenarioNoNews
  <2>s. \A i \in DOMAIN loans : loans[i] \in LoanShape(DOMAIN members, DOMAIN groups)
    BY <1>l, Placed DEF LoansOK
  <2>1. ASSUME NEW i \in DOMAIN loans'
        PROVE  /\ i \in DOMAIN loans
               /\ loans'[i] = loans[i] \/ loans'[i] = [loans[i] EXCEPT !.statusCicilan = "DITALANGI"]
    BY <1>4 DEF ScenarioNoNews, UpdateLoans, LoansOf
  <2>2. ASSUME NEW i \in DOMAIN loans',
               i \in DOMAIN loans => loans[i].status # "Lunas" /\ loans[i].statusCicilan # "PAID"
        PROVE  loans'[i].status # "Lunas" /\ loans'[i].statusCicilan # "PAID"
    <3>1. \A l \in LoanShape(DOMAIN members, DOMAIN groups) :
             /\ [l EXCEPT !.statusCicilan = "DITALANGI"].status = l.status
             /\ [l EXCEPT !.statusCicilan = "DITALANGI"].statusCicilan = "DITALANGI"
      BY SMT DEF LoanShape
    <3>2. QED
      BY <2>s, <2>1, <2>2, <3>1
  <2>3. QED
    BY <1>o, <1>4, <2>2
<1>5. CASE role' = role /\ qris' = qris /\ loans' = initialLoans
  <2>1. \A i \in DOMAIN initialLoans : i \in {1, 2, 3, 4}
    BY MockData
  <2>2. \A i \in {2, 3} : initialLoans[i].status # "Lunas" /\ initialLoans[i].statusCicilan # "PAID"
    BY MockData
  <2>3. QED
    BY <1>o, <1>5, <2>1, <2>2
<1>6. ASSUME NEW form \in SavingsForms, DepositSavings(form) PROVE DialogOK'
  <2>1. /\ qris' = [kind |-> "simpanan", member |-> currentMember, jenis |-> form.jenis, amount |-> form.amount]
        /\ role' = "anggota" /\ form.amount > 0
    BY <1>6 DEF DepositSavings, InHand, triggerQris
  <2>2. form.amount \in Nat
    BY <2>1, SimulatorBounds, SMT DEF SavingsForms
  <2>3. qris'.kind = "simpanan" /\ qris'.amount \in Nat
    BY <2>1, <2>2
  <2>4. QED
    BY <2>1, <2>3 DEF DialogOK, NoQris
<1>7. CASE PayInstallment
  <2>1. /\ qris' = [kind |-> "cicilan", member |-> currentMember, loan |-> currentLoan]
        /\ role' = "anggota" /\ loans' = loans /\ PayOffered
    BY <1>7 DEF PayInstallment, InHand, triggerQris, data
  <2>2. /\ currentLoan \in DOMAIN loans /\ loans[currentLoan].status # "Lunas"
        /\ loans[currentLoan].statusCicilan # "PAID"
    BY <1>l, <2>1, Opened DEF PayOffered, currentLoan, LoansOK
  <2>3. currentLoan \in Nat \ {1, 4}
    <3>1. loans[1].statusCicilan = "PAID" /\ loans[4].statusCicilan = "PAID"
      BY <1>l, Placed DEF LoansOK, Sound
    <3>2. currentLoan \in Nat
      BY <1>l, <2>2, Placed DEF LoansOK
    <3>3. QED
      BY <2>2, <3>1, <3>2
  <2>4. qris'.kind = "cicilan" /\ qris'.loan = currentLoan
    BY <2>1
  <2>5. QED
    BY <2>1, <2>2, <2>3, <2>4 DEF DialogOK, NoQris
<1>8. QED
  BY <1>d, DialogChanges, <1>1, <1>2, <1>3, <1>4, <1>5, <1>6, <1>7

----------------------------------------------------------------------------
(* The whole *)

LEMMA SessionChanges ==
  ASSUME [Next]_vars
  PROVE  /\ cast' = cast /\ role' \in {role, "anggota", "pengurus"}
         /\ \/ activeMemberId' \in {activeMemberId, "m1", "m2", "m6"} \cup DOMAIN members
            \/ activeMemberId' = "m7" /\ AddFatimah
            \/ \E id \in cast.accounts : SubmitKyc(id) /\ activeMemberId' = id
<1>1. CASE MemberNext
  <2>1. (\E m \in cast.accounts : SwitchUser(m)) => activeMemberId' \in DOMAIN members
    BY DEF SwitchUser
  <2>2. \A m : SubmitKyc(m) => activeMemberId' = m
    BY DEF SubmitKyc
  <2>3. QED
    BY <1>1, <2>1, <2>2, PhoneFrames DEF MemberNext
<1>2. CASE OfficerNext
  BY <1>2, PanelFrames
<1>3. CASE Scenario
  BY <1>3, ScenarioFrames DEF Scenario, Show
<1>4. ASSUME NEW view \in {"anggota", "pengurus"}, SwitchRole(view)
      PROVE  UNCHANGED <<activeMemberId, cast>> /\ role' = view
  BY <1>4 DEF SwitchRole, Show
<1>5. resetAllState => activeMemberId' = "m1" /\ UNCHANGED <<role, cast>>
  BY DEF resetAllState
<1>6. QED
  BY <1>1, <1>2, <1>3, <1>4, <1>5 DEF Next, vars

LEMMA SessionsStep ==
  ASSUME Records, [Next]_vars
  PROVE  Sessions'
<1>1. {"m1", "m2", "m6"} \subseteq DOMAIN members' /\ (resetAllState \/ DOMAIN members \subseteq DOMAIN members')
  <2>1. CASE resetAllState
    BY <2>1, Initially DEF resetAllState, ResetData
  <2>2. CASE MembersGrow
    BY <2>2, Initially DEF MembersGrow, MembersOK
  <2>3. QED
    BY <2>1, <2>2, MembersStep
<1>2. CASE resetAllState
  BY <1>1, <1>2 DEF resetAllState, Records, Sessions
<1>3. CASE DOMAIN members \subseteq DOMAIN members'
  <2>1. AddFatimah => "m7" \in DOMAIN members'
    BY DEF AddFatimah, WithMember
  <2>2. \A id : SubmitKyc(id) => id \in DOMAIN members'
    BY DEF SubmitKyc, WithMember
  <2>3. QED
    BY <1>1, <1>3, <2>1, <2>2, SessionChanges DEF Records, Sessions
<1>4. QED
  BY <1>1, <1>2, <1>3

\* What holds of records over some members and groups holds of them over more.
LEMMA Wider ==
  ASSUME NEW M, NEW N, M \subseteq N, NEW G, NEW H, G \subseteq H
  PROVE  /\ \A s \in Seq(GroupShape(M)) : s \in Seq(GroupShape(N))
         /\ \A s \in Seq(LoanShape(M, G)) : s \in Seq(LoanShape(N, H))
<1>1. GroupShape(M) \subseteq GroupShape(N) /\ LoanShape(M, G) \subseteq LoanShape(N, H)
  BY DEF GroupShape, LoanShape
<1>2. \A S, T : S \subseteq T => \A s \in Seq(S) : s \in Seq(T)
  OBVIOUS
<1>3. QED
  BY <1>1, <1>2

LEMMA RecordsStep ==
  ASSUME Records, Parties, [Next]_vars
  PROVE  Records' /\ Parties'
<1>s. Sessions' /\ DialogOK'
  BY SessionsStep, DialogStep
<1>1. CASE resetAllState
  <2>1. /\ members' = initialMembers /\ groups' = initialGroups /\ loans' = initialLoans
    BY <1>1 DEF resetAllState, ResetData
  <2>2. MembersOK'
    BY <2>1, Initially DEF MembersOK
  <2>3. GroupsOK' /\ LoansOK'
    <3>1. /\ groups' \in Seq(GroupShape(DOMAIN members')) /\ Len(groups') >= 2
          /\ loans' \in Seq(LoanShape(DOMAIN members', DOMAIN groups')) /\ Len(loans') >= 4
      BY <2>1, MockData
    <3>2. QED
      BY <2>1, <3>1, MockData DEF GroupsOK, LoansOK
  <2>4. Parties'
    BY <2>1, MockData DEF Parties, LiableGroup, OneOpenLoan
  <2>5. QED
    BY <1>s, <2>2, <2>3, <2>4 DEF Records
<1>2. CASE MembersGrow /\ GroupsGrow /\ (Revised \/ Applied)
  <2> DEFINE M == DOMAIN members
             G == DOMAIN groups
  <2>1. M \subseteq M' /\ G \subseteq G' /\ MembersOK' /\ Apart'
    BY <1>2 DEF MembersGrow, GroupsGrow
  <2>2. GroupsOK'
    BY <1>2, <2>1, Wider DEF GroupsGrow, GroupsOK
  <2>l. /\ loans \in Seq(LoanShape(M, G)) /\ Len(loans) >= 4
        /\ loans[1].memberId = "m1" /\ loans[4].memberId = "m4" /\ 1 \in DOMAIN loans /\ 4 \in DOMAIN loans
        /\ \A i \in DOMAIN loans : Sound(loans[i])
    BY Placed DEF Records, LoansOK
  <2>p. /\ \A i \in DOMAIN loans : loans[i].groupId \in G
                                   /\ loans[i].memberId \in groups[loans[i].groupId].anggotaIds
        /\ \A g \in G : groups[g].anggotaIds \subseteq groups'[g].anggotaIds
        /\ OneOpenLoan
    BY <1>2 DEF Parties, LiableGroup, GroupsGrow
  <2>3. CASE Revised
    <3>1. /\ loans' \in Seq(LoanShape(M', G')) /\ Len(loans') >= 4 /\ DOMAIN loans' = DOMAIN loans
          /\ \A i \in DOMAIN loans : Retold(loans[i], loans'[i])
      BY <2>1, <2>3, <2>l, Wider DEF Revised
    <3>2. LoansOK'
      BY <2>l, <3>1 DEF LoansOK, Retold
    <3>3. OneOpenLoan'
      BY <2>p, <3>1 DEF OneOpenLoan, Retold
    <3>4. LiableGroup'
      BY <2>1, <2>p, <3>1 DEF LiableGroup, Apart, Retold
    <3>5. QED
      BY <1>s, <2>1, <2>2, <3>2, <3>3, <3>4 DEF Records, Parties
  <2>4. CASE Applied
    <3>1. PICK l \in LoanShape(M, G) :
            /\ loans' = Append(loans, l)
            /\ Sound(l)
            /\ \A i \in DOMAIN loans : loans[i].memberId = l.memberId => loans[i].status = "Lunas"
            /\ l.memberId \in groups[l.groupId].anggotaIds
      BY <2>4 DEF Applied
    <3>2. l.groupId \in G
      BY SMT DEF LoanShape
    <3>3. /\ loans' \in Seq(LoanShape(M, G)) /\ Len(loans') = Len(loans) + 1
          /\ DOMAIN loans' = DOMAIN loans \cup {Len(loans) + 1} /\ Len(loans) \in Nat
          /\ loans'[Len(loans) + 1] = l
          /\ \A i \in DOMAIN loans : loans'[i] = loans[i]
      BY <2>l, <3>1, Placed
    <3>4. loans' \in Seq(LoanShape(M', G')) /\ Len(loans') >= 4
      <4>1. \A s \in Seq(LoanShape(M, G)) : s \in Seq(LoanShape(M', G'))
        BY <2>1, Wider
      <4>2. QED
        BY <2>l, <3>3, <4>1
    <3>5. LoansOK'
      BY <2>l, <3>1, <3>3, <3>4 DEF LoansOK
    <3>6. OneOpenLoan'
      BY <2>p, <3>1, <3>3 DEF OneOpenLoan
    <3>7. LiableGroup'
      BY <2>1, <2>p, <3>1, <3>2, <3>3 DEF LiableGroup, Apart
    <3>8. QED
      BY <1>s, <2>1, <2>2, <3>5, <3>6, <3>7 DEF Records, Parties
  <2>5. QED
    BY <1>2, <2>3, <2>4
<1>3. QED
  BY <1>1, <1>2, MembersStep, GroupsStep, LoansStep DEF Parties

LEMMA Start == Init => Records /\ Parties
<1> SUFFICES ASSUME Init PROVE Records /\ Parties
  OBVIOUS
<1>1. /\ members = initialMembers /\ groups = initialGroups /\ loans = initialLoans
      /\ qris = NoQris /\ role = "anggota" /\ activeMemberId = "m1" /\ cast \in Casts
  BY DEF Init
<1>2. MembersOK /\ Sessions
  BY <1>1, Initially DEF MembersOK, Sessions
<1>3. GroupsOK /\ LoansOK
  <2>1. /\ groups \in Seq(GroupShape(DOMAIN members)) /\ Len(groups) >= 2
        /\ loans \in Seq(LoanShape(DOMAIN members, DOMAIN groups)) /\ Len(loans) >= 4
    BY <1>1, MockData
  <2>2. QED
    BY <1>1, <2>1, MockData DEF GroupsOK, LoansOK
<1>4. Parties
  BY <1>1, MockData DEF Parties, LiableGroup, OneOpenLoan
<1>5. QED
  BY <1>1, <1>2, <1>3, <1>4 DEF Records, DialogOK

LEMMA StoriesCorrect == Spec => [](Records /\ Parties)
<1>1. (Records /\ Parties) /\ [Next]_vars => (Records /\ Parties)'
  BY RecordsStep
<1>2. QED
  BY Start, <1>1, PTL DEF Spec

\* Whatever is played, in any order and however often, scores stay on their scale,
\* nothing is paid below zero, no fund is overdrawn, and groups and loans name
\* members and groups there are.
THEOREM TypeCorrect == Spec => []TypeOK
<1>1. Records => TypeOK
  <2> SUFFICES ASSUME Records PROVE TypeOK
    OBVIOUS
  <2>1. \A g \in DOMAIN groups : groups[g] \in GroupRecord
    BY Placed DEF Records, GroupsOK, GroupShape, GroupRecord
  <2>2. \A i \in DOMAIN loans : loans[i] \in LoanRecord
    BY Placed DEF Records, LoansOK, LoanShape, LoanRecord
  <2>3. QED
    BY <2>1, <2>2 DEF Records, Sessions, MembersOK, TypeOK
<1>2. QED
  BY StoriesCorrect, <1>1, PTL

\* A member never has two loans that are not closed.
THEOREM OpenLoansCorrect == Spec => []OneOpenLoan
<1>1. Parties => OneOpenLoan
  BY DEF Parties
<1>2. QED
  BY StoriesCorrect, <1>1, PTL

\* A member is in at most one group, and a loan's group has its borrower.
THEOREM LiableCorrect == Spec => []LiableGroup
<1>1. Parties => LiableGroup
  BY DEF Parties
<1>2. QED
  BY StoriesCorrect, <1>1, PTL

\* Only a loan with nothing left is closed, and but for Bu Sri's one with nothing left
\* is.
THEOREM ClosedCorrect == Spec => []ClosedWhenPaid
<1>1. Records => ClosedWhenPaid
  BY DEF Records, LoansOK, Sound, ClosedWhenPaid
<1>2. QED
  BY StoriesCorrect, <1>1, PTL

----------------------------------------------------------------------------
(* The ledger *)

Ledger(s) == (\E S : s \in Seq(S)) /\ \A t \in DOMAIN s : s[t].nominal \in Nat

\* One more transaction counts for its member, unless it is Pokok.
LEMMA Appended ==
  ASSUME NEW s, Ledger(s), NEW tx, tx.nominal \in Nat, NEW m
  PROVE  /\ Ledger(Append(s, tx)) /\ DepositsOf(s, m) \in Nat
         /\ DepositsOf(Append(s, tx), m) =
              DepositsOf(s, m) + IF tx.memberId = m /\ tx.jenis # "Pokok" THEN tx.nominal ELSE 0
<1> DEFINE n == Len(s) + 1
           r == Append(s, tx)
           a == [t \in DOMAIN s |-> s[t].nominal]
           b == [t \in DOMAIN r |-> r[t].nominal]
           I == {t \in DOMAIN s : s[t].memberId = m /\ s[t].jenis # "Pokok"}
           J == {t \in DOMAIN r : r[t].memberId = m /\ r[t].jenis # "Pokok"}
<1>1. PICK S : s \in Seq(S)
  BY DEF Ledger
<1>2. /\ Len(s) \in Nat /\ DOMAIN s = 1..Len(s) /\ n \notin DOMAIN s
      /\ r \in Seq(S \cup {tx}) /\ DOMAIN r = DOMAIN s \cup {n} /\ r[n] = tx
      /\ \A t \in DOMAIN s : r[t] = s[t]
  BY <1>1
<1> HIDE DEF n, r
<1>3. IsFiniteSet(I) /\ I \subseteq DOMAIN s
  <2>1. IsFiniteSet(1..Len(s))
    BY <1>2, FS_Interval, 1 \in Int, Len(s) \in Int
  <2>2. QED
    BY <1>2, <2>1, FS_Subset
<1>4. /\ \A t \in DOMAIN s : a[t] \in Nat /\ b[t] = a[t]
      /\ b[n] = tx.nominal /\ b[n] \in Nat /\ \A t \in DOMAIN r : b[t] \in Nat
  BY <1>2 DEF Ledger
<1>5. Ledger(r)
  <2>1. \A t \in DOMAIN r : r[t].nominal \in Nat
    BY <1>2 DEF Ledger
  <2>2. QED
    BY <1>2, <2>1 DEF Ledger
<1>6. DepositsOf(s, m) = TotalInLots(a, I) /\ DepositsOf(r, m) = TotalInLots(b, J)
  BY DEF DepositsOf
<1>7. IF tx.memberId = m /\ tx.jenis # "Pokok" THEN J = I \cup {n} ELSE J = I
  BY <1>2
<1> HIDE DEF a, b, I, J
<1>8. TotalInLots(b, I) = TotalInLots(a, I)
  <2>1. \A t \in I : b[t] = a[t]
    BY <1>3, <1>4
  <2>2. QED
    BY <2>1, LotsAgree
<1>9. TotalInLots(b, I) \in Nat /\ TotalInLots(b, I \cup {n}) = TotalInLots(b, I) + b[n]
  <2>1. n \notin I /\ \A t \in I \cup {n} : b[t] \in Nat
    BY <1>2, <1>3, <1>4
  <2>2. QED
    BY <1>3, <2>1, LotsAdd
<1>10. DepositsOf(r, m) =
         DepositsOf(s, m) + IF tx.memberId = m /\ tx.jenis # "Pokok" THEN tx.nominal ELSE 0
  <2>1. CASE tx.memberId = m /\ tx.jenis # "Pokok"
    <3>1. J = I \cup {n} /\ b[n] = tx.nominal
      BY <1>4, <1>7, <2>1
    <3>2. DepositsOf(r, m) = DepositsOf(s, m) + tx.nominal
      BY <1>6, <1>8, <1>9, <3>1, Zenon
    <3>3. QED
      BY <2>1, <3>2
  <2>2. CASE ~(tx.memberId = m /\ tx.jenis # "Pokok")
    <3>1. DepositsOf(r, m) = DepositsOf(s, m) /\ DepositsOf(s, m) \in Nat
      <4>1. J = I
        BY <1>7, <2>2, Zenon
      <4>2. QED
        BY <1>6, <1>8, <1>9, <4>1, Zenon
    <3>2. QED
      BY <2>2, <3>1
  <2>3. QED
    BY <2>1, <2>2
<1>11. QED
  BY <1>5, <1>6, <1>8, <1>9, <1>10 DEF r

LEMMA MockLedger == Ledger(initialSavings)
<1>1. /\ DOMAIN initialSavings = {1, 2, 3, 4}
      /\ initialSavings[1] = Tx("m1", "Pokok", 100000) /\ initialSavings[2] = Tx("m1", "Wajib", 50000)
      /\ initialSavings[3] = Tx("m2", "Wajib", 50000) /\ initialSavings[4] = Tx("m4", "Wajib", 50000)
  BY SMT DEF initialSavings
<1>2. \A t \in {1, 2, 3, 4} : initialSavings[t].nominal \in Nat
  BY <1>1, SMT DEF Tx
<1>3. \E S : initialSavings \in Seq(S)
  <2> DEFINE S == {Tx("m1", "Pokok", 100000), Tx("m1", "Wajib", 50000), Tx("m2", "Wajib", 50000), Tx("m4", "Wajib", 50000)}
  <2>1. initialSavings \in Seq(S)
    BY SMT DEF initialSavings
  <2>2. QED
    BY <2>1
<1>4. QED
  BY <1>1, <1>2, <1>3 DEF Ledger

\* What is left of a record that is edited.
Saved(old, new) ==
    new.simpananWajib = old.simpananWajib /\ new.simpananSukarela = old.simpananSukarela

LEMMA SavingsKept ==
  ASSUME NEW m \in MemberRecord
  PROVE  /\ \A s : Saved(m, [m EXCEPT !.skorKeanggotaan = s])
         /\ \A s, b : Saved(m, [m EXCEPT !.skorKeanggotaan = s, !.isUzur = b])
         /\ \A s, b : Saved(m, [m EXCEPT !.isUzur = b, !.skorKeanggotaan = s])
         /\ \A s, b : Saved(m, [m EXCEPT !.skorKeanggotaan = s, !.isDorman = b])
         /\ \A b, n : Saved(m, [m EXCEPT !.isUzur = b, !.jumlahIzinUzur = n])
         /\ \A action : Saved(m, Decided(m, action))
BY SMT DEF MemberRecord, Saved, Decided

LEMMA CreditAdds ==
  ASSUME NEW m \in MemberRecord, NEW jenis, NEW n \in Nat
  PROVE  LET c == Credit(m, jenis, n) IN
           c.simpananWajib + c.simpananSukarela = m.simpananWajib + m.simpananSukarela + n
<1> DEFINE w == IF jenis = "Wajib" THEN m.simpananWajib + n ELSE m.simpananWajib
           v == IF jenis = "Wajib" THEN m.simpananSukarela ELSE m.simpananSukarela + n
           s == AtMost(100, m.skorKeanggotaan + 2)
           c == Credit(m, jenis, n)
<1>1. m.simpananWajib \in Nat /\ m.simpananSukarela \in Nat
  BY SMT DEF MemberRecord
<1>2. c = [m EXCEPT !.simpananWajib = w, !.simpananSukarela = v, !.skorKeanggotaan = s]
  BY Zenon DEF Credit
<1>3. w + v = m.simpananWajib + m.simpananSukarela + n
  BY <1>1
<1> HIDE DEF w, v, s, c
<1>4. c.simpananWajib = w /\ c.simpananSukarela = v
  BY <1>2, SMT DEF MemberRecord
<1>5. QED
  BY <1>3, <1>4 DEF c

----------------------------------------------------------------------------
(* Balances *)

Accounts ==
    /\ Ledger(savings)
    /\ qris # NoQris /\ qris.kind = "simpanan" => qris.jenis # "Pokok"
    /\ BalanceBackedByLedger

\* A step that keeps what each member has saved; who is new has saved nothing.
Even ==
    \A m \in DOMAIN members' :
        IF m \in DOMAIN members THEN Saved(members[m], members'[m])
        ELSE /\ m \notin DOMAIN initialMembers
             /\ members'[m].simpananWajib = 0 /\ members'[m].simpananSukarela = 0

LEMMA EvenStep ==
  ASSUME Records, [Next]_vars
  PROVE  \/ resetAllState
         \/ DialogShown /\ qris.kind = "simpanan" /\ PaySavings
         \/ Even
<1>m. /\ \A m \in DOMAIN members : members[m] \in MemberRecord
      /\ DOMAIN initialMembers \subseteq DOMAIN members
      /\ {"m1", "m2", "m3"} \subseteq DOMAIN members
  BY Initially DEF Records, MembersOK
<1>u. ASSUME NEW id, NEW m, id \in DOMAIN members => Saved(members[id], m), members' = UpdateMember(id, m)
      PROVE  Even
  <2>1. DOMAIN members' = DOMAIN members
    BY <1>u DEF UpdateMember
  <2>2. \A n \in DOMAIN members : members'[n] = members[n] \/ (n = id /\ members'[n] = m)
    BY <1>u DEF UpdateMember
  <2>3. QED
    BY <1>u, <2>1, <2>2 DEF Even, Saved
<1>w. ASSUME NEW id, NEW m, m.simpananWajib = 0, m.simpananSukarela = 0, members' = WithMember(id, m)
      PROVE  Even
  <2>1. DOMAIN members' = DOMAIN members \cup {id}
    BY <1>w DEF WithMember
  <2>2. \A n \in DOMAIN members' : members'[n] = IF n \in DOMAIN members THEN members[n] ELSE m
    BY <1>w DEF WithMember
  <2>3. QED
    BY <1>m, <1>w, <2>1, <2>2 DEF Even, Saved
<1>1. CASE UNCHANGED members
  BY <1>1 DEF Even, Saved
<1>2. CASE ScenarioPositif
  BY <1>2, <1>m, <1>u, SavingsKept DEF ScenarioPositif
<1>3. CASE ScenarioUzur
  BY <1>3, <1>m, <1>u, SavingsKept DEF ScenarioUzur
<1>4. CASE ScenarioNoNews
  BY <1>4, <1>m, <1>u, SavingsKept DEF ScenarioNoNews
<1>5. CASE ScenarioMangkir
  BY <1>5, <1>m, <1>u, SavingsKept DEF ScenarioMangkir
<1>6. CASE AddFatimah
  <2>1. members' = WithMember("m7", Member("Approved", 80, 0, 0))
    BY <1>6 DEF AddFatimah
  <2>2. LET n == Member("Approved", 80, 0, 0) IN n.simpananWajib = 0 /\ n.simpananSukarela = 0
    BY SMT DEF Member
  <2>3. QED
    BY <2>1, <2>2, <1>w
<1>7. ASSUME NEW id \in cast.accounts, SubmitKyc(id) PROVE Even
  <2> DEFINE n == [Member("Requested", 70, 0, 0) EXCEPT !.isDorman = FALSE]
  <2>1. members' = WithMember(id, n)
    BY <1>7 DEF SubmitKyc
  <2>2. n.simpananWajib = 0 /\ n.simpananSukarela = 0
    BY SMT DEF Member
  <2> HIDE DEF n
  <2>3. QED
    BY <2>1, <2>2, <1>w
<1>8. CASE DialogShown /\ qris.kind = "cicilan" /\ PayLoan
  BY <1>8, <1>m, <1>u, SavingsKept DEF PayLoan
<1>9. ASSUME NEW id \in cast.accounts, NEW action \in {"Approved", "Rejected"}, KycAction(id, action)
      PROVE  Even
  <2>1. members' = UpdateMember(id, Decided(members[id], action))
    BY <1>9 DEF KycAction
  <2>2. id \in DOMAIN members => Saved(members[id], Decided(members[id], action))
    BY <1>m, SavingsKept
  <2>3. QED
    BY <2>1, <2>2, <1>u
<1>10. ASSUME NEW i \in DOMAIN loans, ToggleUzur(i) PROVE Even
  BY <1>10, <1>m, <1>u, SavingsKept DEF ToggleUzur
<1>11. ASSUME NEW i \in DOMAIN loans, TriggerJointLiability(i) PROVE Even
  BY <1>11, <1>m, <1>u, SavingsKept DEF TriggerJointLiability
<1>12. QED
  BY MemberChanges, <1>1, <1>2, <1>3, <1>4, <1>5, <1>6, <1>7, <1>8, <1>9, <1>10, <1>11

LEMMA SavingsChanges ==
  ASSUME [Next]_vars
  PROVE  \/ UNCHANGED savings
         \/ resetAllState
         \/ DialogShown /\ qris.kind = "simpanan" /\ PaySavings /\ qris' = NoQris
<1>1. CASE MemberNext
  BY <1>1 DEF MemberNext, SwitchUser, SubmitKyc, DepositSavings, PayInstallment, QrisPaymentConfirm,
     PayLoan, CancelQris, ApplyLoan, ToggleSanggahArea, SanggahSubmit, CreateGroup, JoinGroup,
     JoinByInviteCode, OpenKycForm, CloseKycForm, SendOtp, VerifyOtp, data
<1>2. CASE OfficerNext
  BY <1>2 DEF OfficerNext, KycAction, LoanAction, ToggleUzur, ApplySocialFund, RestructureLoan,
     TriggerJointLiability
<1>3. CASE Scenario
  BY <1>3 DEF Scenario, ScenarioPositif, ScenarioUzur, ScenarioNoNews, ScenarioMangkir, ScenarioKyc,
     ScenarioGrupBaru, ScenarioUndangan, data
<1>4. ASSUME NEW view, SwitchRole(view) PROVE UNCHANGED savings
  BY <1>4 DEF SwitchRole, data
<1>5. QED
  BY <1>1, <1>2, <1>3, <1>4 DEF Next, vars, data

\* What the dialog is opened for is never a Pokok deposit.
LEMMA DialogKind ==
  ASSUME Records, Accounts, [Next]_vars
  PROVE  qris' # NoQris /\ qris'.kind = "simpanan" => qris'.jenis # "Pokok"
<1>1. CASE qris' = NoQris \/ qris' = qris
  BY <1>1 DEF Accounts, NoQris
<1>2. ASSUME NEW form \in SavingsForms, DepositSavings(form) PROVE qris'.jenis # "Pokok"
  <2>1. qris'.jenis = form.jenis
    BY <1>2 DEF DepositSavings, triggerQris
  <2>2. form.jenis \in {"Wajib", "Sukarela"}
    BY SMT DEF SavingsForms
  <2>3. QED
    BY <2>1, <2>2
<1>3. PayInstallment => qris'.kind = "cicilan"
  BY DEF PayInstallment, triggerQris
<1>4. DialogOK
  BY DEF Records
<1>5. QED
  BY <1>1, <1>2, <1>3, <1>4, DialogChanges

\* What the mock data say a member had before the ledger begins.
LEMMA Openings ==
  /\ \A m \in DOMAIN initialMembers :
        /\ DepositsOf(initialSavings, m) \in Nat /\ Opening(m) \in Int
        /\ initialMembers[m].simpananWajib + initialMembers[m].simpananSukarela
             = Opening(m) + DepositsOf(initialSavings, m)
  /\ \A m : m \notin DOMAIN initialMembers => Opening(m) = 0
<1>1. ASSUME NEW m \in DOMAIN initialMembers
      PROVE  /\ DepositsOf(initialSavings, m) \in Nat /\ Opening(m) \in Int
             /\ initialMembers[m].simpananWajib + initialMembers[m].simpananSukarela
                  = Opening(m) + DepositsOf(initialSavings, m)
  <2>1. DepositsOf(initialSavings, m) \in Nat
    <3>1. Tx("m1", "Pokok", 0).nominal \in Nat
      BY SMT DEF Tx
    <3>2. QED
      BY <3>1, MockLedger, Appended
  <2>2. initialMembers[m].simpananWajib \in Nat /\ initialMembers[m].simpananSukarela \in Nat
    <3>1. initialMembers[m] \in MemberRecord
      BY Initially
    <3>2. \A r \in MemberRecord : r.simpananWajib \in Nat /\ r.simpananSukarela \in Nat
      BY SMT DEF MemberRecord
    <3>3. QED
      BY <3>1, <3>2
  <2>3. Opening(m) = initialMembers[m].simpananWajib + initialMembers[m].simpananSukarela
                     - DepositsOf(initialSavings, m)
    BY DEF Opening
  <2>4. QED
    BY <2>1, <2>2, <2>3
<1>2. QED
  BY <1>1 DEF Opening

LEMMA AccountsStep ==
  ASSUME Records, Accounts, [Next]_vars
  PROVE  Accounts'
<1>a. Ledger(savings) /\ BalanceBackedByLedger
  BY DEF Accounts
<1>o. \A m : Opening(m) \in Int
  BY Openings
<1>m. \A m \in DOMAIN members : /\ members[m] \in MemberRecord
                                /\ members[m].simpananWajib \in Nat
                                /\ members[m].simpananSukarela \in Nat
  <2>1. \A r \in MemberRecord : r.simpananWajib \in Nat /\ r.simpananSukarela \in Nat
    BY SMT DEF MemberRecord
  <2>2. QED
    BY <2>1 DEF Records, MembersOK
<1>d. \A m : DepositsOf(savings, m) \in Nat
  <2>1. Tx("m1", "Pokok", 0).nominal \in Nat
    BY SMT DEF Tx
  <2>2. QED
    BY <1>a, <2>1, Appended
<1>1. CASE resetAllState
  <2>1. members' = initialMembers /\ savings' = initialSavings
    BY <1>1 DEF resetAllState, ResetData
  <2>2. BalanceBackedByLedger'
    <3>1. ASSUME NEW m \in DOMAIN initialMembers
          PROVE  initialMembers[m].simpananWajib + initialMembers[m].simpananSukarela
                   <= Opening(m) + DepositsOf(initialSavings, m)
      BY Openings
    <3>2. QED
      BY <2>1, <3>1, Zenon DEF BalanceBackedByLedger
  <2>3. QED
    BY <2>1, <2>2, MockLedger, DialogKind DEF Accounts
<1>2. CASE DialogShown /\ qris.kind = "simpanan" /\ PaySavings /\ qris' = NoQris
  <2> DEFINE tx == Tx(qris.member, qris.jenis, qris.amount)
             c == Credit(members[qris.member], qris.jenis, qris.amount)
  <2>1. savings' = Append(savings, tx) /\ members' = UpdateMember(qris.member, c)
    BY <1>2 DEF PaySavings
  <2>2. qris.amount \in Nat /\ qris.jenis # "Pokok"
    BY <1>2 DEF Records, DialogOK, DialogShown, Accounts
  <2>3. tx.memberId = qris.member /\ tx.jenis = qris.jenis /\ tx.nominal = qris.amount
    BY SMT DEF Tx
  <2> HIDE DEF tx
  <2>4. /\ Ledger(savings')
        /\ \A m : DepositsOf(savings', m) = DepositsOf(savings, m) + IF m = qris.member THEN qris.amount ELSE 0
    BY <1>a, <2>1, <2>2, <2>3, Appended
  <2>5. qris.member \in DOMAIN members =>
          c.simpananWajib + c.simpananSukarela
            = members[qris.member].simpananWajib + members[qris.member].simpananSukarela + qris.amount
    BY <1>m, <2>2, CreditAdds
  <2> HIDE DEF c
  <2>6. /\ DOMAIN members' = DOMAIN members
        /\ \A m \in DOMAIN members : members'[m] = IF m = qris.member THEN c ELSE members[m]
    BY <2>1 DEF UpdateMember
  <2>7. ASSUME NEW m \in DOMAIN members'
        PROVE  members'[m].simpananWajib + members'[m].simpananSukarela
                 <= Opening(m) + DepositsOf(savings', m)
    <3>1. m \in DOMAIN members
      BY <2>6
    <3>2. members[m].simpananWajib + members[m].simpananSukarela
             <= Opening(m) + DepositsOf(savings, m)
      BY <1>a, <3>1 DEF BalanceBackedByLedger
    <3>3. /\ members[m].simpananWajib \in Nat /\ members[m].simpananSukarela \in Nat
          /\ Opening(m) \in Int /\ DepositsOf(savings, m) \in Nat
      BY <1>m, <1>o, <1>d, <3>1
    <3>4. CASE m = qris.member
      <4>1. /\ members'[m].simpananWajib + members'[m].simpananSukarela
                 = members[m].simpananWajib + members[m].simpananSukarela + qris.amount
            /\ DepositsOf(savings', m) = DepositsOf(savings, m) + qris.amount
        BY <2>4, <2>5, <2>6, <3>1, <3>4
      <4>2. QED
        BY <2>2, <3>2, <3>3, <4>1
    <3>5. CASE m # qris.member
      <4>1. members'[m] = members[m] /\ DepositsOf(savings', m) = DepositsOf(savings, m) + 0
        BY <2>4, <2>6, <3>1, <3>5
      <4>2. QED
        BY <3>2, <3>3, <4>1
    <3>6. QED
      BY <3>4, <3>5
  <2>8. BalanceBackedByLedger'
    BY <2>7, Zenon DEF BalanceBackedByLedger
  <2>9. QED
    BY <1>2, <2>4, <2>8 DEF Accounts
<1>3. CASE Even /\ UNCHANGED savings
  <2>1. ASSUME NEW m \in DOMAIN members'
        PROVE  members'[m].simpananWajib + members'[m].simpananSukarela
                 <= Opening(m) + DepositsOf(savings', m)
    <3>1. CASE m \in DOMAIN members
      <4>1. /\ members'[m].simpananWajib = members[m].simpananWajib
            /\ members'[m].simpananSukarela = members[m].simpananSukarela
        BY <1>3, <3>1, <2>1 DEF Even, Saved
      <4>2. QED
        BY <1>a, <1>3, <3>1, <4>1 DEF BalanceBackedByLedger
    <3>2. CASE m \notin DOMAIN members
      <4>1. /\ members'[m].simpananWajib = 0 /\ members'[m].simpananSukarela = 0
            /\ m \notin DOMAIN initialMembers
        BY <1>3, <3>2, <2>1 DEF Even
      <4>2. Opening(m) = 0 /\ DepositsOf(savings', m) \in Nat
        BY <1>d, <1>3, <4>1, Openings
      <4>3. QED
        BY <4>1, <4>2
    <3>3. QED
      BY <3>1, <3>2
  <2>2. BalanceBackedByLedger'
    BY <2>1, Zenon DEF BalanceBackedByLedger
  <2>3. QED
    BY <1>3, <1>a, <2>2, DialogKind DEF Accounts
<1>4. (DialogShown /\ qris.kind = "simpanan" /\ PaySavings) /\ UNCHANGED savings => FALSE
  <2>1. SUFFICES ASSUME PaySavings, UNCHANGED savings PROVE FALSE
    OBVIOUS
  <2>2. PICK S : savings \in Seq(S)
    BY <1>a DEF Ledger
  <2>3. Append(savings, Tx(qris.member, qris.jenis, qris.amount)) = savings
    BY <2>1 DEF PaySavings
  <2>4. QED
    BY <2>2, <2>3
<1>5. QED
  BY <1>1, <1>2, <1>3, <1>4, SavingsChanges, EvenStep

\* Whatever was reset or switched while the dialog was open, nobody's balance
\* exceeds what the transactions behind it add up to: the closure credits a
\* member and appends to the ledger in one go.
THEOREM BalancesCorrect == Spec => []BalanceBackedByLedger
<1>1. Init => Accounts
  <2> SUFFICES ASSUME Init PROVE Accounts
    OBVIOUS
  <2>1. members = initialMembers /\ savings = initialSavings /\ qris = NoQris
    BY DEF Init
  <2>2. BalanceBackedByLedger
    <3>1. ASSUME NEW m \in DOMAIN initialMembers
          PROVE  initialMembers[m].simpananWajib + initialMembers[m].simpananSukarela
                   <= Opening(m) + DepositsOf(initialSavings, m)
      BY Openings
    <3>2. QED
      BY <2>1, <3>1, Zenon DEF BalanceBackedByLedger
  <2>3. QED
    BY <2>1, <2>2, MockLedger DEF Accounts
<1>2. Records /\ Accounts /\ [Next]_vars => Accounts'
  BY AccountsStep
<1>3. Accounts => BalanceBackedByLedger
  BY DEF Accounts
<1>4. QED
  BY <1>1, <1>2, <1>3, StoriesCorrect, PTL DEF Spec
============================================================================
