--------------------------- MODULE SimulatorState ---------------------------
(***************************************************************************)
(* The interactive prototype (brainstorm/gstudio): one React application   *)
(* whose state lives in memory.  This module is what App keeps for both of *)
(* its views: the mock data it starts from and what is derived from it.    *)
(*                                                                         *)
(* Names, texts, dates and the activity log are left out; amounts are in   *)
(* rupiah.                                                                 *)
(***************************************************************************)
EXTENDS Integers, SequencesExt

CONSTANTS
    None,
    Casts,            \* the sessions: which accounts and scenarios each plays
                      \* with, and how many deposits and applications it makes
    Nominals,         \* amounts that are typed into the loan form
    SukarelaAmounts,  \* amounts that are typed into the savings form
    MaxGroups, MaxSisa, MinCicilan, MaxIzin  \* bounds on growth

ASSUME SimulatorBounds ==
    /\ \A c \in Casts : /\ c.accounts \subseteq STRING
                        /\ c.scenarios \subseteq STRING
                        /\ {c.deposits, c.applications} \subseteq Nat
    /\ Nominals \cup SukarelaAmounts \subseteq Int
    /\ {MaxGroups, MaxSisa, MinCicilan, MaxIzin} \subseteq Nat

VARIABLES
    role,             \* the view on the screen
    activeMemberId,   \* the account the simulated phone is logged in to
    members, groups, loans, savings,
    qris,             \* the payment dialog: what its button will do
    kyc,              \* the registration form of the phone
    showSanggahArea,
    cast              \* the bound of this session, chosen at the start

data == <<members, groups, loans, savings>>
phone == <<qris, kyc, showSanggahArea>>
vars == <<role, activeMemberId, data, phone, cast>>

Member(status, skor, wajib, sukarela) ==
    [statusKyc |-> status, skorKeanggotaan |-> skor,
     simpananPokok |-> IF status = "Approved" THEN 100000 ELSE 0,
     simpananWajib |-> wajib, simpananSukarela |-> sukarela,
     isDorman |-> status # "Approved", isUzur |-> FALSE, jumlahIzinUzur |-> 0]

initialMembers ==
    [m1 |-> Member("Approved", 95, 450000, 1200000),
     m2 |-> Member("Approved", 78, 200000, 50000),
     m3 |-> Member("Approved", 48, 150000, 20000),
     m4 |-> Member("Approved", 68, 300000, 500000),
     m5 |-> Member("Approved", 88, 500000, 2500000),
     m6 |-> Member("Requested", 50, 0, 0)]

Group(ketua, anggota, plafon, kas, reputasi, kode) ==
    [ketuaId |-> ketua, anggotaIds |-> anggota, plafonMaks |-> plafon,
     kasSosial |-> kas, reputasiKomunitas |-> reputasi, kodeUndangan |-> kode]

\* Invitation codes: those of the mock data, and that of every new group.
Codes == {"MAWAR9", "KARYA4", "BARU"}

initialGroups ==
    << Group("m1", {"m1", "m2", "m5"}, 10000000, 350000, "baik", "MAWAR9"),
       Group("m4", {"m3", "m4", "m6"}, 5000000, 120000, "cukup", "KARYA4") >>

Loan(member, group, status, paid, sisa, cicilan, flag) ==
    [memberId |-> member, groupId |-> group, status |-> status,
     statusCicilan |-> paid, sisaCicilan |-> sisa, cicilanBulanan |-> cicilan,
     flagAi |-> flag, isSanggah |-> FALSE]

initialLoans ==
    << Loan("m1", 1, "Cair", "PAID", 6, 550000, "HIJAU"),
       Loan("m2", 1, "Cair", "UNPAID", 3, 530000, "KUNING"),
       Loan("m3", 2, "Diajukan", "UNPAID", 8, 550000, "MERAH"),
       Loan("m4", 2, "Cair", "PAID", 4, 530000, "KUNING") >>

Tx(member, jenis, nominal) == [memberId |-> member, jenis |-> jenis, nominal |-> nominal]

initialSavings ==
    << Tx("m1", "Pokok", 100000), Tx("m1", "Wajib", 50000),
       Tx("m2", "Wajib", 50000), Tx("m4", "Wajib", 50000) >>

\* useState: what a view starts from each time it is mounted.
NoQris == [kind |-> None]
EmptyForm == [step |-> 1, otpSent |-> FALSE, otpVerified |-> FALSE]

Init ==
    /\ role = "anggota"
    /\ activeMemberId = "m1"
    /\ members = initialMembers
    /\ groups = initialGroups
    /\ loans = initialLoans
    /\ savings = initialSavings
    /\ qris = NoQris
    /\ kyc = EmptyForm
    /\ showSanggahArea = FALSE
    /\ cast \in Casts

----------------------------------------------------------------------------

AtLeast(a, b) == IF a > b THEN a ELSE b
AtMost(a, b) == IF a < b THEN a ELSE b

\* setMembers(prev => prev.map(...)): only the members that exist change.
UpdateMember(id, changed) ==
    IF id \in DOMAIN members THEN [members EXCEPT ![id] = changed] ELSE members

\* setMembers(prev => [...prev, newcomer])
WithMember(id, newcomer) ==
    [m \in DOMAIN members \cup {id} |-> IF m \in DOMAIN members THEN members[m] ELSE newcomer]

\* setLoans(prev => prev.map(...)): the loans in the domain of changed change.
UpdateLoans(changed) ==
    [i \in DOMAIN loans |-> IF i \in DOMAIN changed THEN changed[i] ELSE loans[i]]

\* What AnggotaView takes from its props at each render.
currentMember == IF activeMemberId \in DOMAIN members THEN activeMemberId ELSE "m1"
GroupWith(m) == SelectInSeq(groups, LAMBDA g : m \in g.anggotaIds)
currentGroup == GroupWith(currentMember)

\* Mutant: the loan on display is one that is paid out.
DisbursedLoan(m) == SelectInSeq(loans, LAMBDA l : l.memberId = m /\ l.status = "Cair")
\* The first loan that is not Lunas; 0 for none.
OpenLoan(m) == SelectInSeq(loans, LAMBDA l : l.memberId = m /\ l.status # "Lunas")
currentLoan == OpenLoan(currentMember)
=============================================================================
