----------------------------- MODULE Simulator -----------------------------
(***************************************************************************)
(* The whole prototype: App with its role switch, its reset and its seven  *)
(* demonstration scenarios, beside the phone and the officer panel.        *)
(***************************************************************************)
EXTENDS SimulatorMember, SimulatorOfficer, Amounts

\* Only the view of the current role is mounted: a switch throws away what the
\* phone kept for itself.
Show(view) ==
    /\ role' = view
    /\ IF view = role THEN UNCHANGED phone
       ELSE qris' = NoQris /\ kyc' = EmptyForm /\ showSanggahArea' = FALSE

SwitchRole(view) ==
    /\ view # role
    /\ Show(view)
    /\ UNCHANGED <<activeMemberId, data, cast>>

ResetData ==
    /\ members' = initialMembers /\ groups' = initialGroups
    /\ loans' = initialLoans /\ savings' = initialSavings

\* The role stays, and with it whatever the phone has open.
resetAllState ==
    /\ ResetData
    /\ activeMemberId' = "m1"
    /\ UNCHANGED <<role, phone, cast>>

LoansOf(id) == {i \in DOMAIN loans : loans[i].memberId = id}
Plays(scenario) == scenario \in cast.scenarios

\* Paid by magic: the loan is not closed when nothing is left.
ScenarioPositif ==
    /\ Plays("positif")
    /\ loans' = UpdateLoans([i \in LoansOf("m1") |->
           [loans[i] EXCEPT !.statusCicilan = "PAID", !.sisaCicilan = AtLeast(0, @ - 1)]])
    /\ members' = UpdateMember("m1",
           [members["m1"] EXCEPT !.skorKeanggotaan = AtMost(100, @ + 3)])
    /\ activeMemberId' = "m1"
    /\ Show("anggota")
    /\ UNCHANGED <<groups, savings, cast>>

ScenarioUzur ==
    /\ Plays("uzur")
    /\ members' = UpdateMember("m2",
           [members["m2"] EXCEPT !.isUzur = TRUE, !.skorKeanggotaan = 78])
    /\ loans' = UpdateLoans([i \in LoansOf("m2") |->
           [loans[i] EXCEPT !.statusCicilan = "UNPAID"]])
    /\ activeMemberId' = "m2"
    /\ Show("pengurus")
    /\ UNCHANGED <<groups, savings, cast>>

ScenarioNoNews ==
    /\ Plays("no_news")
    /\ loans' = UpdateLoans([i \in LoansOf("m2") |->
           [loans[i] EXCEPT !.statusCicilan = "DITALANGI"]])
    /\ members' = UpdateMember("m2",
           [members["m2"] EXCEPT !.skorKeanggotaan = AtLeast(0, @ - 15), !.isUzur = FALSE])
    /\ activeMemberId' = "m2"
    /\ Show("anggota")
    /\ UNCHANGED <<groups, savings, cast>>

\* Every loan of Pak X is an application again, paid out or not.
ScenarioMangkir ==
    /\ Plays("mangkir")
    /\ loans' = UpdateLoans([i \in LoansOf("m3") |->
           [loans[i] EXCEPT !.status = "Diajukan", !.flagAi = "MERAH"]])
    /\ members' = UpdateMember("m3",
           [members["m3"] EXCEPT !.skorKeanggotaan = 38, !.isDorman = TRUE])
    /\ groups' = [groups EXCEPT ![2].reputasiKomunitas = "kurang"]
    /\ Show("pengurus")
    /\ UNCHANGED <<activeMemberId, savings, cast>>

ScenarioKyc ==
    /\ Plays("kyc")
    /\ activeMemberId' = "m6"
    /\ Show("anggota")
    /\ UNCHANGED <<data, cast>>

\* Bu Fatimah is added once.
AddFatimah ==
    members' = WithMember("m7", Member("Approved", 80, 0, 0))

ScenarioGrupBaru ==
    /\ Plays("grup_baru")
    /\ AddFatimah
    /\ activeMemberId' = "m7"
    /\ Show("anggota")
    /\ UNCHANGED <<groups, loans, savings, cast>>

\* The same account, looked at for joining by invitation.
ScenarioUndangan ==
    /\ Plays("undangan")
    /\ AddFatimah
    /\ activeMemberId' = "m7"
    /\ Show("anggota")
    /\ UNCHANGED <<groups, loans, savings, cast>>

Scenario ==
    \/ ScenarioPositif \/ ScenarioUzur \/ ScenarioNoNews \/ ScenarioMangkir
    \/ ScenarioKyc \/ ScenarioGrupBaru \/ ScenarioUndangan

Next ==
    \/ \E view \in {"anggota", "pengurus"} : SwitchRole(view)
    \/ resetAllState
    \/ Scenario
    \/ MemberNext
    \/ OfficerNext

Spec == Init /\ [][Next]_vars

----------------------------------------------------------------------------
(* Properties *)

MemberRecord ==
    [statusKyc : {"Requested", "Approved", "Rejected"}, skorKeanggotaan : 0..100,
     simpananPokok : {0, 100000}, simpananWajib : Nat, simpananSukarela : Nat,
     isDorman : BOOLEAN, isUzur : BOOLEAN, jumlahIzinUzur : Nat]
GroupRecord ==
    [ketuaId : DOMAIN members, anggotaIds : SUBSET DOMAIN members, plafonMaks : Nat,
     kasSosial : Nat, reputasiKomunitas : {"baik", "cukup", "kurang"}, kodeUndangan : Codes]
LoanRecord ==
    [memberId : DOMAIN members, groupId : DOMAIN groups,
     status : {"Diajukan", "Cair", "Lunas", "Ditunda"},
     statusCicilan : {"PAID", "UNPAID", "DITALANGI"}, sisaCicilan : Nat,
     cicilanBulanan : Nat, flagAi : {"HIJAU", "KUNING", "MERAH"}, isSanggah : BOOLEAN]

\* Every record is well formed: scores stay within 0..100 under every reward
\* and penalty, no installment is paid below zero, the social fund is never
\* overdrawn, and groups and loans name members and groups that exist.
TypeOK ==
    /\ role \in {"anggota", "pengurus"}
    /\ activeMemberId \in DOMAIN members
    /\ \A m \in DOMAIN members : members[m] \in MemberRecord
    /\ \A g \in DOMAIN groups : groups[g] \in GroupRecord
    /\ \A i \in DOMAIN loans : loans[i] \in LoanRecord
    /\ cast \in Casts

DepositsOf(s, m) ==
    TotalInLots([t \in DOMAIN s |-> s[t].nominal],
           {t \in DOMAIN s : s[t].memberId = m /\ s[t].jenis # "Pokok"})
Opening(m) ==
    IF m \in DOMAIN initialMembers
    THEN initialMembers[m].simpananWajib + initialMembers[m].simpananSukarela
         - DepositsOf(initialSavings, m)
    ELSE 0

\* No balance without a transaction behind it: the dialog's closure credits a
\* member and appends to the ledger, whatever was reset or switched while it
\* was open.  The converse fails: a reset can remove the member.
BalanceBackedByLedger ==
    \A m \in DOMAIN members :
        members[m].simpananWajib + members[m].simpananSukarela
            <= Opening(m) + DepositsOf(savings, m)

\* A member has at most one loan that is not closed, though handleApplyLoan
\* does not look: only what the view shows, in every order of scenarios,
\* resets and payments, keeps a second application out.
OneOpenLoan ==
    \A i, j \in DOMAIN loans :
        /\ loans[i].memberId = loans[j].memberId
        /\ loans[i].status # "Lunas" /\ loans[j].status # "Lunas"
        => i = j

\* A member is in at most one group, and a loan's group has its borrower: joint
\* liability has somebody to turn to after every reset.
LiableGroup ==
    /\ \A g, h \in DOMAIN groups :
          groups[g].anggotaIds \cap groups[h].anggotaIds # {} => g = h
    /\ \A i \in DOMAIN loans :
          loans[i].groupId \in DOMAIN groups
          /\ loans[i].memberId \in groups[loans[i].groupId].anggotaIds

\* Only a loan with nothing left is closed, and but for the scenario that
\* makes Bu Sri pay, a loan with nothing left is closed.
ClosedWhenPaid ==
    \A i \in DOMAIN loans :
        /\ loans[i].status = "Lunas" => loans[i].sisaCicilan = 0
        /\ loans[i].sisaCicilan = 0 /\ loans[i].memberId # "m1" => loans[i].status = "Lunas"
=============================================================================
