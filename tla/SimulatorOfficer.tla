-------------------------- MODULE SimulatorOfficer --------------------------
(***************************************************************************)
(* The prototype's officer panel (PengurusView): its queues and the        *)
(* buttons of each card, computed at each render from the state of App.    *)
(***************************************************************************)
EXTENDS SimulatorState

OnPanel == role = "pengurus"

\* A session acts on the members it plays with.
Cards(Listed(_)) ==
    {i \in DOMAIN loans : Listed(i) /\ loans[i].memberId \in cast.accounts}

----------------------------------------------------------------------------
(* Queues *)

KycQueue == {m \in DOMAIN members : members[m].statusKyc = "Requested"}

InReview(i) == loans[i].status = "Diajukan"

InArrears(i) == loans[i].statusCicilan \in {"UNPAID", "DITALANGI"}

\* A card whose member or group is not found is left out without a word.
Rendered(i) == loans[i].memberId \in DOMAIN members /\ loans[i].groupId \in DOMAIN groups

ToCollect(i) == loans[i].status = "Cair" /\ InArrears(i) /\ Rendered(i)

----------------------------------------------------------------------------
(* Buttons *)

Decided(m, action) ==
    [m EXCEPT !.statusKyc = action, !.isDorman = (action # "Approved"),
              !.simpananPokok = IF action = "Approved" THEN 100000 ELSE 0]

KycAction(id, action) ==
    /\ OnPanel
    /\ id \in KycQueue \cap cast.accounts
    /\ members' = UpdateMember(id, Decided(members[id], action))
    /\ UNCHANGED <<role, activeMemberId, groups, loans, savings, phone, cast>>

LoanAction(i, action) ==
    /\ OnPanel
    /\ i \in Cards(InReview)
    /\ loans' = [loans EXCEPT ![i].status = IF action = "Disetujui" THEN "Cair" ELSE "Ditunda"]
    /\ UNCHANGED <<role, activeMemberId, members, groups, savings, phone, cast>>

\* Toggled on the card of a loan, kept on the member; nothing limits how often.
ToggleUzur(i) ==
    LET id == loans[i].memberId IN
    /\ OnPanel
    /\ i \in Cards(ToCollect)
    /\ members[id].jumlahIzinUzur < MaxIzin
    /\ members' = UpdateMember(id,
           [members[id] EXCEPT !.isUzur = ~@,
                               !.jumlahIzinUzur = IF members[id].isUzur THEN @ ELSE @ + 1])
    /\ UNCHANGED <<role, activeMemberId, groups, loans, savings, phone, cast>>

\* Which buttons a card has depends on whether the member is excused.
Excused(i) == members[loans[i].memberId].isUzur
MayCallGroup(i) == ~Excused(i) /\ loans[i].statusCicilan # "DITALANGI"

\* Mutant: the fund is not looked at.
FundAnyway(i) == TRUE
FundSuffices(i) == groups[loans[i].groupId].kasSosial >= loans[i].cicilanBulanan

ApplySocialFund(i) ==
    /\ OnPanel
    /\ i \in Cards(ToCollect) /\ Excused(i)
    /\ FundSuffices(i)
    /\ groups' = [groups EXCEPT ![loans[i].groupId].kasSosial = @ - loans[i].cicilanBulanan]
    /\ loans' = [loans EXCEPT ![i].statusCicilan = "PAID", ![i].sisaCicilan = @ - 1,
                              ![i].status = IF loans[i].sisaCicilan - 1 <= 0 THEN "Lunas" ELSE @]
    /\ UNCHANGED <<role, activeMemberId, members, savings, phone, cast>>

\* Offered to everybody in arrears: Math.round(cicilan * 0.6), three more
\* months, and this month counts as paid.
RestructureLoan(i) ==
    /\ OnPanel
    /\ i \in Cards(ToCollect)
    /\ loans[i].sisaCicilan + 3 <= MaxSisa /\ loans[i].cicilanBulanan >= MinCicilan
    /\ loans' = [loans EXCEPT ![i].cicilanBulanan = (6 * @ + 5) \div 10,
                              ![i].sisaCicilan = @ + 3, ![i].statusCicilan = "PAID"]
    /\ UNCHANGED <<role, activeMemberId, members, groups, savings, phone, cast>>

\* The group covers: no fund is debited.
TriggerJointLiability(i) ==
    /\ OnPanel
    /\ i \in Cards(ToCollect) /\ MayCallGroup(i)
    /\ loans' = [loans EXCEPT ![i].statusCicilan = "DITALANGI"]
    /\ members' = UpdateMember(loans[i].memberId,
           [members[loans[i].memberId] EXCEPT !.skorKeanggotaan = AtLeast(0, @ - 15)])
    /\ UNCHANGED <<role, activeMemberId, groups, savings, phone, cast>>

OfficerNext ==
    \/ \E id \in cast.accounts, action \in {"Approved", "Rejected"} : KycAction(id, action)
    \/ \E i \in DOMAIN loans :
          \/ \E action \in {"Disetujui", "Ditunda"} : LoanAction(i, action)
          \/ ToggleUzur(i) \/ ApplySocialFund(i)
          \/ RestructureLoan(i) \/ TriggerJointLiability(i)
=============================================================================
