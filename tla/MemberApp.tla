------------------------------ MODULE MemberApp ------------------------------
(***************************************************************************)
(* AnggotaView: deposits through the simulated QRIS dialog, the loan form  *)
(* and the appeal.  The tabs can be changed at any time and are left out,  *)
(* except that the dialog covers them.                                     *)
(***************************************************************************)
EXTENDS PortalState

OnPhone == Surface = "Anggota" /\ app.qris = None

\* One loadData call stands for its two reads, which fail apart from each other.
LoadData(i) ==
    /\ Arrived(i, "loadData")
    /\ \E group \in {app.group, TRUE} :
           app' = [app EXCEPT !.savings = IF Ok(i) THEN Got(i) ELSE @, !.group = group]
    /\ Launch(Without(i), <<>>, Cleared(i))
    /\ UNCHANGED <<session, db, panel, cast>>

----------------------------------------------------------------------------
(* Deposits *)

\* The dialog's button keeps the member of this render.
HandleDeposit ==
    /\ OnPhone /\ ~app.busy
    /\ app' = [app EXCEPT !.qris = member.id]
    /\ UNCHANGED <<session, inFlight, db, panel, doubt, cast>>

CancelQris ==
    /\ Surface = "Anggota" /\ app.qris # None /\ ~app.busy
    /\ app' = [app EXCEPT !.qris = None]
    /\ UNCHANGED <<session, inFlight, db, panel, doubt, cast>>

PayQris ==
    /\ Surface = "Anggota" /\ app.qris # None /\ ~app.busy
    /\ app' = [app EXCEPT !.busy = TRUE]
    /\ Send("createSaving", app.qris)
    /\ UNCHANGED <<session, db, panel, cast>>

DialogDone(a) == [a EXCEPT !.busy = FALSE, !.qris = None]

Listed(a, row) == [a EXCEPT !.savings = <<row>> \o @]

\* A deposit that was booked goes on to refresh the member; the balance on
\* screen is old until then, and the list is another account's if the dialog was.
DepositAnswered(i) ==
    /\ Arrived(i, "createSaving")
    /\ IF Ok(i)
       THEN /\ app' = IF Shown(i) THEN Listed(app, Got(i)) ELSE app
            /\ Launch(Without(i), <<[Call("getMe", None, token) EXCEPT !.live = inFlight[i].live]>>,
                      doubt \cup {Balance} \cup
                          (IF Shown(i) /\ About(i) # member.id THEN {Savings} ELSE {}))
       ELSE /\ app' = IF Shown(i) THEN DialogDone(app) ELSE app
            /\ Over(i)
    /\ UNCHANGED <<session, db, panel, cast>>

\* refreshMember sets and stores the member whatever has become of the view.
RefreshMe(i) ==
    /\ Arrived(i, "getMe")
    /\ UNCHANGED <<token, loading, db, cast>>
    /\ IF Ok(i)
       THEN /\ member' = Got(i) /\ stored' = Got(i)
            /\ Rerender(Without(i), TRUE, IF Shown(i) THEN DialogDone(app) ELSE app, Cleared(i))
       ELSE /\ app' = IF Shown(i) THEN DialogDone(app) ELSE app
            /\ Over(i)
            /\ UNCHANGED <<member, stored, panel>>

----------------------------------------------------------------------------
(* Loans *)

\* The card of the last application takes the place of the form.
HandleApplyLoan ==
    /\ OnPhone /\ ~app.busy
    /\ app.applied = None /\ app.group
    /\ app' = [app EXCEPT !.busy = TRUE]
    /\ Send("applyLoan", member.id)
    /\ UNCHANGED <<session, db, panel, cast>>

ApplyAnswered(i) ==
    /\ Arrived(i, "applyLoan")
    /\ app' = IF Ok(i) THEN [app EXCEPT !.busy = FALSE, !.applied = Got(i), !.showSanggah = FALSE]
              ELSE [app EXCEPT !.busy = FALSE]
    /\ Launch(Without(i), <<>>, IF Ok(i) THEN doubt \ {Item("loan", Got(i).id)} ELSE doubt)
    /\ UNCHANGED <<session, db, panel, cast>>

SanggahOffered ==
    /\ app.applied # None
    /\ app.applied.loan.status = "Diajukan" /\ ~app.applied.loan.isSanggah

ToggleSanggah ==
    /\ OnPhone /\ SanggahOffered
    /\ app' = [app EXCEPT !.showSanggah = ~@]
    /\ UNCHANGED <<session, inFlight, db, panel, doubt, cast>>

\* An appeal without a reason is refused.
HandleSanggah ==
    /\ OnPhone /\ SanggahOffered /\ app.showSanggah /\ ~app.busy
    /\ app' = [app EXCEPT !.busy = TRUE]
    /\ Send("sanggahLoan", app.applied.id)
    /\ UNCHANGED <<session, db, panel, cast>>

\* The answer puts the loan back on screen even when it was put away meanwhile.
SanggahAnswered(i) ==
    /\ Arrived(i, "sanggahLoan")
    /\ app' = IF Ok(i) THEN [app EXCEPT !.busy = FALSE, !.showSanggah = FALSE,
                                        !.applied = [id |-> About(i), loan |-> Got(i)]]
              ELSE [app EXCEPT !.busy = FALSE]
    /\ Over(i)
    /\ UNCHANGED <<session, db, panel, cast>>

ApplyForAnother ==
    /\ OnPhone /\ app.applied # None
    /\ app' = [app EXCEPT !.applied = None, !.showSanggah = FALSE]
    /\ UNCHANGED <<session, inFlight, db, panel, doubt, cast>>

MemberClick ==
    \/ Does("deposit") /\ (HandleDeposit \/ CancelQris \/ PayQris)
    \/ Does("apply") /\ (HandleApplyLoan \/ ToggleSanggah \/ HandleSanggah \/ ApplyForAnother)

MemberAnswer ==
    \E i \in DOMAIN inFlight : LoadData(i) \/ DepositAnswered(i) \/ RefreshMe(i)
                        \/ ApplyAnswered(i) \/ SanggahAnswered(i)
============================================================================
