---------------------------- MODULE OfficerPanel ----------------------------
(***************************************************************************)
(* PengurusView: the registration queue, the credentials, the loan reviews *)
(* and the bailouts an officer works on, each a call of its own.  One      *)
(* busyId tells which button is disabled, whatever is still in flight.     *)
(***************************************************************************)
EXTENDS PortalState

\* The credential card and the drawer cover the whole page.
OnDesk == Surface = "Pengurus" /\ panel.credential = None /\ panel.detailId = None

\* Promise.allSettled: each of the reads is taken over or not.
LoadAll(i) ==
    /\ Arrived(i, "loadAll")
    /\ \E kept \in SUBSET {"members", "loans", "groups"} :
           LET old == IF Ok(i) THEN kept ELSE {"members", "loans", "groups"} IN
           /\ panel' = [panel EXCEPT
                  !.members = IF "members" \in old THEN @ ELSE Got(i).members,
                  !.loans = IF "loans" \in old THEN @ ELSE Got(i).loans,
                  !.kas = IF "groups" \in old THEN @ ELSE Got(i).kas,
                  !.loading = FALSE]
           /\ Launch(Without(i), <<>>, Cleared(i) \cup (doubt \cap UNION
                  {IF "members" \in old THEN MemberItems ELSE {},
                   IF "loans" \in old THEN LoanItems ELSE {},
                   IF "groups" \in old THEN {Item("kas", None)} ELSE {}}))
    /\ UNCHANGED <<session, db, app, cast>>

Refresh ==
    /\ OnDesk
    /\ panel' = [panel EXCEPT !.loading = TRUE]
    /\ Send("loadAll", None)
    /\ UNCHANGED <<session, db, app, cast>>

----------------------------------------------------------------------------
(* The buttons: what is listed, and enabled unless it is the busy one. *)

Enabled(id) == OnDesk /\ panel.busyId # id

Work(kind, id) ==
    /\ Enabled(id)
    /\ panel' = [panel EXCEPT !.busyId = id]
    /\ Send(kind, id)
    /\ UNCHANGED <<session, db, app, cast>>

KycQueue == {m \in DOMAIN panel.members : panel.members[m] = "Requested"}
Active == {m \in DOMAIN panel.members : panel.members[m] = "Approved"}
PendingLoans == {l \in DOMAIN panel.loans : panel.loans[l].status = "Diajukan"}
\* Whatever the status of the loan.
Arrears == {l \in DOMAIN panel.loans : panel.loans[l].cicilan \in {"UNPAID", "DITALANGI"}}

HandleKyc(m, action) ==
    /\ m \in KycQueue
    /\ Work(IF action = "approve" THEN "approveKyc" ELSE "rejectKyc", m)

HandleResetPassword(m) ==
    /\ m \in Active
    /\ Work("resetPassword", m)

HandleLoan(l, action) ==
    /\ l \in PendingLoans
    /\ Work(IF action = "approve" THEN "approveLoan" ELSE "rejectLoan", l)

HandleBailout(l) ==
    /\ l \in Arrears /\ panel.loans[l].cicilan # "DITALANGI"
    /\ Work("bailout", l)

HandleBootstrap == Work("bootstrapOnchain", "bootstrap")

----------------------------------------------------------------------------
(* The answers.  Each finally sets busyId to null, its own or not. *)

\* prev.map(...): a row that is not listed stays unlisted.
WithMember(p, m, kyc) ==
    IF m \in DOMAIN p.members THEN [p EXCEPT !.members[m] = kyc] ELSE p
WithLoan(p, l, loan) ==
    IF l \in DOMAIN p.loans THEN [p EXCEPT !.loans[l] = loan] ELSE p

\* Mutant: a failed call leaves the button disabled.
DoneIfOk(i, p) == IF Ok(i) THEN [p EXCEPT !.busyId = None] ELSE p
Done(i, p) == [p EXCEPT !.busyId = None]

Answered(i, p) ==
    /\ panel' = Done(i, IF Ok(i) THEN p ELSE panel)
    /\ Over(i)
    /\ UNCHANGED <<session, db, app, cast>>

\* A second approval carries no password, and then the card stays as it is.
KycApproved(i) ==
    /\ Arrived(i, "approveKyc")
    /\ LET p == WithMember(panel, About(i), Got(i).kyc) IN
       Answered(i, IF Got(i).tempPassword = None THEN p
                   ELSE [p EXCEPT !.credential = [id |-> About(i), pw |-> Got(i).tempPassword]])

KycRejected(i) ==
    /\ Arrived(i, "rejectKyc")
    /\ Answered(i, WithMember(panel, About(i), Got(i)))

PasswordReset(i) ==
    /\ Arrived(i, "resetPassword")
    /\ Answered(i, [panel EXCEPT !.credential = [id |-> About(i), pw |-> Got(i)]])

LoanDecided(i) ==
    /\ Arrived(i, "approveLoan") \/ Arrived(i, "rejectLoan")
    /\ Answered(i, WithLoan(panel, About(i), Got(i)))

\* Mutant: the group keeps the fund it had.
LoanOnly(p, i) == WithLoan(p, About(i), Got(i).loan)
LoanAndFund(p, i) ==
    [WithLoan(p, About(i), Got(i).loan) EXCEPT !.kas = IF @ = None THEN None ELSE Got(i).kas]

BailedOut(i) ==
    /\ Arrived(i, "bailout")
    /\ Answered(i, LoanAndFund(panel, i))

\* The status is read again before the button is released.
Bootstrapped(i) ==
    /\ Arrived(i, "bootstrapOnchain")
    /\ IF Ok(i)
       THEN Launch(Without(i), <<Call("onchainStatus", None, token)>>, doubt) /\ panel' = panel
       ELSE Over(i) /\ panel' = Done(i, panel)
    /\ UNCHANGED <<session, db, app, cast>>

OnchainStatus(i) ==
    /\ Arrived(i, "onchainStatus")
    /\ Answered(i, [panel EXCEPT !.onchain = TRUE])

----------------------------------------------------------------------------
(* The card and the drawer *)

CloseCredential ==
    /\ Surface = "Pengurus" /\ panel.credential # None
    /\ panel' = [panel EXCEPT !.credential = None]
    /\ UNCHANGED <<session, inFlight, db, app, doubt, cast>>

OpenDrawer(m) ==
    /\ OnDesk /\ panel.kas # None /\ m \in Members
    /\ panel' = [panel EXCEPT !.detailId = m]
    /\ Send("getMemberDetail", m)
    /\ UNCHANGED <<session, db, app, cast>>

\* The effect's cleanup drops the read.
CloseDrawer ==
    /\ Surface = "Pengurus" /\ panel.detailId # None
    /\ panel' = [panel EXCEPT !.detailId = None, !.detail = None]
    /\ inFlight' = Restrict(inFlight, {i \in DOMAIN inFlight : inFlight[i].kind # "getMemberDetail"})
    /\ UNCHANGED <<session, db, app, doubt, cast>>

DetailLoaded(i) ==
    /\ Arrived(i, "getMemberDetail")
    /\ panel' = [panel EXCEPT !.detail = IF Ok(i) THEN Got(i) ELSE None]
    /\ Over(i)
    /\ UNCHANGED <<session, db, app, cast>>

OfficerClick ==
    \/ CloseCredential \/ CloseDrawer
    \/ Does("refresh") /\ Refresh
    \/ Does("bootstrap") /\ HandleBootstrap
    \/ Does("look") /\ \E m \in Members : OpenDrawer(m)
    \/ Does("kyc") /\ \E m \in Members : \/ HandleResetPassword(m)
                                         \/ \E action \in {"approve", "reject"} : HandleKyc(m, action)
    \/ Does("loans") /\ \E l \in Range(LoanIds) :
           HandleBailout(l) \/ \E action \in {"approve", "reject"} : HandleLoan(l, action)

OfficerAnswer ==
    \E i \in DOMAIN inFlight : \/ LoadAll(i) \/ KycApproved(i) \/ KycRejected(i) \/ PasswordReset(i)
                        \/ LoanDecided(i) \/ BailedOut(i) \/ Bootstrapped(i) \/ OnchainStatus(i)
                        \/ DetailLoaded(i)
============================================================================
