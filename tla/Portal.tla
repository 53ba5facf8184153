------------------------------- MODULE Portal -------------------------------
(***************************************************************************)
(* The browser tab as a whole: the session around the two views and the    *)
(* officer's screening tool, and what must hold of what the tab shows.     *)
(***************************************************************************)
EXTENDS MemberApp, OfficerPanel, RiskScreening

\* A tab opened on what an earlier visit left in localStorage.
Init ==
    /\ cast \in Casts
    /\ db = cast.db
    /\ token = cast.token
    /\ stored = IF token = None THEN None ELSE Member(token)
    /\ member = stored
    /\ loading = (token # None)
    /\ app = FreshApp /\ panel = FreshPanel
    /\ inFlight = IF token = None THEN <<>> ELSE <<Call("me", None, token)>>
    /\ doubt = {}
    /\ tool = Mounted("x")

----------------------------------------------------------------------------
(* The session *)

\* LoginPage: the button is disabled while its call is under way.
HandleLogin(u) ==
    /\ Surface = "login"
    /\ u \in cast.accounts
    /\ \A i \in DOMAIN inFlight : inFlight[i].kind # "login"
    /\ Send("login", u)
    /\ UNCHANGED <<session, db, app, panel, cast>>

\* Mutant: the token is not stored.
SetMember(i) == token' = token /\ stored' = Got(i) /\ member' = Got(i)
SetSession(i) == token' = About(i) /\ stored' = Got(i) /\ member' = Got(i)

Login(i) ==
    /\ Arrived(i, "login")
    /\ UNCHANGED <<db, cast>>
    /\ IF Ok(i)
       THEN /\ SetSession(i)
            /\ UNCHANGED loading
            /\ Rerender(Without(i), TRUE, app, Cleared(i))
       ELSE /\ Over(i)
            /\ UNCHANGED <<session, app, panel>>

ForgetSession == token' = None /\ stored' = None /\ member' = None

Leavable == Surface = "Anggota" \/ OnDesk

Logout ==
    /\ Leavable
    /\ ForgetSession
    /\ UNCHANGED <<loading, db, cast>>
    /\ Rerender(inFlight, FALSE, app, doubt)

\* The page is loaded again: AuthProvider starts from what is stored and has
\* the token checked.
LoadPage ==
    LET rest == Restrict(inFlight, {i \in DOMAIN inFlight : /\ inFlight[i].kind \in Writes
                                                            /\ inFlight[i].phase = "sent"})
        gone == [i \in DOMAIN rest |-> [rest[i] EXCEPT !.live = "gone"]]
        first == IF token # None THEN <<Call("me", None, token)>>
                 ELSE IF stored # None THEN <<Loads(stored.id, None)>> ELSE <<>>
    IN /\ member' = stored /\ loading' = (token # None)
       /\ app' = FreshApp /\ panel' = FreshPanel
       /\ Launch(gone, first, IF stored = None THEN doubt
                              ELSE {Savings, Balance} \cup PanelItems)
       /\ UNCHANGED <<token, stored, db, cast>>

\* Any error ends the session, one of the network too.
Me(i) ==
    /\ Arrived(i, "me")
    /\ loading' = FALSE
    /\ UNCHANGED <<db, cast>>
    /\ IF Ok(i) THEN token' = token /\ stored' = Got(i) /\ member' = Got(i)
       ELSE ForgetSession
    /\ Rerender(Without(i), TRUE, app, Cleared(i))

SessionClick ==
    \/ Does("logout") /\ Logout
    \/ Does("reload") /\ LoadPage
    \/ \E u \in cast.accounts : HandleLogin(u)
SessionAnswer == \E i \in DOMAIN inFlight : Login(i) \/ Me(i)

----------------------------------------------------------------------------

Network == \E i \in DOMAIN inFlight : Serve(i) \/ Fail(i)
Continue == SessionAnswer \/ MemberAnswer \/ OfficerAnswer
Click == SessionClick \/ MemberClick \/ OfficerClick

\* The screening tab of PengurusView, where no call is sent; it starts anew
\* when it is opened, and goes with the view.
Screening ==
    /\ Does("screen") /\ OnDesk
    /\ ScreenClick \/ tool' = Mounted("x")
    /\ UNCHANGED vars

Next ==
    \/ /\ Click \/ Network \/ Continue
       /\ tool' = IF Surface' = "Pengurus" THEN tool ELSE Mounted("x")
    \/ Screening

\* A call is served or fails in the end, and its continuation runs; nobody has
\* to click.
Fairness == WF_vars(Network) /\ WF_vars(Continue)

Spec == Init /\ [][Next]_<<vars, tool>> /\ Fairness

----------------------------------------------------------------------------
(* Properties *)

\* What a call that overlapped no other one about the same thing, and whose
\* answer was not lost, leaves on screen is what is stored.
Certain(sort, key) == Item(sort, key) \notin doubt /\ ~Pending(Item(sort, key))

MemberSeesRows ==
    Surface = "Anggota" =>
        /\ Certain("savings", None) => app.savings = SavingsOf(member.id)
        /\ Certain("balance", None) => member.balance = db.rows[member.id]
        /\ (app.applied # None /\ Certain("loan", app.applied.id)) =>
               app.applied.loan = db.loans[app.applied.id]

OfficerSeesRows ==
    /\ \A m \in DOMAIN panel.members :
           Certain("member", m) => panel.members[m] = db.kyc[m]
    /\ \A l \in DOMAIN panel.loans :
           Certain("loan", l) => panel.loans[l] = db.loans[l]
    /\ (panel.kas # None /\ Certain("kas", None)) => panel.kas = db.kas
    /\ (panel.detail # None /\ Certain("member", panel.detailId)) =>
           panel.detail = db.kyc[panel.detailId]

\* The one-time password on the card is the one the member can log in with.
CredentialWorks ==
    (panel.credential # None /\ Certain("member", panel.credential.id)) =>
        panel.credential.pw = db.pw[panel.credential.id]

\* Deposits, balance, loans, statuses, fund and password on screen are those that
\* are stored, in whatever order the answers came, but for what is in doubt.
ShownIsStored == MemberSeesRows /\ OfficerSeesRows /\ CredentialWorks

\* The member on screen and the token are of one account, and both are there or
\* neither; only the late answer to an account that was left mixes the two.
Mixed == IF member = None THEN token # None ELSE member.id # token
OnlyLateAnswersMix ==
    [][Mixed' /\ ~Mixed =>
         \E i \in DOMAIN inFlight : /\ inFlight[i].kind = "getMe" /\ inFlight[i].who # token
                                    /\ RefreshMe(i)]_vars

\* Whatever fails or comes late, once nobody clicks any more every form, button
\* and splash screen is released for good.
ButtonsRelease ==
    []<><<Click>>_vars \/ <>[](~app.busy /\ panel.busyId = None /\ ~loading)
============================================================================
