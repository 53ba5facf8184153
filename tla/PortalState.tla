----------------------------- MODULE PortalState -----------------------------
(***************************************************************************)
(* The web frontend (src/frontend): one browser tab, its stored session    *)
(* (lib/auth, lib/api), the calls it has on the wire, and what the two     *)
(* views AnggotaView and PengurusView keep of the answers.                 *)
(*                                                                         *)
(* The backend is here one atomic step per call: the rows a route reads    *)
(* and writes.  Its own interleavings are the subject of other modules.    *)
(***************************************************************************)
EXTENDS Integers, SequencesExt

CONSTANTS
    None,
    Casts,          \* the sittings at the browser: who logs in, what is stored,
                    \* what is done there and how many calls are under way
    MaxRows, MaxPasswords  \* bounds on what the rows grow to

ASSUME PortalBounds == {MaxRows, MaxPasswords} \subseteq Nat

\* Loans in the order of their creation.
LoanIds == <<"l1", "l2">>

\* What is stored is the rows of members and officers, and the loans so far.
ASSUME CastsAreStored ==
    \A c \in Casts :
        LET users == DOMAIN c.db.role
            people == {u \in users : c.db.role[u] = "Anggota"} IN
        /\ c.calls \in Nat
        /\ c.accounts \subseteq users
        /\ c.token \in users \cup {None}
        /\ None \notin users /\ None \notin [id : users, balance : Nat]
        /\ c.db = [role |-> c.db.role, kyc |-> c.db.kyc, pw |-> c.db.pw, rows |-> c.db.rows,
                   loans |-> c.db.loans, kas |-> c.db.kas]
        /\ c.db.role \in [users -> {"Anggota", "Pengurus"}]
        /\ c.db.kyc \in [people -> {"Requested", "Approved", "Rejected"}]
        /\ c.db.pw \in [people -> Nat]
        /\ c.db.rows \in [users -> Nat]
        /\ DOMAIN c.db.loans \in {{}, {"l1"}, {"l1", "l2"}}
        /\ c.db.kas \in Nat

VARIABLES
    token, stored,     \* localStorage: rr_token (whose it is) and rr_member
    member, loading,   \* AuthProvider
    inFlight,          \* calls that are not over yet, each in a slot
    db,                \* the rows behind the API
    app,               \* AnggotaView's state
    panel,             \* PengurusView's state
    doubt,             \* auxiliary: what the tab may show wrong, see below
    cast

session == <<token, stored, member, loading>>
vars == <<session, inFlight, db, app, panel, doubt, cast>>

Does(what) == what \in cast.does

Users == DOMAIN db.role
Members == {u \in Users : db.role[u] = "Anggota"}

----------------------------------------------------------------------------
(* What a view starts from when it is mounted. *)

FreshApp == [savings |-> <<>>, group |-> FALSE, applied |-> None, busy |-> FALSE,
             qris |-> None, showSanggah |-> FALSE]

FreshPanel == [members |-> << >>, loans |-> << >>, kas |-> None, onchain |-> FALSE,
               loading |-> TRUE, busyId |-> None, credential |-> None,
               detailId |-> None, detail |-> None]

\* Protected: the view that the session leads to.  While a token is being
\* checked there is none, and an account without a role goes to the login page.
Surface ==
    IF loading THEN "splash"
    ELSE IF member = None THEN "login"
    ELSE db.role[member.id]

----------------------------------------------------------------------------
(* The backend.  A route answers a call with a value or, always possible,    *)
(* with an error.                                                            *)

Member(u) == [id |-> u, balance |-> db.rows[u]]

\* listSavings: newest first.
SavingsOf(u) == [i \in 1..db.rows[u] |-> db.rows[u] + 1 - i]

Loan(u) == [memberId |-> u, status |-> "Diajukan", cicilan |-> "UNPAID", isSanggah |-> FALSE]

\* approve keeps a password that is there; reset rotates it.
FirstPassword(m) == IF db.pw[m] = 0 THEN 1 ELSE db.pw[m]

SetLoan(l, field, value) == [db EXCEPT !.loans[l] = [@ EXCEPT ![field] = value]]

NewLoan == LoanIds[Cardinality(DOMAIN db.loans) + 1]
AddLoan(u) ==
    [db EXCEPT !.loans = [l \in DOMAIN @ \cup {NewLoan} |-> IF l = NewLoan THEN Loan(u) ELSE @[l]]]

\* A bailout of a loan that is DITALANGI changes nothing.
Bailout(l) ==
    IF db.loans[l].cicilan = "DITALANGI" THEN db
    ELSE [SetLoan(l, "cicilan", "DITALANGI") EXCEPT !.kas = Max({0, @ - 1})]

\* The rows after a call.
Written(kind, about) ==
    CASE kind = "createSaving" -> [db EXCEPT !.rows[about] = @ + 1]
      [] kind = "applyLoan" -> AddLoan(about)
      [] kind = "sanggahLoan" -> SetLoan(about, "isSanggah", TRUE)
      [] kind = "approveKyc" -> [db EXCEPT !.kyc[about] = "Approved",
                                           !.pw[about] = FirstPassword(about)]
      [] kind = "rejectKyc" -> [db EXCEPT !.kyc[about] = "Rejected"]
      [] kind = "resetPassword" -> [db EXCEPT !.pw[about] = @ + 1]
      [] kind = "approveLoan" -> SetLoan(about, "status", "Disetujui")
      [] kind = "rejectLoan" -> SetLoan(about, "status", "Ditunda")
      [] kind = "bailout" -> Bailout(about)
      [] OTHER -> db

Writes == {"createSaving", "applyLoan", "sanggahLoan", "approveKyc", "rejectKyc",
           "resetPassword", "approveLoan", "rejectLoan", "bailout", "bootstrapOnchain"}

NewPassword(m, d) == d.pw[m]

\* What the answer carries; d is the rows after the call.
Answer(kind, about, who, d) ==
    CASE kind = "login" -> Member(about)
      [] kind \in {"me", "getMe"} -> Member(who)
      [] kind = "loadData" -> SavingsOf(about)
      [] kind = "createSaving" -> d.rows[about]
      [] kind = "applyLoan" -> [id |-> NewLoan, loan |-> d.loans[NewLoan]]
      [] kind \in {"sanggahLoan", "approveLoan", "rejectLoan"} -> d.loans[about]
      [] kind = "approveKyc" -> [kyc |-> d.kyc[about],
                                 tempPassword |-> IF db.pw[about] = 0 THEN 1 ELSE None]
      [] kind \in {"rejectKyc", "getMemberDetail"} -> d.kyc[about]
      [] kind = "resetPassword" -> NewPassword(about, d)
      [] kind = "bailout" -> [loan |-> d.loans[about], kas |-> d.kas]
      [] kind = "loadAll" -> [members |-> d.kyc, loans |-> d.loans, kas |-> d.kas]
      [] OTHER -> TRUE

----------------------------------------------------------------------------
(* Calls.  A call is sent, served, and answered or failed; an answer can be  *)
(* lost after the rows were written.  "live" is what becomes of its          *)
(* continuation: the view that sent it is on screen, it was unmounted (its   *)
(* own state is gone, the rest of the code still runs), or the page is gone. *)
(*                                                                           *)
(* doubt collects what the tab cannot know: the items of a call that         *)
(* overlapped another one about the same item, of a write whose answer was   *)
(* lost, and of a view that has not loaded yet.  A read clears its items     *)
(* when nothing overlapped it.                                               *)

Item(sort, key) == [sort |-> sort, key |-> key]
MemberItems == {Item("member", m) : m \in Members}
LoanItems == {Item("loan", l) : l \in DOMAIN db.loans}
PanelItems == MemberItems \cup LoanItems \cup {Item("kas", None)}
Savings == Item("savings", None)
Balance == Item("balance", None)

Touches(kind, about) ==
    CASE kind \in {"login", "me", "getMe"} -> {Balance}
      [] kind = "loadData" -> {Savings}
      [] kind = "createSaving" -> {Savings, Balance}
      [] kind \in {"sanggahLoan", "approveLoan", "rejectLoan"} -> {Item("loan", about)}
      [] kind \in {"approveKyc", "rejectKyc", "resetPassword", "getMemberDetail"} ->
             {Item("member", about)}
      [] kind = "bailout" -> {Item("loan", about), Item("kas", None)}
      [] kind = "loadAll" -> PanelItems
      [] OTHER -> {}

Concerns(r) == Touches(r.kind, r.about)
Pending(item) == \E i \in DOMAIN inFlight : item \in Concerns(inFlight[i])

Call(kind, about, who) ==
    [kind |-> kind, about |-> about, who |-> who, live |-> "mounted",
     phase |-> "sent", got |-> None, clean |-> IF kind \in Writes THEN {} ELSE Touches(kind, about)]

\* The calls that remain when the one in slot i is over.
Without(i) == Restrict(inFlight, DOMAIN inFlight \ {i})

\* The calls in flight become rest and the new ones, at most one; what overlaps
\* is in doubt.
Launch(rest, new, unsure) ==
    LET items == UNION {Concerns(c) : c \in Range(new)}
        others == UNION {Concerns(rest[i]) : i \in DOMAIN rest}
        free == (1..cast.calls) \ DOMAIN rest
        slots == DOMAIN rest \cup IF new = <<>> THEN {} ELSE {Min(free)}
    IN /\ new # <<>> => free # {}
       /\ inFlight' = [i \in slots |-> IF i \in DOMAIN rest THEN [rest[i] EXCEPT !.clean = @ \ items]
                                      ELSE [new[1] EXCEPT !.clean = @ \ others]]
       /\ doubt' = unsure \cup (items \cap others)

Send(kind, about) == Launch(inFlight, <<Call(kind, about, token)>>, doubt)

\* Every route but the public ones wants a token.
Authorised(r) == r.kind = "login" \/ r.who # None

\* The bound on rows: a call beyond it fails.
Room(r) ==
    CASE r.kind = "createSaving" -> db.rows[r.about] < MaxRows
      [] r.kind = "applyLoan" -> Cardinality(DOMAIN db.loans) < Len(LoanIds)
      [] r.kind = "resetPassword" -> db.pw[r.about] < MaxPasswords
      [] OTHER -> TRUE

Becomes(i, phase, got) ==
    inFlight' = IF inFlight[i].live = "gone" THEN Without(i)
                ELSE [inFlight EXCEPT ![i].phase = phase, ![i].got = got]

\* A page that is gone leaves nothing to answer, and its writes unnoticed.
Serve(i) ==
    LET r == inFlight[i] IN
    /\ r.phase = "sent" /\ Authorised(r) /\ Room(r)
    /\ db' = Written(r.kind, r.about)
    /\ Becomes(i, "done", Answer(r.kind, r.about, r.who, db'))
    /\ doubt' = IF r.live # "mounted" /\ r.kind \in Writes THEN doubt \cup Concerns(r) ELSE doubt
    /\ UNCHANGED <<session, app, panel, cast>>

\* No connection, an error status, or an answer that does not arrive.
Fail(i) ==
    LET r == inFlight[i] IN
    /\ r.phase # "failed"
    /\ Becomes(i, "failed", None)
    /\ doubt' = IF r.phase = "done" /\ r.kind \in Writes THEN doubt \cup Concerns(r) ELSE doubt
    /\ UNCHANGED <<session, db, app, panel, cast>>

Arrived(i, kind) == inFlight[i].kind = kind /\ inFlight[i].phase \in {"done", "failed"}
Ok(i) == inFlight[i].phase = "done"
Shown(i) == inFlight[i].live = "mounted"
About(i) == inFlight[i].about
Got(i) == inFlight[i].got
\* What is certain again when a read in slot i has been taken over.
Cleared(i) == IF Ok(i) THEN doubt \ inFlight[i].clean ELSE doubt

\* A call is over and starts no other one.
Over(i) == Launch(Without(i), <<>>, doubt)

----------------------------------------------------------------------------
(* Rendering.  A new member object loads AnggotaView's data again, and a      *)
(* change of view unmounts the old one and mounts the other.                  *)

\* What is left of a view's calls when it goes.  Setting the state of a view
\* that is gone does nothing, so only the deposit, which goes on to refresh the
\* member, and the provider's own calls still have a continuation.
Unmounted(rest) ==
    LET Goes(r) == r.kind \in Writes \/ r.kind \in {"getMe", "login", "me"}
        kept == {i \in DOMAIN rest : /\ Goes(rest[i])
                                     /\ rest[i].live = "gone" => rest[i].phase = "sent"
                                     /\ rest[i].kind \in Writes \ {"createSaving"} =>
                                            rest[i].phase = "sent"}
    IN [i \in kept |-> [rest[i] EXCEPT !.live =
            IF @ = "gone" \/ rest[i].kind \in {"login", "me"} THEN @
            ELSE IF rest[i].kind \in {"createSaving", "getMe"} THEN "unmounted" ELSE "gone"]]

\* A view reads what it shows when it is mounted.
Loads(u, who) ==
    IF db.role[u] = "Anggota" THEN Call("loadData", u, who) ELSE Call("loadAll", None, who)

\* Rest is the calls that remain; fresh tells that member was set to a new object,
\* and a is AnggotaView's state if it stays.
Rerender(rest, fresh, a, unsure) ==
    LET moved == Surface' # Surface
        reads == \/ moved /\ Surface' \in {"Anggota", "Pengurus"}
                 \/ fresh /\ Surface' = "Anggota"
        loads == IF reads THEN <<Loads(member'.id, token')>> ELSE <<>>
        kept == IF moved THEN unsure \cap {Balance} ELSE unsure
        unknown == IF Surface' = "Anggota" /\ (moved \/ member'.id # member.id) THEN {Savings}
                   ELSE IF Surface' = "Pengurus" /\ moved THEN PanelItems ELSE {}
    IN /\ Launch(IF moved THEN Unmounted(rest) ELSE rest, loads, kept \cup unknown)
       /\ app' = IF moved THEN FreshApp ELSE a
       /\ panel' = IF moved THEN FreshPanel ELSE panel
============================================================================
