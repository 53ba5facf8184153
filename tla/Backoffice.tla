----------------------------- MODULE Backoffice -----------------------------
(***************************************************************************)
(* The backend process with the KYC desk, the savings desk and the         *)
(* assistant, the escrow behind it and one chat panel in front of it.      *)
(***************************************************************************)
EXTENDS KycDesk, SavingsDesk, Assistant

VARIABLE overlapped  \* auxiliary: two snapshots were once built at the same time

allVars == <<vars, overlapped>>

Building == {r \in running : pc[r] \in {"count", "fold", "stamp", "store"}}

Browser(r) == SendQuestion(r) \/ Mount(r)
Ends(r) == ShowAnswer(r) \/ ShowError(r)

Serve(r) ==
    \/ Find(r) \/ AppendAudit(r)
    \/ KycStep(r) \/ SavingsStep(r)
    \/ Primed(r) \/ Unheard(r)
    \/ ReadCache(r) \/ StoreSnapshot(r)
    \/ Tick(r) \/ CountMembers(r) \/ FoldMembers(r) \/ Stamp(r)

\* Every request has ended, but for questions to a panel that is not open, every
\* transaction is mined and every entry expired.
Idle ==
    /\ \A r \in running : pc[r] \in Ended \/ (Kind(r) = "chat" /\ pc[r] = "start" /\ ~chat.shown)
    /\ \A r \in Requests : ~Waiting(r)
    /\ \A role \in Roles : pool[role] = <<>>
    /\ UNCHANGED vars

Next ==
    /\ \/ \E r \in Served : Serve(r) \/ NoReceipt(r) \/ Browser(r) \/ Ends(r)
       \/ \E role \in Roles : Mine(role)
       \/ \E place \in {"redis", "memory"} : Expire(place)
       \/ LeaveTab
       \/ Crash
       \/ Idle
    /\ overlapped' = (overlapped \/ Cardinality(Building') > 1)

AllInit == Init /\ overlapped = FALSE

Spec == AllInit /\ [][Next]_allVars

\* The event loop goes on with every request, trySubmit stops waiting, and a call
\* of the browser ends one way or the other.
FairSpec ==
    /\ Spec
    /\ \A r \in Requests :
          /\ WF_vars(r \in Served /\ (Serve(r) \/ NoReceipt(r)))
          /\ WF_vars(Ends(r))

----------------------------------------------------------------------------
(* Properties *)

\* Transactions that are not mined yet, about a member or about any.
Sent(fn, m) ==
    {i \in DOMAIN pool[RoleFor(fn)] : /\ pool[RoleFor(fn)][i].fn = fn
                                      /\ m \in {None, pool[RoleFor(fn)][i].arg.member}}

\* The wallet the escrow knows a member by, and mints to, is the one whose key is
\* stored: approve stores it before it is registered, a second approval, after a
\* crash too, keeps it.  Approvals of a member come one after the other here.
KeyMatchesChain ==
    \A m \in Members : registered[m] # None => registered[m] = members[m].wallet

\* However approvals and resets of a member overlap and the chain fails, the
\* password that is stored was answered to an officer or will be, unless a restart
\* cut that very request off.
PasswordInHand ==
    \A m \in Members :
        LET r == members[m].password
        IN  r \in running => r \in handed \/ pc[r] \notin Ended

\* onchainRegistered, of a member and of the group, is set for what the escrow has
\* or is about to execute, when it does not refuse what it accepted; and what the
\* escrow has is flagged, or a request stands, or was cut off by a restart, between
\* the call and the flag.  Unless the answer to the transaction was lost: trySubmit
\* then says that it failed, and the escrow executes it.
FlagFollowsChain ==
    /\ "revert" \notin faults =>
          /\ \A m \in Members :
                members[m].onchain => registered[m] # None \/ Sent("registerMember", m) # {}
          /\ groupFlag => grouped \/ Sent("registerGroup", None) # {}
    /\ "lost" \notin faults =>
          /\ \A m \in Members : registered[m] # None =>
                members[m].onchain \/ \E r \in Served : pc[r] = "registering" /\ who[r] = m
          /\ grouped => groupFlag \/ \E r \in Served : pc[r] = "grouping"

DepositsOf(m) == {row \in savings : row.member = m}

\* The amount of several deposits: their rupiah are all different ones.
Sum(rows) == Cardinality(UNION {{row.by} \X (1 .. row.nominal) : row \in rows})

\* A balance is the sum of the member's deposits, however many are recorded at the
\* same time, but for those whose request stands, or was cut off by a restart,
\* between the two writes.
BalanceMatchesRows ==
    \A m \in Members :
        members[m].balance = Sum({row \in DepositsOf(m) : pc[row.by] # "inserted"})

\* Each deposit is minted at most once, and when the escrow does not refuse what it
\* accepted, each row with a hash has its units or has them on their way.
UnitsAreDeposits ==
    \A m \in Members :
        LET onTheirWay == Sum({[by |-> i, nominal |-> pool["RELAYER"][i].arg.nominal] :
                                  i \in Sent("recordSavings", m)})
        IN  /\ minted[m] + onTheirWay <= Sum(DepositsOf(m))
            /\ "revert" \notin faults =>
                  minted[m] + onTheirWay >= Sum({row \in DepositsOf(m) : row.anchored})

\* The assistant never has fewer members in the breakdown by status than in the
\* total, though other requests write between the queries.
NoMemberUncounted ==
    \A s \in {cache.redis, cache.memory} : s.total <= s.byStatus

\* While the panel is open, the snapshot that it names goes back in time from one
\* answer to the next only after two snapshots were built at the same time or the process was
\* restarted, whatever becomes of redis; and a first snapshot that arrives late
\* never takes the place of an answer's.
ChatMovesForward ==
    [][LET now == chat.meta
           next == chat'.meta
       IN  /\ chat.shown /\ chat'.shown
           /\ now # None /\ Kind(now) = "chat" /\ ~overlapped /\ "crash" \notin faults
           =>
              draft[next].at >= draft[now].at]_allVars

\* While the panel is open no turn of its conversation is lost: a late answer is
\* appended to the turns its question was asked after, and these are still the last
\* ones; an answer to a panel that was left does not come into a later one.
NoTurnLost ==
    [][chat.shown /\ chat'.shown =>
          SubSeq(chat'.history, 1, Len(chat.history)) = chat.history]_allVars

\* Unless the backend stops, every request is answered, whatever the chain does;
\* and the chat's form is released however its call ends.
EveryRequestAnswered ==
    /\ \A r \in Requests :
          (r \in Served /\ pc[r] # "start" /\ "crash" \notin faults) ~> (pc[r] \in Ended)
    /\ chat.busy ~> ~chat.busy
=============================================================================
