------------------------------ MODULE KycDesk ------------------------------
(***************************************************************************)
(* KycService (submit, approve, reject, resetPassword), WalletService and  *)
(* OnchainSyncService: an applicant becomes a member with a password, a    *)
(* custodial wallet and a registration on the escrow, in that order, with  *)
(* an await between any two.                                               *)
(***************************************************************************)
EXTENDS BackofficeState

\* The NIK is unique: the second submission is answered with a conflict.
SubmitKyc(r) ==
    /\ Kind(r) = "submit"
    /\ Step(r, "start", IF Row(r) = NoRow THEN "done" ELSE "refused")
    /\ Update(r, IF Row(r) = NoRow THEN [NoRow EXCEPT !.status = "Requested"] ELSE Row(r))
    /\ UNCHANGED <<ledger, chain, gateway, assistant, reads, handed>>

\* Mutant: a second approval stores a new password and does not answer with it.
IssuesAlways(r) == Kind(r) \in {"approve", "reset"}

\* The request stores a password of its own.
Issues(r) ==
    \/ Kind(r) = "reset"
    \/ Kind(r) = "approve" /\ seen[r].password = None

Answers(r) ==
    \/ Kind(r) = "reset"
    \/ Kind(r) = "approve" /\ seen[r].password = None

Approve(r) ==
    /\ Kind(r) = "approve"
    /\ Step(r, "found", "approved")
    /\ Update(r, [Row(r) EXCEPT !.status = "Approved",
                                !.password = IF Issues(r) THEN r ELSE @])
    /\ UNCHANGED <<ledger, chain, gateway, assistant, reads, handed>>

Reject(r) ==
    /\ Kind(r) = "reject"
    /\ Step(r, "found", "audit")
    /\ Update(r, [Row(r) EXCEPT !.status = "Rejected"])
    /\ UNCHANGED <<ledger, chain, gateway, assistant, reads, handed>>

ResetPassword(r) ==
    /\ Kind(r) = "reset"
    /\ Step(r, "found", "reply")
    /\ Update(r, [Row(r) EXCEPT !.password = r])
    /\ UNCHANGED <<ledger, chain, gateway, assistant, reads, handed>>

----------------------------------------------------------------------------
(* WalletService.ensureWallet *)

\* Mutant: every approval generates a wallet.
NoWallet(r) == None
StoredWallet(r) == Row(r).wallet

ReadWallet(r) ==
    /\ Step(r, "approved", IF StoredWallet(r) = None THEN "generate" ELSE "walleted")
    /\ UNCHANGED <<people, ledger, chain, gateway, assistant, reads, handed>>

StoreWallet(r) ==
    /\ Step(r, "generate", "walleted")
    /\ Update(r, [Row(r) EXCEPT !.wallet = r])
    /\ UNCHANGED <<ledger, chain, gateway, assistant, reads, handed>>

----------------------------------------------------------------------------
(* OnchainSyncService *)

\* Where a request goes on after a call of the sync service.
After(r) == IF Kind(r) = "sync" THEN "members" ELSE "audit"

\* registerMember reads the row again.
ReadMember(r) ==
    /\ Step(r, "walleted",
            IF Row(r).onchain \/ Row(r).wallet = None THEN After(r) ELSE "register")
    /\ seen' = [seen EXCEPT ![r].wallet = Row(r).wallet]
    /\ UNCHANGED <<people, ledger, chain, gateway, assistant, who, todo, handed>>

RegisterMember(r) ==
    /\ Step(r, "register", "registering")
    /\ Submit(r, "registerMember", seen[r].wallet, 0)

\* Mutant: the flag is set whatever trySubmit answered.
AnyAnswer(r) == Answered(r)
Registered(r) == Ok(r)

MarkMember(r) ==
    /\ Step(r, "registering", After(r)) /\ Answered(r)
    /\ Update(r, [Row(r) EXCEPT !.onchain = @ \/ Registered(r)])
    /\ UNCHANGED <<ledger, chain, gateway, assistant, reads, handed>>

\* bootstrapSeeded: the list of members is read once, their order is the
\* database's.
ListMembers(r) ==
    /\ Kind(r) = "sync"
    /\ Step(r, "start", "members")
    /\ todo' = [todo EXCEPT ![r] =
          {m \in Members : members[m].status = "Approved" /\ members[m].wallet # None}]
    /\ UNCHANGED <<people, ledger, chain, gateway, assistant, who, seen, handed>>

NextMember(r) ==
    \E m \in todo[r] :
        /\ Step(r, "members", "walleted")
        /\ todo' = [todo EXCEPT ![r] = @ \ {m}]
        /\ who' = [who EXCEPT ![r] = m]
        /\ UNCHANGED <<people, ledger, chain, gateway, assistant, seen, handed>>

\* Every member is done: the group, and then its members but the chair.
ReadGroup(r) ==
    /\ todo[r] = {}
    /\ Step(r, "members",
            IF groupFlag \/ members[Chair] = NoRow THEN "joins" ELSE "group")
    /\ todo' = [todo EXCEPT ![r] = {m \in Others : members[m] # NoRow}]
    /\ UNCHANGED <<people, ledger, chain, gateway, assistant, who, seen, handed>>

RegisterGroup(r) ==
    /\ Step(r, "group", "grouping")
    /\ Submit(r, "registerGroup", None, 0)

MarkGroup(r) ==
    /\ Step(r, "grouping", "joins") /\ Answered(r)
    /\ groupFlag' = (groupFlag \/ Registered(r))
    /\ UNCHANGED <<members, ledger, chain, gateway, assistant, reads, handed>>

NextJoin(r) ==
    \E m \in todo[r] :
        /\ Step(r, "joins", "join")
        /\ todo' = [todo EXCEPT ![r] = @ \ {m}]
        /\ who' = [who EXCEPT ![r] = m]
        /\ UNCHANGED <<people, ledger, chain, gateway, assistant, seen, handed>>

JoinGroup(r) ==
    /\ Step(r, "join", "joining")
    /\ Submit(r, "joinGroup", None, 0)

Joined(r) ==
    /\ Step(r, "joining", "joins") /\ Answered(r)
    /\ UNCHANGED <<people, ledger, chain, gateway, assistant, reads, handed>>

BootstrapDone(r) ==
    /\ todo[r] = {}
    /\ Step(r, "joins", "reply")
    /\ UNCHANGED <<people, ledger, chain, gateway, assistant, reads, handed>>

----------------------------------------------------------------------------

\* The answer; a temporary password is in it once and nowhere else.
Reply(r) ==
    /\ Step(r, "reply", "done")
    /\ handed' = IF Answers(r) THEN handed \cup {r} ELSE handed
    /\ UNCHANGED <<people, ledger, chain, gateway, assistant, reads>>

KycStep(r) ==
    \/ SubmitKyc(r) \/ Approve(r) \/ Reject(r) \/ ResetPassword(r)
    \/ ReadWallet(r) \/ StoreWallet(r)
    \/ ReadMember(r) \/ RegisterMember(r) \/ MarkMember(r)
    \/ ListMembers(r) \/ NextMember(r)
    \/ ReadGroup(r) \/ RegisterGroup(r) \/ MarkGroup(r)
    \/ NextJoin(r) \/ JoinGroup(r) \/ Joined(r) \/ BootstrapDone(r)
    \/ Reply(r)
============================================================================
