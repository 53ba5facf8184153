--------------------------- MODULE BackofficeState ---------------------------
(***************************************************************************)
(* One backend process serving the requests of KycService, SavingsService, *)
(* OnchainSyncService and the assistant over the same tables: the state    *)
(* they share, and the steps that are the same in all of them.             *)
(*                                                                         *)
(* The escrow is reduced to the registries and the savings units.          *)
(* A password and a wallet are named by the request that generated them.   *)
(***************************************************************************)
EXTENDS ChainGateway, Functions, FiniteSetsExt

CONSTANTS
    Members,      \* NIKs
    Chair,        \* the group's ketua, the other members of the group
    Others,
    None,
    Seed,         \* the password and the wallet of a seeded account
    Sittings      \* what is asked for, what may fail, and who is seeded

ASSUME BackofficeNames ==
    /\ IsFiniteSet(Members) /\ {Chair} \cup Others \subseteq Members
    /\ None \notin Members
    /\ {None, Seed} \cap Requests = {} /\ None # Seed
    /\ None \notin {"Requested", "Approved", "Rejected"}

ASSUME BackofficeSittings ==
    \A s \in Sittings :
        /\ s.faults \subseteq PossibleFaults
        /\ s.seeded \subseteq Members
        /\ s.redis \in BOOLEAN /\ s.offline \in BOOLEAN
        /\ DOMAIN s.job \subseteq Requests
        /\ \A q \in Range(s.job) :
              /\ q.kind \in {"submit", "approve", "reject", "reset", "sync",
                             "save", "prime", "chat", "tick"}
              /\ q.member \in Members /\ q.nominal \in Nat
              /\ q.after \in Requests \cup {None}

VARIABLES
    members,      \* table members
    groupFlag,    \* table groups: onchainRegistered
    savings,      \* table saving_transactions, each row with its request
    audited,      \* requests that appended their audit entry
    registered,   \* escrow: member -> the wallet registered, or None
    grouped,      \* escrow: the group exists
    joined,       \* escrow: members of the group
    minted,       \* participation token: member -> units
    cache,        \* the snapshot in redis and the one in the process's memory
    redisUp,      \* the process still has its redis client
    clock,        \* the last generatedAt
    draft,        \* request -> the snapshot it is building or answers with
    chat,         \* AssistantChat in the officer's browser: shown while its tab
                  \* is open; next is, for a call under way, the turns it was sent
                  \* with, first the call it was mounted with, and meta the request
                  \* whose snapshot is named
    pc, who, seen, todo,  \* a request's position, its member, what it has read
    handed,       \* requests that answered with a temporary password
    running,      \* requests of the backend process that is up
    sitting

people == <<members, groupFlag>>
ledger == <<savings, audited>>
chain == <<registered, grouped, joined, minted>>
assistant == <<cache, redisUp, clock, draft, chat>>
reads == <<who, seen, todo>>
fixed == <<running, sitting>>
vars == <<people, ledger, chain, gateway, assistant, pc, reads, handed, fixed>>

job == sitting.job
Kind(r) == job[r].kind
Served == DOMAIN job

NoRow == [status |-> None, password |-> None, wallet |-> None,
          onchain |-> FALSE, balance |-> 0]
SeededRow == [NoRow EXCEPT !.status = "Approved", !.password = Seed, !.wallet = Seed]

NoSnapshot == [at |-> 0, total |-> 0, byStatus |-> 0, savings |-> 0]

\* What useState and the effect begin with: nothing of an earlier panel.
NoPanel == [shown |-> FALSE, history |-> <<>>, busy |-> FALSE,
            next |-> [r \in Requests |-> <<>>], meta |-> None, first |-> None]
NewPanel(r) == [NoPanel EXCEPT !.shown = TRUE, !.first = r]

Init ==
    /\ sitting \in Sittings
    /\ GatewayInit /\ faults = sitting.faults
    /\ members = [m \in Members |-> IF m \in sitting.seeded THEN SeededRow ELSE NoRow]
    /\ groupFlag = FALSE
    /\ savings = {} /\ audited = {}
    /\ registered = [m \in Members |-> None]
    /\ grouped = FALSE /\ joined = {}
    /\ minted = [m \in Members |-> 0]
    /\ cache = [redis |-> NoSnapshot, memory |-> NoSnapshot]
    /\ redisUp = sitting.redis
    /\ clock = 0
    /\ draft = [r \in Requests |-> NoSnapshot]
    \* A sitting without such a call begins with the panel open and its call failed.
    /\ chat = IF \E r \in Served : Kind(r) = "prime" THEN NoPanel ELSE NewPanel(None)
    /\ pc = [r \in Requests |-> "start"]
    /\ who = [r \in Requests |-> IF r \in Served THEN job[r].member ELSE None]
    /\ seen = [r \in Requests |-> NoRow]
    /\ todo = [r \in Requests |-> {}]
    /\ handed = {}
    /\ running = Served

----------------------------------------------------------------------------

Ended == {"done", "threw", "refused"}

\* A client may wait for the end of another request before it sends its own.
Ready(r) == \A s \in {job[r].after} \ {None} : pc[s] \in Ended \/ s \notin running

At(r, step) == r \in running /\ pc[r] = step /\ (step = "start" => Ready(r))
Goto(r, step) == pc' = [pc EXCEPT ![r] = step]
Step(r, from, to) == At(r, from) /\ Goto(r, to) /\ UNCHANGED fixed

Row(r) == members[who[r]]

\* An UPDATE of some columns of the request's member.
Update(r, row) == members' = [members EXCEPT ![who[r]] = row] /\ UNCHANGED groupFlag

----------------------------------------------------------------------------
(* The escrow *)

Accepts(fn, arg) ==
    CASE fn = "registerMember" -> registered[arg.member] = None
      [] fn = "registerGroup" -> ~grouped /\ registered[Chair] # None
      [] fn = "joinGroup" -> /\ grouped /\ registered[arg.member] # None
                             /\ arg.member \notin joined
      [] fn = "recordSavings" -> registered[arg.member] # None

Execute(fn, arg) ==
    CASE fn = "registerMember" ->
            /\ registered' = [registered EXCEPT ![arg.member] = arg.wallet]
            /\ UNCHANGED <<grouped, joined, minted>>
      [] fn = "registerGroup" ->
            /\ grouped' = TRUE /\ joined' = {Chair}
            /\ UNCHANGED <<registered, minted>>
      [] fn = "joinGroup" ->
            /\ joined' = joined \cup {arg.member}
            /\ UNCHANGED <<registered, grouped, minted>>
      [] fn = "recordSavings" ->
            /\ minted' = [minted EXCEPT ![arg.member] = @ + arg.nominal]
            /\ UNCHANGED <<registered, grouped, joined>>

Mine(role) ==
    /\ pool[role] # <<>>
    /\ LET tx == Head(pool[role]) IN
          \/ /\ Accepts(tx.fn, tx.arg)
             /\ Execute(tx.fn, tx.arg)
             /\ Mined(role, "success")
          \/ /\ ~Accepts(tx.fn, tx.arg) \/ "revert" \in faults
             /\ Mined(role, "reverted")
             /\ UNCHANGED chain
    /\ UNCHANGED <<people, ledger, assistant, pc, reads, handed, fixed>>

\* trySubmit of a call about the request's member.
Submit(r, fn, wallet, nominal) ==
    /\ TrySubmit(r, fn, [member |-> who[r], wallet |-> wallet, nominal |-> nominal],
                 Accepts(fn, [member |-> who[r]]))
    /\ UNCHANGED <<people, ledger, chain, assistant, reads, handed>>

NoReceipt(r) ==
    /\ r \in running
    /\ TimeOut(r)
    /\ UNCHANGED <<people, ledger, chain, assistant, pc, reads, handed, fixed>>

----------------------------------------------------------------------------
(* Steps of several services *)

\* The findUnique a service begins with: what it returns is used to its end.
Find(r) ==
    /\ Kind(r) \in {"approve", "reject", "reset", "save"}
    /\ Step(r, "start", IF Row(r) = NoRow THEN "refused" ELSE "found")
    /\ seen' = [seen EXCEPT ![r] = Row(r)]
    /\ UNCHANGED <<people, ledger, chain, gateway, assistant, who, todo, handed>>

AppendAudit(r) ==
    /\ Step(r, "audit", "reply")
    /\ audited' = audited \cup {r}
    /\ UNCHANGED <<people, savings, chain, gateway, assistant, reads, handed>>

\* The process stops and is started again: its requests and its memory are
\* lost, what it has sent and stored elsewhere is not.
Crash ==
    /\ "crash" \in faults
    /\ running' = {r \in running : pc[r] = "start" \/ pc[r] \in Ended}
    /\ cache' = [cache EXCEPT !.memory = NoSnapshot]
    /\ redisUp' = sitting.redis
    /\ UNCHANGED <<people, ledger, chain, gateway, clock, draft, chat, pc, reads,
                   handed, sitting>>
=============================================================================
