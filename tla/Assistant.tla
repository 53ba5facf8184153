----------------------------- MODULE Assistant -----------------------------
(***************************************************************************)
(* The board's assistant: MetadataSnapshotService builds a snapshot of the *)
(* tables, on a timer and on a miss, CacheService keeps it in redis or in  *)
(* memory, AssistantService answers a question from it, and AssistantChat  *)
(* shows the answers in the browser.                                       *)
(*                                                                         *)
(* What the language model says is left out: with it, without it, or when  *)
(* it fails, the answer is about the snapshot that was read first.         *)
(***************************************************************************)
EXTENDS BackofficeState

\* Rows of the table, and the sums of its balance columns.
MembersTotal == Cardinality({m \in Members : members[m] # NoRow})
SavingsTotal == MapThenSumSet(LAMBDA m : members[m].balance, Members)

----------------------------------------------------------------------------
(* AssistantChat *)

\* Mutant: the form can be sent again before the answer.
AlwaysReady == TRUE
CanSend == ~chat.busy

SendQuestion(r) ==
    /\ Kind(r) = "chat" /\ chat.shown /\ CanSend
    /\ Step(r, "start", "asked")
    /\ LET next == Append(chat.history, [role |-> "user", of |-> r])
       IN  chat' = [chat EXCEPT !.history = next, !.busy = TRUE, !.next[r] = next]
    /\ UNCHANGED <<people, ledger, chain, gateway, cache, redisUp, clock, draft,
                   reads, handed>>

\* The officer opens the tab: the panel is mounted, and its effect asks.
Mount(r) ==
    /\ Kind(r) = "prime" /\ ~chat.shown
    /\ Step(r, "start", "asked")
    /\ chat' = NewPanel(r)
    /\ UNCHANGED <<people, ledger, chain, gateway, cache, redisUp, clock, draft,
                   reads, handed>>

\* Another tab, or the page left: the panel is unmounted and all it held is gone.
\* Its calls go on; what they answer arrives nowhere.
LeaveTab ==
    /\ chat.shown
    /\ chat' = NoPanel
    /\ UNCHANGED <<people, ledger, chain, gateway, cache, redisUp, clock, draft, pc,
                   reads, handed, fixed>>

FirstOnly(r) == IF chat.meta = None THEN r ELSE chat.meta

Primed(r) ==
    /\ Kind(r) = "prime" /\ chat.first = r
    /\ Step(r, "answered", "done")
    /\ chat' = [chat EXCEPT !.meta = FirstOnly(r)]
    /\ UNCHANGED <<people, ledger, chain, gateway, cache, redisUp, clock, draft,
                   reads, handed>>

Released(ok) == FALSE

Waiting(r) == chat.next[r] # <<>>

Turn(r, ok, meta) ==
    chat' = [chat EXCEPT
        !.history = Append(chat.next[r], [role |-> "model", of |-> r]),
        !.busy = Released(ok), !.meta = meta, !.next[r] = <<>>]

ShowAnswer(r) ==
    /\ Waiting(r)
    /\ Step(r, "answered", "done")
    /\ Turn(r, TRUE, r)
    /\ UNCHANGED <<people, ledger, chain, gateway, cache, redisUp, clock, draft,
                   reads, handed>>

\* The call fails in the browser, for the network or a backend that went away;
\* the backend may go on with it.
ShowError(r) ==
    /\ Waiting(r)
    /\ sitting.offline \/ r \notin running
    /\ Turn(r, FALSE, chat.meta)
    /\ UNCHANGED <<people, ledger, chain, gateway, cache, redisUp, clock, draft, pc,
                   reads, handed, fixed>>

\* Its answer arrives nowhere: the call failed, or its panel is gone.
Unheard(r) ==
    /\ Kind(r) \in {"prime", "chat"} /\ ~Waiting(r)
    /\ Step(r, "answered", "done")
    /\ UNCHANGED <<people, ledger, chain, gateway, assistant, reads, handed>>

----------------------------------------------------------------------------
(* CacheService *)

Hold(r, snapshot) == draft' = [draft EXCEPT ![r] = snapshot]

\* Mutant: an error does not turn the process away from redis.
KeepClient == UNCHANGED redisUp
FallBack == redisUp' = FALSE

\* get: a hit is the answer's snapshot, a miss has it rebuilt.
ReadCache(r) ==
    \E place \in {"redis", "memory"} :
        /\ Step(r, "asked", IF cache[place] = NoSnapshot THEN "count" ELSE "answered")
        /\ Hold(r, cache[place])
        /\ \/ place = "redis" /\ redisUp /\ UNCHANGED redisUp
           \/ place = "memory" /\ redisUp /\ FallBack
           \/ place = "memory" /\ ~redisUp /\ UNCHANGED redisUp
        /\ UNCHANGED <<people, ledger, chain, gateway, cache, clock, chat, reads, handed>>

\* set, and on an error the same in memory.
StoreSnapshot(r) ==
    \E place \in {"redis", "memory"} :
        /\ Step(r, "store", IF Kind(r) = "tick" THEN "done" ELSE "answered")
        /\ cache' = [cache EXCEPT ![place] = draft[r]]
        /\ \/ place = "redis" /\ redisUp /\ UNCHANGED redisUp
           \/ place = "memory" /\ redisUp /\ FallBack
           \/ place = "memory" /\ ~redisUp /\ UNCHANGED redisUp
        /\ UNCHANGED <<people, ledger, chain, gateway, clock, draft, chat, reads, handed>>

\* Its time is over.  The timer comes when it is or later: nothing is said
\* about which comes first.
Expire(place) ==
    /\ cache[place] # NoSnapshot
    /\ cache' = [cache EXCEPT ![place] = NoSnapshot]
    /\ UNCHANGED <<people, ledger, chain, gateway, redisUp, clock, draft, chat, pc,
                   reads, handed, fixed>>

----------------------------------------------------------------------------
(* MetadataSnapshotService *)

Tick(r) ==
    /\ Kind(r) = "tick"
    /\ Step(r, "start", "count")
    /\ UNCHANGED <<people, ledger, chain, gateway, assistant, reads, handed>>

\* Mutant: the members are counted after their breakdown.
CountLast == <<"byStatus", "total">>
Queries == <<"total", "byStatus">>

\* The queries of the transaction run one after the other, each on what is
\* committed by then: the count first, the breakdown by status and the sums later.
CountMembers(r) ==
    /\ Step(r, "count", "fold")
    /\ Hold(r, [draft[r] EXCEPT ![Queries[1]] = MembersTotal])
    /\ UNCHANGED <<people, ledger, chain, gateway, cache, redisUp, clock, chat, reads, handed>>

FoldMembers(r) ==
    /\ Step(r, "fold", "stamp")
    /\ Hold(r, [draft[r] EXCEPT ![Queries[2]] = MembersTotal, !.savings = SavingsTotal])
    /\ UNCHANGED <<people, ledger, chain, gateway, cache, redisUp, clock, chat, reads, handed>>

Stamp(r) ==
    /\ Step(r, "stamp", "store")
    /\ clock' = clock + 1
    /\ Hold(r, [draft[r] EXCEPT !.at = clock + 1])
    /\ UNCHANGED <<people, ledger, chain, gateway, cache, redisUp, chat, reads, handed>>
============================================================================
