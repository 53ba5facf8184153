---------------------------- MODULE ChainGateway ----------------------------
(***************************************************************************)
(* How the backend writes to the escrow: ContractClientService.trySubmit,  *)
(* which signs with the key of the method's role, sends, and waits for the *)
(* receipt at most RECEIPT_TIMEOUT_MS.  It never throws: a request gets an *)
(* answer whatever happens on the chain.  "failed" answers for every error *)
(* before there is a hash, and does not say that nothing was sent.         *)
(*                                                                         *)
(* The chain client (viem) and the network are external.  A call is first  *)
(* simulated on the latest block and only sent when that succeeds; the     *)
(* transactions of one key are mined in the order they were sent, those of *)
(* the two keys in any order.                                              *)
(***************************************************************************)
EXTENDS Naturals, Sequences

CONSTANT Requests  \* HTTP requests being served

\* rpc: no signer, no network or a full nonce; timeout: no receipt in time;
\* revert: refused for a reason the desk's model leaves out; lost: the answer of
\* the node to a transaction it has taken does not arrive; crash: the backend
\* stops; db: a write fails whose failure the desk only logs.
PossibleFaults == {"rpc", "timeout", "revert", "lost", "crash", "db"}

VARIABLES
    faults,  \* what may go wrong, chosen at the start
    pool,    \* role -> its transactions that are sent and not yet mined
    answer   \* request -> what trySubmit answered to its last call

gateway == <<faults, pool, answer>>

Roles == {"RELAYER", "KOPERASI"}

\* ROLE_MAP: the key that signs a method.
RoleFor(fn) ==
    IF fn \in {"registerMember", "registerGroup", "joinGroup",
               "approveLoan", "deferLoan", "resolveAppeal"}
    THEN "KOPERASI" ELSE "RELAYER"

NoAnswer == [fn |-> "none", status |-> "none"]

GatewayInit ==
    /\ faults \in SUBSET PossibleFaults
    /\ pool = [role \in Roles |-> <<>>]
    /\ answer = [r \in Requests |-> NoAnswer]

Answer(r, fn, status) == answer' = [answer EXCEPT ![r] = [fn |-> fn, status |-> status]]

\* writeContract: accepted says whether the escrow accepts the call right now.  It
\* throws, and the call has failed, also when the transaction is in the pool.
TrySubmit(r, fn, arg, accepted) ==
    /\ UNCHANGED faults
    /\ \/ /\ ~accepted \/ "rpc" \in faults \/ "revert" \in faults
          /\ Answer(r, fn, "failed")
          /\ UNCHANGED pool
       \/ /\ accepted
          /\ \/ Answer(r, fn, "sent")
             \/ "lost" \in faults /\ Answer(r, fn, "failed")
          /\ pool' = [pool EXCEPT ![RoleFor(fn)] =
                         Append(@, [by |-> r, fn |-> fn, arg |-> arg])]

\* The next transaction of a key is mined; its sender may have stopped waiting,
\* or wait for a later call of the same method.
Mined(role, status) ==
    LET tx == Head(pool[role])
        awaited == /\ answer[tx.by] = [fn |-> tx.fn, status |-> "sent"]
                   /\ ~\E i \in 2..Len(pool[role]) :
                         pool[role][i].by = tx.by /\ pool[role][i].fn = tx.fn
    IN
    /\ pool' = [pool EXCEPT ![role] = Tail(@)]
    /\ UNCHANGED faults
    /\ IF awaited THEN Answer(tx.by, tx.fn, status) ELSE UNCHANGED answer

\* Mutant: waitForTransactionReceipt without a timeout.
WaitOn(r) == answer[r].status = "none" /\ UNCHANGED gateway

\* waitForTransactionReceipt gives up: the transaction stays in the pool.
TimeOut(r) ==
    /\ "timeout" \in faults
    /\ answer[r].status = "sent"
    /\ Answer(r, answer[r].fn, "pending")
    /\ UNCHANGED <<faults, pool>>

Answered(r) == answer[r].status \in {"success", "reverted", "pending", "failed"}

\* TrySubmitResult.ok
Ok(r) == answer[r].status \in {"success", "pending"}
=============================================================================
