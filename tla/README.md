# RantaiRenteng: a TLA+ model of the lending system

RantaiRenteng is a lending platform for cooperatives (koperasi) that lend to
groups under *tanggung renteng*, joint liability: when a member misses an
installment the group covers it (talangan), and nobody in the group gets a new
loan until it is paid back. A NestJS backend keeps the members, groups, loans
and savings in PostgreSQL and writes an accounting trail to an escrow contract
on Base Sepolia; a React portal is used by the members and by the board
(pengurus). This directory holds TLA+ modules that model it, TLC configurations
that check them on small instances, and proofs for TLAPS.

Paths below are relative to `src/`; `E` is `foundry/src/TanggungRentengEscrow.sol`.

## 1. The system

| part | where | state it keeps | operations |
|---|---|---|---|
| Escrow ledger | `E` | members, groups, memberships, loans, due dates, settled installments, talangan per member | registerMember/Group, joinGroup, recordSavings, fundSocialFund, createLoan, recordScreening, approve/disburse/deferLoan, recordRepayment, applySocialFund, restructure, activateRenteng, repayTalangan, mark/clearHardship, applySanction, file/resolveAppeal, pause |
| Loan receipt, participation token | `RRLoanPosition.sol`, `RRParticipationToken.sol` | a soulbound copy of each loan's status; units for repayments | create, setStatus, setInstallmentStatus, mint, pause |
| Chain gateway | `backend/src/web3/contract-client.service.ts`, `relayer.service.ts` | none: transactions in flight | readNextLoanId, submit, trySubmit |
| Loan desk | `backend/src/loans/` | tables loans, loan_decisions, audit log | apply, sanggah (appeal), approve, reject |
| Renteng desk | `backend/src/renteng/` | loans.statusCicilan, groups.kasSosial, renteng_events | bailout, repayTalangan |
| KYC, wallets, registration | `kyc.service.ts`, `wallet.service.ts`, `onchain-sync.service.ts` | members, passwords, wallets, onchainRegistered flags | submit, approve, reject, resetPassword, ensureWallet, registerMember/Group, joinGroup, bootstrapSeeded |
| Savings desk | `savings.service.ts` | saving rows, balances | create |
| Assistant snapshot, cache, chat | `metadata-snapshot.service.ts`, `cache.service.ts`, `assistant.service.ts`, `frontend/src/components/AssistantChat.tsx` | one snapshot in redis or memory, a conversation | getSnapshot, refresh, get, set, chat |
| Portal: session | `auth/`, `frontend/src/lib/` | a token and a stored member in localStorage | login, logout, me, reload |
| Portal: member's and board's views | `frontend/src/components/AnggotaView.tsx`, `PengurusView.tsx`, `MemberDetailDrawer.tsx` | what was last answered, forms, the card of a one-time password | deposits, applications, appeals; KYC, loan reviews, bailouts |
| Risk screening | `RiskScreenerTool.tsx`, `gemini.service.ts`, `brainstorm/rr_risk_engine.py` | the controls and the score | edit, analyse; screen |
| Prototype | `brainstorm/gstudio/` | a whole cooperative in one React component's memory | the same stories without a backend, scenarios, reset |
| Reports, storage, hashing, seeds | the rest | none of their own | queries, spreadsheets, uploads |

How they interact. The portal calls the backend over HTTP; several calls may be
on the wire at once, and each answer's continuation runs whenever it comes.
Every backend operation is one asynchronous request: it reads rows, awaits the
database and the chain several times, and writes rows; any other request runs
at each of those awaits, and none holds a lock or a database transaction across
two. It writes to the escrow through `trySubmit`, which never throws: it
answers success, reverted, pending (no receipt in time, counted as done) or
failed (any error before there is a hash, which does not say that nothing was
sent). The escrow itself is sequential, one transaction after another. Its
loan is tied to the database's by `onchainLoanId`, which the backend predicts
instead of reading it from the receipt. The assistant reads the same tables
through a snapshot that a timer and a cache miss both rebuild.

What is hard, then: in the escrow, long sequences of legal calls by several
roles over several loans of one group (three records of one debt, two flags
derived from them, a schedule with a counter beside it); in the desks, the
interleaving of requests, values read before an await and used after it, chain
calls that fail, are late or never end, and a restart between two writes; in
the browser, answers that are lost, late or overtake each other, closures that
outlive the render they were made in, a session that changes under them.

What makes each part correct, in a line:

* escrow: the three records of a debt agree; nobody borrows while their group
  or they themselves owe talangan; an installment is settled once and paid by
  one source; a closed loan owes nothing; the receipt mirrors the loan;
* loan desk: a row is bound to its own escrow loan; no write undoes another's;
  what the escrow decided is in the history; every request is answered;
* renteng desk: a bailout debits the fund once and by its installment; no loan
  is bailed out twice; the history lacks only what was cut off or could not be
  written, since its rows are best effort;
* onboarding: the wallet on the escrow is the one whose key is kept, the stored
  password was handed to somebody, a flag says what the escrow has unless the
  answer that would have set it was lost;
* savings: balances are the sum of the rows, units the sum of the deposits;
* assistant: a snapshot's breakdown misses nobody, answers do not go back in
  time, and while its panel is open no turn of a conversation is lost (leaving
  the tab drops it);
* portal: what is on screen is what is stored unless a call about it was lost
  or overlapped; the member on screen is the token's; no form stays disabled;
* screening: the tool computes what its engine defines; better never worsens;
* prototype: balances, groups, loans and scores stay consistent in any story.

`PROJECT.json` lists the hazards with the lines where they bite.

## 2. The modules

| module | models | extends |
|---|---|---|
| `TanggungRentengEscrow`, `MCEscrow` | the three contracts, every state-changing function | |
| `JointLiability` | what joint liability promises, without flags and counters | |
| `TanggungRentengRefinement`, `MCRefinement` | the mapping from the escrow to it | the escrow |
| `TanggungRentengEscrow_proofs` | types, parties, gates; the receipt, the schedule and the counters of a loan, the hardship quota | the escrow |
| `TanggungRentengLiability_proofs` | stages, sums of debt, blocks, payers, the refinement | `..Escrow_proofs`, the refinement |
| `Amounts`, `Amounts_proofs` | the sum of the amounts of a finite set, rupiah by rupiah or in lots, and what adding to it does | |
| `ChainGateway` | `trySubmit`, receipts and timeouts, both signing keys | |
| `LoanDesk`, `MCLoanDesk`, `LoanDesk_proofs` | `LoansService` over the database, the gateway and a reduced escrow | `ChainGateway` |
| `RentengDesk`, `MCRentengDesk`, `RentengDesk_proofs` | `RentengService`, likewise | `ChainGateway`, `Amounts` |
| `BackofficeState` | tables, chain and requests that the next three share | `ChainGateway` |
| `KycDesk`, `SavingsDesk`, `Assistant` | `KycService` with wallets and registration; `SavingsService`; snapshot, cache, chat | `BackofficeState` |
| `Backoffice`, `MCBackoffice`, `Backoffice_proofs` | their composition; what it hands out and answers, and what it keeps in two places | all three |
| `PortalState` | the tab's session, calls in flight, what the views keep, the routes | |
| `MemberApp`, `OfficerPanel`, `RiskScreening` | `AnggotaView`; `PengurusView` and its drawer; `RiskScreenerTool` and the Python engine | `PortalState` (the first two) |
| `Portal`, `MCPortal`, `Portal_proofs` | the tab as a whole; the screening's arithmetic, the screen against the rows, the session | all three |
| `SimulatorState`, `SimulatorMember`, `SimulatorOfficer`, `Simulator`, `MCSimulator`, `Simulator_proofs` | the prototype: its data, the phone, the panel, scenarios and reset | one after the other |

**TanggungRentengEscrow.** One action for each external function; its guard is
the conjunction of the function's reverts, so an action is enabled exactly when
the call would succeed, and a call that reverts is a step that does not happen.
Variables carry the contract's names. A set of pairs stands for a mapping to
bool (`groupMembers`, `installmentSettled`), `balance` for the units each
wallet was minted, `positions` for the receipt, `paused` for the three pause
flags, `now` for block.timestamp, which only `Tick` moves. Hashes are model
values. Roles are left to the callers: the question is what the sequence of
legal calls can reach. `HARDSHIP_LIMIT`, `MAX_TENOR`, `YEAR` and `MONTH` are
constants, `MaxLoans`, `MaxTime`, `MaxFund` and `MaxBalance` the bounds that
keep an instance finite.

**JointLiability** knows for each loan its stage, its group and member, the
outcome of each installment and a debt. A loan moves towards disbursement only
while no loan of its group or its member has a debt: the condition the contract
approximates with `rentengActive` and `blocked`. `TanggungRentengRefinement`
computes these four from the contract's state.

**ChainGateway.** `TrySubmit` is the send: gas estimation refuses a call the
escrow would refuse now, and a call that is sent enters the pool of its key
(`ROLE_MAP`). `Mined` takes the head of a pool, so one key's transactions are
mined in their order and the two keys' in any; the escrow may have changed in
between, and the transaction then reverts. `TimeOut` answers pending and leaves
the transaction where it is; a receipt answers its sender only while the sender
still waits for that very call. The variable `faults` names what may go wrong
in a behaviour: an unreachable node (`rpc`), a refusal for a reason the model
leaves out (`revert`), a slow receipt (`timeout`), an answer of the node that is
lost (`lost`), a restart (`crash`), a write of the database whose failure is only
logged (`db`). `failed` is what every throw of `writeContract` becomes
(`contract-client.service.ts:156`): under `lost` the call is answered as failed,
while its transaction is in the pool and will be mined.

**LoanDesk** and **RentengDesk.** A request is a process: `pc` is its position,
one step lasts from one await to the next, and `seen...`/`nextId` hold what it
has read. What each request asks for is in `job`, chosen from `Desks` in the
loan desk, a constant in the renteng desk. The escrow is reduced to the fields
these calls read and write. `Crash` stops the process: running requests are
lost, the database, the chain and the pools stay, requests that have not begun
are served after the restart. Texts, hashes and response formats are left out;
a screening's flag is an input, because `GeminiService.screen` always answers.
Both requests of the renteng desk end with a row of `renteng_events` that is best
effort: an error of that write is caught and logged (`renteng.service.ts:138,198`),
and the request goes on as `unwritten`. No code repairs such a row, so the two
properties count it: `KasMatchesEvents` adds the bailouts that were charged and
have no row (`Unlisted`) to those that have one (`Spent`), and the fund must be
right to the rupiah; `BailedOutOnce` admits two bailouts in a row only where a
repayment of that very loan has no row. In the renteng desk amounts are whole (an amount with cents throws at
`renteng.service.ts:169` before anything is written).

**Backoffice.** One process serves registrations, approvals, rejections,
password resets, the bootstrap of seeded members, deposits, the snapshot timer
and questions to the assistant over the same `members` table. A password or
wallet is named by the request that generated it, so that two are told apart;
the group is one; the escrow is reduced to the three registries and the minted
units. The bootstrap visits the members in any order, as its query without an
order may. A `sitting` says which requests come, which wait for another
request's end (`after`), who is seeded and what may fail. `cache` has an entry
in redis and one in memory; `redisUp` turns false for good at the first error,
as `CacheService` does. A snapshot carries the instant of its `Stamp` and three
numbers of its two queries. `overlapped` is auxiliary: it remembers that two
snapshots were being built at the same time. `chat` is the panel while its tab is
open: `Mount` begins with nothing of an earlier one (`NewPanel`) and asks for a
first snapshot, `LeaveTab` drops the conversation, the form's state and the named
snapshot (`NoPanel`); the calls under way go on in the backend, and their answers
arrive nowhere (`Unheard`), in no later panel either.

**Portal.** `inFlight` holds the calls of the tab: each is sent, then served by
one atomic step of the routes or failed (before or after it was served: a lost
answer), and its continuation runs once it has `Arrived`. A call outlives the
view and the page that sent it (`live`): after an unmount React drops its
state updates, after a reload nothing of it runs, but its write may still
happen. Every `set...` of a continuation, every `disabled` of a button and the
redirect of `Protected` are in the actions. `doubt` is auxiliary: an item of
the screen is in it from the time a call about it overlapped another one or its
answer was lost until an undisturbed answer shows it again. A sitting (`cast`) says who
is there, what is stored, and which things are done.

**RiskScreening.** The controls are a record, the result what the effect of the
last render computed from them; an edit of a field that the effect does not
list would leave the old result, so the dependency list is part of the model.
`Analysis` is the tool's arithmetic, `EngineScore` and `Band` the Python
engine's, in exact fractions.

**Simulator.** `App.tsx` of the prototype holds everything and both views
write to it. A handler is an action whose guard is what its view shows: the
handlers themselves check little. The payment dialog keeps a closure over the
render it was opened in (member, amount, loan), so it stays as it was while the
account, a scenario or a reset changes the state under it.

## 3. What the runs check

| run | question | properties |
|---|---|---|
| `escrow_single` | one loan of two installments through every way to settle one, hardship over two years, sanction, appeal | `TypeOK`, `CountersFollowSchedule`, `BailedOutIsOverdue`, `HardshipQuota` |
| `escrow_joint` | two members of a group, two loans: bailouts, partial repayments, sanctions and appeals interleaved | `TalanganBalanced`, `GatesFollowDebt`, `BlockedForAReason` |
| `escrow_registry` | two cooperatives, limits of an application, each contract paused at any time | `LoanParties`, `PositionMirrorsLoan` |
| `escrow_liability` | two loans of a group, restructured too: does the escrow implement `JointLiability` (which has the stages, the debts and the outcome of each installment), and is each installment paid for by one source? | `KeepsJointLiability`, `ClosedOwesNothing`, `ExactlyOnePayer` |
| `desk` | an application that an approval and a rejection race, with refusals, lost answers and restarts; and two applications, one with cents, an appeal and an approval on a chain that is unreachable or may never mine | `TypeOK`, `BoundToOwnLoan`, `ChainFollowsHistory`, `StatusIsExplained`, `NoUpdateLost`, `EveryRequestAnswered` |
| `renteng_turns` | a loan bailed out, asked for again, settled and bailed out once more, with a refusing and slow chain, lost answers, failed history writes and restarts | `KasMatchesEvents`, `BailedOutOnce` |
| `backoffice` | twelve sittings: hiring with a repeated approval and a rejection, credentials, the bootstrap beside an approval and twice, deposits that are late, refused, lost or not whole, questions beside ticks, writes and a failing redis, and in a tab that is left and opened again | `KeyMatchesChain`, `PasswordInHand`, `FlagFollowsChain`, `BalanceMatchesRows`, `UnitsAreDeposits`, `NoMemberUncounted`, `ChatMovesForward`, `NoTurnLost`, `EveryRequestAnswered` |
| `portal` | ten sittings of members and an officer: every call may fail, be lost, come late or in another order; reloads, logouts, two accounts; the screening tool | `ShownIsStored`, `OnlyLateAnswersMix`, `ButtonsRelease`, `ToolAgreesWithEngine`, `UnverifiedOnlyHolds`, `BetterNeverWorsens` |
| `simulator` | the prototype in eight sessions, one for each story, with scenarios, role switches and resets at any moment | `TypeOK`, `BalanceBackedByLedger`, `OneOpenLoan`, `LiableGroup`, `ClosedWhenPaid` |

`CountersFollowSchedule` is `RemainingCountsOpen` and `DebtFromBailouts`,
`GatesFollowDebt` is `RentengGate` and `DebtorBlocked`, `ShownIsStored` is
`MemberSeesRows`, `OfficerSeesRows` and `CredentialWorks`. `NoLendingUnderDebt`,
`LoanLifecycle` and `SettledForGood` are proved (section 4) and have no run of
their own: the guards and outcomes of `JointLiability` contain what the first and
the last say, and all of the second but the stages a repayment may close from.

Runs that are expected to find a violation, each of a sentence of the
repository's documents or comments (quoted in `PROJECT.json`, "findings"):

| run | property | what happens |
|---|---|---|
| `desk_race` | `BoundToOwnLoan` | two applications bind the same escrow id |
| `renteng_lost` | `KasMatchesEvents` | two bailouts of a group, one debit |
| `kyc_wallets` | `KeyMatchesChain` | two approvals of one applicant: the escrow has one wallet, the row the key of the other |

These three properties each appear twice on purpose: they hold for one
application, bailout or approval of the same subject at a time, and fail for
two.

### Other disagreements between code and documents

The modules contain these; no run is spent on them.

* *Escrow.* Repaying talangan lifts the block of a sanction (`E:602`;
  `foundry/Prompt_3_SmartContract_Ponder.md:41,93`). A restructured loan may
  have nothing left to settle and stay Cair (`E:543`; same document, `:69`). A
  closed loan can be sanctioned (`E:623`).
* *Loans.* No appeal is ever anchored, because the relayer signs `fileAppeal`
  (`contract-client.service.ts:34`); an appeal is accepted against a loan of
  any flag (`loans.service.ts:168`); an application with cents leaves a row
  without an audit entry (`loans.service.ts:130`).
* *Renteng.* The bailout's first call, `recordRepayment`, makes its
  `activateRenteng` fail, so the group is never frozen on the escrow
  (`renteng.service.ts:80` against its comment at `:23-24`); the two writes of
  a bailout are not one transaction (`:102`); a history row that cannot be
  written is logged and missing for good (`:140`, `:200`).
* *Backoffice.* A restart after the password is stored and before the answer
  loses the one-time password, and a second approval issues none: only a reset
  helps. Seeded members have a wallet address without a stored key. Login does
  not look at the status, so a rejected member may log in. After a restart the
  snapshot in redis may be older than one that was served from memory. A member
  who is only pending counts as registered in the snapshot. When the node's
  answer to `registerMember` is lost, the escrow has the member and
  `onchainRegistered` stays false, without any restart: the call counts as failed,
  and every retry is refused because the member exists
  (`onchain-sync.service.ts:50`). The assistant's conversation, and an answer under
  way, are gone when its tab is left (`PengurusView.tsx:961`).
* *Portal.* `busyId` is shared: a second action re-enables the button of the
  first while it is under way, which can then be sent twice
  (`PengurusView.tsx:134`). The card of a one-time password is overwritten by
  the next answer (`:142`), and a second approval after a lost answer carries
  none. `loadAll` answered late brings back an older status (`:83`). The list
  of arrears takes any unpaid loan, whatever its status (`:128`). A `getMe` that
  was sent before a logout stores its member beside the next account's token
  (`AnggotaView.tsx:98`). A deposit whose answer was lost is offered again
  (`:120`). Any failure of `me`, of the network too, ends the session.
* *Screening.* For a group of nobody the tool gives the full points for being
  known where the engine gives none; a tenure of 0 counts as missing in the
  tool's confidence and not in the engine's; `Math.round` and Python's round
  differ at halves.
* *Prototype.* A loan that is still an application or deferred can be paid to
  Lunas; the Uzur scenario sets the score its comment says it keeps; the
  scenario of Bu Sri leaves a loan with nothing to pay that is not Lunas; the
  limit of two excuses (`types.ts:17`) is checked nowhere; a reset with the
  payment dialog open leaves a transaction of nobody; a member whose
  registration is not decided may borrow.

### Bounds

Escrow: two loans are enough for every interaction the escrow has between
loans, because they meet only in one group's or one member's record; two
periods distinguish the last installment from the others; two members
distinguish a debt of the borrower from one of the group. Time runs to three or
four steps: before, at and after a due date with its grace, and over a turn of
the (shortened) year. Talangan is repaid in amounts that leave a rest and that
do not. Most of what these runs check is proved without bounds (section 4).

Desks and backoffice: two to four requests a sitting, where the code's races
need two and a third shows what a repetition does; each fault of the sitting may
strike every call. A sitting lists only the faults its question is about: in
`desk` refusals, lost answers and restarts for one application that two officers
decide, an unreachable node and late receipts for two; in `renteng_turns`
everything but `revert`, because the bailout's second call is always refused; in
`backoffice` lost answers where the bootstrap runs twice and where a deposit
follows an approval, restarts and an unreachable node where a hiring is repeated.
In
`renteng_turns` a fund of 3 meets installments of 2, so that it is once
sufficient and once not. In the passing sittings of the backoffice two
approvals of one member follow one another (`kyc_wallets` is what happens when
they do not).

Portal: two calls at a time, three where a form sends one and two others are
needed to disturb it; two rows, two passwords and two loans at most
(`MaxRows`, `MaxPasswords`, `LoanIds`); the tool is edited twice (`MaxEdits`)
from each of four presets, through values on both sides of each threshold.

Simulator: one or two accounts a session, a deposit and an application each;
`MaxGroups`, `MaxSisa`, `MinCicilan` and `MaxIzin` stop what the prototype lets
grow for ever.

### Fairness

`desk`: a request that can go on does (the Node event loop), and the wait for a
receipt ends (`RECEIPT_TIMEOUT_MS`): `WF(Step \/ NoReceipt)` per request.
Nothing is assumed of the chain: transactions may stay in the pool for ever. A
user is never obliged to send a request, but a request of the instance that
begins is answered; crashes are left out there, since a lost request is never
answered. `backoffice` assumes the same of each request it serves, and that a
call of the browser ends with an answer or an error; `EveryRequestAnswered`
excepts the behaviours with restarts for the requests; for the chat's form, which
is the browser's, it does not. `portal`: a call is
served or fails in the end (`WF(Network)`) and its continuation runs
(`WF(Continue)`); nobody has to click, and `ButtonsRelease` speaks of
behaviours in which the clicks stop. The calls to the language model have no
timeout of their own in the code; that they end is the platform's.

### Deadlock

It is checked in the runs of the desks, the backoffice, the portal and the
simulator. `Idle` marks the states in which every request has ended (but a question
that nobody can ask while the assistant's tab is closed) and every transaction is
mined; the browser can always be reloaded, the prototype always
reset. It is not checked in the escrow's runs: with the clock and the ids at
their bounds nothing can be called.

## 4. What is proved

All theorems hold for every value of the constants that the modules'
assumptions admit: any number of members, groups, loans, requests, sittings.

**Escrow.**

* `TypeCorrect`: `TypeOK` is inductive. The work is in the naturals: every
  `- 1` and `- amount` of the contract is guarded, by checked arithmetic there
  and by the corresponding guard here.
* `PartiesCorrect`: `LoanParties`, inductive together with `TypeOK`; that a
  member's cooperative never changes rests on registration being once.
* `GatesCorrect`: `GatesFollowDebt`. `DebtorBlocked` is not inductive as
  it stands: `RegisterMember` writes a fresh record, so one must know that
  whoever owes talangan is registered already; `Gates` adds that, and needs
  `LoanParties` to know that the borrower of a bailed-out loan is registered.
* `ReceiptCorrect`: `PositionMirrorsLoan`, inductive with `TypeOK`. `OneReceipt`
  and `NoReceiptNeeded` are the two ways an operation can keep it.
* `BailoutsCorrect`, `SettledCorrect`: `BailedOutIsOverdue`, `SettledForGood`.
  `createLoan` writes a whole schedule, so one must know that nothing of a loan
  that does not exist yet is settled: `SettledIsOfALoan` is the strengthening.
* `ClosedCorrect`, `LifecycleCorrect`: `ClosedOwesNothing`, `LoanLifecycle`. The
  lemma `Changes` says once what an operation may do to a loan; `Stages` adds
  that talangan appears only after disbursement.
* `BalancedCorrect`: `TalanganBalanced`. The sum of the loans' talangan is the
  cardinality of a set of coins (`Rupiah`); an operation adds or removes an
  interval of one loan's coins, and the library's theorems on finite sets give
  the sums for any number of loans.
* `NoLendingCorrect`: `NoLendingUnderDebt`, from the two above: where the sums are
  right and the gates follow them, an open gate means that no loan has a debt.
* `BlocksCorrect`: `BlockedForAReason`. A reason can disappear only by
  `repayTalangan` of the last rupiah, which clears the flag itself
  (`ReasonStays`), and a sanctioned loan leaves Mangkir only by being closed that way.
* `QuotaCorrect`: `HardshipQuota`. `Quotas` adds that no count belongs to a year
  to come and that an unregistered member has none; `YearGrows` is the
  monotonicity of `now \div YEAR`.
* `CountersCorrect`: `CountersFollowSchedule` where no loan is restructured
  (`Restructures = {}`; `restructure` overwrites the counter, so neither part
  holds with it). The counter and the set of open periods lose one each (`SettledCounts`); `BailedOutIsOverdue` is needed to know
  that an open installment is not bailed out yet.
* `PayerCorrect`: `ExactlyOnePayer`. An operation settles at most one installment
  (`OneSettled`), and `Bill` lists what may have paid for it; that the debit is
  seen at the loan's own group and the units at a wallet there is needs
  `LoanParties`, `FundNeedsGroup` and `WalletKnown`.
* `RefinementCorrect`: `KeepsJointLiability`. Initial states map to initial
  states; each operation to a step or a stutter, by `Changes`, with
  `NoLendingUnderDebt` giving the guard of the abstract steps.

**Loan desk**, with every fault allowed, for any number of requests on any rows:
`TypeCorrect`; `UpdatesKept` (`NoUpdateLost`), an invariant on what an
application knows while its row is not bound; `StatusCorrect`
(`StatusIsExplained`), by the positions between the write of a status and that of
its history; `ChainCorrect` (`ChainFollowsHistory`), by following a decision from
the history into the pool and onto the escrow, the transactions of cut-off
requests included.

`BindingCorrect` (`BoundToOwnLoan`) has a premise, `OneAtATime`: from the read of
the next id until its creation is mined an application has the escrow to itself,
and a behaviour does not have both receipts that come late and accepted calls that
revert. Without the first, `desk_race` binds two rows to one id; without the
second a row is bound, on the strength of a pending answer, to an id whose
creation is refused later and which the next application gets. Both sittings of
the run `desk` satisfy it. The invariant behind it (`Pooled`, `Reading`, `Awaiting`, `BoundEarly`) says
what the predicted id is worth at each position: nobody else can be given it
before the creation is mined, and afterwards it is the application's.

**Renteng desk**, for any loans, groups, installments and requests, with every
fault allowed. `FundsCorrect` (`KasMatchesEvents`) assumes `BailoutsInTurn`: of two
bailouts of one group one waits for the other's end; `BailoutsCorrect`
(`BailedOutOnce`) assumes `LoansInTurn`, the same of the requests about one loan.
These are the clients that wait for an answer; `renteng_lost` shows that the code
needs them, and the run `renteng_turns` satisfies both. `Queued` turns the order of
the requests into positions: whoever has begun has its predecessors behind it.
`Funded` says which balance was read at each position and that the charged bailouts
without a row (`Unrecorded`) are those on the way to it, cut off before it or unable
to write it; `Recorded` follows the history and the status of a loan together, and a
settlement without a row with them. What a group
spent is `Total` of `Amounts`: the cardinality of its rupiah, because a fold cannot be
unfolded here (below) and a cardinality can.

**Backoffice**, for any members, requests and faults:

* `PasswordsCorrect` (`PasswordInHand`), with `HandedOut`, which says for each position
  whether the request still owes the password it stored.
* `SnapshotsCorrect` (`NoMemberUncounted`), with `Counted`: members are
  never removed, so a total taken before a breakdown cannot exceed it.
* `TurnsCorrect` (`NoTurnLost`, from one step to the next while a panel is open),
  with `Conversation`: the panel waits for at most one question's call, which carries
  all the turns it has; an answer to an earlier panel finds nothing to be appended to.
* `BalancesCorrect` (`BalanceMatchesRows`), with `Filed`, which ties rows to the
  positions of their requests, and `Balanced`: a balance is the sum over the
  requests past the increment. The increment is the database's, so no order of
  two deposits matters.
* `UnitsCorrect` (`UnitsAreDeposits`), with `Units`: each recordSavings in the pool is
  that of a deposit of its own and of its amount, and what is minted is the sum of a
  set of deposits that have none there.
* `FlagsCorrect` (`FlagFollowsChain`), with `Wired`, what a call under way is for and
  where its request stands, `Flagged` for what must be flagged unless an answer may be lost (`Loses`) and
  `Expected` for what a flag, or a request about to set it, may rely on.
* `WalletsCorrect` (`KeyMatchesChain`), for sittings in which approvals of one
  member follow one another (`OneByOne`; every sitting of the run `backoffice` does,
  and `kyc_wallets` is the one that does not). `Keyed`: every registration under way
  carries the stored wallet, and whoever generates one does so for a member without.
* `ChatCorrect` (`ChatMovesForward`), with `Dated` and `Forward`: snapshots are stored in
  the order they are built (`InOrder`), and none of the answers the open panel
  waits for has an older one than it names (`Named`), wherever the cache falls from redis to memory.

**Prototype**, for any sessions, accounts and scenarios, any number of groups,
deposits and applications (the bounds on growth are guards, and no proof uses them):
`TypeCorrect`, `OpenLoansCorrect` (`OneOpenLoan`), `LiableCorrect` (`LiableGroup`),
`ClosedCorrect` (`ClosedWhenPaid`), from one invariant, `Records /\ Parties`.
`Sound` says what a loan's borrower and status exclude: nobody but Pak Deni (m2), for
whom two scenarios call an installment due again, pays more than one installment;
Bu Sri and Bu Y (m1, m4) never have one to pay. `DialogOK` says that what the
open payment dialog would pay is still owed, through every scenario that runs
behind it: this is why nothing is paid below zero. `Least` and `Opened` say what the
views find: 0 exactly where there is nothing. The proof follows the five parts of
the state one after the other (`MembersStep`, `GroupsStep`, `LoansStep`,
`DialogStep`, `SessionsStep`); `Revised` and `Applied` are the two things that
happen to loans between resets.

`BalancesCorrect` (`BalanceBackedByLedger`) adds `Accounts`: the open dialog never
carries a Pokok deposit, the ledger's amounts are naturals, and nobody has more than
what they opened with and the sum of their transactions. `EvenStep` goes through
everything that touches a member and finds the two balances kept (`SavingsKept`); only
the dialog's closure changes them, by the very amount it appends (`CreditAdds`,
`Appended`). The sum is `TotalInLots` of `Amounts`, whose lemma `LotsAdd` is what a
fold would need induction for. It is an inequality because the other direction
fails: a reset can remove the member whose dialog is open, and the transaction is
appended all the same.

**Screening tool**, for every setting of the controls, any list of flags and any
order of edits. The invariant is `Scored`: the controls are in their ranges, and the
result is the `Analysis` of the controls on screen, which holds because whatever an
edit changes is in the effect's list of dependencies. The rest is arithmetic over
one denominator.

* `ScreeningAgrees` (`ToolAgreesWithEngine`): without a group of nobody the two score
  the same fraction, and their roundings differ only at a half, where the tool's
  is odd and one more (`EvenBelowUp`). The bands begin at even scores, so no
  candidate changes band by it (`SameBand`).
* `RumoursHold` (`UnverifiedOnlyHolds`): taking a flag out of a list renumbers the
  others (`RemovedAt`); `SameVerified` has the bijection by which the verified flags
  of every kind are as many as before.
* `BetterCorrect` (`BetterNeverWorsens`): each pillar is monotone in the
  record, the debt and the income through its clipping, cross-multiplied where
  the denominator changes with the income, rounding is monotone, and so is the
  band. This is an action property of two consecutive renders.

**Portal**, for any accounts and sittings, any number of calls in flight, each lost,
late, failed, continued in any order, or outliving its view and its page.

`TabKeeps` is the inductive invariant, `IInv == TypesOk /\ Overlaps /\ Kept`, and
`ShowsRows` (`ShownIsStored`) follows from it. That the screen shows the rows when
nothing is under way says nothing of the states in between, in which the screen is
wrong and an answer is still to correct it, so the invariant has to say what each
call is worth:

* `TypesOk`: rows, session, views and calls have their types; `Placed` ties a call to
  the view that sent it, and the check of the token to the splash screen.
* `Overlaps`: a read that is `clean` overlaps nothing (`Apart`), and a write that
  overlaps another call leaves its items in doubt (`Doubted`). It is this that makes the
  order of two answers irrelevant where the screen is to be trusted.
* `Kept`, one part for each thing on screen (`SavingsKept`, `BalanceKept`,
  `AppliedKept`, `LoansKept`, `KasKept`, `MembersKept`, `CardKept`): unless it is in
  doubt, it is what is stored, or a call that was served is still to bring what
  is missing, and then that call's answer is what is stored.

The proof goes by what a step does to the calls before it looks at the click or the
answer: a call is sent or over while the others stay (`AfterSend`, `AfterOver`, and the
`...Passed` lemmas for each part of `Kept`), is served (`ServeStep`, the `...Served`
lemmas), fails or vanishes with its page (`FailStep`); a view goes and another is
mounted (`MovedStep`, `RerenderMoved`, `LoadPageStep`).

`MixesOnlyLate` (`OnlyLateAnswersMix`), an action property: most of the tab leaves the
session alone (`SessionLeft`), a login and the check of the token answer the very
account they put beside it (`AnsweredIs`, `Placed`), a reload takes both from where
they were stored together; what remains is the continuation of a `getMe` whose account was
left meanwhile.

The modules assume of their constants that `None` is no member and no request,
that a job names members, rows and requests of the instance, that a sitting of the
portal starts from rows of the accounts it names (`CastsAreStored`), and that
amounts and terms are naturals; each assumption is named where the constant is
declared and evaluated by TLC in the runs.

Every invariant and every action property that a passing run checks is proved, for
the sittings and premises named above. What stays with TLC is liveness under
fairness (`EveryRequestAnswered`, `ButtonsRelease`), which is out of the prover's
reach. Wherever a sum is taken it is the cardinality of a set and not a fold: what a
fold computes could only be proved by an induction that the installed provers
cannot instantiate.

## 5. What is not modelled

* `GeminiService`'s normalisation and fallback and the token cache of
  `genai.util.ts`: a screening always answers one of the flags, which is what the
  loan desk takes it to be.
* Expiry of tokens, two tabs over one localStorage, the onboarding form and its
  steps, the refreshes of the audit log, charts: the portal's model has one
  tab and tokens that stay valid.
* A database that is down: a failed write that is not caught ends its request
  half-way, as a restart does, but with an error for the client; only the writes
  whose failure the code swallows fail on their own.
* Reports, spreadsheets and read models (no state of their own), file storage
  (I/O), hashing and encryption (opaque values).
* Deployment and seed scripts: they make the initial states.
* Roles on the escrow's functions, fixed at deployment; transfers of the two
  tokens, which always revert.

Worth doing next: the desks and the escrow composed in one instance, so that
`recordRepayment` and `activateRenteng` of a bailout meet the real schedule; a
second tab; the onboarding form.
