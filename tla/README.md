# Genetia in TLA+

Genetia runs YES/NO prediction markets. The money of its protocol is on Base (Solidity
contracts under `contracts/base/src`); questions are admitted and resolved on GenLayer, a chain
whose validators run language models (`contracts/genlayer`); TypeScript workers
(`apps/orchestration-worker`, `workers/resolution-watcher`, `apps/api-worker`) carry proposals,
resolutions and events between the two and a PostgreSQL database, and `apps/web` is its user
interface. Operators create, run and settle markets with scripts. The repository also holds an
older application, `frontend`, a Next.js server with Circle wallets whose markets are contracts
on Arc: it has its own ledger, resolver pipeline and indexer, and is called the Arc application
here.

This directory holds TLA+ modules of that system, TLC configurations that check them on small
instances, and TLAPS proofs of what matters most for every value of the constants.
`PROJECT.json` lists components, runs, hazards, findings and theorems, and maps each definition
to the source lines it stands for.

## Inventory

The protocol:

| part | state | operations | what is hard | what must hold |
|---|---|---|---|---|
| Pool market (`PoolMarket.sol`) | receipts, totals, outcome, claims | `stake`, `settle`, `expireToVoid`, `claim`, `releaseDust` | rounding, order of claims, settle against expire, USDC that is sent without a call | exposure is what custody got from traders; claims are covered; dust is only dust; VOID returns every stake |
| Risk manager (`RiskManager.sol`) | pause switch, exposure per market and in all | `setPaused`, `reserveExposure`, `releaseExposure` | shared by all markets, two caps | the sum is the sum; exits never depend on the switch |
| Fee router (`FeeRouter.sol`) | none | `routePool`, `routeLMSR`, `routeDust` | three rounded parts | the parts add up |
| LMSR market, vault, tokens (`LMSRMarket.sol`, `LMSRLiquidityVault.sol`, `OutcomeTokens.sol`) | quantities, status, shares, funding, tokens | fund, activate, buy, sell, settle, expire, redeem, dust, withdraw | rounded cost function, two contracts, exits in any order | solvency for every outcome; everyone can leave |
| Factory, registry, deployers | releases, markets, bindings | register, activate, create, bind | one transaction logs from several contracts | a market is bound once |
| Bond escrow (`ProposalBondEscrow.sol`) | a bond per proposal | `lock`, `recordRevision`, `bindMarket`, `approve`, `rejectOrdinary`, `retainForAbuse`, `timeoutRefund` | anyone's refund races the operator | each bond leaves once and whole |
| Proposal workflow (`proposal-workflow.ts`) | a record per proposal | `beginProposal` to `timeoutProposal` | awaits, crashes, stale saves | the record never lies about the bond |
| Admissibility contract (`market_admissibility.py`) | one assessment per proposal | `assess` | a leader and validators with models of their own; it may be called again | what is kept was agreed on |
| Admissibility lifecycle (`admissibility-lifecycle.ts`, `lifecycle-workflow.ts`, `reconcile-due.ts`, `proposal-persistence.ts`) | a `WorkflowState` row and a Proposal row | submit once, recover, observe, reconcile | at-least-once delivery, lost answers, two writers of one row | one submission at most; an answer in the end |
| Market resolver (`market_resolver.py`) | an outcome per evidence attempt | `resolve` | appeals re-execute calls in another order | attempts in sequence, nothing after a verdict |
| Watchers and gateway (`resolution-watcher`, `ResolutionGateway.sol`) | signatures; consumed transactions | `attest`; `submitResolution` | two reads at two times, faulty watchers, replays | only the finalized verdict settles a market |
| Resolution schedule (`resolution-schedule.ts`) | none (pure) | `nextResolutionAction` | two tables in two languages, backoff against deadline | submissions are accepted, waits end at the deadline |
| GenLayer lifecycle (`genlayer-lifecycle.ts`, `runtime-state.ts`) | an attempt's claim, transaction and result | `submitOnce`, `followPersistedTransaction` | overlapping workers, crossed observations | one transaction; the final result stays |
| Outbox (`durable-intents.ts`, `queue-dispatch.ts`, `scheduler-jobs.ts`) | intent rows with leases | create, claim, send, mark, retry, consume | crash between claim and mark, repeated delivery | every intent becomes one workflow |
| Base indexer (`base-indexer.ts`, `base-index-workflow.ts`) | events and a cursor | `runOnce`, continuations | overlapping jobs, reorganizations | no gap below the cursor |
| Projections (`projections.ts`) | the read model | `applyBaseEvents` | order of the events of one transaction | the read model follows the contracts |
| API worker (`apps/api-worker`) | Wallet, Proposal, Market rows; caches | authenticate, submit, recover, quote, prepare, list, status | stale lists of wallets, half-done submissions | wallets and rows stand on proof |
| Web application (`apps/web`) | pages with several requests under way | create, trade, list, status | answers out of order, moved prices | a page sends and shows what was asked for |
| Scripts | record files, manifests, fixtures | provision, create, trade, assess, resolve, settle | they stop anywhere and are run again; nodes lag | nothing is done twice; files are right |

The Arc application:

| part | state | operations | what is hard | what must hold |
|---|---|---|---|---|
| Settlement pipeline (`resolver-pipeline.ts`, `genlayer.ts`) | Market and Settlement rows | seed, register, resolve, validate, propose; the administrator's routes | minutes between read and write, nobody holds a lease, late transactions | what is proposed is the verdict; no settlement is forgotten |
| Ledger (`deposit-watcher.ts`, wallet routes, backfill) | balance and transaction rows | credit, withdraw, refund, backfill | overlapping watchers that die | money stands on rows |
| Trading (`api/bets`, `useCircleWallet.ts`) | Circle's transactions | approve and buy, sell, claim | lost answers, retried keys | a buy finds its allowance; one redemption |
| Sessions (`AuthContext.tsx`, `user-service.ts`) | who is signed in, what is shown, the user's wallet | login, logout, poll | late answers, two first calls | one wallet each; what is shown comes right |
| Indexer (`arc-indexer.ts`) | cursors, trades, statuses | factory pass, market passes | overlap, broken passes | nothing below the cursor is lost |
| Administration (`api/admin`, `app/admin/page.tsx`, `arc-factory.ts`) | suggestions, markets, the page's panels, treasury | review, create, deploy, feature, dispute, sweep | stale lists, double presses | rows point back; sweeps spare the winners |
| Quotes (`lmsr.ts`) | none (pure) | cost, price, trades | truncated series | the provider's loss stays within b ln 2 |

How they interact. Markets and vaults call the risk manager and the fee router inside one
transaction; the gateway calls `settle` inside `submitResolution`; watchers read GenLayer and
give signatures to whoever asks; workers and functions call contracts and save rows, with
nothing that makes the two atomic; jobs reach workers through a queue that delivers at least
once; in the Arc application every function reads rows, awaits other systems and writes rows,
unguarded; pages and scripts do the same with files and React state.

## Modules

The protocol's contracts and the parts that agree on them:

| module | models | state and actions |
|---|---|---|
| `SharedContracts` | `RiskManager.sol`, `FeeRouter.sol` | the ledger's operators, disabled when the call reverts; functions from balances to balances |
| `PoolMarket` | `PoolMarket.sol` with the two above | one action per external function, `Pause`, `Give` (USDC sent directly), `Tick`; several markets share the ledger |
| `LMSRMarket` | market, vault and tokens, with the same two | one action per external function of either contract, and `Give` |
| `MarketFactory` | factory, registry, deployers, `registerMarket`, and a market's life as its events tell it | one action per transaction; `logged` is what it logs, in order |
| `Projections` | `projections.ts` over `MarketFactory` | `shown`, folded from `logged` by every action |
| `ProposalBondEscrow`, `ProposalWorkflow` | escrow; `proposal-workflow.ts` over it | a handler is a job with one step per await; `Crash` at each; anyone's calls in between |
| `MarketResolver`, `Resolution` | `market_resolver.py`; GenLayer's transactions, watchers, gateway and one market | `Send`, `Resolve`, `Overturn`, `Finalize`, `CheckTransaction`, `Attest`, `SubmitResolution`, `ExpireToVoid` |
| `MarketDecision` | the promise of `Resolution` | verdict once, decision once, in time; `Resolution` implements it |
| `ResolutionSchedule` | `resolution-schedule.ts` against `MarketResolver` | time passes over a schedule state |
| `MarketAdmissibility` | `market_admissibility.py` | a call of `assess`: leader, votes, rounds |
| `Admissibility` | how a proposal gets its assessment | the operation's row, the Proposal, queue, instances and reconcilers, a step per statement |
| `Outbox` | intents, dispatchers, queue, consumer | a dispatcher is a step per statement or send; throws, dies |
| `GenLayerLifecycle` | `submitOnce`, `followPersistedTransaction` | a worker is a step per await |
| `BaseIndexer` | `base-indexer.ts` and its store, against a chain that reorganizes | a job is a step per call; ticks, continuations, failures |

API, pages and scripts:

| module | models | state and actions |
|---|---|---|
| `WalletIdentity` | `privy-identity.ts`, `requireWalletOwnership` | requests between Privy's list, the transaction and the table |
| `ProposalSubmission` | create page, wallet, `POST proposals`, recovery; the status of a proposal with its caches, the status page | a press and a submission, each a step per request; each step may fail; `WorkflowWrites`, `Load`, `Timer` |
| `BaseTrading` | quote, prepared call and transaction of a trade | prices, status and indexed status move in between |
| `Discovery` | paged list of markets and home page | first pages and more under way while the filter changes back and forth; cursors keep seconds |
| `ConnectedRun` | the four scripts that create, trade and settle on Base | a script is a list of transactions, with the checks it makes; `Die` anywhere |
| `ConnectedResolver` | `run-connected-genlayer-resolver.mjs` | one step per await |
| `Provisioning` | the scripts that make treasury, approval, resolver factory and fixtures | what each makes, remembers and finds again |

The Arc application: `ArcSettlement`, `ArcLedger`, `ArcTrading`, `ArcSession`, `ArcIndexer`,
`ArcDesk` (suggestions, creation and deployment of markets), `AdminPanels` (the admin page, its
treasury tab with the sweeps included), `LmsrQuotes`. Each says in its heading which files it
models; an action runs from one await to the next.

`PoolMarketProofs`, `LMSRMarketProofs`, `ResolutionProofs`, `AdmissibilityProofs`,
`OrchestrationProofs`, `ApplicationProofs` (both applications and the settlement on Arc) and
`ServiceProofs` (the parts of `MCService` and the Base indexer) hold the theorems, and `FiniteSums` what the first two need to know of sums over
a set. `MCPoolMarket`, `MCLMSRMarket` and `MCResolution` give constants their values.
`MCArcSettlement` gives the settlement's variables names of their own, so that it can stand next to
the other parts. `MCApplications`, `MCOrchestration` and `MCService` put several parts next to each
other (below).

Conventions. A transaction on a chain is one action: it happens whole or, when a call in it
reverts, not at all. A TypeScript function is one action per stretch between two awaits; where a
function saves the same row twice with nothing but its own work in between, one save stands for
both. Time is a clock that `Tick` advances to `MAX_TIME`, or a state such as `later` and `now`.
Amounts are small integers; fee rates are chosen so that they do not divide them. Addresses and
roles that one fixed contract holds, events nobody reads, and re-entrancy guards are left out.
Operators whose name has an underscore and stand before the definition of that name
(`Payout_Gross`) are mutants: the definition as a plausible mistake would have it, used to see
that a property notices.

## Runs

| run | instance | states | shows |
|---|---|---|---|
| `pool` | 2 markets, 2 traders, caps 4 and 5, fee 1/3, 1 unit sent to a market | 572k | exposure is custody less what was sent, payouts are exact in every order, both caps free themselves; stakes leave although nobody settles and the safe pauses for good, and only dust of a market that was sent USDC stays |
| `lmsr` | 2 accounts, 3 shares a side, b = 2 units, fee 1/1, 1 unit sent to market or vault | 247k | custody covers what tokens can claim and no check on funds stops the exit of a holding the cost function prices, collateral is funding plus cost, holders and providers get out, after VOID too but for a named remainder |
| `lmsr_void_exit` | 2 accounts, 4 shares a side | | a finding, below |
| `resolution` | 3 transactions, 2 attempts, quorum 2 of 3 with 1 faulty | | only the finalized verdict decides; refinement of `MarketDecision`, liveness included |
| `indexer` | 2 jobs, 5 blocks, batches of 2, a reorganization, 2 failures | 312k | what is indexed is the chain's, all of it below the cursor; the cursor never goes back; ticks bring every final block in |
| `admissibility` | 2 instances, 1 reconciler, 1 poll, 2 transactions, 2 failures, either writer of the row | | one submission at most; stored decisions are final; an operation always has somebody to see to it; final assessments close theirs |
| `admissibility_api_row` | the same with the API's row | | a finding, below |
| `arc_settlement` | 2 ticks, 3 verdicts, 1 upset: an administrator's call, death, time-out, broken scan or jump of the indexer | 381k | what is proposed on Arc is GenLayer's verdict for this contract; no settlement is forgotten; finality reaches the market's row, or at least its mirrored contract status when the indexer jumped over it |
| `arc_settlement_late` | 1 tick | | a finding, below |
| `applications` | of Arc: ledger, trading, sessions, desk, indexer, each with 2 or 3 functions at once; of Base: 3 requests for a wallet, 3 submissions, 3 trades, the list of 5 markets of which 4 share a second | 198k | money stands on rows and deposits get theirs; buys find their allowance and one redemption is sent; one wallet per user; nothing below the cursor is lost; the API trusts only proof; trades stay near their quotes and lists show their filter whole but for two named cases; what is shown comes right |
| `orchestration` | the real schedule tables; 2 intents and 2 dispatchers; 3 GenLayer workers; 2 markets' events; 1 proposal with 2 callers | 261k | the schedule suits the resolver; nothing is sent twice; the read model follows Base; records and bonds agree; bonds come to their end, and intents and results do if their functions are called again and again |
| `service` | scripts with 2 deaths that may lose a hash each; the admissibility contract; quotes; the desks; links, submissions and the status page in time | 168k | nothing is done twice but what was lost, files are right, verdicts and money are sound, quotes lose at most b ln 2; runs complete unless the hash of a stake, purchase or withdrawal was lost; links, bonds and the status page come right |

`MCApplications`, `MCOrchestration` and `MCService` each check parts that share nothing, or
meet only in rows that every module writes whole, in one run: `part` (in `MCService` `acting`)
says which part is at work, and the others rest in an initial state. A behaviour of the run is a behaviour of that part. Such
a run states a part's property as a conjunct of its own; an error trace begins with the part. In
`MCService` the fairness conditions of several parts are merged into one condition over a
disjunction: since `acting` never changes, it is each part's condition on its own disjunct. The
API's parts stand in two runs: in `MCApplications` for what is always so, next to the theorems, and
in `MCService` for what comes right in time, where the caches and the status page are at work too.

Bounds. Two traders of two markets are the least that compete for a cap while two winners of unequal
receipts, a loser and a fee with remainder meet in one of them. In the LMSR runs `b` is 2 units with
the funding target the contract computes for it and costs by its own arithmetic: the table has equal
neighbours, so trades that cost nothing, and rounding both ways occur; amounts are so small that only
a fee of the whole price makes fees of 0, 1 and 2 units, and so parts for vault and creator. One unit
sent directly is enough to upset `releaseDust`, the shares of a VOID market and the last withdrawal;
the proofs allow any. Clocks have an instant on each side of every deadline the code compares with.
Two functions at once are the least that overlap, and two suffice where they meet in one row that each
writes whole; where a third matters (an answer for the user before, two followers and a submitter)
there are three. In `resolution` three transactions allow an attempt to be overturned while another
is tried; 2 of 3 with one faulty stands for 3 of 5 with two. Batches of two blocks in a chain of
five let one index job overtake another. In `Admissibility` `POLLS` 1 distinguishes the first step
of an instance from its polls, and two transactions are enough to send one too many. In
`ArcSettlement` one upset is any of the administrator's calls, a death, a time-out, a scan that ends
short of the tip or a cursor that fell too far behind, at any point; the proofs allow any number.
`Discovery` has several pages of one filter, a row for each: five markets, one of them of another
class, four created in one second, two of these at its very beginning. Its filter changes three times:
it is left and returned to with requests of either choice under way. Two deaths of a script lose two
hashes, or one on the run that repeats the other's. `LmsrQuotes` has the library's own series and
divisions at a scale of 1000 instead of 10^18, at which every rounding it makes is larger.

Every run switches deadlock checking off: a market that is terminal and empty, a script that is
done, a clock or a counter at its bound has nothing left to do.

Fairness. On the chains: the clock, mining of what was sent, and those calls that anyone, or the one
who profits, can make (`expireToVoid`, `claim`, `releaseDust`, `redeem`, withdrawals,
`timeoutRefund`). Never the gateway, the watchers, the safe or an administrator. GenLayer's decision
is assumed only in `GenLayerLifecycle`, whose liveness is about following it, and in
`ArcSettlement`, where a transaction that was waited for is answered, or its tick times out or dies.
Schedulers, cron and page timers that the repository has fire for ever, and a function goes on until it
returns or dies. Strong fairness is used where something is tried again and again and fails at will,
and the code's promise is that one success is enough: answers for the user who stays signed in, the
retried requests of `WalletIdentity` and `ProposalSubmission`, the status page's included. Nothing in
the repository calls `dispatchIntent`, `reconcileIntents`, `submitOnce` or
`followPersistedTransaction` but tests, so that they are called is no fairness of the specification: it
is the premise of the properties (`ReconciledAgainAndAgain`, `FollowedAgainAndAgain`), which say what
these functions would achieve. In `Admissibility` the queue delivers, the reconciler is called, time passes, the
address history catches up and an instance takes its next step; with `GIVES_UP` FALSE a technical
failure does not exhaust the retries Workflows makes of a step.

## Findings

* `lmsr_void_exit` (`LMSRMarket.sol:179`): `releaseVoidDust` releases the exposure of the dust
  when it moves it to the vault. `withdrawTerminal` releases exposure again for what it pays,
  dust included, so the last withdrawal asks for one unit more than is recorded and reverts. The
  comment above the function promises the remainder to the providers.
* `admissibility_api_row` (`proposal-persistence.ts:38`): the API stores the proposal's id as the
  operation's `externalId`, which the workflow takes for the transaction's id. Nothing is sent.
* `arc_settlement_late` (`resolver-pipeline.ts:485`): a tick that waits for GenLayer while the
  administrator resolves the market writes its own outcome over the mirrored one, and the final
  event is behind the cursor. The comment at `arc-indexer.ts:6` calls the chain the source of
  truth and the table a cache of it.

`PROJECT.json` quotes the comment or test each of them contradicts.

## What TLC also finds

These properties are stated in the modules, next to those that hold, and no run lists them: TLC
finds each violated at the constants given (the others as in the part's run). They say what a
comment, a name or a message of the code promises and the code does not keep.

| property | with | what happens |
|---|---|---|
| `LMSRMarket!DustReachesProviders` | the instance of `lmsr_void_exit` | if all providers have withdrawn before, the VOID dust goes to a vault without shares and stays there (`LMSRMarket.sol:180`) |
| `LMSRMarket!EveryHoldingSells` | `COST <- FineTable` (b = 48000 units), `FUNDING_TARGET = 36599`, contributions of as much, `ShareAmounts = {3, 4}` | `_cost` does not grow with the quantities: its `exp` is a truncated series, its `ln` changes range at 2.0. From balance one micro-share more lowers the cost, by 1242 units at b = 100 USDC, by 62115 at b = 5000 USDC; the quote of a sale back to balance underflows, and the sale of up to 2484 micro-shares, or 0.124 share, reverts, as does such a purchase (`LMSRMarket.sol:122`, `:99`; `README.md:30` of the repository: exits remain callable) |
| `Admissibility!DecisionIsRecorded` | `POLLS = 1`, no failures | the statement by which a poll stores a decision binds five parameters and uses four; PostgreSQL cannot tell the type of `$1` and refuses it, after the operation's row was closed (`lifecycle-workflow.ts:208`) |
| `Admissibility!IntentIsSubmitted` | `INTENT_EXTERNAL_IDS = {None}`, `POLLS = 0` | a resent intent is RECONCILE_CLAIMED, from which the submission cannot be claimed (`lifecycle-workflow.ts:130`; `docs/proposal-lifecycle.md:34`) |
| `Admissibility!StatusSettles` | `INTENT_EXTERNAL_IDS = {None}`, 1 failure | row and Proposal are updated one after the other, unconditionally; the older observation may win the second update (`lifecycle-workflow.ts:160`) |
| `Admissibility!OperationIsNeverAbandoned` | `GIVES_UP = TRUE`, 1 failure | a row left SUBMITTING, or SUBMITTED and not yet observed, is never due (`lifecycle-workflow.ts:60`) |
| `Outbox!IntentIsDispatched` | 1 intent, 1 dispatcher, 1 death | though reconciliations go on: a dispatcher that dies after its claim leaves a CLAIMED row, which `listDue` and `claim` skip (`durable-intents.ts:49`, `repositories.ts:42`) |
| `GenLayerLifecycle!AttemptIsSubmitted` | 1 worker, 1 crash | though `submitOnce` is called again and again: the claim is kept by whoever died with it (`genlayer-lifecycle.ts:75`) |
| `Projections!ResolverIsKnown` | 1 market | `MarketRegistered` is logged before the event that makes the market's row, and is dropped (`projections.ts:59`) |
| `Projections!OutcomeIsTheMarkets` | 1 market | `ResolutionConsumed` repeats the envelope's outcome over the pool's own, which is VOID when a side is empty (`projections.ts:60`) |
| `Projections!FundingIsKnown` | 1 market | the vault's events are not read |
| `MarketAdmissibility!ApprovalStands` | `MaxCalls = 2` | a second `assess` replaces an approval (`market_admissibility.py:53`) |
| `ProposalSubmission!DecisionIsShown` | 2 isolates | the page asks again only while it is told RUNNING: it stops before the decision (`create/status/[id]/page.tsx:23`) |
| `BaseTrading!UnmovedTradesPass` | 3 trades | no approval is ever prepared (the row that is read never carries `collateralAddress`, so `approval` is always null): a trade quoted and prepared in a market that did not move still reverts for want of allowance |
| `ConnectedRun!NamedSettlementSettled`, `ConnectedRun!TradesAreConfirmed` | the part's run | the record may name a settlement that reverted after an earlier one, sent by a process that died, had settled; after a purchase of YES that reverted the LMSR script goes on, and its record says ACTIVE_TRADES_CONFIRMED |
| `Provisioning!ApprovalComes`, `FactoryComes`, `RecoveryIsKept` | 1 death | a failed first approval is answered to every retry of its key; a failed factory deployment is pending for ever; a secret registered by a script that then died has no recovery file |
| `ArcLedger!CreditedOnce` | 1 transfer, 3 calls | the watcher knows a deposit by Circle's id, the client's POST by its hash on the chain: two rows (`wallets/transactions/route.ts:42`) |
| `ArcLedger!LockedIsTheActiveBets` | 1 transfer, 3 calls | two refunds of one market both read the active bets first (`admin/markets/route.ts:79`) |
| `ArcLedger!BackfilledOnce` | 1 transfer, 3 calls | two backfills at once both find nothing |
| `ArcLedger!DepositsAreCredited` | `PageSize = 1`, 2 transfers | a deposit that left Circle's page (50) before anybody looked is never credited (`circle.ts:398`) |
| `ArcTrading!ClaimIsPaid` | `Failing = {"redeem"}`, 2 presses | the redemption's key is the same for ever: Circle answers each retry with the transaction that failed (`bets/claim/route.ts:108`) |
| `ArcIndexer!NothingBelowTheCursorIsLost` | `DbFails = TRUE`; or `Outage = TRUE`, 5 blocks | any failed insert is taken for a duplicate (`arc-indexer.ts:419`); after a long outage the cursor jumps near the tip, as its comment admits (`arc-indexer.ts:350`) |
| `ArcDesk!ReviewedOnce` | 2 calls | two verdicts on one suggestion both read it first (`admin/suggestions/route.ts:109`) |
| `ArcDesk!ContractIsKept` | 3 calls | of two deployments of one market the second takes the first contract away (`admin/markets/route.ts:231`) |
| `ArcDesk!OneFeatured` | 4 calls | unpinning and pinning are two statements (`admin/markets/route.ts:209`) |
| `AdminPanels!OneVerdictAtATime` | 2 items | one `busyId` for a list: deciding a second row re-enables the first (`admin/page.tsx:1022`) |
| `AdminPanels!ButtonsStaySingle` | 2 requests | a table that is loaded again, which every pin does, or filtered takes its rows away; the new rows' buttons are enabled while the old ones' requests run (`admin/page.tsx:498`); so are those of a tab or dialog that was left |
| `AdminPanels!ButtonsComeBack`, `ReadyMeansGraceIsOver` | 4 moves | a sweep that was sent never clears the row's busy mark; a failed read counts as 0, so that the row looks ready within the grace period |
| `LmsrQuotes!PriceIsNeverCertain` | `MaxShares = 160` | far from balance the price is 0 or 1 (`lmsr.ts`, header) |

## Proofs

Every invariant and every action property of the passing runs is a theorem, but for `QuotesAreSound`,
which is about numbers.

`PoolMarketProofs` proves `TypeCorrect`, `ExposureIsBalance` and `PayoutsExact` for any markets,
traders, stakes, caps, fee rate, clock and USDC sent to markets directly. `ExposureMatchesBalance`, that
exposure is the balance less what was so sent (`Own`), is not inductive alone: the fee
and the claims have to be naturals for balances to stay so. The inductive invariant adds that a
market decided YES or NO has stake on both sides (no division by zero) and that the collected fee
is at most the total. `PayoutsAreExact` is about sums over the traders, and needs `AccountsInv`: the
totals are the sums of the receipts, an open market holds its total and a VOID one what is
outstanding, the claimed receipts are counted, and while no market was decided on a side, a wallet
and its stakes not yet given back make up its wealth. A claim rounds
down, and the sum of such shares differs from the whole by less than their number: that bounds
dust. Finiteness of the sets of markets and traders is the one assumption it adds.

`FiniteSums` has what these proofs need of `SumFunction`: a sum is its parts' sum, changes by what
one term changes, is monotone, and what shares of an amount, each rounded down, come to. The
library's induction theorems cannot be used here (see below); induction over a finite set is done
by hand: a property of the sizes that fails somewhere has a least counterexample, by the library's
theorem that `<` on the naturals is well-founded.

`LMSRMarketProofs` proves `LMSRTypes`, `CollateralIsTheCost` and `Solvency` for any accounts,
contributions, amounts, clock and cost table. The invariant adds to the run's properties that the
phases of market and vault agree, that nothing is sold before activation, that funding stays with
the vault or the market until the end, and that a settled market keeps what its tokens can claim
(`RedemptionIsFunded`). After any trade the collateral is the funding plus the cost of what is
sold (and what the market was sent, which pays for nothing), whatever the cost function did in between; so solvency comes down to `CostAssumption`, that
the funding target covers the larger quantity less what was paid for it, at every pair of
quantities. Real markets satisfy it with room: the target is 1.10 b ln 2,
`_cost` is never below the larger quantity by more than its series errs, and computed with the
contract's arithmetic over its range the slack stays above 0.069 b. `SolvencyIsKept` speaks of
sales that the cost function prices; it does not price all of them (`EveryHoldingSells`, above).

`ResolutionProofs` proves `ResolutionTypeCorrect`, `DecidedAsResolved`, `AttestationsStayTrue`
and `RecordEndsAtVerdict` for any sets of transactions and watchers with fewer faulty ones than
the threshold, any attempts and any clock. Its inductive invariant relates the three places a
result lives in: every finalized result is an accepted one, results of accepted and finalized
transactions are those in the records, no attempt has two, and the accepted record is
sequential. From it: a finalized entry is never replaced, so signatures stay true; and since a
quorum of distinct signers contains an honest one (`QuorumHasHonest`, a pigeonhole argument by
`Cardinality` of injections), what the gateway accepts was signed by someone who saw it.
`DecisionIsImplemented` is the refinement, without fairness: mapped to `MarketDecision` by
`Verdict` (the verdict in the record) and by whether the deadline has passed, each step is one of
its steps or none. A finalization decides at most once, as the record ends at its verdict
(`VerdictStep`); `SubmitResolution` is its `Settle`, because the envelope's outcome is the verdict.

`ServiceProofs` proves of the Base indexer `NothingBelowCursorIsMissing`, `NothingReplacedIsIndexed`,
`CursorHashIsRight`, from them `IndexStaysSound` (the run's `IndexIsSound`), and
`CursorMovesForward`, for any number of jobs and blocks, if no reorganization is deeper than the
confirmations waited for and the deployment block is not the genesis block. The invariant says
what each job knows at each step: blocks at or below the head it read are final, what it fetched
is all of its range, and its range starts at or below the cursor, so that moving the cursor to
the end of the range leaves no gap.

`AdmissibilityProofs` proves `AdmissibilityTypes`, `AdmissibilityIsSubmittedOnce` and
`RecordedDecisionIsFinal` for any number of instances, reconcilers, polls and failures and for
either writer of the row. That there is one submission is not inductive: the invariant adds that
a row which may still be claimed has nothing sent, that whoever is about to send has left it
unclaimable and is alone, and that whoever follows a transaction follows the row's (`Knows`).
Since there is one transaction, an observation that closes the operation stays true.
`OnlyGivingUpAbandons` and `OperationsAreAttended` say who sees to an operation. `Attended` tells
apart what the run's property does not: a SUBMITTING row needs an instance that is submitting, a
SUBMITTED one an instance that will observe. Every step keeps it but one, that Workflows gives an
instance up; so the run's property is a theorem where GIVES_UP is FALSE, and only there: with TRUE
it is violated (above).

`OrchestrationProofs` proves the invariants of `MCOrchestration`. `ProposalInv` is about records and
bonds: what the record says is true of the bond (`BondTold`), the escrow's books balance, and a
handler that waits may rely on what it has seen (`Backed`): a handler about to save `REFUNDED` has
a refunded bond, one about to bind or approve a finalized resolver, one about to save a revision a
contract that has counted it. Others act in between; `Backed` survives as bonds and records only
grow (`BondsGrow`, `RecordsGrow`). With it `RecordsAreTrue` and `BondsPaidRight` hold for any
proposals, callers, crashes and retries. `BondsLiveOnce` is about the steps between those states:
the escrow moves only by a call of the contract (`OnlyCallsMoveBonds`), and such a call takes one
bond on and leaves the others alone (`BondGoesOn`): locked once, ended once, paid in that step only
and whole, its market and its age never rewritten. `SentOnce` rests on `OutboxInv` (who holds an
intent holds it CLAIMED and alone; who is about to mark has sent) and `GenLayerInv` (before the claim nothing was
sent and nobody is about to; one worker at most is; an outcome someone has seen is final).
`ScheduleSuits` is arithmetic about the two tables: for every instant, not only the run's.
`ProjectionFollows` says what each transaction's one or two events add up to (`OneEvent`,
`TwoEvents`: the fold is taken apart by hand), and that the markets' addresses differ, so that an
event changes its own market: each action then keeps market and row in agreement (`Agree`).

`ApplicationProofs` proves the invariants of `MCApplications`. Its parts share no state, so each has an
inductive invariant of its own, and a part at rest keeps it.

* `BalancesAreBacked`. `LedgerInv` counts: the balance, and what a POST has recorded and not yet
  added (`Owing`), come to no more than the bets and the deposit rows. A watcher adds the row and the
  unit at once; a POST, which is believed whatever it reports, adds the row first, and owes the unit
  until it adds it or dies. A watcher credits later what it listed earlier, so the invariant also says
  that what it holds has landed (`Owes`); transfers never un-land, so the rows of watchers, and only
  these, are of transfers that landed.
* `TradesAreInOrder`. A buy's allowance was seen by a request some awaits ago, or was the request's
  own approval: the invariant says what a request that waits may rely on (`RequestKnows`), and that a
  completed approval leaves the allowance in force. One redemption is sent because Circle answers a
  known idempotency key with the transaction it has, and a claim's key does not depend on the press.
* `RowsAreOfOnePiece`. The wallet of a user is a function of the key it is made under, so both
  routes, and every retry, find the same (`CallTold`); a desk's function that wrote a contract's
  address made the contract for that very market (`DeskKnows`), and an address that a request named is
  stored only if no row has it.
* `CursorLeavesNothing`. `IndexerInv` says what a pass knows at each step: all of its range is in the
  database or among what it has found, and where it may put the cursor nothing before is missing
  (`Safe`): at the end of what it scanned, and `MaxRange` blocks behind the tip, where a scan of a
  cursor left too far behind jumps to. That place is safe because the chain stays in the indexer's
  reach and nothing happens on a market before its creation. The hypotheses `~Outage` and `~DbFails`
  are the run's values: with either TRUE the property is violated (above).
* `ProofIsAskedFor`. A wallet is granted on the table's word, so the table has to stand on what
  Privy says no earlier than the caller's requests (`fresh`): `IdentityInv` says so of the list a
  request has read and, once its transaction is through, of every row the caller holds, in spite of
  the other requests' transactions. A proposal is recorded if the transaction named in the POST
  locked its bond; `SubmissionInv` says that a page sends its lock once (no transaction before
  `waiting`), so that what a POST has verified still stands when the row is written (`Stands`).
* `PagesAreTrue`. Of trades (`OrdersInv`): what is sent carries the limit that its own quote gives,
  and the market enforces it; the rest is a lemma on division, as limits are rounded. Of lists
  (`PagesInv`, `PlaceInv`): while no answer has come in from before the filter was last chosen (`stray`), no request
  for more of the present choice is under way before its first page is shown, its cursor is a row that
  is shown, and an answer therefore joins the rows shown without a gap but for rows of the cursor's
  second. It holds for any seconds that markets share and any number of changes.

The settlement's theorems are in the same module, over `SettlementSpec` of `MCArcSettlement`.
`SettlementTypes` and `ProposalsAreVerdicts` hold for any number of ticks
and any number of deaths, time-outs and administrators' calls. A proposal on Arc is safe if its
outcome is *committed*: decided by GenLayer, and given under the manifest that names the market's
contract. What is committed stays so (`CommittedStays`: GenLayer repeats a decision and registers
a market once, whatever late transactions still run). Between validation and proposal the outcome
is in a tick's memory only, so the invariant adds that a tick about to propose holds a committed
outcome; a tick gets there only through `validateResolution` (`ProposersAreValidated`,
`ValidatedIsCommitted`), and outcomes become proposals on Arc only through such ticks
(`ProposalsAreTheTicks`).

`ServiceProofs` proves the invariants of `MCService`, again with an inductive invariant for each part;
`ServiceParts` says that a step of the whole is a step of each part or leaves it alone.

* `DoneOnce`. A script goes by two sources: its record, and Base as a read shows it, which may lag.
  `RunInv` says what they are worth. The record names a transaction by its operation; what was
  executed Base *shows* (`Shows`), and goes on showing, since no later transaction undoes it
  (`EffectsAre`, `ShowsLasts`); a read that lags is behind Base and never beside it (`Ahead`), so what
  it shows is so. Every transaction but the last, while it is being sent, is in the record or is one
  whose hash was lost (`unsaved`), so that what is sent a second time was lost; and Base executes
  the `Guarded` operations only as long as it does not show them, so that these are not executed twice
  even then.
* `DoneOnce` also needs `SetupInv` and `ButtonsInv`. Of the provisioning scripts: a deployment that is
  not final is the manifest's pending one or about to be saved, unless its hash was lost; a fixture's
  identity is taken from a counter that only grows. Of the admin page: a panel that stands and has a
  request under way is busy, and that request is its only one; the answer of one that is gone changes
  no mark.
* `FilesAreTrue`. Of a run, what its plan has passed Base shows (`Marked`), and `finish` refuses what
  remains of positions and shares. Of the resolver's script (`ResolverInv`): each hash that the record
  or the process holds for an attempt is that of a transaction which resolves that attempt
  (`Resolves`), and one of these that succeeded is the one that the contract recorded; once the script
  went back to the first attempt (`back`), the record may name the other's for it.
* `VerdictsAndMoney`. Of the admissibility contract, for any validators: an answer
  is kept once a majority lets it pass, and whoever lets it pass has found the same decision and the
  same first issue (`VotesAgree`). Of the quotes: the two prices of a trade are differences of one
  cost function, so the way round does not matter. Of the treasury tab: a row that is shown as ready
  was read of a final market, and a market never leaves finality.
* `LossBounded` reduces the provider's loss to a fact about numbers, `CostCovers`: at every pair of
  quantities the cost, less that of the empty market, is within b ln 2 and a unit of either
  quantity. That `lmsr.ts`'s own series and divisions give such a cost is what `QuotesAreSound` checks.

The assumptions are the named ASSUMEs of the modules; TLC evaluates them in every run. Those of
`MCService` say that scripts and fixtures are those that exist, validators are finitely many, the
admin page's row buttons are not its lists, and costs are integers.

Only model-checked: liveness and everything under fairness, so also the fairness of
`MarketDecision`, which tlapm cannot reason about; and `QuotesAreSound`, that trades at the quotes
lose the provider at most b ln 2 and win nothing by coming and going. What the library's truncated
series, a recursive definition, comes to for every input would need induction theorems that take an
operator as their parameter, which the provers here cannot instantiate.

## Abstractions worth knowing

* `Resolution` has one clock for both chains. The code compares each chain's own; the resolver
  and the market check different deadlines, so skew shifts what may happen when but no property
  relates the two clocks.
* An accepted GenLayer transaction can be overturned until it is finalized, and is then executed
  again against the finalized state. How appeals are decided is GenLayer's business.
* A faulty watcher signs anything at any time; it cannot forge others' signatures.
* In `PoolMarket` and `LMSRMarket` the gateway may settle with any outcome: the markets must be
  right about money even if the resolution is wrong.
* Slippage limits of trades on `LMSRMarket` are the caller's, who accepts every price there;
  `BaseTrading` has the limits and no market behind the price.
* `BaseIndexer` models the store the worker uses; the Prisma store of `repositories.ts` has no
  caller, the fallback RPC is not configured by the worker, and a log is identified with its
  block.
* In `Admissibility` the row is written in the same database transaction as the Proposal, before
  any message, so the insert in `createIfAbsent` is never reached. The row a job keeps of itself
  (RUNNING) is compared with nothing. `repositories.ts` has a second writer of the intent, which
  leaves `externalId` empty; the constant INTENT_EXTERNAL_IDS says which writers there are.
* The schedule has no caller in the repository, nor have `submitOnce` and `followPersistedTransaction`
  (`genlayer-lifecycle.ts`), nor `dispatchIntent` and `reconcileIntents` (`durable-intents.ts`;
  `index.ts` sends jobs to the queue itself). What they achieve in time is stated on the premise that
  somebody calls them.
* USDC can be sent to a contract without a call (`Give`). The contracts read `balanceOf`: what was sent
  to a pool makes `releaseDust` revert for good, so that dust of less than a unit per winner stays and
  keeps its exposure (`DustIsStuck`); what was sent to an LMSR market or its vault goes to the
  providers, whose withdrawals then release exposure that was recorded for others, so that the last
  token holder may be refused a payment of which no more is missing than was sent, and the last
  provider's last share, or less than twice what was sent, may stay. The properties say so.
* `ArcLedger` lets a POST report any transfer by any name; amounts are one unit, and a row's amount and
  its increment are the same number in the code. `ArcDesk` lets a POST name any contract, one of the
  factory's or none. In the run both transfers fit on Circle's page; a deposit that leaves it is above.
* In `ArcIndexer` the run keeps the node in reach and insertions succeed (`Outage`, `DbFails`), so that
  a pass that catches up in chunks or jumps is not in it; either case is above.
* `MarketAdmissibility` has one call and one code in the run: validators and leader disagree freely
  about it, and what a second call does is above. `ProposalSubmission!LeavesRunning` is about the page:
  that the workflow writes its row is its premise, which the finding on the API's row denies for rows
  that the API wrote.
* Circle, Privy, GenLayer, Arc and the queue are external: modelled from how the code uses them,
  with every answer the code distinguishes, and marked so in the map. Circle answers a known
  idempotency key with the transaction it has.
* In `ArcSettlement` the market's expiry has passed from the start, a manifest is told apart by
  whether it names the market's contract, and the contract on Arc is what the ABI and the routes
  say of it. `market.status` may be written over by a pause at any time, so that
  `FinalityIsMirrored` says the row comes to say resolved, not that it stays. An indexer that is too far
  behind jumps (`FallBehind`): when it jumps over the final event, `lmsrStatus` still follows the
  contract, and `status` does not.
* In `AdminPanels` panels go and come anew at any time (`Unmount`): by tabs, filters, loads and timers.
  Where a property speaks of a panel's requests it speaks of those sent by the panel that stands.

## Observations

Noted while modelling; they contradict no text of the repository, or are outside a model.

* Arc application: a resolve that timed out and succeeds later leaves the settlement `failed`
  until someone queues it again; the administrator's requeue does not clear `arcTxHash`, so the
  tick then waits for the chain; `dispute-resolve` stamps `arcResolvedAt` without a receipt
  (`admin/markets/route.ts:144`); WITHDRAWAL rows stay pending for ever; a buy or sale whose
  answer was lost is sent again by the next press; a late answer after logout leaves the former
  user's wallet shown until the next poll; preferences are one JSON column that is read, changed
  and written; two trades of one log that differ in side only share a unique key; the refund
  dialog asks without a token and is always refused; the review queue can send two verdicts from
  one page.
* `lmsr.ts`: a purchase of one micro-share can cost -23 units, the price of 42 b against 0 is
  exactly 1, and the series' error is near 1.3e-6, where comments say otherwise.
* Outbox: an infrastructure error whose text contains "invalid" or "terminal" is dead-lettered;
  `reconcileIntents` stops at the first intent that throws.
* Projections: `Redeemed` does not reduce the quantities shown; `MarketRegistered` and vault
  events are dropped.
* API: a wallet moved to another Privy user is locked until the former owner calls; one
  conflicting wallet rolls back the whole list; the approval for a trade is never prepared.
* Web application: rows of the last shown row's second may be on no page, as the cursor keeps
  seconds (`read-model.ts:62`); more rows asked for before a filter was left and returned to are
  appended with their old cursor when they are answered after the filter's new first page, and the rows
  between are skipped (`page.tsx:157`). `NothingIsSkipped` names both.
* Scripts: what was sent by a process that died before it saved the hash is sent again, a stake or a
  purchase too (`run-connected-base-pool.mjs:62`); the second stake spends the allowance of the other
  side's, a purchase sold from meanwhile has none, and a withdrawal is refused once no share is left, so
  that these runs never complete (`Stranding`). With two deaths and a lagging read the LMSR script buys
  YES twice, on the approval meant for NO. The resolver's script, run for its default attempt 0 after
  attempt 1, pairs that attempt with the other's transaction (`run-connected-genlayer-resolver.mjs:218`).
  A CANCELLED factory transaction is kept for ever; a fixture without its record file is refused for
  ever; the treasury script makes a second wallet set when it is run again before the operator copied
  the first.

## Not modelled

See `PROJECT.json`, "components", for each part and the reason. In short: the 256-bit
mathematics (`LMSRMarket` takes the contract's own costs as a table; the proofs allow any table
within `CostAssumption`); wiring of roles and
addresses that happens once, before any market, and `setDefaults`; encoding and hashing of
manifests; schemas, SDK and HTTP plumbing; forms, layout and pages that load once; the
administrator's user list; bundling, inspection and migration scripts; vendored code.

## What could follow

Abstract specifications of `Admissibility` (asked once, answered once) and of the bond escrow (`BondsLiveOnce`
states the steps it would allow); a bound on what the cost function's series and divisions err, from which `CostAssumption` and `CostCovers`
would follow.
