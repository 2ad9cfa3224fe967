--------------------------- MODULE MCApplications ---------------------------
(* The parts of the two applications that meet only in a database and on a   *)
(* chain, checked side by side: a behaviour is one part's, and the others    *)
(* rest.  Of the Arc application: money, trades, sessions, the indexer and   *)
(* the administrators' desk.  Of the web application on Base and its API:    *)
(* whom they believe, what a submission leaves, what pages show and send.    *)
EXTENDS Naturals, FiniteSets, TLC

CONSTANTS
    Handlers, Bets, PageSize, MaxTransfers, LedgerCalls,     \* ArcLedger
    Requests, MaxPresses, Failing,                           \* ArcTrading
    Users, Fetches, MaxLogins,                               \* ArcSession
    IndexerPasses, MaxRange, MaxBlocks, MaxBreaks,
    Outage, DbFails,                                         \* ArcIndexer
    Desks, Markets, DeskCalls,                               \* ArcDesk
    NoOne, Wallets, ApiCalls, Caller, MaxLinks,              \* WalletIdentity
    Presses, Owner, Recoveries, BOND,                        \* ProposalSubmission
    Orders, Side, Slippage, MaxPrice, Funds,                 \* BaseTrading
    MaxListed, CreatedAt, Id, SECOND, Class, Filters, ListLimit,
    Mores, MaxChanges                                        \* Discovery
CONSTANTS alice, bob, c1, c2, c3, p1, r1, r2, t1, t2, t3

ASSUME LedgerAssumption ==
    /\ PageSize \in Nat \ {0} /\ MaxTransfers \in Nat /\ LedgerCalls \in Nat
    /\ IsFiniteSet(Bets)
ASSUME TradingAssumption ==
    MaxPresses \in Nat /\ Failing \subseteq {"approve", "buy", "sell", "redeem"}
ASSUME SessionAssumption == MaxLogins \in Nat /\ "nobody" \notin Users
ASSUME IndexerAssumption ==
    /\ MaxRange \in Nat \ {0} /\ MaxBlocks \in Nat /\ MaxBreaks \in Nat
    /\ Outage \in BOOLEAN /\ DbFails \in BOOLEAN
ASSUME DeskAssumption == DeskCalls \in Nat /\ "none" \notin Markets

Listed == 1 .. MaxListed

ASSUME IdentityAssumption ==
    NoOne \notin Users /\ Caller \in [ApiCalls -> Users] /\ MaxLinks \in Nat
ASSUME SubmissionAssumption ==
    /\ Owner \in [Presses -> Users] /\ Recoveries \subseteq Presses
    /\ BOND \in Nat \ {0} /\ "none" \notin Presses
ASSUME OrdersAssumption ==
    /\ Side \in [Orders -> {"BUY", "SELL", "STAKE"}] /\ MaxPrice \in Nat \ {0} /\ Funds \in Nat
    /\ Slippage \in [Orders -> Nat] /\ \A t \in Orders : Slippage[t] <= 10000
ASSUME PagesAssumption ==
    /\ MaxListed \in Nat /\ ListLimit \in Nat \ {0} /\ MaxChanges \in Nat
    /\ CreatedAt \in [Listed -> Nat] /\ Id \in [Listed -> Nat] /\ SECOND \in Nat \ {0}
    /\ \A m, n \in Listed : m < n =>
         CreatedAt[m] < CreatedAt[n] \/ (CreatedAt[m] = CreatedAt[n] /\ Id[m] < Id[n])
    /\ Class \in [Listed -> Filters] /\ "none" \notin Filters

(* The instance that is checked.                                             *)
CallerOf == (c1 :> alice) @@ (c2 :> alice) @@ (c3 :> bob)
OwnerOf == (p1 :> alice) @@ (r1 :> alice) @@ (r2 :> bob)
SideOf == (t1 :> "BUY") @@ (t2 :> "SELL") @@ (t3 :> "STAKE")
SlippageOf == (t1 :> 2500) @@ (t2 :> 2500) @@ (t3 :> 0)
Instants == [m \in Listed |-> CASE m <= 2 -> 4 [] m <= 4 -> 5 [] OTHER -> m + 2]
IdOf == [m \in Listed |-> m]
ClassOf == [m \in Listed |-> IF m = 2 THEN "sports" ELSE "crypto"]

VARIABLE part  \* the part that is at work

VARIABLES transfers, usdc, balance, rows, releases, market, bets, history, handler, ledgerCalls
ledgerVars == <<transfers, usdc, balance, rows, releases, market, bets, history, handler, ledgerCalls>>

VARIABLES marketRow, arc, circle, request, presses
tradingVars == <<marketRow, arc, circle, request, presses>>

VARIABLES account, shown, fetch, walletRow, made, told, logins
sessionVars == <<account, shown, fetch, walletRow, made, told, logins>>

VARIABLES blocks, indexedRow, factory, trades, pass, breaks
indexerVars == <<blocks, indexedRow, factory, trades, pass, breaks>>

VARIABLES suggestion, marketRows, contracts, desk, deskCalls
deskVars == <<suggestion, marketRows, contracts, desk, deskCalls>>

VARIABLES linked, linkedRow, call, fresh, links
identityVars == <<linked, linkedRow, call, fresh, links>>

VARIABLES press, tx, bondAllowance, named, post, proposals, pending, jobs
submissionVars == <<press, tx, bondAllowance, named, post, proposals, pending, jobs>>

VARIABLES price, status, indexed, allowance, trade
orderVars == <<price, status, indexed, allowance, trade>>

VARIABLES created, filter, changes, first, late, page, more, stray, loadingMore, error
pageVars == <<created, filter, changes, first, late, page, more, stray, loadingMore, error>>

Ledger == INSTANCE ArcLedger WITH MaxCalls <- LedgerCalls, circle <- transfers, calls <- ledgerCalls
Trading == INSTANCE ArcTrading WITH row <- marketRow
Session == INSTANCE ArcSession WITH row <- walletRow
Indexer == INSTANCE ArcIndexer WITH row <- indexedRow, Passes <- IndexerPasses
Desk == INSTANCE ArcDesk WITH MaxCalls <- DeskCalls, market <- marketRows, calls <- deskCalls

Identity == INSTANCE WalletIdentity WITH row <- linkedRow, Calls <- ApiCalls
Submission == INSTANCE ProposalSubmission
    WITH page <- press, allowance <- bondAllowance, rows <- proposals, Isolates <- {},
         proposalRow <- 0, cache <- <<>>, statusPage <- "loading", shown <- 0
BaseOrders == INSTANCE BaseTrading WITH Trades <- Orders
Pages == INSTANCE Discovery WITH Markets <- Listed, Limit <- ListLimit

arcVars == <<ledgerVars, tradingVars, sessionVars, indexerVars, deskVars>>
webVars == <<identityVars, submissionVars, orderVars, pageVars>>
vars == <<part, arcVars, webVars>>

(* A part that rests has one initial state.                                  *)
Init ==
    /\ part \in {"ledger", "trading", "session", "indexer", "desk",
                "identity", "submission", "orders", "pages"}
    /\ Ledger!Init /\ Trading!Init /\ Session!Init /\ Indexer!Init /\ Desk!Init
    /\ Identity!Init /\ Submission!Init /\ BaseOrders!Init /\ Pages!Init
    /\ part = "orders" \/ (price = 1 /\ allowance = 0)
    /\ part = "pages" \/ (created = 0 /\ filter = CHOOSE f \in Filters : TRUE)

LedgerWorks == part = "ledger"
    /\ UNCHANGED <<part, tradingVars, sessionVars, indexerVars, deskVars, webVars>>
TradingWorks == part = "trading"
    /\ UNCHANGED <<part, ledgerVars, sessionVars, indexerVars, deskVars, webVars>>
SessionWorks == part = "session"
    /\ UNCHANGED <<part, ledgerVars, tradingVars, indexerVars, deskVars, webVars>>
IndexerWorks == part = "indexer"
    /\ UNCHANGED <<part, ledgerVars, tradingVars, sessionVars, deskVars, webVars>>
DeskWorks == part = "desk"
    /\ UNCHANGED <<part, ledgerVars, tradingVars, sessionVars, indexerVars, webVars>>
IdentityWorks == part = "identity"
    /\ UNCHANGED <<part, arcVars, submissionVars, orderVars, pageVars>>
SubmissionWorks == part = "submission"
    /\ UNCHANGED <<part, arcVars, identityVars, orderVars, pageVars>>
OrdersWork == part = "orders"
    /\ UNCHANGED <<part, arcVars, identityVars, submissionVars, pageVars>>
PagesWork == part = "pages"
    /\ UNCHANGED <<part, arcVars, identityVars, submissionVars, orderVars>>

Next ==
    \/ LedgerWorks /\ Ledger!Next
    \/ TradingWorks /\ Trading!Next
    \/ SessionWorks /\ Session!Next
    \/ IndexerWorks /\ Indexer!Next
    \/ DeskWorks /\ Desk!Next
    \/ IdentityWorks /\ Identity!Next
    \/ SubmissionWorks /\ Submission!Next
    \/ OrdersWork /\ BaseOrders!Next
    \/ PagesWork /\ Pages!Next

(* Each part's fairness, while it is the one at work; what comes right of  *)
(* the API's parts is MCService's matter.                                     *)
Fairness ==
    /\ \A h \in Handlers :
         /\ WF_vars(LedgerWorks /\ Ledger!ListTransfers(h))
         /\ WF_vars(LedgerWorks /\ (Ledger!SyncStep(h) \/ Ledger!RouteStep(h)))
    /\ WF_vars(SessionWorks /\ Session!Poll)
    /\ \A f \in Fetches : WF_vars(SessionWorks /\ Session!Step(f))
    /\ SF_vars(SessionWorks /\ Session!AnswerCurrent)
    /\ WF_vars(IndexerWorks /\ Indexer!MineBlock("nothing"))
    /\ \A p \in IndexerPasses : WF_vars(IndexerWorks /\ Indexer!PassStep(p))

Spec == Init /\ [][Next]_vars /\ Fairness

----------------------------------------------------------------------------
(* A user's balance stands on bets and deposit rows: those a watcher writes   *)
(* are of deposits that landed, the others are what a client posted.         *)
BalanceStandsOnRows == Ledger!BalanceStandsOnRows

(* A deposit that landed comes to have its row.                              *)
DepositsAreCredited == Ledger!DepositsAreCredited

(* bets/place never sends a buy that is ahead of its allowance, and however   *)
(* claims are repeated, one redemption is sent.                              *)
TradesAreSentRight == Trading!BuysFindTheirAllowance /\ Trading!RedeemedOnce

(* Whatever sign-ins overlap, a user has one Circle wallet and is told of it; *)
(* suggestions, markets and contracts point at one another, but for a        *)
(* contract that the request for a market named.                             *)
RowsBelongTogether == Session!OneWalletPerUser /\ Desk!RowsPointBack

(* The page comes to show the wallet of who stays signed in, and a final      *)
(* market's row comes to say so.                                             *)
WhatIsShownComesRight == Session!ShownComesRight /\ Indexer!RowComesToTheChain

(* What lies below the indexer's cursor is in the database.                  *)
NothingBelowTheCursorIsLost == Indexer!NothingBelowTheCursorIsLost

(* The API grants a wallet only on a link of its caller's that is no older    *)
(* than the caller's requests, and records a proposal only on the bond its    *)
(* proposer locked for it.                                                   *)
ApiTrustsOnlyProof == Identity!GrantIsFresh /\ Submission!RowsStandOnBonds

(* Confirmed trades are within the slippage of their quote, the markets shown *)
(* are those of the filter, of which only rows of a cursor's second, or after *)
(* a late answer to an earlier choice of the filter, are left out.           *)
PagesKeepTheirWord ==
    /\ BaseOrders!TradesStayNearTheirQuote
    /\ Pages!ShownMatchesTheFilter /\ Pages!NothingIsSkipped

=============================================================================
