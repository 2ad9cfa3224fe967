----------------------------- MODULE LMSRMarket -----------------------------
(***************************************************************************)
(* LMSRMarket.sol with its LMSRLiquidityVault.sol, the outcome tokens it   *)
(* mints and the RiskManager and FeeRouter both call.  Liquidity providers *)
(* fund the vault; once funded the market trades YES and NO tokens along a *)
(* cost function; a terminal market keeps what its tokens can claim and    *)
(* sends the rest to the vault, where the providers withdraw it.           *)
(*                                                                         *)
(* Each action is one transaction.  The slippage bounds of buy and sell    *)
(* are the caller's choice; here the caller accepts any price.  USDC is an *)
(* ordinary token: anyone may also send it to either contract without a    *)
(* call, and both read their balances.                                     *)
(***************************************************************************)
EXTENDS SharedContracts

CONSTANTS Market, Vault,           \* the two contracts' addresses
          Accounts,                \* traders and liquidity providers
          Creator,                 \* one of them
          COST,                    \* _cost(yesShares, noShares), rounded down
          MAX_Q,                   \* bound: shares sold on a side
          ShareAmounts,            \* sizes of a trade, a redemption or a withdrawal
          Contributions,           \* sizes of a contribution
          WEALTH,                  \* USDC each account starts with
          FUNDING_TARGET,
          FEE_BPS, BPS,
          MAX_GIVEN,               \* bound: USDC sent to the contracts directly
          FUNDING_DEADLINE, CLOSE, AVAILABLE, TERMINAL_DEADLINE,
          MAX_TIME                 \* bound: the clock stops here

Quantities == 0 .. MAX_Q
Sides      == {"YES", "NO"}
Outcomes   == {"YES", "NO", "VOID"}
Contracts  == {Market, Vault}
Holders    == {Market, Vault, Treasury} \cup Accounts

ASSUME LMSRAssumption ==
    /\ MAX_Q \in Nat /\ WEALTH \in Nat /\ MAX_TIME \in Nat /\ MAX_GIVEN \in Nat
    /\ COST \in [Quantities -> [Quantities -> Nat]]
    /\ ShareAmounts \subseteq Nat /\ Contributions \subseteq Nat
    /\ FUNDING_TARGET \in Nat \ {0}
    /\ FEE_BPS \in Nat /\ BPS \in Nat \ {0} /\ FEE_BPS <= BPS
    /\ FUNDING_DEADLINE \in Nat /\ CLOSE \in Nat /\ AVAILABLE \in Nat
    /\ TERMINAL_DEADLINE \in Nat
    /\ 0 < FUNDING_DEADLINE /\ FUNDING_DEADLINE <= CLOSE
    /\ CLOSE <= AVAILABLE /\ AVAILABLE < TERMINAL_DEADLINE
    /\ CREATOR_DIV >= 2

(* calculateFundingTarget is 1.10 * b * ln 2, rounded up, and _cost is at    *)
(* least the larger quantity, less rounding, and b * ln 2 when both are 0.   *)
(* Nothing is assumed of how the cost changes from one quantity to the next. *)
ASSUME CostAssumption ==
    \A y, n \in Quantities :
      /\ y + COST[0][0] <= COST[y][n] + FUNDING_TARGET
      /\ n + COST[0][0] <= COST[y][n] + FUNDING_TARGET

ASSUME AddressAssumption ==
    /\ Market \in Markets
    /\ Market # Vault /\ Vault # Treasury /\ Market # Treasury
    /\ Accounts \cap {Market, Vault, Treasury} = {}
    /\ Creator \in Accounts
    /\ IsFiniteSet(Accounts)

VARIABLES now,
          usdc,                                \* the token's balances
          given,                               \* history: sent to each contract directly
          status, outcome, qYes, qNo, totalFees, voidDustReleased,
          tokens,                              \* outcome tokens: side, then holder
          shares, totalShares, contributedAssets, activated, vaultTerminal

tradeVars == <<qYes, qNo, tokens>>
vaultVars == <<shares, totalShares, contributedAssets, activated, vaultTerminal>>
vars == <<now, usdc, given, status, outcome, totalFees, voidDustReleased, tradeVars, vaultVars, riskVars>>

TypeOK ==
    /\ RiskTypeOK
    /\ now \in 0 .. MAX_TIME
    /\ usdc \in [Holders -> Nat]
    /\ given \in [Contracts -> Nat]
    /\ status \in {"FUNDING", "ACTIVE", "TERMINAL"}
    /\ outcome \in Outcomes
    /\ qYes \in Quantities /\ qNo \in Quantities
    /\ totalFees \in Nat
    /\ voidDustReleased \in BOOLEAN
    /\ tokens \in [Sides -> [Accounts -> Quantities]]
    /\ shares \in [Accounts -> Nat]
    /\ totalShares \in Nat /\ contributedAssets \in Nat
    /\ activated \in BOOLEAN /\ vaultTerminal \in BOOLEAN

Init ==
    /\ RiskInit
    /\ now = 0
    /\ usdc = [h \in Holders |-> IF h \in Accounts THEN WEALTH ELSE 0]
    /\ given = [h \in Contracts |-> 0]
    /\ status = "FUNDING" /\ outcome = "YES"
    /\ qYes = 0 /\ qNo = 0
    /\ totalFees = 0 /\ voidDustReleased = FALSE
    /\ tokens = [s \in Sides |-> [a \in Accounts |-> 0]]
    /\ shares = [a \in Accounts |-> 0]
    /\ totalShares = 0 /\ contributedAssets = 0
    /\ activated = FALSE /\ vaultTerminal = FALSE

-----------------------------------------------------------------------------
(* The views of the market.                                                *)

Larger(x, y) == IF x > y THEN x ELSE y

MaximumTerminalLiability(y, n) == Larger(y, n)

TerminalLiability(result, y, n) ==
    CASE result = "YES"  -> y
      [] result = "NO"   -> n
      [] result = "VOID" -> (y + n + 1) \div 2

FeeOn(notional) == (notional * FEE_BPS) \div BPS

\* Mutant: VOID pays the half share of an odd amount out too.
RedeemPayout_VoidCeil(yesAmount, noAmount) ==
    CASE outcome = "YES"  -> yesAmount
      [] outcome = "NO"   -> noAmount
      [] outcome = "VOID" -> (yesAmount + noAmount + 1) \div 2

RedeemPayout(yesAmount, noAmount) ==
    CASE outcome = "YES"  -> yesAmount
      [] outcome = "NO"   -> noAmount
      [] outcome = "VOID" -> (yesAmount + noAmount) \div 2

WithdrawAmount(shareAmount) == (shareAmount * usdc[Vault]) \div totalShares

Bought(side, amount) ==
    IF side = "YES" THEN <<qYes + amount, qNo>> ELSE <<qYes, qNo + amount>>
Sold(side, amount) ==
    IF side = "YES" THEN <<qYes - amount, qNo>> ELSE <<qYes, qNo - amount>>
CostAt(q) == COST[q[1]][q[2]]

-----------------------------------------------------------------------------
(* The vault.                                                              *)

Contribute(a, amount) ==
    /\ ~activated /\ ~vaultTerminal /\ now < FUNDING_DEADLINE /\ amount > 0
    /\ ReserveExposure(Market, amount)
    /\ amount <= usdc[a]
    /\ usdc' = Transfer(usdc, a, Vault, amount)
    /\ shares' = [shares EXCEPT ![a] = @ + amount]
    /\ totalShares' = totalShares + amount
    /\ contributedAssets' = contributedAssets + amount
    /\ UNCHANGED <<now, given, status, outcome, totalFees, voidDustReleased, tradeVars,
                   activated, vaultTerminal>>

\* Mutant: the vault does not remember that it is activated.
Activate_Unmarked ==
    /\ ~activated /\ ~vaultTerminal /\ now < FUNDING_DEADLINE
    /\ contributedAssets >= FUNDING_TARGET
    /\ status = "FUNDING" /\ status' = "ACTIVE"
    /\ usdc' = Transfer(usdc, Vault, Market, contributedAssets)
    /\ UNCHANGED <<now, given, outcome, totalFees, voidDustReleased, tradeVars, vaultVars, riskVars>>

(* vault.activate and the market.activate it calls.                        *)
Activate ==
    /\ ~activated /\ ~vaultTerminal /\ now < FUNDING_DEADLINE
    /\ contributedAssets >= FUNDING_TARGET
    /\ contributedAssets <= usdc[Vault]
    /\ activated' = TRUE
    /\ usdc' = Transfer(usdc, Vault, Market, contributedAssets)
    /\ status = "FUNDING"
    /\ MaximumTerminalLiability(qYes, qNo) <= usdc'[Market]
    /\ status' = "ACTIVE"
    /\ UNCHANGED <<now, given, outcome, totalFees, voidDustReleased, tradeVars, shares, totalShares,
                   contributedAssets, vaultTerminal, riskVars>>

\* Mutant: only a vault below its target has failed.
WithdrawFailedFunding_BelowTarget(a) ==
    /\ ~activated /\ now >= FUNDING_DEADLINE /\ shares[a] > 0
    /\ contributedAssets < FUNDING_TARGET
    /\ shares' = [shares EXCEPT ![a] = 0]
    /\ totalShares' = totalShares - shares[a]
    /\ contributedAssets' = contributedAssets - shares[a]
    /\ ReleaseExposure(Market, shares[a])
    /\ usdc' = Transfer(usdc, Vault, a, shares[a])
    /\ UNCHANGED <<now, given, status, outcome, totalFees, voidDustReleased, tradeVars,
                   activated, vaultTerminal>>

WithdrawFailedFunding(a) ==
    /\ ~activated /\ now >= FUNDING_DEADLINE /\ shares[a] > 0
    /\ shares' = [shares EXCEPT ![a] = 0]
    /\ totalShares' = totalShares - shares[a]
    /\ contributedAssets' = contributedAssets - shares[a]
    /\ ReleaseExposure(Market, shares[a])
    /\ shares[a] <= usdc[Vault]
    /\ usdc' = Transfer(usdc, Vault, a, shares[a])
    /\ UNCHANGED <<now, given, status, outcome, totalFees, voidDustReleased, tradeVars,
                   activated, vaultTerminal>>

WithdrawTerminal(a, shareAmount) ==
    LET amount == WithdrawAmount(shareAmount)
    IN  /\ vaultTerminal /\ shareAmount > 0 /\ shares[a] >= shareAmount
        /\ shares' = [shares EXCEPT ![a] = @ - shareAmount]
        /\ totalShares' = totalShares - shareAmount
        /\ ReleaseExposure(Market, amount)
        /\ usdc' = Transfer(usdc, Vault, a, amount)
        /\ UNCHANGED <<now, given, status, outcome, totalFees, voidDustReleased, tradeVars,
                       contributedAssets, activated, vaultTerminal>>

-----------------------------------------------------------------------------
(* Trading.                                                                *)

(* The q of a side moves with the tokens minted or burned.                 *)
\* Mutant: tokens move and the quantities stay.
SetQuantities_TokensOnly(q, side, holder, delta) ==
    /\ UNCHANGED <<qYes, qNo>>
    /\ tokens' = [tokens EXCEPT ![side][holder] = @ + delta]

SetQuantities(q, side, holder, delta) ==
    /\ qYes' = q[1] /\ qNo' = q[2]
    /\ tokens' = [tokens EXCEPT ![side][holder] = @ + delta]

Buy(a, side, amount) ==
    LET q        == Bought(side, amount)
        notional == CostAt(q) - CostAt(<<qYes, qNo>>)
        fee      == FeeOn(notional)
        total    == notional + fee
        paid     == Transfer(usdc, a, Market, total)
    IN  /\ status = "ACTIVE" /\ now < CLOSE /\ amount > 0
        /\ q[1] <= MAX_Q /\ q[2] <= MAX_Q
        /\ notional > 0
        /\ total <= usdc[a]
        \* reserveExposure(total), then releaseExposure of the part of the fee
        \* that leaves the market and its vault
        /\ ~paused
        /\ marketExposure[Market] + total <= MARKET_CAP
        /\ systemExposure + total <= SYSTEM_CAP
        /\ marketExposure' =
             [marketExposure EXCEPT ![Market] = (@ + total) - (fee - fee \div 2)]
        /\ systemExposure' = (systemExposure + total) - (fee - fee \div 2)
        /\ UNCHANGED paused
        /\ usdc' = RouteLMSR(paid, Market, Vault, Creator, fee)
        /\ totalFees' = totalFees + fee
        /\ SetQuantities(q, side, a, amount)
        /\ MaximumTerminalLiability(q[1], q[2]) <= usdc'[Market]
        /\ UNCHANGED <<now, given, status, outcome, voidDustReleased, vaultVars>>

Sell(a, side, amount) ==
    LET q        == Sold(side, amount)
        notional == CostAt(<<qYes, qNo>>) - CostAt(q)
        fee      == FeeOn(notional)
    IN  /\ status = "ACTIVE" /\ now < CLOSE /\ amount > 0
        /\ amount <= tokens[side][a]
        /\ notional >= 0
        /\ notional <= usdc[Market]
        /\ ReleaseExposure(Market, notional - fee \div 2)
        /\ usdc' = Transfer(RouteLMSR(usdc, Market, Vault, Creator, fee),
                            Market, a, notional - fee)
        /\ totalFees' = totalFees + fee
        /\ SetQuantities(q, side, a, -amount)
        /\ MaximumTerminalLiability(q[1], q[2]) <= usdc'[Market]
        /\ UNCHANGED <<now, given, status, outcome, voidDustReleased, vaultVars>>

(* Outcome tokens are ERC-1155 tokens: their holders pass them on freely.  *)
TransferTokens(from, to, side, amount) ==
    /\ from # to /\ amount > 0 /\ amount <= tokens[side][from]
    /\ tokens' = [tokens EXCEPT ![side][from] = @ - amount, ![side][to] = @ + amount]
    /\ UNCHANGED <<now, usdc, given, status, outcome, totalFees, voidDustReleased, qYes, qNo,
                   vaultVars, riskVars>>

-----------------------------------------------------------------------------
(* Settlement, redemption and dust.                                        *)

(* _settle and the vault's notifyTerminal.                                 *)
Terminate(result) ==
    LET liability == TerminalLiability(result, qYes, qNo)
    IN  /\ outcome' = result /\ status' = "TERMINAL"
        /\ liability <= usdc[Market]
        /\ usdc' = Transfer(usdc, Market, Vault, usdc[Market] - liability)
        /\ activated /\ ~vaultTerminal
        /\ vaultTerminal' = TRUE
        /\ UNCHANGED <<now, given, totalFees, voidDustReleased, tradeVars, shares, totalShares,
                       contributedAssets, activated, riskVars>>

Settle(result) == status = "ACTIVE" /\ now >= AVAILABLE /\ Terminate(result)

ExpireToVoid == status = "ACTIVE" /\ now >= TERMINAL_DEADLINE /\ Terminate("VOID")

Redeem(a, yesAmount, noAmount) ==
    LET payout == RedeemPayout(yesAmount, noAmount)
    IN  /\ status = "TERMINAL" /\ (yesAmount > 0 \/ noAmount > 0)
        /\ yesAmount <= tokens["YES"][a] /\ noAmount <= tokens["NO"][a]
        /\ tokens' = [tokens EXCEPT !["YES"][a] = @ - yesAmount, !["NO"][a] = @ - noAmount]
        /\ qYes' = qYes - yesAmount /\ qNo' = qNo - noAmount
        /\ payout <= usdc[Market]
        /\ ReleaseExposure(Market, payout)
        /\ usdc' = Transfer(usdc, Market, a, payout)
        /\ TerminalLiability(outcome, qYes', qNo') <= usdc'[Market]
        /\ UNCHANGED <<now, given, status, outcome, totalFees, voidDustReleased, vaultVars>>

ReleaseVoidDust ==
    /\ status = "TERMINAL" /\ outcome = "VOID" /\ ~voidDustReleased
    /\ qYes = 0 /\ qNo = 0
    /\ voidDustReleased' = TRUE
    /\ ReleaseExposure(Market, usdc[Market])
    /\ usdc' = Transfer(usdc, Market, Vault, usdc[Market])
    /\ UNCHANGED <<now, given, status, outcome, totalFees, tradeVars, vaultVars>>

Pause(value) ==
    /\ paused # value
    /\ SetPaused(value)
    /\ UNCHANGED <<now, usdc, given, status, outcome, totalFees, voidDustReleased, tradeVars, vaultVars>>

(* Somebody transfers USDC to the market or to the vault, at any time: money *)
(* from outside that no call sees and no exposure is recorded for.           *)
Give(h, amount) ==
    /\ SumFunction(given) + amount <= MAX_GIVEN
    /\ usdc' = [usdc EXCEPT ![h] = @ + amount]
    /\ given' = [given EXCEPT ![h] = @ + amount]
    /\ UNCHANGED <<now, status, outcome, totalFees, voidDustReleased, tradeVars, vaultVars,
                   riskVars>>

Tick ==
    /\ now < MAX_TIME
    /\ now' = now + 1
    /\ UNCHANGED <<usdc, given, status, outcome, totalFees, voidDustReleased, tradeVars, vaultVars,
                   riskVars>>

RedeemSome(a) ==
    \E y \in 0 .. tokens["YES"][a], n \in 0 .. tokens["NO"][a] : Redeem(a, y, n)
WithdrawSome(a) == \E s \in 1 .. shares[a] : WithdrawTerminal(a, s)

Next ==
    \/ \E a \in Accounts, amount \in Contributions : Contribute(a, amount)
    \/ Activate
    \/ \E a \in Accounts : WithdrawFailedFunding(a) \/ RedeemSome(a) \/ WithdrawSome(a)
    \/ \E a \in Accounts, side \in Sides, amount \in ShareAmounts :
         Buy(a, side, amount) \/ Sell(a, side, amount)
    \/ \E from, to \in Accounts, side \in Sides, amount \in ShareAmounts :
         TransferTokens(from, to, side, amount)
    \/ \E result \in Outcomes : Settle(result)
    \/ ExpireToVoid
    \/ ReleaseVoidDust
    \/ \E value \in BOOLEAN : Pause(value)
    \/ \E h \in Contracts, amount \in 1 .. MAX_GIVEN : Give(h, amount)
    \/ Tick

Spec == Init /\ [][Next]_vars

(***************************************************************************)
(* Time passes, anyone may expire the market, and holders and providers    *)
(* use an exit that pays them: a worthless token may be kept for ever.     *)
(* Nothing is assumed of the gateway or of the safe.                       *)
(***************************************************************************)
OwedToHolder(a)   == IF status = "TERMINAL" THEN RedeemPayout(tokens["YES"][a], tokens["NO"][a]) ELSE 0
OwedToProvider(a) == IF vaultTerminal /\ shares[a] > 0 THEN WithdrawAmount(shares[a]) ELSE 0

FairSpec ==
    /\ Spec
    /\ WF_vars(Tick) /\ WF_vars(ExpireToVoid)
    /\ WF_vars(\E a \in Accounts : OwedToHolder(a) > 0 /\ RedeemSome(a))
    /\ \A a \in Accounts :
         /\ WF_vars(OwedToProvider(a) > 0 /\ WithdrawSome(a))
         /\ WF_vars(WithdrawFailedFunding(a))
-----------------------------------------------------------------------------
TokenSupply(side) == SumFunction(tokens[side])

(***************************************************************************)
(* The exposure recorded for the market is all the USDC it and its vault   *)
(* were paid and still hold: the trade's notional and the vault's half of  *)
(* each fee are in it, the parts of the fee that went elsewhere are not.   *)
(* What they hold beyond it was sent to them directly, unit for unit, even *)
(* when it has long been paid out as somebody's share.  (VOID dust breaks  *)
(* this; see TerminalProvidersCanExit.)                                    *)
(***************************************************************************)
Given      == given[Market] + given[Vault]
Unrecorded == usdc[Market] + usdc[Vault] - marketExposure[Market]

ExposureMatchesCustody == ~voidDustReleased => Unrecorded = Given

(***************************************************************************)
(* While it trades the market holds exactly its funding and the cost of    *)
(* what it has sold, whatever the path of trades: fees never touch it.     *)
(* (What it was sent directly comes on top, and pays for nothing.)         *)
(***************************************************************************)
CollateralFollowsCost ==
    status = "ACTIVE" =>
      usdc[Market] = contributedAssets + CostAt(<<qYes, qNo>>) - CostAt(<<0, 0>>) + given[Market]

(***************************************************************************)
(* Every token is counted in the market's quantities and every provider's  *)
(* share in the vault's total, so the last holder is never short.          *)
(***************************************************************************)
QuantitiesMatchTokens ==
    /\ qYes = TokenSupply("YES") /\ qNo = TokenSupply("NO")
    /\ totalShares = SumFunction(shares)

(***************************************************************************)
(* The checks an exit makes on funds, exposure and solvency never stop it: *)
(* before close a holder can sell any holding the cost function prices,    *)
(* and afterwards redeem any.  One thing can stop a redemption: providers  *)
(* are paid what was sent directly out of the exposure that was recorded   *)
(* for the tokens, so the exposure may be short by that much, and no more. *)
(***************************************************************************)
SaleIsPriced(side, amount) == CostAt(Sold(side, amount)) <= CostAt(<<qYes, qNo>>)

SellIsOpen(side, amount) ==
    LET q        == Sold(side, amount)
        notional == CostAt(<<qYes, qNo>>) - CostAt(q)
        kept     == usdc[Market] - notional
    IN  /\ kept >= MaximumTerminalLiability(q[1], q[2])
        /\ notional - FeeOn(notional) \div 2 <= marketExposure[Market]

RedeemIsOpen(yesAmount, noAmount) ==
    LET payout == RedeemPayout(yesAmount, noAmount)
    IN  /\ payout <= marketExposure[Market] + Given
        /\ TerminalLiability(outcome, qYes - yesAmount, qNo - noAmount) <= usdc[Market] - payout

HoldersCanExit ==
    \A a \in Accounts :
      /\ status = "ACTIVE" =>
           \A side \in Sides : \A amount \in 1 .. tokens[side][a] :
             SaleIsPriced(side, amount) => SellIsOpen(side, amount)
      /\ status = "TERMINAL" =>
           \A y \in 0 .. tokens["YES"][a], n \in 0 .. tokens["NO"][a] : RedeemIsOpen(y, n)

(***************************************************************************)
(* An active market can always be settled with any outcome: the settlement *)
(* finds enough collateral for what it leaves to the token holders.        *)
(***************************************************************************)
SettlementIsFunded ==
    status = "ACTIVE" =>
      /\ \A result \in Outcomes : TerminalLiability(result, qYes, qNo) <= usdc[Market]
      /\ activated /\ ~vaultTerminal

(***************************************************************************)
(* Together: books, custody and tokens agree, so that no check an exit or  *)
(* a settlement makes is ever in its way.                                  *)
(***************************************************************************)
SolvencyIsKept ==
    ExposureMatchesCustody /\ QuantitiesMatchTokens /\ HoldersCanExit /\ SettlementIsFunded

(***************************************************************************)
(* "Exits remain callable through normal pause/cap states": whatever part  *)
(* of a holding its holder sells, the market's quote does not revert.      *)
(***************************************************************************)
EveryHoldingSells ==
    status = "ACTIVE" =>
      \A a \in Accounts, side \in Sides :
        \A amount \in 1 .. tokens[side][a] : SaleIsPriced(side, amount)

(***************************************************************************)
(* releaseVoidDust "sends the deterministic ceil/floor remainder to        *)
(* terminal LPs": a provider with shares in a terminal vault can withdraw  *)
(* them, the dust included.                                                *)
(***************************************************************************)
TerminalProvidersCanExit ==
    vaultTerminal =>
      \A a \in Accounts :
        shares[a] > 0 => WithdrawAmount(shares[a]) <= marketExposure[Market]

(***************************************************************************)
(* Same promise, for the dust itself: once nothing is left to redeem or to *)
(* withdraw, none of it is left behind in the vault.                       *)
(***************************************************************************)
DustReachesProviders ==
    (voidDustReleased /\ totalShares = 0) => usdc[Vault] = 0

(***************************************************************************)
(* Without the gateway and with the safe paused for good, a funded market  *)
(* that has closed reaches a point where its token holders are owed        *)
(* nothing more, or only as much as was sent to the contracts directly and *)
(* was paid to the providers before them.                                  *)
(***************************************************************************)
HoldersArePaid ==
    (status = "ACTIVE") ~>
      /\ status = "TERMINAL"
      /\ LET owed == SumFunction([a \in Accounts |-> OwedToHolder(a)])
         IN  owed = 0 \/ (marketExposure[Market] = 0 /\ owed <= Given)

(***************************************************************************)
(* And the providers' money comes back: funding that missed its target     *)
(* through withdrawFailedFunding, the rest when the market is terminal, a  *)
(* VOID market's too.  What stops them is a vault that holds more than the *)
(* exposure left, and only released VOID dust and direct transfers bring   *)
(* that about: then one last share can stay, or less than twice that       *)
(* difference.                                                             *)
(***************************************************************************)
LiquidityComesBack ==
    (totalShares > 0) ~>
      \/ ~activated /\ usdc[Vault] = given[Vault]
      \/ vaultTerminal /\ \A a \in Accounts : OwedToProvider(a) = 0
      \/ vaultTerminal /\ Unrecorded > 0 /\ (voidDustReleased \/ Given > 0)
           /\ (totalShares = 1 \/ usdc[Vault] < 2 * Unrecorded)

(***************************************************************************)
(* Both, with the safe paused and the gateway silent: whoever put money in *)
(* gets it out, but for the remainders named above.                        *)
(***************************************************************************)
EverybodyGetsOut == HoldersArePaid /\ LiquidityComesBack
=============================================================================
