-------------------------- MODULE SharedContracts --------------------------
(***************************************************************************)
(* The two contracts that all markets and vaults of a deployment call.     *)
(*                                                                         *)
(* RiskManager.sol is an exposure ledger: entries reserve exposure against *)
(* a cap per market and a cap for the system; exits release it.  A call    *)
(* that reverts is an operator that is not enabled: the transaction it     *)
(* belongs to, which is the action that conjoins the operator, then does   *)
(* not happen.                                                             *)
(*                                                                         *)
(* FeeRouter.sol splits fees over a table of USDC balances.  A route is a  *)
(* function from balances to balances, so that an action can chain it with *)
(* the other transfers of its transaction; the router keeps nothing.       *)
(***************************************************************************)
EXTENDS Integers, FiniteSets, Functions

CONSTANTS Markets,      \* addresses under which exposure is recorded
          MARKET_CAP,   \* the most exposure one market may hold
          SYSTEM_CAP,   \* the most exposure all markets together may hold
          Treasury,     \* Genetia's treasury address
          CREATOR_DIV   \* the creator's part of a fee is fee \div CREATOR_DIV

ASSUME CapAssumption == MARKET_CAP \in Nat /\ SYSTEM_CAP \in Nat
ASSUME CreatorDivAssumption == CREATOR_DIV \in Nat \ {0}
ASSUME MarketsAssumption == IsFiniteSet(Markets)

VARIABLES paused,          \* set by the safe: no new exposure
          marketExposure,  \* exposure recorded for each market
          systemExposure   \* exposure recorded for all of them

riskVars == <<paused, marketExposure, systemExposure>>

RiskTypeOK ==
    /\ paused \in BOOLEAN
    /\ marketExposure \in [Markets -> 0 .. MARKET_CAP]
    /\ systemExposure \in 0 .. SYSTEM_CAP

RiskInit ==
    /\ paused = FALSE
    /\ marketExposure = [m \in Markets |-> 0]
    /\ systemExposure = 0

\* Mutant: the cap of the market is forgotten.
ReserveExposure_NoMarketCap(m, amount) ==
    /\ ~paused /\ amount > 0
    /\ systemExposure + amount <= SYSTEM_CAP
    /\ marketExposure' = [marketExposure EXCEPT ![m] = @ + amount]
    /\ systemExposure' = systemExposure + amount
    /\ UNCHANGED paused

ReserveExposure(m, amount) ==
    /\ ~paused
    /\ amount > 0
    /\ marketExposure[m] + amount <= MARKET_CAP
    /\ systemExposure + amount <= SYSTEM_CAP
    /\ marketExposure' = [marketExposure EXCEPT ![m] = @ + amount]
    /\ systemExposure' = systemExposure + amount
    /\ UNCHANGED paused

\* Mutants: the system's total is not reduced; exits stop with the entries.
ReleaseExposure_MarketOnly(m, amount) ==
    /\ amount <= marketExposure[m]
    /\ marketExposure' = [marketExposure EXCEPT ![m] = @ - amount]
    /\ UNCHANGED <<systemExposure, paused>>

ReleaseExposure_WhenUnpaused(m, amount) ==
    /\ ~paused
    /\ amount <= marketExposure[m] /\ amount <= systemExposure
    /\ marketExposure' = [marketExposure EXCEPT ![m] = @ - amount]
    /\ systemExposure' = systemExposure - amount
    /\ UNCHANGED paused

ReleaseExposure(m, amount) ==
    /\ amount <= marketExposure[m]    \* else ExposureAccountingInvariant
    /\ marketExposure' = [marketExposure EXCEPT ![m] = @ - amount]
    /\ amount <= systemExposure       \* checked subtraction
    /\ systemExposure' = systemExposure - amount
    /\ UNCHANGED paused

SetPaused(value) ==
    /\ paused' = value
    /\ UNCHANGED <<marketExposure, systemExposure>>

(***************************************************************************)
(* The two levels of the ledger agree: what the system holds is what its   *)
(* markets hold.  A release that missed one of them would eat the system's *)
(* capacity for ever.                                                      *)
(***************************************************************************)
SystemExposureIsSum == systemExposure = SumFunction(marketExposure)

-----------------------------------------------------------------------------
(* IERC20.transfer: the token moves the amount or the call reverts.        *)
Transfer(balances, from, to, amount) ==
    [[balances EXCEPT ![from] = @ - amount] EXCEPT ![to] = @ + amount]

RoutePool(balances, market, creator, fee) ==
    LET creatorAmount == fee \div CREATOR_DIV
    IN  Transfer(Transfer(balances, market, creator, creatorAmount),
                 market, Treasury, fee - creatorAmount)

\* Mutants: the vault and the treasury get each other's part; the treasury
\* gets a rounded part and not the remainder.
RouteLMSR_SwappedParts(balances, market, vault, creator, fee) ==
    LET creatorAmount == fee \div CREATOR_DIV
        rest          == fee - fee \div 2 - creatorAmount
    IN  Transfer(Transfer(Transfer(balances, market, vault, rest), market, creator, creatorAmount),
                 market, Treasury, fee \div 2)

RouteLMSR_RoundedTreasury(balances, market, vault, creator, fee) ==
    LET part == fee \div CREATOR_DIV
    IN  Transfer(Transfer(Transfer(balances, market, vault, fee \div 2), market, creator, part),
                 market, Treasury, part)

RouteLMSR(balances, market, vault, creator, fee) ==
    LET lpAmount      == fee \div 2
        creatorAmount == fee \div CREATOR_DIV
        toVault       == Transfer(balances, market, vault, lpAmount)
        toCreator     == Transfer(toVault, market, creator, creatorAmount)
    IN  Transfer(toCreator, market, Treasury, fee - lpAmount - creatorAmount)

RouteDust(balances, market, amount) == Transfer(balances, market, Treasury, amount)
=============================================================================
