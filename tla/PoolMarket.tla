----------------------------- MODULE PoolMarket -----------------------------
(***************************************************************************)
(* PoolMarket.sol with the RiskManager and the FeeRouter it calls: the     *)
(* parimutuel markets of one deployment, which share one exposure ledger.  *)
(* Traders stake USDC on a side until the market closes; the gateway       *)
(* settles it or, after the terminal deadline, anyone expires it to VOID;  *)
(* receipts are then claimed and the rounding dust goes to the treasury.   *)
(*                                                                         *)
(* Each action is one transaction.  The gateway's own checks are in module *)
(* Resolution: here it may settle with any outcome the market accepts.     *)
(* USDC is an ordinary token: anyone may also send it to a market without  *)
(* staking, and releaseDust reads the balance.                             *)
(***************************************************************************)
EXTENDS SharedContracts

CONSTANTS Accounts,                \* traders
          CreatorOf,               \* the creator of each market, a trader as any other
          Amounts,                 \* stakes a trader may try
          WEALTH,                  \* USDC each trader starts with
          FEE_BPS, BPS,            \* the fee is total * FEE_BPS \div BPS
          CLOSE, AVAILABLE,        \* closeTime and resolutionAvailableTime of each market
          VOID_WINDOW,             \* 96 hours
          MAX_GIVEN,               \* bound: USDC sent to markets without a stake
          MAX_TIME                 \* bound: the clock stops here

TerminalDeadline(m) == AVAILABLE[m] + VOID_WINDOW

ASSUME PoolAssumption ==
    /\ Amounts \subseteq Nat
    /\ WEALTH \in Nat
    /\ FEE_BPS \in Nat /\ BPS \in Nat \ {0} /\ FEE_BPS <= BPS
    /\ MAX_TIME \in Nat /\ VOID_WINDOW \in Nat /\ MAX_GIVEN \in Nat
    /\ CLOSE \in [Markets -> Nat] /\ AVAILABLE \in [Markets -> Nat]
    /\ \A m \in Markets : 0 < CLOSE[m] /\ CLOSE[m] <= AVAILABLE[m]

ASSUME HolderAssumption ==
    /\ CreatorOf \in [Markets -> Accounts]
    /\ Markets \cap (Accounts \cup {Treasury}) = {}
    /\ Treasury \notin Accounts
    /\ IsFiniteSet(Accounts)

Outcomes == {"YES", "NO", "VOID"}
Holders  == Markets \cup Accounts \cup {Treasury}

VARIABLES now,                     \* block.timestamp
          usdc,                    \* the token's balances
          given,                   \* history: what was sent to each market directly
          yesReceipts, noReceipts, \* stake of each account in each market
          yesTotal, noTotal,
          terminal, outcome, collectedFee,
          claimed, winningReceiptsClaimed, totalPaid

marketVars == <<yesReceipts, noReceipts, yesTotal, noTotal, terminal, outcome,
                collectedFee, claimed, winningReceiptsClaimed, totalPaid>>
vars == <<now, usdc, given, marketVars, riskVars>>

TypeOK ==
    /\ RiskTypeOK
    /\ now \in 0 .. MAX_TIME
    /\ usdc \in [Holders -> Nat]
    /\ given \in [Markets -> Nat]
    /\ yesReceipts \in [Markets -> [Accounts -> Nat]]
    /\ noReceipts \in [Markets -> [Accounts -> Nat]]
    /\ yesTotal \in [Markets -> Nat] /\ noTotal \in [Markets -> Nat]
    /\ terminal \in [Markets -> BOOLEAN]
    /\ outcome \in [Markets -> Outcomes]
    /\ collectedFee \in [Markets -> Nat]
    /\ claimed \in [Markets -> [Accounts -> BOOLEAN]]
    /\ winningReceiptsClaimed \in [Markets -> Nat]
    /\ totalPaid \in [Markets -> Nat]

Init ==
    /\ RiskInit
    /\ now = 0
    /\ usdc = [h \in Holders |-> IF h \in Accounts THEN WEALTH ELSE 0]
    /\ given = [m \in Markets |-> 0]
    /\ yesReceipts = [m \in Markets |-> [a \in Accounts |-> 0]]
    /\ noReceipts  = [m \in Markets |-> [a \in Accounts |-> 0]]
    /\ yesTotal = [m \in Markets |-> 0] /\ noTotal = [m \in Markets |-> 0]
    /\ terminal = [m \in Markets |-> FALSE]
    /\ outcome  = [m \in Markets |-> "YES"]    \* the enum's zero value
    /\ collectedFee = [m \in Markets |-> 0]
    /\ claimed = [m \in Markets |-> [a \in Accounts |-> FALSE]]
    /\ winningReceiptsClaimed = [m \in Markets |-> 0]
    /\ totalPaid = [m \in Markets |-> 0]

-----------------------------------------------------------------------------
(* What the code computes from the storage of a market.                    *)

Total(m)         == yesTotal[m] + noTotal[m]
WinningTotal(m)  == IF outcome[m] = "YES" THEN yesTotal[m] ELSE noTotal[m]
WinnerReceipt(m, a) ==
    IF outcome[m] = "YES" THEN yesReceipts[m][a] ELSE noReceipts[m][a]

\* Mutants of claimable: the fee is paid out again; the losing side is not
\* shared out; VOID returns one side only.
Payout_Gross(m, a) ==
    IF outcome[m] = "VOID" THEN yesReceipts[m][a] + noReceipts[m][a]
    ELSE (WinnerReceipt(m, a) * Total(m)) \div WinningTotal(m)

Payout_WinningSideOnly(m, a) ==
    IF outcome[m] = "VOID" THEN yesReceipts[m][a] + noReceipts[m][a]
    ELSE (WinnerReceipt(m, a) * (WinningTotal(m) - collectedFee[m])) \div WinningTotal(m)

Payout_VoidOneSide(m, a) ==
    IF outcome[m] = "VOID" THEN yesReceipts[m][a]
    ELSE (WinnerReceipt(m, a) * (Total(m) - collectedFee[m])) \div WinningTotal(m)

Payout(m, a) ==
    IF outcome[m] = "VOID"
      THEN yesReceipts[m][a] + noReceipts[m][a]
      ELSE (WinnerReceipt(m, a) * (Total(m) - collectedFee[m])) \div WinningTotal(m)

Claimable(m, a) == IF ~terminal[m] \/ claimed[m][a] THEN 0 ELSE Payout(m, a)

Fee(m) == (Total(m) * FEE_BPS) \div BPS

(* settle turns a result on a one-sided market into VOID.                  *)
FinalOutcome(m, result) ==
    IF yesTotal[m] = 0 \/ noTotal[m] = 0 THEN "VOID" ELSE result

-----------------------------------------------------------------------------
Stake(m, a, yes, amount) ==
    /\ ~terminal[m] /\ now < CLOSE[m] /\ amount > 0
    /\ ReserveExposure(m, amount)
    /\ amount <= usdc[a]
    /\ usdc' = Transfer(usdc, a, m, amount)
    /\ IF yes
         THEN /\ yesReceipts' = [yesReceipts EXCEPT ![m][a] = @ + amount]
              /\ yesTotal' = [yesTotal EXCEPT ![m] = @ + amount]
              /\ UNCHANGED <<noReceipts, noTotal>>
         ELSE /\ noReceipts' = [noReceipts EXCEPT ![m][a] = @ + amount]
              /\ noTotal' = [noTotal EXCEPT ![m] = @ + amount]
              /\ UNCHANGED <<yesReceipts, yesTotal>>
    /\ UNCHANGED <<now, given, terminal, outcome, collectedFee, claimed,
                   winningReceiptsClaimed, totalPaid>>

Settle(m, result) ==
    /\ ~terminal[m] /\ now >= AVAILABLE[m]
    /\ terminal' = [terminal EXCEPT ![m] = TRUE]
    /\ outcome' = [outcome EXCEPT ![m] = FinalOutcome(m, result)]
    /\ IF FinalOutcome(m, result) = "VOID"
         THEN UNCHANGED <<collectedFee, usdc, riskVars>>
         ELSE /\ collectedFee' = [collectedFee EXCEPT ![m] = Fee(m)]
              /\ Fee(m) <= usdc[m]
              /\ usdc' = RoutePool(usdc, m, CreatorOf[m], Fee(m))
              /\ ReleaseExposure(m, Fee(m))
    /\ UNCHANGED <<now, given, yesReceipts, noReceipts, yesTotal, noTotal, claimed,
                   winningReceiptsClaimed, totalPaid>>

ExpireToVoid(m) ==
    /\ ~terminal[m] /\ now >= TerminalDeadline(m)
    /\ terminal' = [terminal EXCEPT ![m] = TRUE]
    /\ outcome' = [outcome EXCEPT ![m] = "VOID"]
    /\ UNCHANGED <<now, usdc, given, riskVars, yesReceipts, noReceipts, yesTotal, noTotal,
                   collectedFee, claimed, winningReceiptsClaimed, totalPaid>>

Claim(m, a) ==
    LET amount == Claimable(m, a)
    IN  /\ terminal[m] /\ ~claimed[m][a]
        /\ claimed' = [claimed EXCEPT ![m][a] = TRUE]
        /\ totalPaid' = [totalPaid EXCEPT ![m] = @ + amount]
        /\ winningReceiptsClaimed' =
             IF outcome[m] = "VOID" THEN winningReceiptsClaimed
             ELSE [winningReceiptsClaimed EXCEPT ![m] = @ + WinnerReceipt(m, a)]
        /\ IF amount > 0
             THEN /\ ReleaseExposure(m, amount)
                  /\ amount <= usdc[m]
                  /\ usdc' = Transfer(usdc, m, a, amount)
             ELSE UNCHANGED <<riskVars, usdc>>
        /\ UNCHANGED <<now, given, yesReceipts, noReceipts, yesTotal, noTotal, terminal,
                       outcome, collectedFee>>

(* Callable by anyone, again and again; once the dust is gone it is a no-op. *)
(* It takes the whole balance for dust, and reverts when that is more than   *)
(* the exposure on record: after anything was sent to the market directly.   *)
\* Mutant: the dust leaves without its exposure.
ReleaseDust_KeepsExposure(m) ==
    /\ terminal[m] /\ outcome[m] # "VOID"
    /\ winningReceiptsClaimed[m] = WinningTotal(m)
    /\ usdc[m] > 0
    /\ usdc' = RouteDust(usdc, m, usdc[m])
    /\ UNCHANGED <<now, given, marketVars, riskVars>>

ReleaseDust(m) ==
    /\ terminal[m] /\ outcome[m] # "VOID"
    /\ winningReceiptsClaimed[m] = WinningTotal(m)
    /\ usdc[m] > 0
    /\ ReleaseExposure(m, usdc[m])
    /\ usdc' = RouteDust(usdc, m, usdc[m])
    /\ UNCHANGED <<now, given, marketVars>>

(* The safe's switch.  Unpausing is never promised, so no fairness. *)
Pause(value) ==
    /\ paused # value
    /\ SetPaused(value)
    /\ UNCHANGED <<now, usdc, given, marketVars>>

(* Somebody transfers USDC to a market, at any time, without calling it.  It *)
(* is money from outside: a trader who does it is a trader and a donor.      *)
Give(m, amount) ==
    /\ SumFunction(given) + amount <= MAX_GIVEN
    /\ usdc' = [usdc EXCEPT ![m] = @ + amount]
    /\ given' = [given EXCEPT ![m] = @ + amount]
    /\ UNCHANGED <<now, marketVars, riskVars>>

Tick ==
    /\ now < MAX_TIME
    /\ now' = now + 1
    /\ UNCHANGED <<usdc, given, marketVars, riskVars>>

Next ==
    \/ \E m \in Markets, a \in Accounts, yes \in BOOLEAN, amount \in Amounts :
         Stake(m, a, yes, amount)
    \/ \E m \in Markets, result \in Outcomes : Settle(m, result)
    \/ \E m \in Markets : ExpireToVoid(m)
    \/ \E m \in Markets, a \in Accounts : Claim(m, a)
    \/ \E m \in Markets : ReleaseDust(m)
    \/ \E value \in BOOLEAN : Pause(value)
    \/ \E m \in Markets, amount \in 1 .. MAX_GIVEN : Give(m, amount)
    \/ Tick

Spec == Init /\ [][Next]_vars

(***************************************************************************)
(* Blocks keep coming, and the exits are open to anyone who wants them:    *)
(* each holder claims, somebody expires a market past its deadline and     *)
(* somebody sweeps the dust.  Nothing is assumed of the gateway (it may    *)
(* never settle) nor of the safe (it may stay paused).                     *)
(***************************************************************************)
Fairness ==
    /\ WF_vars(Tick)
    /\ \A m \in Markets :
         /\ WF_vars(ExpireToVoid(m))
         /\ WF_vars(ReleaseDust(m))
         /\ \A a \in Accounts : WF_vars(Claim(m, a))

FairSpec == Spec /\ Fairness
-----------------------------------------------------------------------------
Winners(m) == {a \in Accounts : WinnerReceipt(m, a) > 0}

(* What the unclaimed receipts of a terminal market are still worth.       *)
Outstanding(m) == SumFunction([a \in Accounts |-> Claimable(m, a)])

(* What a market holds of stakes, fees and dust: its balance without gifts. *)
Own(m) == usdc[m] - given[m]

(***************************************************************************)
(* Every unit of USDC a market has from its traders is recorded as its     *)
(* exposure and the other way round, through stakes, the fee, claims and   *)
(* dust; what is beyond it was sent there directly, unit for unit.  Less   *)
(* exposure than that and the last claims revert in releaseExposure; more, *)
(* and the market's cap is never given back.                               *)
(***************************************************************************)
ExposureMatchesBalance == \A m \in Markets : marketExposure[m] = Own(m)

(***************************************************************************)
(* Whatever the order of claims, sweeps and gifts, a terminal market has   *)
(* the money, and the exposure on record, for all that is left to claim:   *)
(* claim reverts neither in the transfer nor in releaseExposure.           *)
(***************************************************************************)
ClaimsAreCovered ==
    \A m \in Markets :
      terminal[m] => Outstanding(m) <= Own(m) /\ Outstanding(m) <= marketExposure[m]

(***************************************************************************)
(* releaseDust "sends only mathematically unallocatable rounding dust":    *)
(* when it becomes callable, less than one unit per winner is left of the  *)
(* stakes, and it sends nothing else (with a gift on top it reverts).      *)
(***************************************************************************)
DustIsRoundingOnly ==
    \A m \in Markets :
      (terminal[m] /\ outcome[m] # "VOID" /\ winningReceiptsClaimed[m] = WinningTotal(m))
        => Own(m) < Cardinality(Winners(m))

(***************************************************************************)
(* A VOID market gives back every stake, on both sides, to the unit: once  *)
(* all markets are VOID and claimed, everyone has what they started with.  *)
(***************************************************************************)
VoidRestoresWallets ==
    (\A m \in Markets : terminal[m] /\ outcome[m] = "VOID" /\ \A a \in Accounts : claimed[m][a])
      => \A a \in Accounts : usdc[a] = WEALTH

(***************************************************************************)
(* All of it together, and the risk manager's total: whatever is claimed,  *)
(* swept or voided in whatever order, payouts are exact and accounted for. *)
(***************************************************************************)
PayoutsAreExact ==
    SystemExposureIsSum /\ ClaimsAreCovered /\ DustIsRoundingOnly /\ VoidRestoresWallets

(***************************************************************************)
(* No stake stays in a market for ever: with no settlement and with the    *)
(* risk manager paused for good, expiry and the exits still empty it.  One *)
(* thing can stay: a market that was sent USDC directly keeps that and its *)
(* rounding dust, less than a unit per winner, when everybody has claimed, *)
(* because releaseDust reverts from then on.                               *)
(***************************************************************************)
DustIsStuck(m) ==
    /\ given[m] > 0
    /\ terminal[m] /\ outcome[m] # "VOID" /\ Outstanding(m) = 0
    /\ marketExposure[m] < Cardinality(Winners(m))

MarketsEmptyOut ==
    \A m \in Markets : (marketExposure[m] > 0) ~> (marketExposure[m] = 0 \/ DustIsStuck(m))
=============================================================================
