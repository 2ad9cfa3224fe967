-------------------------- MODULE PoolMarketProofs --------------------------
(***************************************************************************)
(* PoolMarket, for any set of markets and accounts, any caps, fee and      *)
(* times: its variables stay in their types, no market's exposure leaves   *)
(* its cap, and the exposure ledger always equals the token balances, less *)
(* what was sent to the markets directly.                                  *)
(***************************************************************************)
EXTENDS PoolMarket, FiniteSums, TLAPS

USE CapAssumption, CreatorDivAssumption, PoolAssumption, HolderAssumption

(* A transfer between two holders that the payer can afford.               *)
LEMMA TransferType ==
    ASSUME NEW b \in [Holders -> Nat], NEW from \in Holders, NEW to \in Holders,
           NEW amount \in Nat, from # to, amount <= b[from]
    PROVE  /\ Transfer(b, from, to, amount) \in [Holders -> Nat]
           /\ Transfer(b, from, to, amount)[from] = b[from] - amount
           /\ Transfer(b, from, to, amount)[to] = b[to] + amount
           /\ \A h \in Holders \ {from, to} : Transfer(b, from, to, amount)[h] = b[h]
BY DEF Transfer

(* Routing a fee the market can afford takes exactly the fee from it and   *)
(* touches no other market.                                                *)
LEMMA RoutePoolType ==
    ASSUME NEW b \in [Holders -> Nat], NEW m \in Markets,
           NEW fee \in Nat, fee <= b[m]
    PROVE  /\ RoutePool(b, m, CreatorOf[m], fee) \in [Holders -> Nat]
           /\ RoutePool(b, m, CreatorOf[m], fee)[m] = b[m] - fee
           /\ \A n \in Markets \ {m} : RoutePool(b, m, CreatorOf[m], fee)[n] = b[n]
<1> DEFINE part == fee \div CREATOR_DIV
           b1 == Transfer(b, m, CreatorOf[m], part)
           b2 == Transfer(b1, m, Treasury, fee - part)
<1>1. part \in Nat /\ part <= fee
  <2>1. fee * 1 = fee
    OBVIOUS
  <2>2. 1 <= CREATOR_DIV
    OBVIOUS
  <2>3. QED BY <2>1, <2>2, ShareBound
<1>2. /\ m \in Holders /\ CreatorOf[m] \in Holders /\ Treasury \in Holders
      /\ m # CreatorOf[m] /\ m # Treasury
  BY DEF Holders
<1> HIDE DEF part
<1>3. /\ b1 \in [Holders -> Nat] /\ b1[m] = b[m] - part
      /\ \A h \in Holders \ {m, CreatorOf[m]} : b1[h] = b[h]
  BY <1>1, <1>2, TransferType
<1> HIDE DEF b1
<1>4. fee - part \in Nat /\ fee - part <= b1[m]
  BY <1>1, <1>2, <1>3
<1>5. /\ b2 \in [Holders -> Nat] /\ b2[m] = b1[m] - (fee - part)
      /\ \A h \in Holders \ {m, Treasury} : b2[h] = b1[h]
  BY <1>2, <1>3, <1>4, TransferType
<1>6. b2[m] = b[m] - fee
  BY <1>1, <1>2, <1>3, <1>5
<1>7. \A n \in Markets \ {m} : b2[n] = b[n]
  BY <1>2, <1>3, <1>5 DEF Holders
<1>8. RoutePool(b, m, CreatorOf[m], fee) = b2
  BY DEF RoutePool, b1, part
<1>9. QED BY <1>5, <1>6, <1>7, <1>8

-----------------------------------------------------------------------------
(* A market settled on a side has stakes on both, so payouts never divide  *)
(* by zero; and it never charges more than it holds.                       *)
SettledTwoSided ==
    \A m \in Markets : terminal[m] /\ outcome[m] # "VOID" => yesTotal[m] > 0 /\ noTotal[m] > 0

FeeWithinTotal == \A m \in Markets : collectedFee[m] <= Total(m)

(* The inductive invariant of balances and exposure.                        *)
IInv == TypeOK /\ SettledTwoSided /\ FeeWithinTotal /\ ExposureMatchesBalance

(* It holds at deployment.                                                  *)
LEMMA InitIInv == Init => IInv
<1> SUFFICES ASSUME Init PROVE IInv
  OBVIOUS
<1>1. RiskTypeOK
  <2>1. paused \in BOOLEAN
    BY DEF Init, RiskInit
  <2>2. marketExposure \in [Markets -> 0 .. MARKET_CAP] /\ systemExposure \in 0 .. SYSTEM_CAP
    BY DEF Init, RiskInit
  <2>3. QED BY <2>1, <2>2 DEF RiskTypeOK
<1>2. usdc \in [Holders -> Nat]
  BY DEF Init
<1>3. ExposureMatchesBalance
  <2>1. \A m \in Markets : m \in Holders /\ m \notin Accounts
    BY DEF Holders
  <2>2. QED BY <2>1 DEF Init, RiskInit, ExposureMatchesBalance, Own
<1>4. TypeOK
  BY <1>1, <1>2 DEF Init, TypeOK, Outcomes
<1>5. SettledTwoSided /\ FeeWithinTotal
  BY DEF Init, SettledTwoSided, FeeWithinTotal, Total
<1>6. QED BY <1>3, <1>4, <1>5 DEF IInv

(* What a claim pays is a natural number.                                  *)
LEMMA ClaimableType ==
    ASSUME TypeOK, SettledTwoSided, FeeWithinTotal,
           NEW m \in Markets, NEW a \in Accounts
    PROVE  Claimable(m, a) \in Nat
<1>1. CASE ~terminal[m] \/ claimed[m][a]
  BY <1>1 DEF Claimable
<1>2. CASE terminal[m] /\ ~claimed[m][a] /\ outcome[m] = "VOID"
  BY <1>2 DEF Claimable, Payout, TypeOK
<1>3. CASE terminal[m] /\ ~claimed[m][a] /\ outcome[m] # "VOID"
  <2> DEFINE net == Total(m) - collectedFee[m]
             num == WinnerReceipt(m, a) * net
  <2>1. WinningTotal(m) \in Nat \ {0}
    BY <1>3 DEF WinningTotal, TypeOK, SettledTwoSided
  <2>2. WinnerReceipt(m, a) \in Nat /\ net \in Nat
    BY DEF WinnerReceipt, TypeOK, FeeWithinTotal, Total
  <2>3. num \in Nat
    BY <2>2, Z3
  <2> HIDE DEF num
  <2>4. num \div WinningTotal(m) \in Nat
    BY <2>1, <2>3, Z3
  <2>5. QED BY <1>3, <2>4 DEF Claimable, Payout, num
<1>4. QED BY <1>1, <1>2, <1>3 DEF TypeOK

(* A market that pays out what it releases stays level with its exposure.   *)
LEMMA ReleaseLevel ==
    ASSUME TypeOK, ExposureMatchesBalance, NEW m \in Markets, NEW amount \in Nat,
           ReleaseExposure(m, amount), given' = given,
           usdc'[m] = usdc[m] - amount,
           \A n \in Markets \ {m} : usdc'[n] = usdc[n]
    PROVE  RiskTypeOK' /\ ExposureMatchesBalance'
<1>1. /\ marketExposure \in [Markets -> 0 .. MARKET_CAP] /\ systemExposure \in 0 .. SYSTEM_CAP
      /\ paused \in BOOLEAN
  BY DEF TypeOK, RiskTypeOK
<1>2. /\ marketExposure' = [marketExposure EXCEPT ![m] = @ - amount]
      /\ systemExposure' = systemExposure - amount /\ paused' = paused
      /\ amount <= marketExposure[m] /\ amount <= systemExposure
  BY DEF ReleaseExposure
<1>3. RiskTypeOK'
  BY <1>1, <1>2 DEF RiskTypeOK
<1>4. \A n \in Markets : usdc[n] \in Nat /\ given[n] \in Nat
  BY DEF TypeOK, Holders
<1>5. ExposureMatchesBalance'
  BY <1>1, <1>2, <1>4 DEF ExposureMatchesBalance, Own
<1>6. QED BY <1>3, <1>5

(* It is kept by every function of the market, the switch, a gift and the   *)
(* clock.                                                                   *)
LEMMA NextIInv == IInv /\ [Next]_vars => IInv'
<1> SUFFICES ASSUME IInv, [Next]_vars PROVE IInv'
  OBVIOUS
<1> USE DEF IInv
<1>1. ASSUME NEW m \in Markets, NEW a \in Accounts, NEW yes \in BOOLEAN,
             NEW amount \in Amounts, Stake(m, a, yes, amount)
      PROVE  IInv'
  <2>1. /\ amount \in Nat /\ a \in Holders /\ m \in Holders /\ a # m
        /\ Markets \ {m} \subseteq Holders \ {a, m}
    BY DEF Holders
  <2>0. /\ yesTotal' \in [Markets -> Nat] /\ noTotal' \in [Markets -> Nat]
        /\ \A n \in Markets : yesTotal'[n] >= yesTotal[n] /\ noTotal'[n] >= noTotal[n]
    <3>1. yesTotal \in [Markets -> Nat] /\ noTotal \in [Markets -> Nat] /\ amount \in Nat
      BY <2>1 DEF TypeOK
    <3>2. \/ yesTotal' = [yesTotal EXCEPT ![m] = @ + amount] /\ noTotal' = noTotal
          \/ noTotal' = [noTotal EXCEPT ![m] = @ + amount] /\ yesTotal' = yesTotal
      BY <1>1 DEF Stake
    <3>3. QED BY <3>1, <3>2
  <2>2. /\ usdc' \in [Holders -> Nat]
        /\ usdc'[m] = usdc[m] + amount
        /\ \A n \in Markets \ {m} : usdc'[n] = usdc[n]
    <3>1. usdc' = Transfer(usdc, a, m, amount) /\ amount <= usdc[a] /\ usdc \in [Holders -> Nat]
      BY <1>1 DEF Stake, TypeOK
    <3>2. QED BY <2>1, <3>1, TransferType
  <2>3. RiskTypeOK'
    BY <1>1, <2>1 DEF Stake, ReserveExposure, TypeOK, RiskTypeOK
  <2>4. TypeOK'
    <3>1. /\ yesReceipts' \in [Markets -> [Accounts -> Nat]]
          /\ noReceipts' \in [Markets -> [Accounts -> Nat]]
      <4>1. /\ yesReceipts[m] \in [Accounts -> Nat] /\ noReceipts[m] \in [Accounts -> Nat]
            /\ yesReceipts[m][a] + amount \in Nat /\ noReceipts[m][a] + amount \in Nat
        BY <2>1 DEF TypeOK
      <4>2. /\ yesReceipts \in [Markets -> [Accounts -> Nat]]
            /\ noReceipts \in [Markets -> [Accounts -> Nat]]
        BY DEF TypeOK
      <4>3. CASE yes
        <5>1. /\ yesReceipts' = [yesReceipts EXCEPT ![m][a] = yesReceipts[m][a] + amount]
              /\ noReceipts' = noReceipts
          BY <1>1, <4>3 DEF Stake
        <5>2. QED BY <4>1, <4>2, <5>1
      <4>4. CASE ~yes
        <5>1. /\ noReceipts' = [noReceipts EXCEPT ![m][a] = noReceipts[m][a] + amount]
              /\ yesReceipts' = yesReceipts
          BY <1>1, <4>4 DEF Stake
        <5>2. QED BY <4>1, <4>2, <5>1
      <4>5. QED BY <4>3, <4>4
    <3>2. yesTotal' \in [Markets -> Nat] /\ noTotal' \in [Markets -> Nat]
      BY <2>0
    <3>3. QED BY <1>1, <2>2, <2>3, <3>1, <3>2 DEF Stake, TypeOK
  <2>5. ExposureMatchesBalance'
    <3>1. ReserveExposure(m, amount) /\ given' = given
      BY <1>1 DEF Stake
    <3>2. \A n \in Markets : usdc[n] \in Nat /\ given[n] \in Nat /\ marketExposure[n] \in Nat
      BY DEF TypeOK, RiskTypeOK, Holders
    <3>3. marketExposure' = [marketExposure EXCEPT ![m] = @ + amount]
      BY <3>1 DEF ReserveExposure
    <3>4. marketExposure \in [Markets -> 0 .. MARKET_CAP]
      BY DEF TypeOK, RiskTypeOK
    <3>5. QED BY <2>1, <2>2, <3>1, <3>2, <3>3, <3>4 DEF ExposureMatchesBalance, Own
  <2>6. SettledTwoSided' /\ FeeWithinTotal'
    <3>1. \A n \in Markets : yesTotal'[n] >= yesTotal[n] /\ noTotal'[n] >= noTotal[n]
      BY <2>0
    <3>2. /\ yesTotal' \in [Markets -> Nat] /\ noTotal' \in [Markets -> Nat]
          /\ yesTotal \in [Markets -> Nat] /\ noTotal \in [Markets -> Nat]
          /\ collectedFee \in [Markets -> Nat]
      BY <2>4 DEF TypeOK
    <3>3. UNCHANGED <<terminal, outcome, collectedFee>>
      BY <1>1 DEF Stake
    <3>4. QED BY <3>1, <3>2, <3>3 DEF SettledTwoSided, FeeWithinTotal, Total
  <2>7. QED BY <2>4, <2>5, <2>6
<1>2. ASSUME NEW m \in Markets, NEW result \in Outcomes, Settle(m, result)
      PROVE  IInv'
  <2>0. FinalOutcome(m, result) \in Outcomes
    BY DEF FinalOutcome, Outcomes
  <2>1. CASE FinalOutcome(m, result) = "VOID"
    BY <1>2, <2>0, <2>1 DEF Settle, riskVars, TypeOK, RiskTypeOK, SettledTwoSided, FeeWithinTotal,
                      ExposureMatchesBalance, Own, Total, Outcomes
  <2>2. CASE FinalOutcome(m, result) # "VOID"
    <3>1. Fee(m) \in Nat /\ Fee(m) <= Total(m)
      BY ShareBound DEF Fee, Total, TypeOK
    <3>2. /\ usdc' \in [Holders -> Nat]
          /\ usdc'[m] = usdc[m] - Fee(m)
          /\ \A n \in Markets \ {m} : usdc'[n] = usdc[n]
      <4>1. /\ usdc' = RoutePool(usdc, m, CreatorOf[m], Fee(m))
            /\ Fee(m) <= usdc[m] /\ usdc \in [Holders -> Nat]
        BY <1>2, <2>2 DEF Settle, TypeOK
      <4>2. QED BY <3>1, <4>1, RoutePoolType
    <3>3. RiskTypeOK' /\ ExposureMatchesBalance'
      <4>1. ReleaseExposure(m, Fee(m)) /\ given' = given
        BY <1>2, <2>2 DEF Settle
      <4>2. QED BY <3>1, <3>2, <4>1, ReleaseLevel
    <3>4. TypeOK'
      <4>1. terminal' \in [Markets -> BOOLEAN]
        BY <1>2 DEF Settle, TypeOK
      <4>2. outcome' \in [Markets -> Outcomes]
        BY <1>2, <2>0 DEF Settle, TypeOK
      <4>3. collectedFee' \in [Markets -> Nat]
        <5>1. collectedFee' = [collectedFee EXCEPT ![m] = Fee(m)]
          BY <1>2, <2>2 DEF Settle
        <5>2. QED BY <3>1, <5>1 DEF TypeOK
      <4>4. QED BY <1>2, <3>2, <3>3, <4>1, <4>2, <4>3 DEF Settle, TypeOK
    <3>5. SettledTwoSided'
      BY <1>2, <2>2 DEF Settle, TypeOK, SettledTwoSided, FinalOutcome
    <3>6. FeeWithinTotal'
      BY <1>2, <2>2, <3>1 DEF Settle, TypeOK, FeeWithinTotal, Total
    <3>7. QED BY <3>3, <3>4, <3>5, <3>6
  <2>3. QED BY <2>1, <2>2
<1>3. ASSUME NEW m \in Markets, ExpireToVoid(m)
      PROVE  IInv'
  BY <1>3 DEF ExpireToVoid, riskVars, TypeOK, RiskTypeOK, SettledTwoSided, FeeWithinTotal,
              ExposureMatchesBalance, Own, Total, Outcomes
<1>4. ASSUME NEW m \in Markets, NEW a \in Accounts, Claim(m, a)
      PROVE  IInv'
  <2> DEFINE amount == Claimable(m, a)
  <2>1. /\ amount \in Nat /\ a \in Holders /\ m \in Holders /\ a # m
        /\ Markets \ {m} \subseteq Holders \ {a, m}
    BY ClaimableType DEF Holders
  <2>2. WinnerReceipt(m, a) \in Nat
    BY DEF WinnerReceipt, TypeOK
  <2>3. /\ usdc' \in [Holders -> Nat] /\ RiskTypeOK' /\ ExposureMatchesBalance'
    <3>1. CASE amount > 0
      <4>1. /\ usdc' = Transfer(usdc, m, a, amount) /\ amount <= usdc[m]
            /\ usdc \in [Holders -> Nat] /\ ReleaseExposure(m, amount)
        BY <1>4, <3>1 DEF Claim, TypeOK
      <4> HIDE DEF amount
      <4>2. /\ usdc' \in [Holders -> Nat] /\ usdc'[m] = usdc[m] - amount
            /\ \A n \in Markets \ {m} : usdc'[n] = usdc[n]
        BY <2>1, <4>1, TransferType
      <4>3. given' = given
        BY <1>4 DEF Claim
      <4>4. QED BY <2>1, <4>1, <4>2, <4>3, ReleaseLevel
    <3>2. CASE ~(amount > 0)
      BY <1>4, <3>2 DEF Claim, riskVars, TypeOK, RiskTypeOK, ExposureMatchesBalance, Own
    <3>3. QED BY <3>1, <3>2
  <2> HIDE DEF amount
  <2>4. TypeOK'
    <3>1. claimed' \in [Markets -> [Accounts -> BOOLEAN]]
      BY <1>4 DEF Claim, TypeOK
    <3>2. totalPaid' \in [Markets -> Nat]
      BY <1>4, <2>1 DEF Claim, TypeOK, amount
    <3>3. winningReceiptsClaimed' \in [Markets -> Nat]
      BY <1>4, <2>2 DEF Claim, TypeOK
    <3>4. QED BY <1>4, <2>3, <3>1, <3>2, <3>3 DEF Claim, TypeOK
  <2>5. SettledTwoSided' /\ FeeWithinTotal'
    BY <1>4 DEF Claim, TypeOK, SettledTwoSided, FeeWithinTotal, Total
  <2>6. QED BY <2>3, <2>4, <2>5
<1>5. ASSUME NEW m \in Markets, ReleaseDust(m)
      PROVE  IInv'
  <2>1. /\ usdc[m] \in Nat /\ m \in Holders /\ Treasury \in Holders /\ m # Treasury
        /\ Markets \ {m} \subseteq Holders \ {m, Treasury}
    BY DEF Holders, TypeOK
  <2>2. /\ usdc' \in [Holders -> Nat] /\ usdc'[m] = usdc[m] - usdc[m]
        /\ \A n \in Markets \ {m} : usdc'[n] = usdc[n]
    <3>1. usdc' = Transfer(usdc, m, Treasury, usdc[m]) /\ usdc \in [Holders -> Nat]
      BY <1>5 DEF ReleaseDust, RouteDust, TypeOK
    <3>2. QED BY <2>1, <3>1, TransferType
  <2>3. RiskTypeOK' /\ ExposureMatchesBalance'
    <3>1. ReleaseExposure(m, usdc[m]) /\ given' = given
      BY <1>5 DEF ReleaseDust
    <3>2. QED BY <2>1, <2>2, <3>1, ReleaseLevel
  <2>4. QED BY <1>5, <2>2, <2>3
        DEF ReleaseDust, marketVars, TypeOK, SettledTwoSided, FeeWithinTotal, Total
<1>6. ASSUME NEW value \in BOOLEAN, Pause(value)
      PROVE  IInv'
  BY <1>6 DEF Pause, SetPaused, marketVars, TypeOK, RiskTypeOK, SettledTwoSided, FeeWithinTotal,
              ExposureMatchesBalance, Own, Total
<1>7. CASE Tick
  BY <1>7 DEF Tick, riskVars, marketVars, TypeOK, RiskTypeOK, SettledTwoSided, FeeWithinTotal,
              ExposureMatchesBalance, Own, Total
<1>8. ASSUME NEW m \in Markets, NEW amount \in 1 .. MAX_GIVEN, Give(m, amount)
      PROVE  IInv'
  <2>1. /\ usdc' \in [Holders -> Nat] /\ given' \in [Markets -> Nat]
        /\ usdc'[m] = usdc[m] + amount /\ given'[m] = given[m] + amount
        /\ \A n \in Markets \ {m} : usdc'[n] = usdc[n] /\ given'[n] = given[n]
    BY <1>8 DEF Give, TypeOK, Holders
  <2>2. ExposureMatchesBalance'
    <3>1. \A n \in Markets : n \in Holders /\ usdc[n] \in Nat /\ given[n] \in Nat
      BY DEF Holders, TypeOK
    <3>2. UNCHANGED riskVars
      BY <1>8 DEF Give
    <3>3. QED BY <2>1, <3>1, <3>2 DEF riskVars, ExposureMatchesBalance, Own
  <2>3. QED BY <1>8, <2>1, <2>2 DEF Give, riskVars, marketVars, TypeOK, RiskTypeOK,
                                   SettledTwoSided, FeeWithinTotal, Total
<1>9. CASE UNCHANGED vars
  BY <1>9 DEF vars, riskVars, marketVars, TypeOK, RiskTypeOK, SettledTwoSided, FeeWithinTotal,
              ExposureMatchesBalance, Own, Total
<1>10. QED BY <1>1, <1>2, <1>3, <1>4, <1>5, <1>6, <1>7, <1>8, <1>9 DEF Next

(* So it holds in every reachable state.                                    *)
LEMMA IInvHolds == Spec => []IInv
BY InitIInv, NextIInv, PTL DEF Spec

(***************************************************************************)
(* For every deployment, the variables keep their types; in particular no  *)
(* market's exposure passes MARKET_CAP, nor the system's SYSTEM_CAP.       *)
(***************************************************************************)
THEOREM TypeCorrect == Spec => []TypeOK
<1>1. IInv => TypeOK
  BY DEF IInv
<1>2. QED BY <1>1, IInvHolds, PTL

(***************************************************************************)
(* For every deployment, each market's exposure in RiskManager is, after   *)
(* every transaction, its USDC balance without what was sent to it         *)
(* directly: no gift frees exposure, takes any up or hides a missing unit. *)
(***************************************************************************)
THEOREM ExposureIsBalance == Spec => []ExposureMatchesBalance
<1>1. IInv => ExposureMatchesBalance
  BY DEF IInv
<1>2. QED BY <1>1, IInvHolds, PTL
-----------------------------------------------------------------------------
(* Why payouts are exact.  Each market's books add up at every moment of its *)
(* life; what a side has staked is the sum of its receipts, an open market   *)
(* holds its stakes, a VOID one exactly what is left to claim, and a settled *)
(* one that and less than a unit per winner.                                 *)
Stakes(m, a) == yesReceipts[m][a] + noReceipts[m][a]

TotalsAddUp(m) ==
    yesTotal[m] = SumFunction(yesReceipts[m]) /\ noTotal[m] = SumFunction(noReceipts[m])

OpenHoldsStakes(m) ==
    ~terminal[m] =>
      /\ Own(m) = Total(m)
      /\ winningReceiptsClaimed[m] = 0
      /\ \A a \in Accounts : ~claimed[m][a]

VoidOwesAll(m) ==
    terminal[m] /\ outcome[m] = "VOID" => Own(m) = Outstanding(m)

ClaimedWins(m) == [a \in Accounts |-> IF claimed[m][a] THEN WinnerReceipt(m, a) ELSE 0]

WinnersAreCounted(m) ==
    terminal[m] /\ outcome[m] # "VOID" =>
      winningReceiptsClaimed[m] = SumFunction(ClaimedWins(m))

DustIsBounded(m) ==
    terminal[m] /\ outcome[m] # "VOID" =>
      /\ Outstanding(m) <= Own(m)
      /\ Own(m) < Outstanding(m) + Cardinality(Winners(m))

BooksAreRight(m) ==
    /\ TotalsAddUp(m) /\ OpenHoldsStakes(m) /\ VoidOwesAll(m)
    /\ WinnersAreCounted(m) /\ DustIsBounded(m)

(* As long as no market was settled on a side, everyone has what they began  *)
(* with, in the wallet or in stakes not yet given back.                      *)
OpenStakes(a) == [m \in Markets |-> IF claimed[m][a] THEN 0 ELSE Stakes(m, a)]

OnlyVoid == \A m \in Markets : terminal[m] => outcome[m] = "VOID"

WalletsBalance ==
    OnlyVoid => \A a \in Accounts : usdc[a] + SumFunction(OpenStakes(a)) = WEALTH

AccountsInv ==
    /\ \A m \in Markets : BooksAreRight(m)
    /\ WalletsBalance
    /\ SystemExposureIsSum

USE MarketsAssumption

(* Receipts and what is left to claim are functions into the naturals.       *)
LEMMA BookTypes ==
    ASSUME TypeOK, SettledTwoSided, FeeWithinTotal, NEW m \in Markets
    PROVE  /\ yesReceipts[m] \in [Accounts -> Nat] /\ noReceipts[m] \in [Accounts -> Nat]
           /\ [a \in Accounts |-> Claimable(m, a)] \in [Accounts -> Nat]
           /\ [a \in Accounts |-> WinnerReceipt(m, a)] \in [Accounts -> Nat]
           /\ ClaimedWins(m) \in [Accounts -> Nat]
           /\ Outstanding(m) \in Nat /\ Own(m) \in Int /\ Total(m) \in Nat
           /\ IsFiniteSet(Winners(m)) /\ Cardinality(Winners(m)) \in Nat
<1>1. yesReceipts[m] \in [Accounts -> Nat] /\ noReceipts[m] \in [Accounts -> Nat]
  BY DEF TypeOK
<1>2. \A a \in Accounts : WinnerReceipt(m, a) \in Nat
  BY <1>1 DEF WinnerReceipt
<1>3. ClaimedWins(m) \in [Accounts -> Nat]
  BY <1>2 DEF ClaimedWins
<1>4. [a \in Accounts |-> Claimable(m, a)] \in [Accounts -> Nat]
  BY ClaimableType
<1>5. Outstanding(m) \in Nat
  <2> DEFINE f == [a \in Accounts |-> Claimable(m, a)]
  <2>1. f \in [Accounts -> Nat] /\ f \in [Accounts -> Int]
    BY <1>4
  <2> HIDE DEF f
  <2>2. SumFunction(f) \in Nat
    BY <2>1, SumFunctionType
  <2>3. QED BY <2>2 DEF Outstanding, f
<1>6. Own(m) \in Int /\ Total(m) \in Nat
  BY DEF TypeOK, Holders, Total, Own
<1>7. IsFiniteSet(Winners(m)) /\ Cardinality(Winners(m)) \in Nat
  BY FS_Subset, FS_CardinalityType DEF Winners
<1>8. QED BY <1>1, <1>2, <1>3, <1>4, <1>5, <1>6, <1>7

(* A transaction on one market leaves the books of the others as they are.   *)
Untouched(n) ==
    /\ Own(n)' = Own(n)
    /\ yesReceipts'[n] = yesReceipts[n] /\ noReceipts'[n] = noReceipts[n]
    /\ yesTotal'[n] = yesTotal[n] /\ noTotal'[n] = noTotal[n]
    /\ terminal'[n] = terminal[n] /\ outcome'[n] = outcome[n]
    /\ collectedFee'[n] = collectedFee[n]
    /\ claimed'[n] = claimed[n]
    /\ winningReceiptsClaimed'[n] = winningReceiptsClaimed[n]

(* The books of a market that a step does not touch stay right.             *)
LEMMA UntouchedBooks ==
    ASSUME NEW n \in Markets, BooksAreRight(n), Untouched(n)
    PROVE  BooksAreRight(n)'
<1> USE DEF Untouched
<1>1. /\ Total(n)' = Total(n) /\ WinningTotal(n)' = WinningTotal(n)
      /\ \A a \in Accounts : WinnerReceipt(n, a)' = WinnerReceipt(n, a)
  BY DEF Total, WinningTotal, WinnerReceipt
<1>2. \A a \in Accounts : Claimable(n, a)' = Claimable(n, a)
  BY <1>1 DEF Claimable, Payout
<1>3. Outstanding(n)' = Outstanding(n)
  BY <1>2 DEF Outstanding
<1>4. ClaimedWins(n)' = ClaimedWins(n)
  BY <1>1 DEF ClaimedWins
<1>5. Winners(n)' = Winners(n)
  BY <1>1 DEF Winners
<1>6. TotalsAddUp(n)' /\ OpenHoldsStakes(n)'
  BY <1>1 DEF BooksAreRight, TotalsAddUp, OpenHoldsStakes
<1>7. VoidOwesAll(n)'
  BY <1>3 DEF BooksAreRight, VoidOwesAll
<1>8. WinnersAreCounted(n)' /\ DustIsBounded(n)'
  BY <1>3, <1>4, <1>5 DEF BooksAreRight, WinnersAreCounted, DustIsBounded
<1>9. QED BY <1>6, <1>7, <1>8 DEF BooksAreRight

(* Recording and releasing exposure keeps the system's total the sum.        *)
LEMMA ExposureSum ==
    ASSUME TypeOK, SystemExposureIsSum, NEW m \in Markets, NEW amount \in Nat,
           ReserveExposure(m, amount) \/ ReleaseExposure(m, amount)
    PROVE  SystemExposureIsSum'
<1>1. marketExposure \in [Markets -> Int] /\ systemExposure \in Int /\ marketExposure[m] \in Int
  BY DEF TypeOK, RiskTypeOK
<1>2. CASE ReserveExposure(m, amount)
  <2>1. /\ marketExposure' \in [Markets -> Int]
        /\ marketExposure'[m] = marketExposure[m] + amount
        /\ \A n \in Markets \ {m} : marketExposure'[n] = marketExposure[n]
        /\ systemExposure' = systemExposure + amount
    BY <1>1, <1>2 DEF ReserveExposure
  <2>2. SumFunction(marketExposure') = SumFunction(marketExposure) - marketExposure[m] + marketExposure'[m]
    BY <1>1, <2>1, SumUpdate
  <2>3. QED BY <1>1, <2>1, <2>2 DEF SystemExposureIsSum
<1>3. CASE ReleaseExposure(m, amount)
  <2>1. /\ marketExposure' \in [Markets -> Int]
        /\ marketExposure'[m] = marketExposure[m] - amount
        /\ \A n \in Markets \ {m} : marketExposure'[n] = marketExposure[n]
        /\ systemExposure' = systemExposure - amount
    BY <1>1, <1>3 DEF ReleaseExposure
  <2>2. SumFunction(marketExposure') = SumFunction(marketExposure) - marketExposure[m] + marketExposure'[m]
    BY <1>1, <2>1, SumUpdate
  <2>3. QED BY <1>1, <2>1, <2>2 DEF SystemExposureIsSum
<1>4. QED BY <1>2, <1>3

(* Once every winning receipt is counted as claimed, nothing is left to      *)
(* claim: an unclaimed receipt would be missing from the count.              *)
LEMMA AllCountedAllPaid ==
    ASSUME IInv, NEW m \in Markets, BooksAreRight(m), terminal[m], outcome[m] # "VOID",
           winningReceiptsClaimed[m] = WinningTotal(m)
    PROVE  Outstanding(m) = 0
<1> USE DEF IInv
<1> DEFINE w == [a \in Accounts |-> WinnerReceipt(m, a)]
           c == ClaimedWins(m)
           u == [a \in Accounts |-> IF claimed[m][a] THEN 0 ELSE w[a]]
           p == [a \in Accounts |-> Claimable(m, a)]
<1>1. /\ w \in [Accounts -> Nat] /\ c \in [Accounts -> Nat]
      /\ w \in [Accounts -> Int] /\ c \in [Accounts -> Int]
      /\ p \in [Accounts -> Int]
  BY BookTypes
<1>2. u \in [Accounts -> Nat] /\ u \in [Accounts -> Int]
  BY <1>1
<1>3. SumFunction(w) = WinningTotal(m)
  <2>1. CASE outcome[m] = "YES"
    <3>1. w = yesReceipts[m]
      BY <2>1, BookTypes DEF WinnerReceipt
    <3>2. QED BY <2>1, <3>1 DEF WinningTotal, BooksAreRight, TotalsAddUp
  <2>2. CASE outcome[m] # "YES"
    <3>1. w = noReceipts[m]
      BY <2>2, BookTypes DEF WinnerReceipt
    <3>2. QED BY <2>2, <3>1 DEF WinningTotal, BooksAreRight, TotalsAddUp
  <2>3. QED BY <2>1, <2>2
<1>4. SumFunction(c) = SumFunction(w)
  BY <1>3 DEF BooksAreRight, WinnersAreCounted
<1>5. \A a \in Accounts : w[a] = c[a] + u[a]
  BY <1>1 DEF ClaimedWins
<1>6. SumFunction(u) = 0
  <2> HIDE DEF w, c, u
  <2>1. SumFunction(w) = SumFunction(c) + SumFunction(u)
    BY <1>1, <1>2, <1>5, SumAddition
  <2>2. SumFunction(c) \in Int /\ SumFunction(u) \in Int
    BY <1>1, <1>2, SumFunctionType
  <2>3. QED BY <1>4, <2>1, <2>2
<1>7. \A a \in Accounts : u[a] = 0
  <2> HIDE DEF u
  <2>1. \A a \in Accounts : u[a] <= SumFunction(u)
    BY <1>2, SumBoundsTerm
  <2>2. QED BY <1>2, <1>6, <2>1
<1>8. \A a \in Accounts : p[a] = 0
  <2>1. SUFFICES ASSUME NEW a \in Accounts PROVE Claimable(m, a) = 0
    OBVIOUS
  <2>2. CASE claimed[m][a]
    BY <2>2 DEF Claimable
  <2>3. CASE ~claimed[m][a]
    <3>1. WinnerReceipt(m, a) = 0
      BY <1>7, <2>3
    <3>2. Total(m) - collectedFee[m] \in Int
      BY DEF TypeOK, Total
    <3>3. WinningTotal(m) \in Nat \ {0}
      BY DEF WinningTotal, TypeOK, SettledTwoSided
    <3>4. WinnerReceipt(m, a) * (Total(m) - collectedFee[m]) = 0
      BY <3>1, <3>2
    <3>5. 0 \div WinningTotal(m) = 0
      BY <3>3, Z3
    <3>6. QED BY <2>3, <3>4, <3>5 DEF Claimable, Payout
  <2>4. QED BY <2>2, <2>3
<1>9. SumFunction(p) = 0
  <2> HIDE DEF p
  <2>1. QED BY <1>1, <1>8, SumOfZeros
<1>10. QED BY <1>9 DEF Outstanding

(* The books are right at deployment, when all are empty.                   *)
LEMMA InitAccounts == Init => AccountsInv
<1> SUFFICES ASSUME Init PROVE AccountsInv
  OBVIOUS
<1> DEFINE zeroA == [a \in Accounts |-> 0]
           zeroM == [m \in Markets |-> 0]
<1>1. SumFunction(zeroA) = 0 /\ SumFunction(zeroM) = 0
  <2>1. zeroA \in [Accounts -> Int] /\ \A a \in Accounts : zeroA[a] = 0
    OBVIOUS
  <2>2. zeroM \in [Markets -> Int] /\ \A m \in Markets : zeroM[m] = 0
    OBVIOUS
  <2> HIDE DEF zeroA, zeroM
  <2>3. QED BY <2>1, <2>2, SumOfZeros
<1>2. ASSUME NEW m \in Markets PROVE BooksAreRight(m)
  <2>1. m \in Holders /\ m \notin Accounts
    BY DEF Holders
  <2>2. yesReceipts[m] = zeroA /\ noReceipts[m] = zeroA
    BY DEF Init
  <2> HIDE DEF zeroA, zeroM
  <2>3. TotalsAddUp(m)
    BY <1>1, <2>2 DEF Init, TotalsAddUp
  <2>4. OpenHoldsStakes(m)
    BY <2>1 DEF Init, OpenHoldsStakes, Total, Own
  <2>5. VoidOwesAll(m) /\ WinnersAreCounted(m) /\ DustIsBounded(m)
    BY DEF Init, VoidOwesAll, WinnersAreCounted, DustIsBounded
  <2>6. QED BY <2>3, <2>4, <2>5 DEF BooksAreRight
<1>3. WalletsBalance
  <2>1. SUFFICES ASSUME NEW a \in Accounts PROVE usdc[a] + SumFunction(OpenStakes(a)) = WEALTH
    BY DEF WalletsBalance
  <2>2. OpenStakes(a) = zeroM
    BY DEF Init, OpenStakes, Stakes
  <2>3. usdc[a] = WEALTH
    BY DEF Init, Holders
  <2>4. SumFunction(OpenStakes(a)) = 0
    BY <1>1, <2>2
  <2>5. QED BY <2>3, <2>4
<1>4. SystemExposureIsSum
  BY <1>1 DEF Init, RiskInit, SystemExposureIsSum
<1>5. QED BY <1>2, <1>3, <1>4 DEF AccountsInv

(* The stakes an account has not been given back, market by market.          *)
LEMMA OpenStakesType ==
    ASSUME TypeOK, NEW a \in Accounts
    PROVE  /\ OpenStakes(a) \in [Markets -> Nat] /\ OpenStakes(a) \in [Markets -> Int]
           /\ SumFunction(OpenStakes(a)) \in Nat /\ usdc[a] \in Nat
<1>1. OpenStakes(a) \in [Markets -> Nat]
  <2>1. \A m \in Markets : yesReceipts[m][a] \in Nat /\ noReceipts[m][a] \in Nat
    BY DEF TypeOK
  <2>2. QED BY <2>1 DEF OpenStakes, Stakes
<1>2. OpenStakes(a) \in [Markets -> Int]
  BY <1>1
<1>3. SumFunction(OpenStakes(a)) \in Nat
  BY <1>1, <1>2, SumFunctionType
<1>4. usdc[a] \in Nat
  BY DEF TypeOK, Holders
<1>5. QED BY <1>1, <1>2, <1>3, <1>4

(* A stake adds as much to the receipts and the total of its side, and to    *)
(* the exposure, as it takes from the wallet.                                *)
LEMMA StakeAccounts ==
    ASSUME IInv, IInv', AccountsInv, NEW m \in Markets, NEW a \in Accounts, NEW yes \in BOOLEAN,
           NEW amount \in Amounts, Stake(m, a, yes, amount)
    PROVE  AccountsInv'
<1> USE DEF IInv
<1>1. /\ amount \in Nat /\ a \in Holders /\ m \in Holders /\ a # m
      /\ Markets \ {m} \subseteq Holders \ {a, m}
      /\ Accounts \ {a} \subseteq Holders \ {a, m}
  BY DEF Holders
<1>2. /\ usdc'[m] = usdc[m] + amount
      /\ usdc'[a] = usdc[a] - amount
      /\ \A h \in Holders \ {a, m} : usdc'[h] = usdc[h]
  <2>1. usdc' = Transfer(usdc, a, m, amount) /\ amount <= usdc[a] /\ usdc \in [Holders -> Nat]
    BY DEF Stake, TypeOK
  <2>2. QED BY <1>1, <2>1, TransferType
<1>3. /\ ~terminal[m]
      /\ terminal' = terminal /\ outcome' = outcome /\ collectedFee' = collectedFee
      /\ claimed' = claimed /\ winningReceiptsClaimed' = winningReceiptsClaimed
      /\ given' = given
  BY DEF Stake
<1>4. /\ BooksAreRight(m) /\ TotalsAddUp(m) /\ OpenHoldsStakes(m)
      /\ \A b \in Accounts : ~claimed[m][b]
  BY <1>3 DEF AccountsInv, BooksAreRight, OpenHoldsStakes
<1>5. /\ yesReceipts \in [Markets -> [Accounts -> Nat]] /\ noReceipts \in [Markets -> [Accounts -> Nat]]
      /\ yesReceipts' \in [Markets -> [Accounts -> Nat]] /\ noReceipts' \in [Markets -> [Accounts -> Nat]]
      /\ yesTotal \in [Markets -> Nat] /\ noTotal \in [Markets -> Nat]
  BY DEF TypeOK
<1>6. \A n \in Markets \ {m} :
        /\ yesReceipts'[n] = yesReceipts[n] /\ noReceipts'[n] = noReceipts[n]
        /\ yesTotal'[n] = yesTotal[n] /\ noTotal'[n] = noTotal[n]
  BY <1>5 DEF Stake
<1>7. /\ yesReceipts'[m][a] + noReceipts'[m][a] = yesReceipts[m][a] + noReceipts[m][a] + amount
      /\ \A b \in Accounts \ {a} : /\ yesReceipts'[m][b] = yesReceipts[m][b]
                                   /\ noReceipts'[m][b] = noReceipts[m][b]
      /\ yesTotal'[m] - yesReceipts'[m][a] = yesTotal[m] - yesReceipts[m][a]
      /\ noTotal'[m] - noReceipts'[m][a] = noTotal[m] - noReceipts[m][a]
      /\ yesTotal'[m] + noTotal'[m] = yesTotal[m] + noTotal[m] + amount
      /\ yesTotal'[m] \in Nat /\ noTotal'[m] \in Nat
  <2>0. /\ yesReceipts[m] \in [Accounts -> Nat] /\ noReceipts[m] \in [Accounts -> Nat]
        /\ yesTotal[m] \in Nat /\ noTotal[m] \in Nat
    BY <1>5
  <2>1. CASE yes
    <3>1. /\ yesReceipts'[m] = [yesReceipts[m] EXCEPT ![a] = @ + amount]
          /\ yesTotal'[m] = yesTotal[m] + amount
          /\ noReceipts' = noReceipts /\ noTotal' = noTotal
      BY <1>5, <2>1 DEF Stake
    <3>2. QED BY <1>1, <2>0, <3>1
  <2>2. CASE ~yes
    <3>1. /\ noReceipts'[m] = [noReceipts[m] EXCEPT ![a] = @ + amount]
          /\ noTotal'[m] = noTotal[m] + amount
          /\ yesReceipts' = yesReceipts /\ yesTotal' = yesTotal
      BY <1>5, <2>2 DEF Stake
    <3>2. QED BY <1>1, <2>0, <3>1
  <2>3. QED BY <2>1, <2>2
<1>8. BooksAreRight(m)'
  <2>1. TotalsAddUp(m)'
    <3>1. /\ yesReceipts[m] \in [Accounts -> Int] /\ noReceipts[m] \in [Accounts -> Int]
          /\ yesReceipts'[m] \in [Accounts -> Int] /\ noReceipts'[m] \in [Accounts -> Int]
      BY <1>5
    <3>2. /\ SumFunction(yesReceipts'[m]) = SumFunction(yesReceipts[m]) - yesReceipts[m][a] + yesReceipts'[m][a]
          /\ SumFunction(noReceipts'[m]) = SumFunction(noReceipts[m]) - noReceipts[m][a] + noReceipts'[m][a]
      BY <1>7, <3>1, SumUpdate
    <3>3. yesTotal[m] = SumFunction(yesReceipts[m]) /\ noTotal[m] = SumFunction(noReceipts[m])
      BY <1>4 DEF TotalsAddUp
    <3>4. yesTotal'[m] = SumFunction(yesReceipts'[m]) /\ noTotal'[m] = SumFunction(noReceipts'[m])
      <4>1. /\ yesReceipts'[m][a] \in Int /\ noReceipts'[m][a] \in Int
            /\ yesReceipts[m][a] \in Int /\ noReceipts[m][a] \in Int
            /\ yesTotal[m] \in Int /\ noTotal[m] \in Int
        BY <1>5, <3>1
      <4>2. QED BY <1>7, <3>2, <3>3, <4>1
    <3>5. QED BY <3>4 DEF TotalsAddUp
  <2>2. OpenHoldsStakes(m)'
    <3>1. Own(m) = Total(m) /\ winningReceiptsClaimed[m] = 0
      BY <1>3, <1>4 DEF OpenHoldsStakes
    <3>2. Total(m)' = Total(m) + amount
      BY <1>7 DEF Total
    <3>3. Own(m)' = Own(m) + amount
      BY <1>1, <1>2, <1>3 DEF Own, TypeOK
    <3>4. QED BY <1>3, <1>4, <3>1, <3>2, <3>3 DEF OpenHoldsStakes
  <2>3. VoidOwesAll(m)' /\ WinnersAreCounted(m)' /\ DustIsBounded(m)'
    BY <1>3 DEF VoidOwesAll, WinnersAreCounted, DustIsBounded
  <2>4. QED BY <2>1, <2>2, <2>3 DEF BooksAreRight
<1>9. ASSUME NEW n \in Markets \ {m} PROVE BooksAreRight(n)'
  <2>1. Untouched(n)
    BY <1>1, <1>2, <1>3, <1>6 DEF Untouched, Own
  <2>2. QED BY <2>1, UntouchedBooks DEF AccountsInv
<1>10. WalletsBalance'
  <2>1. SUFFICES ASSUME OnlyVoid', NEW b \in Accounts
                 PROVE  (usdc[b] + SumFunction(OpenStakes(b)) = WEALTH)'
    BY DEF WalletsBalance
  <2>2. OnlyVoid
    BY <1>3, <2>1 DEF OnlyVoid
  <2>3. usdc[b] + SumFunction(OpenStakes(b)) = WEALTH
    BY <2>2 DEF AccountsInv, WalletsBalance
  <2>4. CASE b = a
    <3>1. /\ OpenStakes(a)'[m] = OpenStakes(a)[m] + amount
          /\ \A n \in Markets \ {m} : OpenStakes(a)'[n] = OpenStakes(a)[n]
      BY <1>3, <1>4, <1>6, <1>7 DEF OpenStakes, Stakes
    <3>2. /\ OpenStakes(a) \in [Markets -> Int] /\ OpenStakes(a)' \in [Markets -> Int]
          /\ SumFunction(OpenStakes(a)) \in Nat /\ usdc[a] \in Nat
      <4>1. OpenStakes(a)' \in [Markets -> Int]
        <5>1. \A n \in Markets : yesReceipts'[n][a] \in Nat /\ noReceipts'[n][a] \in Nat
          BY <1>5
        <5>2. QED BY <5>1 DEF OpenStakes, Stakes
      <4>2. QED BY <4>1, OpenStakesType
    <3>3. SumFunction(OpenStakes(a)') = SumFunction(OpenStakes(a)) - OpenStakes(a)[m] + OpenStakes(a)'[m]
      BY <3>1, <3>2, SumUpdate
    <3>4. OpenStakes(a)[m] \in Int
      BY <3>2
    <3>5. SumFunction(OpenStakes(a)') = SumFunction(OpenStakes(a)) + amount
      BY <1>1, <3>1, <3>2, <3>3, <3>4
    <3>6. QED BY <1>1, <1>2, <2>3, <2>4, <3>2, <3>5
  <2>5. CASE b # a
    <3>1. OpenStakes(b)' = OpenStakes(b)
      <4>1. \A n \in Markets : yesReceipts'[n][b] = yesReceipts[n][b] /\ noReceipts'[n][b] = noReceipts[n][b]
        BY <1>6, <1>7, <2>5
      <4>2. QED BY <1>3, <4>1 DEF OpenStakes, Stakes
    <3>2. usdc'[b] = usdc[b]
      BY <1>1, <1>2, <2>5
    <3>3. QED BY <2>3, <3>1, <3>2
  <2>6. QED BY <2>4, <2>5
<1>11. SystemExposureIsSum'
  BY <1>1, ExposureSum DEF Stake, AccountsInv
<1>12. QED BY <1>8, <1>9, <1>10, <1>11 DEF AccountsInv

(* A market that becomes VOID owes every stake on both sides, which is what  *)
(* it holds; nothing else moves.                                             *)
LEMMA VoidAccounts ==
    ASSUME IInv, IInv', AccountsInv, NEW m \in Markets, ~terminal[m],
           terminal' = [terminal EXCEPT ![m] = TRUE],
           outcome' = [outcome EXCEPT ![m] = "VOID"],
           UNCHANGED <<usdc, given, riskVars, yesReceipts, noReceipts, yesTotal, noTotal,
                       collectedFee, claimed, winningReceiptsClaimed>>
    PROVE  AccountsInv'
<1> USE DEF IInv
<1>1. /\ terminal'[m] /\ outcome'[m] = "VOID"
      /\ \A n \in Markets \ {m} : terminal'[n] = terminal[n] /\ outcome'[n] = outcome[n]
  BY DEF TypeOK
<1>2. /\ TotalsAddUp(m) /\ Own(m) = Total(m) /\ \A b \in Accounts : ~claimed[m][b]
  BY DEF AccountsInv, BooksAreRight, OpenHoldsStakes
<1>3. Outstanding(m)' = Total(m)
  <2> DEFINE p == [b \in Accounts |-> Claimable(m, b)']
  <2>1. \A b \in Accounts : Claimable(m, b)' = yesReceipts[m][b] + noReceipts[m][b]
    BY <1>1, <1>2 DEF Claimable, Payout
  <2>2. /\ yesReceipts[m] \in [Accounts -> Int] /\ noReceipts[m] \in [Accounts -> Int]
    <3>1. yesReceipts[m] \in [Accounts -> Nat] /\ noReceipts[m] \in [Accounts -> Nat]
      BY DEF TypeOK
    <3>2. QED BY <3>1
  <2>3. p \in [Accounts -> Int] /\ \A b \in Accounts : p[b] = yesReceipts[m][b] + noReceipts[m][b]
    BY <2>1, <2>2
  <2> HIDE DEF p
  <2>4. SumFunction(p) = SumFunction(yesReceipts[m]) + SumFunction(noReceipts[m])
    BY <2>2, <2>3, SumAddition
  <2>5. Outstanding(m)' = SumFunction(p)
    BY DEF Outstanding, p
  <2>6. QED BY <1>2, <2>4, <2>5 DEF TotalsAddUp, Total
<1>4. BooksAreRight(m)'
  <2>1. TotalsAddUp(m)'
    BY <1>2 DEF TotalsAddUp
  <2>2. OpenHoldsStakes(m)' /\ WinnersAreCounted(m)' /\ DustIsBounded(m)'
    BY <1>1 DEF OpenHoldsStakes, WinnersAreCounted, DustIsBounded
  <2>3. VoidOwesAll(m)'
    BY <1>2, <1>3 DEF VoidOwesAll, Own
  <2>4. QED BY <2>1, <2>2, <2>3 DEF BooksAreRight
<1>5. ASSUME NEW n \in Markets \ {m} PROVE BooksAreRight(n)'
  <2>1. Untouched(n)
    BY <1>1 DEF Untouched, Own
  <2>2. QED BY <2>1, UntouchedBooks DEF AccountsInv
<1>6. WalletsBalance'
  <2>1. OnlyVoid' => OnlyVoid
    BY <1>1 DEF OnlyVoid
  <2>2. \A b \in Accounts : OpenStakes(b)' = OpenStakes(b)
    BY DEF OpenStakes, Stakes
  <2>3. QED BY <2>1, <2>2 DEF AccountsInv, WalletsBalance
<1>7. SystemExposureIsSum'
  BY DEF riskVars, AccountsInv, SystemExposureIsSum
<1>8. QED BY <1>4, <1>5, <1>6, <1>7 DEF AccountsInv

(* A market settled on a side owes each winner its share of what is left     *)
(* after the fee, rounded down: RoundingDust bounds what that leaves over.   *)
LEMMA SideAccounts ==
    ASSUME IInv, IInv', AccountsInv, NEW m \in Markets, NEW result \in Outcomes,
           Settle(m, result), FinalOutcome(m, result) # "VOID"
    PROVE  AccountsInv'
<1> USE DEF IInv
<1>1. /\ ~terminal[m] /\ terminal'[m] /\ outcome'[m] # "VOID"
      /\ \A n \in Markets \ {m} : terminal'[n] = terminal[n] /\ outcome'[n] = outcome[n]
      /\ collectedFee'[m] = Fee(m)
      /\ \A n \in Markets \ {m} : collectedFee'[n] = collectedFee[n]
      /\ yesReceipts' = yesReceipts /\ noReceipts' = noReceipts
      /\ yesTotal' = yesTotal /\ noTotal' = noTotal /\ claimed' = claimed
      /\ winningReceiptsClaimed' = winningReceiptsClaimed
      /\ given' = given
  BY DEF Settle, TypeOK
<1>2. Fee(m) \in Nat /\ Fee(m) <= Total(m)
  <2>1. Total(m) \in Nat
    BY BookTypes
  <2>2. QED BY <2>1, ShareBound DEF Fee
<1>3. /\ usdc'[m] = usdc[m] - Fee(m)
      /\ \A n \in Markets \ {m} : usdc'[n] = usdc[n]
  <2>1. /\ usdc' = RoutePool(usdc, m, CreatorOf[m], Fee(m))
        /\ Fee(m) <= usdc[m] /\ usdc \in [Holders -> Nat]
    BY DEF Settle, TypeOK
  <2>2. QED BY <1>2, <2>1, RoutePoolType
<1>4. /\ TotalsAddUp(m) /\ Own(m) = Total(m) /\ winningReceiptsClaimed[m] = 0
      /\ \A b \in Accounts : ~claimed[m][b]
  BY <1>1 DEF AccountsInv, BooksAreRight, OpenHoldsStakes
<1>5. BooksAreRight(m)'
  <2> DEFINE n == Total(m) - Fee(m)
             w == [b \in Accounts |-> WinnerReceipt(m, b)']
             d == WinningTotal(m)'
             p == [b \in Accounts |-> Claimable(m, b)']
  <2>1. n \in Nat
    BY <1>2, BookTypes
  <2>2. d \in Nat \ {0}
    BY <1>1 DEF WinningTotal, TypeOK, SettledTwoSided
  <2>3. w \in [Accounts -> Nat]
    <3>1. yesReceipts[m] \in [Accounts -> Nat] /\ noReceipts[m] \in [Accounts -> Nat]
      BY BookTypes
    <3>2. QED BY <1>1, <3>1 DEF WinnerReceipt
  <2>4. SumFunction(w) = d
    <3>1. CASE outcome'[m] = "YES"
      <4>1. w = yesReceipts[m]
        BY <1>1, <3>1, BookTypes DEF WinnerReceipt
      <4>2. d = yesTotal[m]
        BY <1>1, <3>1 DEF WinningTotal
      <4>3. QED BY <1>4, <4>1, <4>2 DEF TotalsAddUp
    <3>2. CASE outcome'[m] # "YES"
      <4>1. w = noReceipts[m]
        BY <1>1, <3>2, BookTypes DEF WinnerReceipt
      <4>2. d = noTotal[m]
        BY <1>1, <3>2 DEF WinningTotal
      <4>3. QED BY <1>4, <4>1, <4>2 DEF TotalsAddUp
    <3>3. QED BY <3>1, <3>2
  <2>5. \A b \in Accounts : p[b] = (w[b] * n) \div d
    <3>1. (Total(m) - collectedFee[m])' = n
      BY <1>1 DEF Total
    <3>2. QED BY <1>1, <1>4, <3>1 DEF Claimable, Payout
  <2>6. Winners(m)' = {b \in Accounts : w[b] > 0}
    BY DEF Winners
  <2>7. Outstanding(m)' = SumFunction(p)
    BY DEF Outstanding
  <2>8. Own(m)' = n
    <3>1. usdc[m] \in Nat /\ given[m] \in Nat
      BY DEF TypeOK, Holders
    <3>2. QED BY <1>1, <1>2, <1>3, <1>4, <3>1 DEF Own
  <2> HIDE DEF n, w, d, p
  <2>9. SumFunction(p) <= n /\ n < SumFunction(p) + Cardinality({b \in Accounts : w[b] > 0})
    <3>1. p \in [Accounts -> Nat]
      <4>1. \A b \in Accounts : (w[b] * n) \div d \in Nat
        <5>1. SUFFICES ASSUME NEW b \in Accounts PROVE (w[b] * n) \div d \in Nat
          OBVIOUS
        <5>2. w[b] \in Nat
          BY <2>3
        <5>3. w[b] * n \in Nat
          BY <2>1, <5>2, Z3
        <5>4. QED BY <2>2, <5>3, Quotient
      <4>2. QED BY <2>5, <4>1, Zenon DEF p
    <3>2. IsFiniteSet(Accounts)
      OBVIOUS
    <3>3. \A r \in Nat, e \in Nat \ {0}, v \in [Accounts -> Nat], q \in [Accounts -> Nat] :
            SumFunction(v) = e /\ (\A b \in Accounts : q[b] = (v[b] * r) \div e)
              => SumFunction(q) <= r /\ r < SumFunction(q) + Cardinality({b \in Accounts : v[b] > 0})
      BY <3>2, RoundingDust, Zenon
    <3>4. QED BY <2>1, <2>2, <2>3, <2>4, <2>5, <3>1, <3>3, ZenonT(90)
  <2>10. DustIsBounded(m)'
    BY <2>6, <2>7, <2>8, <2>9 DEF DustIsBounded
  <2>11. WinnersAreCounted(m)'
    <3> DEFINE c == ClaimedWins(m)'
    <3>1. c = [b \in Accounts |-> 0]
      BY <1>1, <1>4 DEF ClaimedWins
    <3>2. c \in [Accounts -> Int] /\ \A b \in Accounts : c[b] = 0
      BY <3>1
    <3> HIDE DEF c
    <3>3. SumFunction(c) = 0
      BY <3>2, SumOfZeros
    <3>4. QED BY <1>1, <1>4, <3>3 DEF WinnersAreCounted, c
  <2>12. TotalsAddUp(m)' /\ OpenHoldsStakes(m)' /\ VoidOwesAll(m)'
    BY <1>1, <1>4 DEF TotalsAddUp, OpenHoldsStakes, VoidOwesAll
  <2>13. QED BY <2>10, <2>11, <2>12 DEF BooksAreRight
<1>6. ASSUME NEW n \in Markets \ {m} PROVE BooksAreRight(n)'
  <2>1. Untouched(n)
    BY <1>1, <1>3 DEF Untouched, Own
  <2>2. QED BY <2>1, UntouchedBooks DEF AccountsInv
<1>7. WalletsBalance'
  BY <1>1 DEF WalletsBalance, OnlyVoid
<1>8. SystemExposureIsSum'
  <2>1. ReleaseExposure(m, Fee(m))
    BY DEF Settle
  <2>2. QED BY <1>2, <2>1, ExposureSum DEF AccountsInv
<1>9. QED BY <1>5, <1>6, <1>7, <1>8 DEF AccountsInv

(* A claim takes from the market exactly what its receipt was still worth.   *)
LEMMA ClaimAccounts ==
    ASSUME IInv, IInv', AccountsInv, NEW m \in Markets, NEW a \in Accounts, Claim(m, a)
    PROVE  AccountsInv'
<1> USE DEF IInv
<1> DEFINE amount == Claimable(m, a)
<1>1. /\ amount \in Nat /\ a \in Holders /\ m \in Holders /\ a # m
      /\ Markets \ {m} \subseteq Holders \ {a, m}
      /\ Accounts \ {a} \subseteq Holders \ {a, m}
  BY ClaimableType DEF Holders
<1>2. /\ terminal[m] /\ ~claimed[m][a]
      /\ terminal' = terminal /\ outcome' = outcome /\ collectedFee' = collectedFee
      /\ yesReceipts' = yesReceipts /\ noReceipts' = noReceipts
      /\ yesTotal' = yesTotal /\ noTotal' = noTotal /\ given' = given
  BY DEF Claim
<1>3. /\ claimed'[m][a]
      /\ \A b \in Accounts \ {a} : claimed'[m][b] = claimed[m][b]
      /\ \A n \in Markets \ {m} : claimed'[n] = claimed[n]
  BY DEF Claim, TypeOK
<1>4. /\ usdc'[m] = usdc[m] - amount /\ usdc'[a] = usdc[a] + amount
      /\ \A h \in Holders \ {a, m} : usdc'[h] = usdc[h]
      /\ SystemExposureIsSum'
  <2>1. CASE amount > 0
    <3>1. /\ usdc' = Transfer(usdc, m, a, amount) /\ amount <= usdc[m]
          /\ usdc \in [Holders -> Nat] /\ ReleaseExposure(m, amount)
      BY <2>1 DEF Claim, TypeOK
    <3> HIDE DEF amount
    <3>2. SystemExposureIsSum'
      BY <1>1, <3>1, ExposureSum DEF AccountsInv
    <3>3. QED BY <1>1, <3>1, <3>2, TransferType
  <2>2. CASE ~(amount > 0)
    <3>1. UNCHANGED <<riskVars, usdc>>
      BY <2>2 DEF Claim
    <3>2. usdc[m] \in Nat /\ usdc[a] \in Nat
      BY <1>1 DEF TypeOK
    <3>3. amount = 0
      BY <1>1, <2>2
    <3>4. SystemExposureIsSum'
      BY <3>1 DEF AccountsInv, SystemExposureIsSum, riskVars
    <3> HIDE DEF amount
    <3>5. QED BY <3>1, <3>2, <3>3, <3>4
  <2>3. QED BY <2>1, <2>2
<1>5. /\ \A b \in Accounts : WinnerReceipt(m, b)' = WinnerReceipt(m, b)
      /\ Total(m)' = Total(m) /\ WinningTotal(m)' = WinningTotal(m)
  BY <1>2 DEF WinnerReceipt, Total, WinningTotal
<1>6. Outstanding(m)' = Outstanding(m) - amount
  <2> DEFINE p == [b \in Accounts |-> Claimable(m, b)]
             q == [b \in Accounts |-> Claimable(m, b)']
  <2>1. Claimable(m, a)' = 0
    BY <1>3 DEF Claimable
  <2>2. \A b \in Accounts \ {a} : Claimable(m, b)' = Claimable(m, b)
    BY <1>2, <1>3, <1>5 DEF Claimable, Payout
  <2>3. \A b \in Accounts : Claimable(m, b) \in Nat
    BY BookTypes, ClaimableType
  <2>4. /\ p \in [Accounts -> Int] /\ q \in [Accounts -> Int]
        /\ q[a] = 0 /\ p[a] = amount /\ \A b \in Accounts \ {a} : q[b] = p[b]
    BY <2>1, <2>2, <2>3
  <2>5. Outstanding(m) = SumFunction(p) /\ Outstanding(m)' = SumFunction(q)
    BY DEF Outstanding
  <2> HIDE DEF p, q, amount
  <2>6. SumFunction(q) = SumFunction(p) - p[a] + q[a]
    BY <2>4, SumUpdate
  <2>7. SumFunction(p) \in Int
    BY <2>4, SumFunctionType
  <2>8. QED BY <1>1, <2>4, <2>5, <2>6, <2>7
<1>7. BooksAreRight(m)'
  <2>0. Own(m)' = Own(m) - amount
    <3>1. usdc[m] \in Nat /\ given[m] \in Nat
      BY DEF TypeOK, Holders
    <3> HIDE DEF amount
    <3>2. QED BY <1>1, <1>2, <1>4, <3>1 DEF Own
  <2>1. BooksAreRight(m) /\ Own(m) \in Int /\ Outstanding(m) \in Nat
    BY BookTypes DEF AccountsInv
  <2>2. TotalsAddUp(m)' /\ OpenHoldsStakes(m)'
    BY <1>2, <2>1 DEF BooksAreRight, TotalsAddUp, OpenHoldsStakes
  <2> HIDE DEF amount
  <2>3. VoidOwesAll(m)'
    BY <1>1, <1>2, <1>6, <2>0, <2>1 DEF BooksAreRight, VoidOwesAll
  <2>4. DustIsBounded(m)'
    <3>1. Winners(m)' = Winners(m) /\ Cardinality(Winners(m)) \in Nat
      BY <1>5, BookTypes DEF Winners
    <3>2. DustIsBounded(m) /\ terminal'[m] = terminal[m] /\ outcome'[m] = outcome[m]
      BY <1>2, <2>1 DEF BooksAreRight
    <3>3. QED BY <1>1, <1>6, <2>0, <2>1, <3>1, <3>2 DEF DustIsBounded
  <2>5. WinnersAreCounted(m)'
    <3>1. SUFFICES ASSUME outcome[m] # "VOID"
                   PROVE  winningReceiptsClaimed'[m] = SumFunction(ClaimedWins(m)')
      BY <1>2 DEF WinnersAreCounted
    <3>2. winningReceiptsClaimed'[m] = winningReceiptsClaimed[m] + WinnerReceipt(m, a)
      BY <3>1 DEF Claim, TypeOK
    <3>3. \A b \in Accounts : WinnerReceipt(m, b) \in Nat
      <4>1. yesReceipts[m] \in [Accounts -> Nat] /\ noReceipts[m] \in [Accounts -> Nat]
        BY BookTypes
      <4>2. QED BY <4>1 DEF WinnerReceipt
    <3>4. /\ ClaimedWins(m) \in [Accounts -> Int] /\ ClaimedWins(m)' \in [Accounts -> Int]
          /\ ClaimedWins(m)[a] = 0 /\ ClaimedWins(m)'[a] = WinnerReceipt(m, a)
          /\ \A b \in Accounts \ {a} : ClaimedWins(m)'[b] = ClaimedWins(m)[b]
      BY <1>2, <1>3, <1>5, <3>3 DEF ClaimedWins
    <3>5. SumFunction(ClaimedWins(m)') = SumFunction(ClaimedWins(m)) - ClaimedWins(m)[a] + ClaimedWins(m)'[a]
      BY <3>4, SumUpdate
    <3>6. winningReceiptsClaimed[m] = SumFunction(ClaimedWins(m)) /\ winningReceiptsClaimed[m] \in Nat
      BY <1>2, <2>1, <3>1 DEF BooksAreRight, WinnersAreCounted, TypeOK
    <3>7. QED BY <3>2, <3>3, <3>4, <3>5, <3>6
  <2>6. QED BY <2>2, <2>3, <2>4, <2>5 DEF BooksAreRight
<1>8. ASSUME NEW n \in Markets \ {m} PROVE BooksAreRight(n)'
  <2>1. winningReceiptsClaimed'[n] = winningReceiptsClaimed[n]
    BY DEF Claim, TypeOK
  <2>2. Untouched(n)
    BY <1>1, <1>2, <1>3, <1>4, <2>1 DEF Untouched, Own
  <2>3. QED BY <2>2, UntouchedBooks DEF AccountsInv
<1>9. WalletsBalance'
  <2>1. SUFFICES ASSUME OnlyVoid', NEW b \in Accounts
                 PROVE  (usdc[b] + SumFunction(OpenStakes(b)) = WEALTH)'
    BY DEF WalletsBalance
  <2>2. OnlyVoid
    BY <1>2, <2>1 DEF OnlyVoid
  <2>3. usdc[b] + SumFunction(OpenStakes(b)) = WEALTH
    BY <2>2 DEF AccountsInv, WalletsBalance
  <2>4. CASE b = a
    <3>1. amount = Stakes(m, a) /\ Stakes(m, a) \in Nat
      <4>1. outcome[m] = "VOID"
        BY <1>2, <2>2 DEF OnlyVoid
      <4>2. yesReceipts[m][a] \in Nat /\ noReceipts[m][a] \in Nat
        BY DEF TypeOK
      <4>3. QED BY <1>2, <4>1, <4>2 DEF Claimable, Payout, Stakes
    <3> HIDE DEF amount
    <3>2. /\ OpenStakes(a) \in [Markets -> Int] /\ OpenStakes(a)' \in [Markets -> Int]
          /\ SumFunction(OpenStakes(a)) \in Nat /\ usdc[a] \in Nat
      <4>1. OpenStakes(a)' \in [Markets -> Int]
        <5>1. \A n \in Markets : yesReceipts'[n][a] \in Nat /\ noReceipts'[n][a] \in Nat
          BY <1>2 DEF TypeOK
        <5>2. QED BY <5>1 DEF OpenStakes, Stakes
      <4>2. QED BY <4>1, OpenStakesType
    <3>3. /\ OpenStakes(a)[m] = Stakes(m, a) /\ OpenStakes(a)'[m] = 0
          /\ \A n \in Markets \ {m} : OpenStakes(a)'[n] = OpenStakes(a)[n]
      BY <1>2, <1>3 DEF OpenStakes, Stakes
    <3>4. SumFunction(OpenStakes(a)') = SumFunction(OpenStakes(a)) - OpenStakes(a)[m] + OpenStakes(a)'[m]
      BY <3>2, <3>3, SumUpdate
    <3>5. SumFunction(OpenStakes(a)') = SumFunction(OpenStakes(a)) - amount
      BY <3>1, <3>2, <3>3, <3>4
    <3>6. QED BY <1>1, <1>4, <2>3, <2>4, <3>2, <3>5
  <2>5. CASE b # a
    <3>1. OpenStakes(b)' = OpenStakes(b)
      <4>1. \A n \in Markets : claimed'[n][b] = claimed[n][b]
        BY <1>3, <2>5
      <4>2. QED BY <1>2, <4>1 DEF OpenStakes, Stakes
    <3>2. usdc'[b] = usdc[b]
      BY <1>1, <1>4, <2>5
    <3>3. QED BY <2>3, <3>1, <3>2
  <2>6. QED BY <2>4, <2>5
<1>10. QED BY <1>4, <1>7, <1>8, <1>9 DEF AccountsInv

(* Sweeping happens only when nothing is left to claim, and leaves nothing.  *)
LEMMA DustAccounts ==
    ASSUME IInv, IInv', AccountsInv, NEW m \in Markets, ReleaseDust(m)
    PROVE  AccountsInv'
<1> USE DEF IInv
<1>1. /\ terminal[m] /\ outcome[m] # "VOID" /\ winningReceiptsClaimed[m] = WinningTotal(m)
      /\ UNCHANGED marketVars /\ given' = given /\ BooksAreRight(m)
  BY DEF ReleaseDust, AccountsInv
<1>2. Outstanding(m) = 0
  BY <1>1, AllCountedAllPaid
<1>3. /\ usdc[m] \in Nat /\ m \in Holders /\ Treasury \in Holders /\ m # Treasury
      /\ Markets \ {m} \subseteq Holders \ {m, Treasury}
  BY DEF Holders, TypeOK
<1>4. /\ usdc'[m] = 0 /\ \A n \in Markets \ {m} : usdc'[n] = usdc[n]
  <2>1. usdc' = Transfer(usdc, m, Treasury, usdc[m]) /\ usdc \in [Holders -> Nat]
    BY DEF ReleaseDust, RouteDust, TypeOK
  <2>2. usdc'[m] = usdc[m] - usdc[m] /\ \A n \in Markets \ {m} : usdc'[n] = usdc[n]
    BY <1>3, <2>1, TransferType
  <2>3. QED BY <1>3, <2>2
<1>5. /\ \A b \in Accounts : WinnerReceipt(m, b)' = WinnerReceipt(m, b)
      /\ \A b \in Accounts : Claimable(m, b)' = Claimable(m, b)
  BY <1>1 DEF marketVars, WinnerReceipt, Claimable, Payout, Total, WinningTotal
<1>6. BooksAreRight(m)'
  <2>1. /\ Outstanding(m)' = Outstanding(m) /\ ClaimedWins(m)' = ClaimedWins(m)
        /\ Winners(m)' = Winners(m)
    BY <1>1, <1>5 DEF Outstanding, ClaimedWins, Winners, marketVars
  <2>2. TotalsAddUp(m)' /\ OpenHoldsStakes(m)' /\ VoidOwesAll(m)'
    BY <1>1 DEF marketVars, BooksAreRight, TotalsAddUp, OpenHoldsStakes, VoidOwesAll
  <2>3. WinnersAreCounted(m)'
    BY <1>1, <2>1 DEF marketVars, BooksAreRight, WinnersAreCounted
  <2>4. DustIsBounded(m)'
    <3>1. /\ Own(m) < Outstanding(m) + Cardinality(Winners(m)) /\ Outstanding(m) <= Own(m)
          /\ Cardinality(Winners(m)) \in Nat /\ Own(m) \in Int
      BY <1>1, BookTypes DEF BooksAreRight, DustIsBounded
    <3>2. Own(m)' = 0
      <4>1. usdc[m] <= marketExposure[m]
        BY DEF ReleaseDust, ReleaseExposure
      <4>2. marketExposure[m] = usdc[m] - given[m] /\ given[m] \in Nat
        BY DEF ExposureMatchesBalance, Own, TypeOK
      <4>3. given[m] = 0
        BY <1>3, <4>1, <4>2
      <4>4. QED BY <1>1, <1>4, <4>3 DEF Own
    <3>3. QED BY <1>2, <2>1, <3>1, <3>2 DEF DustIsBounded
  <2>5. QED BY <2>2, <2>3, <2>4 DEF BooksAreRight
<1>7. ASSUME NEW n \in Markets \ {m} PROVE BooksAreRight(n)'
  <2>1. Untouched(n)
    BY <1>1, <1>4 DEF Untouched, Own, marketVars
  <2>2. QED BY <2>1, UntouchedBooks DEF AccountsInv
<1>8. WalletsBalance'
  BY <1>1 DEF marketVars, WalletsBalance, OnlyVoid
<1>9. SystemExposureIsSum'
  BY <1>3, ExposureSum DEF ReleaseDust, AccountsInv
<1>10. QED BY <1>6, <1>7, <1>8, <1>9 DEF AccountsInv

(* Every step keeps the books right: of the market it is about, and of the  *)
(* others.                                                                  *)
LEMMA NextAccounts == IInv /\ IInv' /\ AccountsInv /\ [Next]_vars => AccountsInv'
<1> SUFFICES ASSUME IInv, IInv', AccountsInv, [Next]_vars PROVE AccountsInv'
  OBVIOUS
<1>1. ASSUME NEW m \in Markets, NEW a \in Accounts, NEW yes \in BOOLEAN,
             NEW amount \in Amounts, Stake(m, a, yes, amount)
      PROVE  AccountsInv'
  BY <1>1, StakeAccounts
<1>2. ASSUME NEW m \in Markets, NEW result \in Outcomes, Settle(m, result)
      PROVE  AccountsInv'
  <2>1. CASE FinalOutcome(m, result) = "VOID"
    BY <1>2, <2>1, VoidAccounts DEF Settle
  <2>2. CASE FinalOutcome(m, result) # "VOID"
    BY <1>2, <2>2, SideAccounts
  <2>3. QED BY <2>1, <2>2
<1>3. ASSUME NEW m \in Markets, ExpireToVoid(m)
      PROVE  AccountsInv'
  BY <1>3, VoidAccounts DEF ExpireToVoid
<1>4. ASSUME NEW m \in Markets, NEW a \in Accounts, Claim(m, a)
      PROVE  AccountsInv'
  BY <1>4, ClaimAccounts
<1>5. ASSUME NEW m \in Markets, ReleaseDust(m)
      PROVE  AccountsInv'
  BY <1>5, DustAccounts
<1>6. ASSUME UNCHANGED <<marketVars, marketExposure, systemExposure>>,
             \A n \in Markets : Own(n)' = Own(n),
             \A a \in Accounts : usdc'[a] = usdc[a]
      PROVE  AccountsInv'
  <2>1. \A m \in Markets : BooksAreRight(m)'
    <3>1. \A m \in Markets : Untouched(m)
      BY <1>6 DEF Untouched, marketVars
    <3>2. QED BY <3>1, UntouchedBooks DEF AccountsInv
  <2>2. WalletsBalance'
    <3>1. OnlyVoid' = OnlyVoid /\ \A b \in Accounts : OpenStakes(b)' = OpenStakes(b)
      BY <1>6 DEF marketVars, OnlyVoid, OpenStakes, Stakes
    <3>2. QED BY <1>6, <3>1 DEF AccountsInv, WalletsBalance
  <2>3. QED BY <1>6, <2>1, <2>2 DEF AccountsInv, SystemExposureIsSum
<1>7. ASSUME NEW value \in BOOLEAN, Pause(value)
      PROVE  AccountsInv'
  BY <1>6, <1>7 DEF Pause, SetPaused, Own
<1>8. CASE Tick
  BY <1>6, <1>8 DEF Tick, riskVars, Own
<1>9. ASSUME NEW m \in Markets, NEW amount \in 1 .. MAX_GIVEN, Give(m, amount)
      PROVE  AccountsInv'
  <2>1. UNCHANGED <<marketVars, marketExposure, systemExposure>>
    BY <1>9 DEF Give, riskVars
  <2>2. ASSUME NEW n \in Markets PROVE Own(n)' = Own(n)
    <3>1. usdc[n] \in Nat /\ given[n] \in Nat /\ amount \in Nat /\ m \in Holders /\ n \in Holders
      BY DEF IInv, TypeOK, Holders
    <3>2. /\ usdc' = [usdc EXCEPT ![m] = @ + amount] /\ given' = [given EXCEPT ![m] = @ + amount]
          /\ usdc \in [Holders -> Nat] /\ given \in [Markets -> Nat]
      BY <1>9 DEF Give, IInv, TypeOK
    <3>3. QED BY <3>1, <3>2 DEF Own
  <2>3. \A a \in Accounts : usdc'[a] = usdc[a]
    BY <1>9 DEF Give, IInv, TypeOK, Holders
  <2>4. QED BY <1>6, <2>1, <2>2, <2>3
<1>10. CASE UNCHANGED vars
  BY <1>6, <1>10 DEF vars, riskVars, Own
<1>11. QED BY <1>1, <1>2, <1>3, <1>4, <1>5, <1>7, <1>8, <1>9, <1>10 DEF Next

(* What the books imply for a holder of a receipt and for the treasury.      *)
LEMMA BooksMeanExact == IInv /\ AccountsInv => PayoutsAreExact
<1> SUFFICES ASSUME IInv, AccountsInv PROVE PayoutsAreExact
  OBVIOUS
<1> USE DEF IInv
<1>1. SystemExposureIsSum
  BY DEF AccountsInv
<1>2. ClaimsAreCovered
  <2>1. SUFFICES ASSUME NEW m \in Markets, terminal[m] PROVE Outstanding(m) <= Own(m)
    BY DEF ClaimsAreCovered, ExposureMatchesBalance
  <2>2. BooksAreRight(m) /\ Outstanding(m) \in Nat /\ Own(m) \in Int
    BY BookTypes DEF AccountsInv
  <2>3. QED BY <2>1, <2>2 DEF BooksAreRight, VoidOwesAll, DustIsBounded
<1>3. DustIsRoundingOnly
  <2>1. SUFFICES ASSUME NEW m \in Markets, terminal[m], outcome[m] # "VOID",
                        winningReceiptsClaimed[m] = WinningTotal(m)
                 PROVE  Own(m) < Cardinality(Winners(m))
    BY DEF DustIsRoundingOnly
  <2>2. BooksAreRight(m) /\ Cardinality(Winners(m)) \in Nat /\ Own(m) \in Int
    BY BookTypes DEF AccountsInv
  <2>3. Outstanding(m) = 0
    BY <2>1, <2>2, AllCountedAllPaid
  <2>4. QED BY <2>1, <2>2, <2>3 DEF BooksAreRight, DustIsBounded
<1>4. VoidRestoresWallets
  <2>1. SUFFICES ASSUME \A m \in Markets : /\ terminal[m] /\ outcome[m] = "VOID"
                                           /\ \A a \in Accounts : claimed[m][a],
                        NEW a \in Accounts
                 PROVE  usdc[a] = WEALTH
    BY DEF VoidRestoresWallets
  <2>2. usdc[a] + SumFunction(OpenStakes(a)) = WEALTH
    BY <2>1 DEF AccountsInv, WalletsBalance, OnlyVoid
  <2>3. \A m \in Markets : OpenStakes(a)[m] = 0
    BY <2>1 DEF OpenStakes
  <2>4. OpenStakes(a) \in [Markets -> Int] /\ usdc[a] \in Nat
    BY OpenStakesType
  <2>5. SumFunction(OpenStakes(a)) = 0
    BY <2>3, <2>4, SumOfZeros
  <2>6. QED BY <2>2, <2>4, <2>5
<1>5. QED BY <1>1, <1>2, <1>3, <1>4 DEF PayoutsAreExact

(***************************************************************************)
(* For any number of markets and of holders, any stakes, fee and times, in *)
(* whatever order they claim, sweep, void or send gifts: what a terminal   *)
(* market still owes it holds, with the exposure to release for it; the    *)
(* dust is less than a unit per winner, VOID gives everyone back what they *)
(* began with, and the two levels of the exposure ledger agree.            *)
(***************************************************************************)
THEOREM PayoutsExact == Spec => []PayoutsAreExact
<1>1. Init => IInv /\ AccountsInv
  BY InitIInv, InitAccounts
<1>2. (IInv /\ AccountsInv) /\ [Next]_vars => (IInv /\ AccountsInv)'
  BY NextIInv, NextAccounts
<1>3. IInv /\ AccountsInv => PayoutsAreExact
  BY BooksMeanExact
<1>4. QED BY <1>1, <1>2, <1>3, PTL DEF Spec
=============================================================================
