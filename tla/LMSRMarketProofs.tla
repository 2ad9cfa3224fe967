--------------------------- MODULE LMSRMarketProofs ---------------------------
(***************************************************************************)
(* LMSRMarket, for any set of accounts, any sizes, caps, fee and times,    *)
(* and any cost function that CostAssumption admits: books, custody and    *)
(* tokens agree, and the market can always pay what it promised.           *)
(***************************************************************************)
EXTENDS LMSRMarket, FiniteSums, TLAPS

USE CapAssumption, CreatorDivAssumption, LMSRAssumption, AddressAssumption

(* A transfer between two holders that the payer can afford.                 *)
LEMMA TransferMoves ==
    ASSUME NEW b \in [Holders -> Nat], NEW from \in Holders, NEW to \in Holders,
           NEW amount \in Nat, from # to, amount <= b[from]
    PROVE  /\ Transfer(b, from, to, amount) \in [Holders -> Nat]
           /\ Transfer(b, from, to, amount)[from] = b[from] - amount
           /\ Transfer(b, from, to, amount)[to] = b[to] + amount
           /\ \A h \in Holders \ {from, to} : Transfer(b, from, to, amount)[h] = b[h]
BY DEF Transfer

(* The two parts of a fee that are rounded down leave a third one.           *)
LEMMA FeeParts ==
    ASSUME NEW fee \in Nat
    PROVE  /\ fee \div 2 \in Nat /\ fee \div CREATOR_DIV \in Nat
           /\ fee - fee \div 2 - fee \div CREATOR_DIV \in Nat
           /\ fee \div 2 <= fee
<1> DEFINE x == fee \div 2
           y == fee \div CREATOR_DIV
<1>1. x \in Nat /\ x * 2 <= fee
  BY Quotient
<1>2. y \in Nat /\ y * CREATOR_DIV <= fee
  BY Quotient
<1> HIDE DEF x, y
<1>3. y * 2 <= y * CREATOR_DIV
  BY <1>2, Z3
<1>4. y * CREATOR_DIV \in Nat
  BY <1>2, Z3
<1>5. y * 2 <= fee
  BY <1>2, <1>3, <1>4
<1>6. fee - x - y \in Nat /\ x <= fee
  BY <1>1, <1>2, <1>5
<1>7. QED BY <1>1, <1>2, <1>6 DEF x, y

(* Routing a fee takes exactly the fee from the market and gives the vault   *)
(* its half of it.                                                           *)
LEMMA RouteMoves ==
    ASSUME NEW b \in [Holders -> Nat], NEW fee \in Nat, fee <= b[Market]
    PROVE  /\ RouteLMSR(b, Market, Vault, Creator, fee) \in [Holders -> Nat]
           /\ RouteLMSR(b, Market, Vault, Creator, fee)[Market] = b[Market] - fee
           /\ RouteLMSR(b, Market, Vault, Creator, fee)[Vault] = b[Vault] + fee \div 2
<1> DEFINE x == fee \div 2
           y == fee \div CREATOR_DIV
           b1 == Transfer(b, Market, Vault, x)
           b2 == Transfer(b1, Market, Creator, y)
           b3 == Transfer(b2, Market, Treasury, fee - x - y)
<1>1. x \in Nat /\ y \in Nat /\ fee - x - y \in Nat
  BY FeeParts
<1>2. /\ Market \in Holders /\ Vault \in Holders /\ Creator \in Holders /\ Treasury \in Holders
      /\ Market # Vault /\ Market # Creator /\ Market # Treasury
      /\ Vault # Creator /\ Vault # Treasury
  BY DEF Holders
<1> HIDE DEF x, y
<1>3. /\ b1 \in [Holders -> Nat] /\ b1[Market] = b[Market] - x /\ b1[Vault] = b[Vault] + x
  BY <1>1, <1>2, TransferMoves
<1> HIDE DEF b1
<1>4. y <= b1[Market]
  BY <1>1, <1>2, <1>3
<1>5. /\ b2 \in [Holders -> Nat] /\ b2[Market] = b1[Market] - y /\ b2[Vault] = b1[Vault]
  BY <1>1, <1>2, <1>3, <1>4, TransferMoves
<1> HIDE DEF b2
<1>6. fee - x - y <= b2[Market]
  BY <1>1, <1>2, <1>3, <1>5
<1>7. /\ b3 \in [Holders -> Nat] /\ b3[Market] = b2[Market] - (fee - x - y) /\ b3[Vault] = b2[Vault]
  BY <1>1, <1>2, <1>5, <1>6, TransferMoves
<1>8. b3[Market] = b[Market] - fee
  BY <1>1, <1>2, <1>3, <1>5, <1>7
<1>9. RouteLMSR(b, Market, Vault, Creator, fee) = b3
  BY DEF RouteLMSR, b1, b2, x, y
<1>10. QED BY <1>3, <1>5, <1>7, <1>8, <1>9 DEF x

(* No outcome promises more than the larger quantity, rounding included.     *)
LEMMA LiabilityBound ==
    ASSUME NEW y \in Nat, NEW n \in Nat, NEW result \in Outcomes
    PROVE  /\ TerminalLiability(result, y, n) \in Nat
           /\ TerminalLiability(result, y, n) <= Larger(y, n)
<1>1. CASE result = "YES"
  BY <1>1 DEF TerminalLiability, Larger
<1>2. CASE result = "NO"
  BY <1>2 DEF TerminalLiability, Larger
<1>3. CASE result = "VOID"
  <2>1. (y + n + 1) \div 2 \in Nat /\ (y + n + 1) \div 2 <= Larger(y, n)
    <3>1. y + n + 1 \in Nat
      OBVIOUS
    <3>2. (y + n + 1) \div 2 \in Nat /\ ((y + n + 1) \div 2) * 2 <= y + n + 1
      BY <3>1, Quotient
    <3>3. QED BY <3>2 DEF Larger
  <2>2. QED BY <1>3, <2>1 DEF TerminalLiability
<1>4. QED BY <1>1, <1>2, <1>3 DEF Outcomes

-----------------------------------------------------------------------------
(* The life of the market: the phases of market and vault go together, and   *)
(* VOID dust leaves once, when no token is left.                             *)
PhasesAgree ==
    /\ activated = (status # "FUNDING")
    /\ vaultTerminal = (status = "TERMINAL")
    /\ voidDustReleased => status = "TERMINAL" /\ outcome = "VOID" /\ qYes = 0 /\ qNo = 0

NothingBeforeActivation ==
    status = "FUNDING" =>
      /\ qYes = 0 /\ qNo = 0 /\ usdc[Market] = given[Market]
      /\ contributedAssets = totalShares

(* What the vault was sent directly stays in it until the market is terminal. *)
VaultKeepsGifts ==
    /\ status = "FUNDING" => usdc[Vault] = given[Vault] + contributedAssets
    /\ status = "ACTIVE" => given[Vault] <= usdc[Vault]

FundingIsKept == status # "FUNDING" => contributedAssets >= FUNDING_TARGET

(* What a terminal market kept covers what its tokens can still claim.       *)
RedemptionIsFunded ==
    status = "TERMINAL" => TerminalLiability(outcome, qYes, qNo) <= usdc[Market]

(* The inductive invariant.                                                 *)
IInv ==
    /\ TypeOK /\ PhasesAgree /\ NothingBeforeActivation /\ FundingIsKept /\ VaultKeepsGifts
    /\ RedemptionIsFunded /\ ExposureMatchesCustody /\ CollateralFollowsCost
    /\ QuantitiesMatchTokens

(* What the invariant says of single values.                                 *)
LEMMA StateFacts ==
    ASSUME IInv
    PROVE  /\ Market \in Holders /\ Vault \in Holders /\ Market # Vault /\ Market \in Markets
           /\ \A a \in Accounts : a \in Holders /\ a # Market /\ a # Vault
           /\ usdc \in [Holders -> Nat] /\ usdc[Market] \in Nat /\ usdc[Vault] \in Nat
           /\ marketExposure[Market] \in Nat /\ systemExposure \in Nat
           /\ qYes \in Nat /\ qNo \in Nat
           /\ \A side \in Sides : /\ tokens[side] \in [Accounts -> Nat]
                                  /\ tokens[side] \in [Accounts -> Int]
           /\ shares \in [Accounts -> Nat] /\ shares \in [Accounts -> Int]
           /\ totalShares \in Nat /\ contributedAssets \in Nat
           /\ given[Market] \in Nat /\ given[Vault] \in Nat
<1>1. /\ Market \in Holders /\ Vault \in Holders /\ Market # Vault /\ Market \in Markets
      /\ \A a \in Accounts : a \in Holders /\ a # Market /\ a # Vault
  BY DEF Holders
<1>2. TypeOK
  BY DEF IInv
<1>3. usdc \in [Holders -> Nat] /\ usdc[Market] \in Nat /\ usdc[Vault] \in Nat
  BY <1>1, <1>2 DEF TypeOK
<1>4. marketExposure[Market] \in Nat /\ systemExposure \in Nat
  BY <1>1, <1>2 DEF TypeOK, RiskTypeOK
<1>5. qYes \in Nat /\ qNo \in Nat
  BY <1>2 DEF TypeOK, Quantities
<1>6. \A side \in Sides : tokens[side] \in [Accounts -> Nat] /\ tokens[side] \in [Accounts -> Int]
  <2>1. Quantities \subseteq Nat /\ Quantities \subseteq Int
    BY DEF Quantities
  <2>2. \A side \in Sides : tokens[side] \in [Accounts -> Quantities]
    BY <1>2 DEF TypeOK
  <2>3. QED BY <2>1, <2>2
<1>7. shares \in [Accounts -> Nat] /\ shares \in [Accounts -> Int]
  BY <1>2 DEF TypeOK
<1>8. /\ totalShares \in Nat /\ contributedAssets \in Nat
      /\ given[Market] \in Nat /\ given[Vault] \in Nat
  BY <1>2 DEF TypeOK, Contracts
<1>9. QED BY <1>1, <1>3, <1>4, <1>5, <1>6, <1>7, <1>8

(* The quantity of a side, and what a holder has of it: never more.          *)
Quantity(side) == IF side = "YES" THEN qYes ELSE qNo

(* Nobody holds more tokens or shares than there are.                        *)
LEMMA HoldingsAreCounted ==
    ASSUME IInv
    PROVE  /\ \A side \in Sides, a \in Accounts :
                tokens[side][a] \in Nat /\ tokens[side][a] <= Quantity(side)
           /\ \A a \in Accounts : shares[a] \in Nat /\ shares[a] <= totalShares
           /\ \A side \in Sides : Quantity(side) = SumFunction(tokens[side])
<1>1. /\ \A side \in Sides : tokens[side] \in [Accounts -> Nat]
      /\ shares \in [Accounts -> Nat]
  BY StateFacts
<1>2. \A side \in Sides : Quantity(side) = SumFunction(tokens[side])
  BY DEF IInv, QuantitiesMatchTokens, TokenSupply, Sides, Quantity
<1>3. totalShares = SumFunction(shares)
  BY DEF IInv, QuantitiesMatchTokens
<1>4. ASSUME NEW side \in Sides, NEW a \in Accounts
      PROVE  tokens[side][a] \in Nat /\ tokens[side][a] <= Quantity(side)
  BY <1>1, <1>2, SumBoundsTerm
<1>5. ASSUME NEW a \in Accounts PROVE shares[a] \in Nat /\ shares[a] <= totalShares
  BY <1>1, <1>3, SumBoundsTerm
<1>6. QED BY <1>2, <1>4, <1>5

(* The exposure recorded for the market moves by what is reserved and        *)
(* released, within the caps.                                                *)
LEMMA ExposureSteps ==
    ASSUME IInv, NEW amount \in Nat
    PROVE  /\ ReserveExposure(Market, amount) =>
                RiskTypeOK' /\ marketExposure'[Market] = marketExposure[Market] + amount
           /\ ReleaseExposure(Market, amount) =>
                RiskTypeOK' /\ marketExposure'[Market] = marketExposure[Market] - amount
<1>1. RiskTypeOK /\ Market \in Markets
  BY StateFacts DEF IInv, TypeOK
<1>2. ASSUME ReserveExposure(Market, amount)
      PROVE  RiskTypeOK' /\ marketExposure'[Market] = marketExposure[Market] + amount
  BY <1>1, <1>2 DEF RiskTypeOK, ReserveExposure
<1>3. ASSUME ReleaseExposure(Market, amount)
      PROVE  RiskTypeOK' /\ marketExposure'[Market] = marketExposure[Market] - amount
  BY <1>1, <1>3 DEF RiskTypeOK, ReleaseExposure
<1>4. QED BY <1>2, <1>3

(* It holds at deployment.                                                  *)
LEMMA InitIInv == Init => IInv
<1> SUFFICES ASSUME Init PROVE IInv
  OBVIOUS
<1> DEFINE zero == [a \in Accounts |-> 0]
<1>1. SumFunction(zero) = 0
  <2>1. zero \in [Accounts -> Int] /\ \A a \in Accounts : zero[a] = 0
    OBVIOUS
  <2> HIDE DEF zero
  <2>2. QED BY <2>1, SumOfZeros
<1>2. /\ shares = zero /\ tokens["YES"] = zero /\ tokens["NO"] = zero
      /\ usdc[Market] = 0 /\ usdc[Vault] = 0 /\ marketExposure[Market] = 0
      /\ given[Market] = 0 /\ given[Vault] = 0
  BY DEF Init, RiskInit, Holders, Contracts, Sides
<1> HIDE DEF zero
<1>3. QuantitiesMatchTokens
  BY <1>1, <1>2 DEF Init, QuantitiesMatchTokens, TokenSupply
<1>4. TypeOK
  <2>1. usdc \in [Holders -> Nat] /\ given \in [Contracts -> Nat]
    BY DEF Init
  <2>2. RiskTypeOK
    <3>1. paused \in BOOLEAN
      BY DEF Init, RiskInit
    <3>2. marketExposure \in [Markets -> 0 .. MARKET_CAP] /\ systemExposure \in 0 .. SYSTEM_CAP
      BY DEF Init, RiskInit
    <3>3. QED BY <3>1, <3>2 DEF RiskTypeOK
  <2>3. tokens \in [Sides -> [Accounts -> Quantities]] /\ qYes \in Quantities /\ qNo \in Quantities
    BY DEF Init, Quantities
  <2>4. voidDustReleased \in BOOLEAN /\ activated \in BOOLEAN /\ vaultTerminal \in BOOLEAN
    BY DEF Init
  <2>5. /\ now \in 0 .. MAX_TIME /\ shares \in [Accounts -> Nat]
        /\ totalFees \in Nat /\ totalShares \in Nat /\ contributedAssets \in Nat
        /\ status \in {"FUNDING", "ACTIVE", "TERMINAL"} /\ outcome \in Outcomes
    BY DEF Init, Outcomes
  <2>6. QED BY <2>1, <2>2, <2>3, <2>4, <2>5 DEF TypeOK
<1>5. /\ PhasesAgree /\ NothingBeforeActivation /\ FundingIsKept /\ VaultKeepsGifts
      /\ RedemptionIsFunded
  <2>1. PhasesAgree /\ NothingBeforeActivation /\ FundingIsKept /\ RedemptionIsFunded
    BY <1>2 DEF Init, PhasesAgree, NothingBeforeActivation, FundingIsKept, RedemptionIsFunded
  <2>2. status = "FUNDING" /\ contributedAssets = 0
    BY DEF Init
  <2>3. VaultKeepsGifts
    BY <1>2, <2>2 DEF VaultKeepsGifts
  <2>4. QED BY <2>1, <2>3
<1>6. ExposureMatchesCustody /\ CollateralFollowsCost
  BY <1>2 DEF Init, ExposureMatchesCustody, Unrecorded, Given, CollateralFollowsCost
<1>7. QED BY <1>3, <1>4, <1>5, <1>6 DEF IInv

-----------------------------------------------------------------------------
(* One lemma per operation.                                                  *)

(* A contribution moves from a provider to the vault, and is recorded there.*)
LEMMA ContributeKeeps ==
    ASSUME IInv, NEW a \in Accounts, NEW amount \in Contributions, Contribute(a, amount)
    PROVE  IInv'
<1>1. amount \in Nat /\ status = "FUNDING" /\ status' = "FUNDING"
  BY DEF Contribute, IInv, PhasesAgree
<1>2. /\ usdc' \in [Holders -> Nat] /\ usdc'[Vault] = usdc[Vault] + amount
      /\ usdc'[Market] = usdc[Market]
  <2>1. usdc' = Transfer(usdc, a, Vault, amount) /\ amount <= usdc[a]
    BY DEF Contribute
  <2>2. QED BY <1>1, <2>1, StateFacts, TransferMoves
<1>3. RiskTypeOK' /\ marketExposure'[Market] = marketExposure[Market] + amount
  BY <1>1, ExposureSteps DEF Contribute
<1>4. /\ shares' \in [Accounts -> Nat] /\ shares' \in [Accounts -> Int]
      /\ shares'[a] = shares[a] + amount /\ \A b \in Accounts \ {a} : shares'[b] = shares[b]
  BY <1>1, StateFacts DEF Contribute
<1>5. /\ totalShares' = totalShares + amount /\ contributedAssets' = contributedAssets + amount
      /\ UNCHANGED <<now, given, status, outcome, totalFees, voidDustReleased, qYes, qNo, tokens,
                     activated, vaultTerminal>>
  BY DEF Contribute, tradeVars
<1>6. TypeOK'
  BY <1>1, <1>2, <1>3, <1>4, <1>5 DEF IInv, TypeOK
<1>7. QuantitiesMatchTokens'
  <2>1. SumFunction(shares') = SumFunction(shares) - shares[a] + shares'[a]
    BY <1>4, StateFacts, SumUpdate
  <2>2. shares[a] \in Nat /\ totalShares = SumFunction(shares) /\ totalShares \in Nat
    BY StateFacts DEF IInv, QuantitiesMatchTokens
  <2>3. totalShares' = SumFunction(shares')
    BY <1>1, <1>4, <1>5, <2>1, <2>2
  <2>4. QED BY <1>5, <2>3 DEF IInv, QuantitiesMatchTokens, TokenSupply
<1>8. ExposureMatchesCustody'
  BY <1>1, <1>2, <1>3, <1>5, StateFacts DEF IInv, ExposureMatchesCustody, Unrecorded, Given
<1>9. PhasesAgree' /\ NothingBeforeActivation' /\ VaultKeepsGifts'
  BY <1>1, <1>2, <1>5, StateFacts DEF IInv, PhasesAgree, NothingBeforeActivation, VaultKeepsGifts
<1>10. FundingIsKept' /\ RedemptionIsFunded' /\ CollateralFollowsCost'
  BY <1>1 DEF FundingIsKept, RedemptionIsFunded, CollateralFollowsCost
<1>11. QED BY <1>6, <1>7, <1>8, <1>9, <1>10 DEF IInv

(* Activation moves all of the vault to the market, enough for no tokens.   *)
LEMMA ActivateKeeps ==
    ASSUME IInv, Activate
    PROVE  IInv'
<1>1. /\ status = "FUNDING" /\ status' = "ACTIVE" /\ activated' /\ ~vaultTerminal
      /\ UNCHANGED <<now, given, outcome, totalFees, voidDustReleased, qYes, qNo, tokens, shares,
                     totalShares, contributedAssets, vaultTerminal, riskVars>>
  BY DEF Activate, tradeVars
<1>2. /\ qYes = 0 /\ qNo = 0 /\ usdc[Market] = given[Market] /\ ~voidDustReleased
      /\ usdc[Vault] = given[Vault] + contributedAssets
  BY <1>1 DEF IInv, NothingBeforeActivation, VaultKeepsGifts, PhasesAgree
<1>3. /\ usdc' \in [Holders -> Nat] /\ usdc'[Vault] = usdc[Vault] - contributedAssets
      /\ usdc'[Market] = usdc[Market] + contributedAssets
  <2>1. usdc' = Transfer(usdc, Vault, Market, contributedAssets) /\ contributedAssets <= usdc[Vault]
    BY DEF Activate
  <2>2. QED BY <2>1, StateFacts, TransferMoves
<1>4. TypeOK'
  BY <1>1, <1>3 DEF IInv, TypeOK, RiskTypeOK, riskVars, Activate
<1>5. QuantitiesMatchTokens'
  BY <1>1 DEF IInv, QuantitiesMatchTokens, TokenSupply
<1>f. /\ usdc[Market] \in Nat /\ usdc[Vault] \in Nat /\ contributedAssets \in Nat
      /\ given[Market] \in Nat /\ given[Vault] \in Nat /\ marketExposure[Market] \in Nat
      /\ given' = given /\ marketExposure' = marketExposure
  BY <1>1, StateFacts DEF riskVars
<1>6. ExposureMatchesCustody'
  <2>1. usdc[Market] + usdc[Vault] - marketExposure[Market] = given[Market] + given[Vault]
    BY <1>2 DEF IInv, ExposureMatchesCustody, Unrecorded, Given
  <2>2. QED BY <1>3, <1>f, <2>1 DEF ExposureMatchesCustody, Unrecorded, Given
<1>7. PhasesAgree' /\ NothingBeforeActivation' /\ VaultKeepsGifts' /\ RedemptionIsFunded'
  <2>1. PhasesAgree' /\ NothingBeforeActivation' /\ RedemptionIsFunded'
    BY <1>1, <1>2 DEF IInv, PhasesAgree, NothingBeforeActivation, RedemptionIsFunded
  <2>2. VaultKeepsGifts'
    BY <1>1, <1>2, <1>3, <1>f DEF VaultKeepsGifts
  <2>3. QED BY <2>1, <2>2
<1>8. FundingIsKept'
  BY <1>1 DEF Activate, FundingIsKept
<1>9. CollateralFollowsCost'
  <2>1. COST[0][0] \in Nat
    BY DEF Quantities
  <2>2. (CostAt(<<qYes, qNo>>) - CostAt(<<0, 0>>))' = 0
    BY <1>1, <1>2, <2>1 DEF CostAt
  <2>3. usdc'[Market] = contributedAssets' + given'[Market]
    BY <1>1, <1>2, <1>3, StateFacts
  <2>4. contributedAssets' \in Nat /\ given'[Market] \in Nat
    BY <1>1, StateFacts
  <2>5. COST[qYes'][qNo'] = COST[0][0]
    BY <1>1, <1>2
  <2>6. QED BY <2>1, <2>3, <2>4, <2>5 DEF CollateralFollowsCost, CostAt
<1>10. QED BY <1>4, <1>5, <1>6, <1>7, <1>8, <1>9 DEF IInv

(* A withdrawal from a vault that was never activated gives back what came. *)
LEMMA WithdrawFailedKeeps ==
    ASSUME IInv, NEW a \in Accounts, WithdrawFailedFunding(a)
    PROVE  IInv'
<1> DEFINE amount == shares[a]
<1>1. amount \in Nat /\ amount <= totalShares /\ status = "FUNDING" /\ status' = "FUNDING"
  BY HoldingsAreCounted DEF WithdrawFailedFunding, IInv, PhasesAgree
<1>2. /\ usdc' \in [Holders -> Nat] /\ usdc'[Vault] = usdc[Vault] - amount
      /\ usdc'[Market] = usdc[Market]
  <2>1. usdc' = Transfer(usdc, Vault, a, amount) /\ amount <= usdc[Vault]
    BY DEF WithdrawFailedFunding
  <2>2. QED BY <1>1, <2>1, StateFacts, TransferMoves
<1>3. RiskTypeOK' /\ marketExposure'[Market] = marketExposure[Market] - amount
  BY <1>1, ExposureSteps DEF WithdrawFailedFunding
<1>4. /\ shares' \in [Accounts -> Nat] /\ shares' \in [Accounts -> Int]
      /\ shares'[a] = 0 /\ \A b \in Accounts \ {a} : shares'[b] = shares[b]
  BY <1>1, StateFacts DEF WithdrawFailedFunding
<1>5. /\ totalShares' = totalShares - amount /\ contributedAssets' = contributedAssets - amount
      /\ UNCHANGED <<now, given, status, outcome, totalFees, voidDustReleased, qYes, qNo, tokens,
                     activated, vaultTerminal>>
  BY DEF WithdrawFailedFunding, tradeVars
<1>6. contributedAssets = totalShares /\ totalShares' \in Nat /\ contributedAssets' \in Nat
  BY <1>1, <1>5, StateFacts DEF IInv, NothingBeforeActivation
<1> HIDE DEF amount
<1>7. TypeOK'
  BY <1>1, <1>2, <1>3, <1>4, <1>5, <1>6 DEF IInv, TypeOK
<1>8. QuantitiesMatchTokens'
  <2>1. SumFunction(shares') = SumFunction(shares) - shares[a] + shares'[a]
    BY <1>4, StateFacts, SumUpdate
  <2>2. totalShares = SumFunction(shares) /\ totalShares \in Nat
    BY StateFacts DEF IInv, QuantitiesMatchTokens
  <2>3. totalShares' = SumFunction(shares')
    BY <1>1, <1>4, <1>5, <2>1, <2>2 DEF amount
  <2>4. QED BY <1>5, <2>3 DEF IInv, QuantitiesMatchTokens, TokenSupply
<1>9. ExposureMatchesCustody'
  BY <1>1, <1>2, <1>3, <1>5, StateFacts DEF IInv, ExposureMatchesCustody, Unrecorded, Given
<1>10. PhasesAgree' /\ NothingBeforeActivation' /\ VaultKeepsGifts'
  BY <1>1, <1>2, <1>5, <1>6, StateFacts
     DEF IInv, PhasesAgree, NothingBeforeActivation, VaultKeepsGifts
<1>11. FundingIsKept' /\ RedemptionIsFunded' /\ CollateralFollowsCost'
  BY <1>1 DEF FundingIsKept, RedemptionIsFunded, CollateralFollowsCost
<1>12. QED BY <1>7, <1>8, <1>9, <1>10, <1>11 DEF IInv

(* A withdrawal takes at most the vault's assets, and releases what it takes.*)
LEMMA WithdrawTerminalKeeps ==
    ASSUME IInv, NEW a \in Accounts, NEW shareAmount \in Nat, WithdrawTerminal(a, shareAmount)
    PROVE  IInv'
<1> DEFINE amount == WithdrawAmount(shareAmount)
<1>1. /\ shares[a] \in Nat /\ shareAmount <= shares[a] /\ shares[a] <= totalShares
      /\ shareAmount > 0 /\ status = "TERMINAL" /\ totalShares \in Nat \ {0}
  <2>1. vaultTerminal /\ shareAmount > 0 /\ shares[a] >= shareAmount
    BY DEF WithdrawTerminal
  <2>2. status = "TERMINAL"
    BY <2>1 DEF IInv, PhasesAgree
  <2>3. shares[a] \in Nat /\ shares[a] <= totalShares /\ totalShares \in Nat
    BY HoldingsAreCounted, StateFacts
  <2>4. QED BY <2>1, <2>2, <2>3
<1>2. amount \in Nat /\ amount <= usdc[Vault]
  <2>1. usdc[Vault] \in Nat /\ shareAmount <= totalShares
    BY <1>1, StateFacts
  <2>2. shareAmount * usdc[Vault] = usdc[Vault] * shareAmount
    BY <2>1, Z3
  <2>3. /\ (usdc[Vault] * shareAmount) \div totalShares \in Nat
        /\ (usdc[Vault] * shareAmount) \div totalShares <= usdc[Vault]
    BY <1>1, <2>1, ShareBound
  <2>4. QED BY <2>2, <2>3 DEF WithdrawAmount
<1>3. /\ usdc' \in [Holders -> Nat] /\ usdc'[Vault] = usdc[Vault] - amount
      /\ usdc'[Market] = usdc[Market]
  <2>1. usdc' = Transfer(usdc, Vault, a, amount)
    BY DEF WithdrawTerminal
  <2> HIDE DEF amount
  <2>2. /\ usdc \in [Holders -> Nat] /\ Vault \in Holders /\ Market \in Holders /\ Market # Vault
        /\ a \in Holders /\ a # Vault /\ a # Market
    BY StateFacts
  <2>3. QED BY <1>2, <2>1, <2>2, TransferMoves
<1>4. RiskTypeOK' /\ marketExposure'[Market] = marketExposure[Market] - amount
  BY <1>2, ExposureSteps DEF WithdrawTerminal
<1>5. /\ shares' \in [Accounts -> Nat] /\ shares' \in [Accounts -> Int]
      /\ shares'[a] = shares[a] - shareAmount /\ \A b \in Accounts \ {a} : shares'[b] = shares[b]
  BY <1>1, StateFacts DEF WithdrawTerminal
<1>6. /\ totalShares' = totalShares - shareAmount /\ totalShares' \in Nat
      /\ UNCHANGED <<now, given, status, outcome, totalFees, voidDustReleased, qYes, qNo, tokens,
                     contributedAssets, activated, vaultTerminal>>
  BY <1>1 DEF WithdrawTerminal, tradeVars
<1> HIDE DEF amount
<1>7. TypeOK'
  BY <1>3, <1>4, <1>5, <1>6 DEF IInv, TypeOK
<1>8. QuantitiesMatchTokens'
  <2>1. SumFunction(shares') = SumFunction(shares) - shares[a] + shares'[a]
    BY <1>5, StateFacts, SumUpdate
  <2>2. totalShares = SumFunction(shares)
    BY DEF IInv, QuantitiesMatchTokens
  <2>3. totalShares' = SumFunction(shares')
    BY <1>1, <1>5, <1>6, <2>1, <2>2
  <2>4. QED BY <1>6, <2>3 DEF IInv, QuantitiesMatchTokens, TokenSupply
<1>9. ExposureMatchesCustody'
  BY <1>2, <1>3, <1>4, <1>6, StateFacts DEF IInv, ExposureMatchesCustody, Unrecorded, Given
<1>10. PhasesAgree' /\ NothingBeforeActivation' /\ VaultKeepsGifts' /\ FundingIsKept' /\ CollateralFollowsCost'
  BY <1>1, <1>6 DEF IInv, PhasesAgree, NothingBeforeActivation, VaultKeepsGifts, FundingIsKept, CollateralFollowsCost
<1>11. RedemptionIsFunded'
  BY <1>3, <1>6 DEF IInv, RedemptionIsFunded
<1>12. QED BY <1>7, <1>8, <1>9, <1>10, <1>11 DEF IInv

(* A sum over accounts when one account changes.                             *)
LEMMA SumOverAccounts ==
    ASSUME NEW a \in Accounts
    PROVE  \A f, g \in [Accounts -> Int] :
             (\A b \in Accounts \ {a} : g[b] = f[b])
               => SumFunction(g) = SumFunction(f) - f[a] + g[a]
BY SumUpdate

(* Tokens minted to or burned from one account, with the quantities moved by *)
(* as much: every token is still counted.                                    *)
LEMMA SupplyMoves ==
    ASSUME IInv, NEW a \in Accounts, NEW dYes \in Int, NEW dNo \in Int,
           tokens' \in [Sides -> [Accounts -> Int]],
           tokens'["YES"][a] = tokens["YES"][a] + dYes, tokens'["YES"][a] >= 0,
           tokens'["NO"][a] = tokens["NO"][a] + dNo, tokens'["NO"][a] >= 0,
           \A side \in Sides : \A b \in Accounts \ {a} : tokens'[side][b] = tokens[side][b],
           qYes' = qYes + dYes, qYes' <= MAX_Q, qNo' = qNo + dNo, qNo' <= MAX_Q
    PROVE  /\ tokens' \in [Sides -> [Accounts -> Quantities]]
           /\ qYes' \in Quantities /\ qNo' \in Quantities
           /\ qYes' = SumFunction(tokens'["YES"]) /\ qNo' = SumFunction(tokens'["NO"])
<1>1. /\ "YES" \in Sides /\ "NO" \in Sides
      /\ qYes = SumFunction(tokens["YES"]) /\ qNo = SumFunction(tokens["NO"])
  BY DEF Sides, IInv, QuantitiesMatchTokens, TokenSupply
<1>2. /\ tokens["YES"] \in [Accounts -> Int] /\ tokens["NO"] \in [Accounts -> Int]
      /\ tokens'["YES"] \in [Accounts -> Int] /\ tokens'["NO"] \in [Accounts -> Int]
      /\ tokens["YES"][a] \in Int /\ tokens["NO"][a] \in Int /\ qYes \in Int /\ qNo \in Int
  <2>1. tokens["YES"] \in [Accounts -> Int] /\ tokens["NO"] \in [Accounts -> Int] /\ qYes \in Int /\ qNo \in Int
    BY <1>1, StateFacts
  <2>2. QED BY <1>1, <2>1
<1>3. /\ SumFunction(tokens'["YES"]) = SumFunction(tokens["YES"]) - tokens["YES"][a] + tokens'["YES"][a]
      /\ SumFunction(tokens'["NO"]) = SumFunction(tokens["NO"]) - tokens["NO"][a] + tokens'["NO"][a]
  <2>1. /\ \A b \in Accounts \ {a} : tokens'["YES"][b] = tokens["YES"][b]
        /\ \A b \in Accounts \ {a} : tokens'["NO"][b] = tokens["NO"][b]
    BY <1>1
  <2>2. SumFunction(tokens'["YES"]) = SumFunction(tokens["YES"]) - tokens["YES"][a] + tokens'["YES"][a]
    BY <1>2, <2>1, SumOverAccounts, Zenon
  <2>3. SumFunction(tokens'["NO"]) = SumFunction(tokens["NO"]) - tokens["NO"][a] + tokens'["NO"][a]
    BY <1>2, <2>1, SumOverAccounts, Zenon
  <2>4. QED BY <2>2, <2>3
<1>4. qYes' = SumFunction(tokens'["YES"]) /\ qNo' = SumFunction(tokens'["NO"])
  BY <1>1, <1>2, <1>3
<1>5. ASSUME NEW side \in Sides, NEW b \in Accounts
      PROVE  tokens'[side][b] \in Nat
  <2>1. tokens[side][b] \in Nat /\ tokens[side][a] \in Nat
    BY HoldingsAreCounted
  <2>2. CASE b = a
    <3>1. side = "YES" \/ side = "NO"
      BY DEF Sides
    <3>2. tokens'[side][a] \in Int /\ tokens'[side][a] >= 0
      BY <3>1
    <3>3. QED BY <2>2, <3>2
  <2>3. CASE b # a
    BY <2>1, <2>3
  <2>4. QED BY <2>2, <2>3
<1>6. ASSUME NEW side \in Sides
      PROVE  tokens'[side] \in [Accounts -> Quantities]
  <2>1. tokens'[side] \in [Accounts -> Nat]
    BY <1>5
  <2>2. SumFunction(tokens'[side]) <= MAX_Q
    BY <1>4 DEF Sides
  <2>3. SumFunction(tokens'[side]) \in Nat
    <3>1. tokens'[side] \in [Accounts -> Int]
      BY <2>1
    <3>2. QED BY <2>1, <3>1, SumFunctionType
  <2>4. ASSUME NEW b \in Accounts PROVE tokens'[side][b] \in Quantities
    <3>1. tokens'[side][b] \in Nat /\ tokens'[side][b] <= SumFunction(tokens'[side])
      BY <2>1, SumBoundsTerm
    <3>2. QED BY <2>2, <2>3, <3>1 DEF Quantities
  <2>5. QED BY <2>1, <2>4
<1>7. qYes' \in Quantities /\ qNo' \in Quantities
  <2>1. tokens'["YES"] \in [Accounts -> Nat] /\ tokens'["NO"] \in [Accounts -> Nat]
    BY <1>1, <1>5
  <2>2. qYes' \in Nat /\ qNo' \in Nat
    BY <1>2, <1>4, <2>1, SumFunctionType
  <2>3. QED BY <2>2 DEF Quantities
<1>8. QED BY <1>4, <1>6, <1>7

(* The market's collateral while it trades, and the cost at its quantities.  *)
LEMMA CostFacts ==
    ASSUME NEW y \in Quantities, NEW n \in Quantities
    PROVE  /\ COST[y][n] \in Nat /\ COST[0][0] \in Nat
           /\ Larger(y, n) + COST[0][0] <= COST[y][n] + FUNDING_TARGET
<1>1. COST[y][n] \in Nat /\ COST[0][0] \in Nat
  BY DEF Quantities
<1>2. QED BY <1>1, CostAssumption DEF Larger

(* A purchase pays the difference of the costs and a fee; what of the fee   *)
(* leaves market and vault is released.                                     *)
LEMMA BuyKeeps ==
    ASSUME IInv, NEW a \in Accounts, NEW side \in Sides, NEW amount \in ShareAmounts,
           Buy(a, side, amount)
    PROVE  IInv'
<1> DEFINE q        == Bought(side, amount)
           notional == CostAt(q) - CostAt(<<qYes, qNo>>)
           fee      == FeeOn(notional)
           total    == notional + fee
           paid     == Transfer(usdc, a, Market, total)
           dYes     == IF side = "YES" THEN amount ELSE 0
           dNo      == IF side = "YES" THEN 0 ELSE amount
<1>1. /\ amount \in Nat /\ amount > 0 /\ status = "ACTIVE" /\ status' = "ACTIVE"
      /\ dYes \in Nat /\ dNo \in Nat
      /\ q[1] = qYes + dYes /\ q[2] = qNo + dNo /\ q[1] <= MAX_Q /\ q[2] <= MAX_Q
      /\ qYes' = q[1] /\ qNo' = q[2]
      /\ tokens' = [tokens EXCEPT ![side][a] = @ + amount]
  BY StateFacts DEF Buy, Bought, SetQuantities
<1>2. /\ tokens' \in [Sides -> [Accounts -> Quantities]]
      /\ qYes' \in Quantities /\ qNo' \in Quantities
      /\ qYes' = SumFunction(tokens'["YES"]) /\ qNo' = SumFunction(tokens'["NO"])
  <2>1. \A s \in Sides, b \in Accounts : tokens[s][b] \in Nat
    BY HoldingsAreCounted
  <2>2. tokens \in [Sides -> [Accounts -> Nat]]
    BY <2>1 DEF IInv, TypeOK
  <2>3. tokens' \in [Sides -> [Accounts -> Int]]
    <3>1. tokens \in [Sides -> [Accounts -> Int]] /\ tokens[side][a] + amount \in Int
      BY <1>1, <2>2
    <3>2. QED BY <1>1, <3>1
  <2>4. /\ tokens'["YES"][a] = tokens["YES"][a] + dYes /\ tokens'["YES"][a] >= 0
        /\ tokens'["NO"][a] = tokens["NO"][a] + dNo /\ tokens'["NO"][a] >= 0
        /\ \A s \in Sides : \A b \in Accounts \ {a} : tokens'[s][b] = tokens[s][b]
    BY <1>1, <2>1, <2>2 DEF Sides
  <2> HIDE DEF q, dYes, dNo
  <2>5. dYes \in Int /\ dNo \in Int
    BY <1>1
  <2>6. qYes' = qYes + dYes /\ qYes' <= MAX_Q /\ qNo' = qNo + dNo /\ qNo' <= MAX_Q
    BY <1>1
  <2>7. QED BY <2>3, <2>4, <2>5, <2>6, SupplyMoves
<1>3. CostAt(q) \in Nat /\ CostAt(<<qYes, qNo>>) \in Nat /\ COST[0][0] \in Nat
  <2>1. q[1] \in Quantities /\ q[2] \in Quantities /\ qYes \in Quantities /\ qNo \in Quantities
    BY <1>1, <1>2 DEF IInv, TypeOK
  <2> HIDE DEF q
  <2>2. QED BY <2>1, CostFacts DEF CostAt
<1>4. notional \in Nat /\ fee \in Nat /\ fee <= notional /\ total \in Nat
  <2>1. notional > 0
    BY DEF Buy
  <2>2. notional \in Nat
    BY <1>3, <2>1
  <2> HIDE DEF notional
  <2>3. fee \in Nat /\ fee <= notional
    BY <2>2, ShareBound DEF FeeOn
  <2>4. QED BY <2>2, <2>3
<1>5. fee \div 2 \in Nat /\ fee \div 2 <= fee
  <2> HIDE DEF fee
  <2>1. QED BY <1>4, FeeParts
<1>6. total <= usdc[a] /\ usdc' = RouteLMSR(paid, Market, Vault, Creator, fee)
  BY DEF Buy
<1>7. /\ marketExposure[Market] + total <= MARKET_CAP
      /\ systemExposure + total <= SYSTEM_CAP
      /\ marketExposure' = [marketExposure EXCEPT ![Market] = (@ + total) - (fee - fee \div 2)]
      /\ systemExposure' = (systemExposure + total) - (fee - fee \div 2)
      /\ UNCHANGED paused
  BY DEF Buy
<1>8. /\ totalFees' = totalFees + fee
      /\ UNCHANGED <<now, given, status, outcome, voidDustReleased, vaultVars>>
  BY DEF Buy
<1>c. CostAt(<<qYes, qNo>>)' = CostAt(<<qYes, qNo>>) + notional
  <2>1. CostAt(<<qYes, qNo>>)' = CostAt(q)
    BY <1>1 DEF CostAt
  <2>2. QED BY <1>3, <2>1
<1> HIDE DEF q, notional, fee, paid, dYes, dNo
<1>9. /\ usdc' \in [Holders -> Nat]
      /\ usdc'[Market] = usdc[Market] + notional
      /\ usdc'[Vault] = usdc[Vault] + fee \div 2
  <2>1. /\ paid \in [Holders -> Nat] /\ paid[Market] = usdc[Market] + total
        /\ paid[Vault] = usdc[Vault]
    <3>1. /\ usdc \in [Holders -> Nat] /\ Vault \in Holders /\ Market \in Holders /\ Market # Vault
          /\ a \in Holders /\ a # Vault /\ a # Market
      BY StateFacts
    <3> HIDE DEF total
    <3>2. QED BY <1>4, <1>6, <3>1, TransferMoves DEF paid
  <2>2. fee <= paid[Market] /\ usdc[Market] \in Nat
    BY <1>4, <2>1, StateFacts
  <2>3. /\ usdc' \in [Holders -> Nat] /\ usdc'[Market] = paid[Market] - fee
        /\ usdc'[Vault] = paid[Vault] + fee \div 2
    BY <1>4, <1>6, <2>1, <2>2, RouteMoves
  <2>4. usdc'[Market] = usdc[Market] + notional
    <3>1. usdc'[Market] = (usdc[Market] + (notional + fee)) - fee
      BY <2>1, <2>3
    <3>2. QED BY <1>4, <2>2, <3>1
  <2>5. usdc'[Vault] = usdc[Vault] + fee \div 2
    BY <2>1, <2>3
  <2>6. QED BY <2>3, <2>4, <2>5
<1>10. RiskTypeOK' /\ marketExposure'[Market] = marketExposure[Market] + notional + fee \div 2
  <2>1. RiskTypeOK /\ Market \in Markets /\ marketExposure[Market] \in Nat /\ systemExposure \in Nat
    BY StateFacts DEF IInv, TypeOK
  <2>2. marketExposure'[Market] = marketExposure[Market] + notional + fee \div 2
    BY <1>4, <1>5, <1>7, <2>1 DEF RiskTypeOK
  <2>3. /\ (marketExposure[Market] + total) - (fee - fee \div 2) \in 0 .. MARKET_CAP
        /\ systemExposure' \in 0 .. SYSTEM_CAP
    BY <1>4, <1>5, <1>7, <2>1
  <2>4. RiskTypeOK'
    BY <1>7, <2>1, <2>3 DEF RiskTypeOK
  <2>5. QED BY <2>2, <2>4
<1>11. TypeOK'
  BY <1>2, <1>4, <1>8, <1>9, <1>10 DEF IInv, TypeOK, vaultVars
<1>12. /\ PhasesAgree' /\ NothingBeforeActivation' /\ VaultKeepsGifts' /\ FundingIsKept'
      /\ RedemptionIsFunded'
  <2>1. PhasesAgree' /\ NothingBeforeActivation' /\ FundingIsKept' /\ RedemptionIsFunded'
    BY <1>1, <1>8 DEF IInv, PhasesAgree, NothingBeforeActivation, FundingIsKept,
                        RedemptionIsFunded, vaultVars
  <2>2. given' = given /\ given[Vault] \in Nat /\ usdc[Vault] \in Nat /\ given[Vault] <= usdc[Vault]
    BY <1>1, <1>8, StateFacts DEF IInv, VaultKeepsGifts
  <2>3. VaultKeepsGifts'
    BY <1>1, <1>5, <1>9, <2>2 DEF VaultKeepsGifts
  <2>4. QED BY <2>1, <2>3
<1>13. ExposureMatchesCustody'
  <2>1. ~voidDustReleased
    BY <1>1 DEF IInv, PhasesAgree
  <2>2. usdc[Market] + usdc[Vault] - marketExposure[Market] = given[Market] + given[Vault]
    BY <2>1 DEF IInv, ExposureMatchesCustody, Unrecorded, Given
  <2>3. /\ usdc[Market] \in Nat /\ usdc[Vault] \in Nat /\ marketExposure[Market] \in Nat
        /\ given' = given /\ given[Market] \in Nat /\ given[Vault] \in Nat
    BY <1>8, StateFacts
  <2>4. QED BY <1>4, <1>5, <1>9, <1>10, <2>2, <2>3 DEF ExposureMatchesCustody, Unrecorded, Given
<1>14. CollateralFollowsCost'
  <2>1. usdc[Market] = contributedAssets + CostAt(<<qYes, qNo>>) - CostAt(<<0, 0>>) + given[Market]
    BY <1>1 DEF IInv, CollateralFollowsCost
  <2>2. CostAt(<<0, 0>>) \in Nat /\ CostAt(<<0, 0>>)' = CostAt(<<0, 0>>)
    BY <1>3 DEF CostAt
  <2>3. /\ contributedAssets' = contributedAssets /\ contributedAssets \in Nat
        /\ given' = given /\ given[Market] \in Nat
    BY <1>8, StateFacts DEF vaultVars
  <2>4. usdc'[Market] = contributedAssets' + CostAt(<<qYes, qNo>>)' - CostAt(<<0, 0>>)' + given'[Market]
    BY <1>3, <1>4, <1>9, <1>c, <2>1, <2>2, <2>3
  <2>5. QED BY <2>4 DEF CollateralFollowsCost
<1>15. QuantitiesMatchTokens'
  BY <1>2, <1>8 DEF IInv, QuantitiesMatchTokens, TokenSupply, vaultVars
<1>16. QED BY <1>11, <1>12, <1>13, <1>14, <1>15 DEF IInv

(* A sale returns the difference of the costs, less a fee that is routed.   *)
LEMMA SellKeeps ==
    ASSUME IInv, NEW a \in Accounts, NEW side \in Sides, NEW amount \in ShareAmounts,
           Sell(a, side, amount)
    PROVE  IInv'
<1> DEFINE q        == Sold(side, amount)
           notional == CostAt(<<qYes, qNo>>) - CostAt(q)
           fee      == FeeOn(notional)
           dYes     == IF side = "YES" THEN -amount ELSE 0
           dNo      == IF side = "YES" THEN 0 ELSE -amount
           routed   == RouteLMSR(usdc, Market, Vault, Creator, fee)
<1>1. /\ amount \in Nat /\ amount > 0 /\ amount <= tokens[side][a]
      /\ status = "ACTIVE" /\ status' = "ACTIVE"
      /\ dYes \in Int /\ dNo \in Int
      /\ q[1] = qYes + dYes /\ q[2] = qNo + dNo
      /\ qYes' = q[1] /\ qNo' = q[2]
      /\ tokens' = [tokens EXCEPT ![side][a] = @ + (-amount)]
  BY StateFacts DEF Sell, Sold, SetQuantities
<1>2. /\ tokens' \in [Sides -> [Accounts -> Quantities]]
      /\ qYes' \in Quantities /\ qNo' \in Quantities
      /\ qYes' = SumFunction(tokens'["YES"]) /\ qNo' = SumFunction(tokens'["NO"])
  <2>1. \A s \in Sides, b \in Accounts : tokens[s][b] \in Nat
    BY HoldingsAreCounted
  <2>2. tokens \in [Sides -> [Accounts -> Nat]]
    BY <2>1 DEF IInv, TypeOK
  <2>3. tokens' \in [Sides -> [Accounts -> Int]]
    <3>1. tokens \in [Sides -> [Accounts -> Int]] /\ tokens[side][a] + (-amount) \in Int
      BY <1>1, <2>2
    <3>2. QED BY <1>1, <3>1
  <2>4. /\ tokens'["YES"][a] = tokens["YES"][a] + dYes /\ tokens'["YES"][a] >= 0
        /\ tokens'["NO"][a] = tokens["NO"][a] + dNo /\ tokens'["NO"][a] >= 0
        /\ \A s \in Sides : \A b \in Accounts \ {a} : tokens'[s][b] = tokens[s][b]
    BY <1>1, <2>1, <2>2 DEF Sides
  <2>5. qYes \in 0 .. MAX_Q /\ qNo \in 0 .. MAX_Q
    BY DEF IInv, TypeOK, Quantities
  <2>6. qYes + dYes <= MAX_Q /\ qNo + dNo <= MAX_Q
    BY <1>1, <2>5
  <2> HIDE DEF q, dYes, dNo
  <2>7. qYes' = qYes + dYes /\ qYes' <= MAX_Q /\ qNo' = qNo + dNo /\ qNo' <= MAX_Q
    BY <1>1, <2>6
  <2>8. dYes \in Int /\ dNo \in Int
    BY <1>1
  <2>9. QED BY <2>3, <2>4, <2>7, <2>8, SupplyMoves
<1>3. CostAt(q) \in Nat /\ CostAt(<<qYes, qNo>>) \in Nat /\ COST[0][0] \in Nat
  <2>1. q[1] \in Quantities /\ q[2] \in Quantities /\ qYes \in Quantities /\ qNo \in Quantities
    BY <1>1, <1>2 DEF IInv, TypeOK
  <2> HIDE DEF q
  <2>2. QED BY <2>1, CostFacts DEF CostAt
<1>4. notional \in Nat /\ fee \in Nat /\ fee <= notional /\ notional <= usdc[Market]
  <2>1. notional >= 0 /\ notional <= usdc[Market]
    BY DEF Sell
  <2>2. notional \in Nat
    BY <1>3, <2>1
  <2> HIDE DEF notional
  <2>3. fee \in Nat /\ fee <= notional
    BY <2>2, ShareBound DEF FeeOn
  <2>4. QED BY <2>1, <2>2, <2>3
<1>5. fee \div 2 \in Nat /\ fee \div 2 <= fee
  <2> HIDE DEF fee
  <2>1. QED BY <1>4, FeeParts
<1>6. /\ ReleaseExposure(Market, notional - fee \div 2)
      /\ usdc' = Transfer(routed, Market, a, notional - fee)
  BY DEF Sell
<1>7. /\ totalFees' = totalFees + fee
      /\ UNCHANGED <<now, given, status, outcome, voidDustReleased, vaultVars>>
  BY DEF Sell
<1>c. CostAt(<<qYes, qNo>>)' = CostAt(<<qYes, qNo>>) - notional
  <2>1. CostAt(<<qYes, qNo>>)' = CostAt(q)
    BY <1>1 DEF CostAt
  <2>2. QED BY <1>3, <2>1
<1> HIDE DEF q, notional, fee, dYes, dNo, routed
<1>8. /\ usdc' \in [Holders -> Nat]
      /\ usdc'[Market] = usdc[Market] - notional
      /\ usdc'[Vault] = usdc[Vault] + fee \div 2
  <2>0. /\ usdc \in [Holders -> Nat] /\ Vault \in Holders /\ Market \in Holders /\ Market # Vault
        /\ a \in Holders /\ a # Vault /\ a # Market
        /\ usdc[Market] \in Nat /\ usdc[Vault] \in Nat
    BY StateFacts
  <2>1. /\ routed \in [Holders -> Nat] /\ routed[Market] = usdc[Market] - fee
        /\ routed[Vault] = usdc[Vault] + fee \div 2
    <3>1. fee <= usdc[Market]
      BY <1>4, <2>0
    <3>2. QED BY <1>4, <2>0, <3>1, RouteMoves DEF routed
  <2>2. notional - fee \in Nat /\ notional - fee <= routed[Market]
    BY <1>4, <2>0, <2>1
  <2>3. /\ usdc' \in [Holders -> Nat] /\ usdc'[Market] = routed[Market] - (notional - fee)
        /\ usdc'[Vault] = routed[Vault]
    BY <1>6, <2>0, <2>1, <2>2, TransferMoves
  <2>4. usdc'[Market] = usdc[Market] - notional
    <3>1. usdc'[Market] = (usdc[Market] - fee) - (notional - fee)
      BY <2>1, <2>3
    <3>2. QED BY <1>4, <2>0, <3>1
  <2>5. usdc'[Vault] = usdc[Vault] + fee \div 2
    BY <2>1, <2>3
  <2>6. QED BY <2>3, <2>4, <2>5
<1>9. RiskTypeOK' /\ marketExposure'[Market] = marketExposure[Market] - (notional - fee \div 2)
  <2>1. notional - fee \div 2 \in Nat
    BY <1>4, <1>5
  <2>2. QED BY <1>6, <2>1, ExposureSteps
<1>10. TypeOK'
  BY <1>2, <1>4, <1>7, <1>8, <1>9 DEF IInv, TypeOK, vaultVars
<1>11. /\ PhasesAgree' /\ NothingBeforeActivation' /\ VaultKeepsGifts' /\ FundingIsKept'
      /\ RedemptionIsFunded'
  <2>1. PhasesAgree' /\ NothingBeforeActivation' /\ FundingIsKept' /\ RedemptionIsFunded'
    BY <1>1, <1>7 DEF IInv, PhasesAgree, NothingBeforeActivation, FundingIsKept,
                        RedemptionIsFunded, vaultVars
  <2>2. given' = given /\ given[Vault] \in Nat /\ usdc[Vault] \in Nat /\ given[Vault] <= usdc[Vault]
    BY <1>1, <1>7, StateFacts DEF IInv, VaultKeepsGifts
  <2>3. VaultKeepsGifts'
    BY <1>1, <1>5, <1>8, <2>2 DEF VaultKeepsGifts
  <2>4. QED BY <2>1, <2>3
<1>12. ExposureMatchesCustody'
  <2>1. ~voidDustReleased
    BY <1>1 DEF IInv, PhasesAgree
  <2>2. usdc[Market] + usdc[Vault] - marketExposure[Market] = given[Market] + given[Vault]
    BY <2>1 DEF IInv, ExposureMatchesCustody, Unrecorded, Given
  <2>3. /\ usdc[Market] \in Nat /\ usdc[Vault] \in Nat /\ marketExposure[Market] \in Nat
        /\ given' = given /\ given[Market] \in Nat /\ given[Vault] \in Nat
    BY <1>7, StateFacts
  <2>4. QED BY <1>4, <1>5, <1>8, <1>9, <2>2, <2>3 DEF ExposureMatchesCustody, Unrecorded, Given
<1>13. CollateralFollowsCost'
  <2>1. usdc[Market] = contributedAssets + CostAt(<<qYes, qNo>>) - CostAt(<<0, 0>>) + given[Market]
    BY <1>1 DEF IInv, CollateralFollowsCost
  <2>2. CostAt(<<0, 0>>) \in Nat /\ CostAt(<<0, 0>>)' = CostAt(<<0, 0>>)
    BY <1>3 DEF CostAt
  <2>3. /\ contributedAssets' = contributedAssets /\ contributedAssets \in Nat
        /\ given' = given /\ given[Market] \in Nat
    BY <1>7, StateFacts DEF vaultVars
  <2>4. usdc'[Market] = contributedAssets' + CostAt(<<qYes, qNo>>)' - CostAt(<<0, 0>>)' + given'[Market]
    BY <1>3, <1>4, <1>8, <1>c, <2>1, <2>2, <2>3
  <2>5. QED BY <2>4 DEF CollateralFollowsCost
<1>14. QuantitiesMatchTokens'
  BY <1>2, <1>7 DEF IInv, QuantitiesMatchTokens, TokenSupply, vaultVars
<1>15. QED BY <1>10, <1>11, <1>12, <1>13, <1>14 DEF IInv

(* A transfer of tokens moves nothing that the market counts.                *)
LEMMA TransferTokensKeeps ==
    ASSUME IInv, NEW from \in Accounts, NEW to \in Accounts, NEW side \in Sides,
           NEW amount \in ShareAmounts, TransferTokens(from, to, side, amount)
    PROVE  IInv'
<1>1. /\ from # to /\ amount \in Nat /\ amount <= tokens[side][from]
      /\ tokens' = [tokens EXCEPT ![side][from] = @ - amount, ![side][to] = @ + amount]
      /\ UNCHANGED <<now, usdc, given, status, outcome, totalFees, voidDustReleased, qYes, qNo,
                     vaultVars, riskVars>>
  BY DEF TransferTokens
<1>2. \A s \in Sides, b \in Accounts : tokens[s][b] \in Nat /\ tokens[s][b] <= Quantity(s)
  BY HoldingsAreCounted
<1> DEFINE f == tokens[side]
           g == [f EXCEPT ![from] = @ - amount]
           h == [g EXCEPT ![to] = @ + amount]
<1>3. /\ f \in [Accounts -> Int] /\ g \in [Accounts -> Int] /\ h \in [Accounts -> Int]
      /\ h \in [Accounts -> Nat]
      /\ g[from] = f[from] - amount /\ \A b \in Accounts \ {from} : g[b] = f[b]
      /\ h[to] = g[to] + amount /\ \A b \in Accounts \ {to} : h[b] = g[b]
  <2>1. f \in [Accounts -> Nat] /\ f[from] - amount \in Nat
    BY <1>1, <1>2 DEF IInv, TypeOK
  <2>2. g \in [Accounts -> Nat]
    BY <2>1
  <2>3. QED BY <1>1, <2>1, <2>2
<1>4. /\ tokens'[side] = h
      /\ \A s \in Sides \ {side} : tokens'[s] = tokens[s]
      /\ tokens' = [tokens EXCEPT ![side] = h]
  BY <1>1 DEF IInv, TypeOK
<1> HIDE DEF f, g, h
<1>5. SumFunction(h) = SumFunction(f)
  <2>1. SumFunction(g) = SumFunction(f) - f[from] + g[from]
    BY <1>3, SumOverAccounts, Zenon
  <2>2. SumFunction(h) = SumFunction(g) - g[to] + h[to]
    BY <1>3, SumOverAccounts, Zenon
  <2>3. SumFunction(f) \in Int /\ f[from] \in Int /\ g[to] \in Int
    BY <1>3, SumFunctionType
  <2>4. QED BY <1>1, <1>3, <2>1, <2>2, <2>3
<1>6. \A s \in Sides : SumFunction(tokens'[s]) = SumFunction(tokens[s])
  BY <1>4, <1>5 DEF f
<1>7. tokens' \in [Sides -> [Accounts -> Quantities]]
  <2>1. SumFunction(h) <= MAX_Q
    <3>1. SumFunction(f) = Quantity(side)
      BY HoldingsAreCounted DEF f
    <3>2. Quantity(side) <= MAX_Q
      BY DEF IInv, TypeOK, Quantity, Quantities
    <3>3. QED BY <1>5, <3>1, <3>2
  <2>2. h \in [Accounts -> Quantities]
    <3>1. ASSUME NEW b \in Accounts PROVE h[b] \in Quantities
      <4>1. h[b] \in Nat /\ h[b] <= SumFunction(h)
        BY <1>3, SumBoundsTerm
      <4>2. SumFunction(h) \in Int
        BY <1>3, SumFunctionType
      <4>3. QED BY <2>1, <4>1, <4>2 DEF Quantities
    <3>2. QED BY <1>3, <3>1
  <2>3. QED BY <1>4, <2>2 DEF IInv, TypeOK
<1>8. TypeOK'
  BY <1>1, <1>7 DEF IInv, TypeOK, RiskTypeOK, vaultVars, riskVars
<1>9. QuantitiesMatchTokens'
  BY <1>1, <1>6 DEF IInv, QuantitiesMatchTokens, TokenSupply, vaultVars, Sides
<1>10. PhasesAgree' /\ NothingBeforeActivation' /\ VaultKeepsGifts' /\ FundingIsKept' /\ RedemptionIsFunded'
  BY <1>1 DEF IInv, PhasesAgree, NothingBeforeActivation, VaultKeepsGifts, FundingIsKept, RedemptionIsFunded, vaultVars
<1>11. ExposureMatchesCustody' /\ CollateralFollowsCost'
  BY <1>1 DEF IInv, ExposureMatchesCustody, Unrecorded, Given, CollateralFollowsCost, CostAt, vaultVars, riskVars
<1>12. QED BY <1>8, <1>9, <1>10, <1>11 DEF IInv

(* Settlement and expiry leave the market what its tokens can claim.        *)
LEMMA TerminateKeeps ==
    ASSUME IInv, NEW result \in Outcomes, status = "ACTIVE", Terminate(result)
    PROVE  IInv'
<1> DEFINE liability == TerminalLiability(result, qYes, qNo)
<1>1. /\ outcome' = result /\ status' = "TERMINAL" /\ activated /\ vaultTerminal'
      /\ liability <= usdc[Market]
      /\ usdc' = Transfer(usdc, Market, Vault, usdc[Market] - liability)
      /\ UNCHANGED <<now, given, totalFees, voidDustReleased, qYes, qNo, tokens, shares, totalShares,
                     contributedAssets, activated, riskVars>>
  BY DEF Terminate, tradeVars
<1>2. liability \in Nat /\ usdc[Market] \in Nat /\ usdc[Vault] \in Nat
  BY LiabilityBound, StateFacts
<1> HIDE DEF liability
<1>3. /\ usdc' \in [Holders -> Nat] /\ usdc'[Market] = liability
      /\ usdc'[Vault] = usdc[Vault] + (usdc[Market] - liability)
  <2>1. usdc[Market] - liability \in Nat /\ usdc[Market] - liability <= usdc[Market]
    BY <1>1, <1>2
  <2>2. /\ usdc \in [Holders -> Nat] /\ Vault \in Holders /\ Market \in Holders /\ Market # Vault
    BY StateFacts
  <2>3. /\ usdc' \in [Holders -> Nat]
        /\ usdc'[Market] = usdc[Market] - (usdc[Market] - liability)
        /\ usdc'[Vault] = usdc[Vault] + (usdc[Market] - liability)
    BY <1>1, <2>1, <2>2, TransferMoves
  <2>4. QED BY <1>2, <2>3
<1>4. ~voidDustReleased
  BY DEF IInv, PhasesAgree
<1>5. TypeOK'
  <2>1. vaultTerminal' \in BOOLEAN
    BY DEF Terminate
  <2>2. QED BY <1>1, <1>3, <2>1 DEF IInv, TypeOK, RiskTypeOK, riskVars
<1>6. PhasesAgree' /\ NothingBeforeActivation' /\ VaultKeepsGifts' /\ FundingIsKept' /\ CollateralFollowsCost'
  <2>1. PhasesAgree'
    <3>1. activated' = TRUE /\ vaultTerminal' = TRUE
      BY DEF Terminate, IInv, PhasesAgree
    <3>2. QED BY <1>1, <1>4, <3>1 DEF PhasesAgree
  <2>2. NothingBeforeActivation' /\ VaultKeepsGifts' /\ CollateralFollowsCost'
    BY <1>1 DEF NothingBeforeActivation, VaultKeepsGifts, CollateralFollowsCost
  <2>3. FundingIsKept'
    BY <1>1 DEF IInv, FundingIsKept
  <2>4. QED BY <2>1, <2>2, <2>3
<1>7. RedemptionIsFunded'
  <2>1. TerminalLiability(outcome, qYes, qNo)' = liability
    BY <1>1 DEF TerminalLiability, liability
  <2>2. QED BY <1>2, <1>3, <2>1 DEF RedemptionIsFunded
<1>8. ExposureMatchesCustody'
  <2>1. /\ usdc[Market] + usdc[Vault] - marketExposure[Market] = given[Market] + given[Vault]
        /\ marketExposure' = marketExposure /\ given' = given
        /\ marketExposure[Market] \in Nat /\ given[Market] \in Nat /\ given[Vault] \in Nat
        /\ usdc[Market] \in Nat /\ usdc[Vault] \in Nat
    BY <1>1, <1>4, StateFacts DEF IInv, ExposureMatchesCustody, Unrecorded, Given, riskVars
  <2>2. QED BY <1>2, <1>3, <2>1 DEF ExposureMatchesCustody, Unrecorded, Given
<1>9. QuantitiesMatchTokens'
  BY <1>1 DEF IInv, QuantitiesMatchTokens, TokenSupply
<1>10. QED BY <1>5, <1>6, <1>7, <1>8, <1>9 DEF IInv

(* What one redemption is paid and what the rest is still owed is never more *)
(* than what all of it was owed: halves are rounded down when paid and up    *)
(* when kept.                                                                *)
LEMMA RedeemFits ==
    ASSUME IInv, NEW y \in Nat, NEW n \in Nat, y <= qYes, n <= qNo, status = "TERMINAL"
    PROVE  /\ RedeemPayout(y, n) \in Nat
           /\ TerminalLiability(outcome, qYes - y, qNo - n) \in Nat
           /\ TerminalLiability(outcome, qYes - y, qNo - n) + RedeemPayout(y, n) <= usdc[Market]
<1>1. /\ qYes \in Nat /\ qNo \in Nat /\ usdc[Market] \in Nat /\ outcome \in Outcomes
      /\ TerminalLiability(outcome, qYes, qNo) <= usdc[Market]
  BY StateFacts DEF IInv, TypeOK, RedemptionIsFunded
<1>2. CASE outcome = "YES"
  BY <1>1, <1>2 DEF RedeemPayout, TerminalLiability
<1>3. CASE outcome = "NO"
  BY <1>1, <1>3 DEF RedeemPayout, TerminalLiability
<1>4. CASE outcome = "VOID"
  <2> DEFINE paid == (y + n) \div 2
             kept == ((qYes - y) + (qNo - n) + 1) \div 2
             owed == (qYes + qNo + 1) \div 2
  <2>1. y + n \in Nat /\ (qYes - y) + (qNo - n) + 1 \in Nat /\ qYes + qNo + 1 \in Nat
    BY <1>1
  <2>2. paid \in Nat /\ paid * 2 <= y + n
    BY <2>1, Quotient
  <2>3. kept \in Nat /\ kept * 2 <= (qYes - y) + (qNo - n) + 1
    BY <2>1, Quotient
  <2>4. owed \in Nat /\ qYes + qNo + 1 < (owed + 1) * 2
    BY <2>1, Quotient
  <2> HIDE DEF paid, kept, owed
  <2>5. kept + paid <= owed
    BY <1>1, <2>2, <2>3, <2>4
  <2>6. /\ RedeemPayout(y, n) = paid /\ TerminalLiability(outcome, qYes, qNo) = owed
        /\ TerminalLiability(outcome, qYes - y, qNo - n) = kept
    BY <1>4 DEF RedeemPayout, TerminalLiability, paid, kept, owed
  <2>7. QED BY <1>1, <2>2, <2>3, <2>4, <2>5, <2>6
<1>5. QED BY <1>1, <1>2, <1>3, <1>4 DEF Outcomes

(* A redemption takes no more than the claim of its tokens.                 *)
LEMMA RedeemKeeps ==
    ASSUME IInv, NEW a \in Accounts, NEW y \in 0 .. tokens["YES"][a], NEW n \in 0 .. tokens["NO"][a],
           Redeem(a, y, n)
    PROVE  IInv'
<1> DEFINE payout == RedeemPayout(y, n)
<1>1. /\ "YES" \in Sides /\ "NO" \in Sides
      /\ tokens["YES"][a] \in Nat /\ tokens["YES"][a] <= qYes
      /\ tokens["NO"][a] \in Nat /\ tokens["NO"][a] <= qNo
      /\ qYes \in Nat /\ qNo \in Nat /\ qYes <= MAX_Q /\ qNo <= MAX_Q
  <2>1. "YES" \in Sides /\ "NO" \in Sides
    BY DEF Sides
  <2>2. qYes \in 0 .. MAX_Q /\ qNo \in 0 .. MAX_Q
    BY DEF IInv, TypeOK, Quantities
  <2>3. Quantity("YES") = qYes /\ Quantity("NO") = qNo
    BY DEF Quantity
  <2>4. /\ tokens["YES"][a] \in Nat /\ tokens["YES"][a] <= qYes
        /\ tokens["NO"][a] \in Nat /\ tokens["NO"][a] <= qNo
    BY <2>1, <2>3, HoldingsAreCounted
  <2>5. QED BY <2>1, <2>2, <2>4
<1>2. /\ status = "TERMINAL" /\ status' = "TERMINAL" /\ (y > 0 \/ n > 0)
      /\ tokens' = [tokens EXCEPT !["YES"][a] = @ - y, !["NO"][a] = @ - n]
      /\ qYes' = qYes - y /\ qNo' = qNo - n
      /\ ReleaseExposure(Market, payout)
      /\ usdc' = Transfer(usdc, Market, a, payout)
      /\ UNCHANGED <<now, given, status, outcome, totalFees, voidDustReleased, vaultVars>>
  BY DEF Redeem
<1>3. y \in Nat /\ n \in Nat /\ y <= qYes /\ n <= qNo
  BY <1>1
<1>4. /\ payout \in Nat /\ TerminalLiability(outcome, qYes - y, qNo - n) \in Nat
      /\ TerminalLiability(outcome, qYes - y, qNo - n) + payout <= usdc[Market]
  BY <1>2, <1>3, RedeemFits
<1> HIDE DEF payout
<1>5. /\ tokens' \in [Sides -> [Accounts -> Quantities]]
      /\ qYes' \in Quantities /\ qNo' \in Quantities
      /\ qYes' = SumFunction(tokens'["YES"]) /\ qNo' = SumFunction(tokens'["NO"])
  <2>1. \A s \in Sides, b \in Accounts : tokens[s][b] \in Nat
    BY HoldingsAreCounted
  <2>2. tokens \in [Sides -> [Accounts -> Nat]]
    BY <2>1 DEF IInv, TypeOK
  <2>3. tokens' \in [Sides -> [Accounts -> Int]]
    <3>1. tokens \in [Sides -> [Accounts -> Int]]
      BY <2>2
    <3>2. tokens["YES"][a] - y \in Int /\ tokens["NO"][a] - n \in Int
      BY <1>1, <1>3
    <3> DEFINE t == [tokens EXCEPT !["YES"][a] = @ - y]
    <3>3. t \in [Sides -> [Accounts -> Int]] /\ t["NO"][a] = tokens["NO"][a]
      BY <1>1, <3>1, <3>2
    <3>4. tokens' = [t EXCEPT !["NO"][a] = @ - n]
      BY <1>2
    <3> HIDE DEF t
    <3>5. QED BY <3>2, <3>3, <3>4
  <2>4. /\ tokens'["YES"][a] = tokens["YES"][a] - y
        /\ tokens'["NO"][a] = tokens["NO"][a] - n
        /\ \A s \in Sides : \A b \in Accounts \ {a} : tokens'[s][b] = tokens[s][b]
    BY <1>1, <1>2, <2>2 DEF Sides
  <2>5. /\ tokens'["YES"][a] = tokens["YES"][a] + (-y) /\ tokens'["YES"][a] >= 0
        /\ tokens'["NO"][a] = tokens["NO"][a] + (-n) /\ tokens'["NO"][a] >= 0
        /\ qYes' = qYes + (-y) /\ qYes' <= MAX_Q /\ qNo' = qNo + (-n) /\ qNo' <= MAX_Q
        /\ -y \in Int /\ -n \in Int
    <3>1. y <= tokens["YES"][a] /\ n <= tokens["NO"][a] /\ y \in Int /\ n \in Int
      BY <1>1, <1>3
    <3>2. /\ qYes' = qYes + (-y) /\ qYes' <= MAX_Q /\ qNo' = qNo + (-n) /\ qNo' <= MAX_Q
      BY <1>1, <1>2, <1>3
    <3>3. /\ tokens'["YES"][a] = tokens["YES"][a] + (-y) /\ tokens'["YES"][a] >= 0
          /\ tokens'["NO"][a] = tokens["NO"][a] + (-n) /\ tokens'["NO"][a] >= 0
      BY <1>1, <2>4, <3>1
    <3>4. QED BY <3>1, <3>2, <3>3
  <2>6. QED BY <2>3, <2>4, <2>5, SupplyMoves
<1>6. /\ usdc' \in [Holders -> Nat]
      /\ usdc'[Market] = usdc[Market] - payout /\ usdc'[Vault] = usdc[Vault]
      /\ usdc[Market] \in Nat /\ usdc[Vault] \in Nat
  <2>1. /\ usdc \in [Holders -> Nat] /\ Vault \in Holders /\ Market \in Holders /\ Market # Vault
        /\ a \in Holders /\ a # Vault /\ a # Market
        /\ usdc[Market] \in Nat /\ usdc[Vault] \in Nat
    BY StateFacts
  <2>2. payout <= usdc[Market]
    BY <1>4, <2>1
  <2>3. QED BY <1>2, <1>4, <2>1, <2>2, TransferMoves
<1>7. RiskTypeOK' /\ marketExposure'[Market] = marketExposure[Market] - payout
  BY <1>2, <1>4, ExposureSteps
<1>8. TypeOK'
  BY <1>2, <1>5, <1>6, <1>7 DEF IInv, TypeOK, vaultVars
<1>9. ~voidDustReleased
  BY <1>1, <1>2, <1>3 DEF IInv, PhasesAgree
<1>10. PhasesAgree' /\ NothingBeforeActivation' /\ VaultKeepsGifts' /\ FundingIsKept' /\ CollateralFollowsCost'
  BY <1>2, <1>9 DEF IInv, PhasesAgree, NothingBeforeActivation, VaultKeepsGifts, FundingIsKept, CollateralFollowsCost,
                    vaultVars
<1>11. RedemptionIsFunded'
  <2>1. TerminalLiability(outcome, qYes, qNo)' = TerminalLiability(outcome, qYes - y, qNo - n)
    BY <1>2 DEF TerminalLiability
  <2>2. QED BY <1>4, <1>6, <2>1 DEF RedemptionIsFunded
<1>12. ExposureMatchesCustody'
  <2>1. /\ usdc[Market] + usdc[Vault] - marketExposure[Market] = given[Market] + given[Vault]
        /\ given' = given
        /\ marketExposure[Market] \in Nat /\ given[Market] \in Nat /\ given[Vault] \in Nat
    BY <1>2, <1>9, StateFacts DEF IInv, ExposureMatchesCustody, Unrecorded, Given
  <2>2. QED BY <1>4, <1>6, <1>7, <2>1 DEF ExposureMatchesCustody, Unrecorded, Given
<1>13. QuantitiesMatchTokens'
  BY <1>2, <1>5 DEF IInv, QuantitiesMatchTokens, TokenSupply, vaultVars
<1>14. QED BY <1>8, <1>10, <1>11, <1>12, <1>13 DEF IInv

(* VOID dust leaves when no token is left to claim it.                      *)
LEMMA VoidDustKeeps ==
    ASSUME IInv, ReleaseVoidDust
    PROVE  IInv'
<1>1. /\ status = "TERMINAL" /\ outcome = "VOID" /\ qYes = 0 /\ qNo = 0 /\ voidDustReleased'
      /\ ReleaseExposure(Market, usdc[Market])
      /\ usdc' = Transfer(usdc, Market, Vault, usdc[Market])
      /\ UNCHANGED <<now, given, status, outcome, totalFees, qYes, qNo, tokens, vaultVars>>
  BY DEF ReleaseVoidDust, tradeVars
<1>2. /\ usdc' \in [Holders -> Nat] /\ usdc'[Market] \in Nat
  <2>1. /\ usdc \in [Holders -> Nat] /\ Vault \in Holders /\ Market \in Holders /\ Market # Vault
        /\ usdc[Market] \in Nat
    BY StateFacts
  <2>2. QED BY <1>1, <2>1, TransferMoves
<1>3. RiskTypeOK'
  BY <1>1, StateFacts, ExposureSteps
<1>4. TypeOK'
  <2>1. voidDustReleased' \in BOOLEAN
    BY DEF ReleaseVoidDust
  <2>2. QED BY <1>1, <1>2, <1>3, <2>1 DEF IInv, TypeOK, vaultVars
<1>5. PhasesAgree' /\ NothingBeforeActivation' /\ VaultKeepsGifts' /\ FundingIsKept' /\ CollateralFollowsCost'
  BY <1>1 DEF IInv, PhasesAgree, NothingBeforeActivation, VaultKeepsGifts, FundingIsKept, CollateralFollowsCost, vaultVars
<1>6. RedemptionIsFunded'
  <2>1. TerminalLiability(outcome, qYes, qNo)' = (0 + 0 + 1) \div 2
    BY <1>1 DEF TerminalLiability
  <2>2. (0 + 0 + 1) \div 2 = 0
    BY Z3
  <2>3. QED BY <1>2, <2>1, <2>2 DEF RedemptionIsFunded
<1>7. ExposureMatchesCustody' /\ QuantitiesMatchTokens'
  BY <1>1 DEF IInv, ExposureMatchesCustody, Unrecorded, Given, QuantitiesMatchTokens, TokenSupply, vaultVars
<1>8. QED BY <1>4, <1>5, <1>6, <1>7 DEF IInv

(* What somebody sends to either contract is in no book.                    *)
LEMMA GiveKeeps ==
    ASSUME IInv, NEW h \in Contracts, NEW amount \in Nat, Give(h, amount)
    PROVE  IInv'
<1>1. /\ usdc' = [usdc EXCEPT ![h] = @ + amount] /\ given' = [given EXCEPT ![h] = @ + amount]
      /\ UNCHANGED <<now, status, outcome, totalFees, voidDustReleased, tradeVars, vaultVars,
                     riskVars>>
  BY DEF Give
<1>2. /\ usdc \in [Holders -> Nat] /\ given \in [Contracts -> Nat]
      /\ Market \in Holders /\ Vault \in Holders /\ Market # Vault
      /\ Market \in Contracts /\ Vault \in Contracts /\ (h = Market \/ h = Vault)
      /\ usdc[Market] \in Nat /\ usdc[Vault] \in Nat
      /\ given[Market] \in Nat /\ given[Vault] \in Nat
  BY StateFacts DEF IInv, TypeOK, Contracts
<1>3. /\ usdc' \in [Holders -> Nat] /\ given' \in [Contracts -> Nat]
      /\ \/ /\ usdc'[Market] = usdc[Market] + amount /\ given'[Market] = given[Market] + amount
            /\ usdc'[Vault] = usdc[Vault] /\ given'[Vault] = given[Vault]
         \/ /\ usdc'[Vault] = usdc[Vault] + amount /\ given'[Vault] = given[Vault] + amount
            /\ usdc'[Market] = usdc[Market] /\ given'[Market] = given[Market]
  BY <1>1, <1>2
<1>4. TypeOK'
  BY <1>1, <1>3 DEF IInv, TypeOK, RiskTypeOK, riskVars, tradeVars, vaultVars
<1>5. PhasesAgree' /\ FundingIsKept' /\ QuantitiesMatchTokens'
  BY <1>1 DEF IInv, PhasesAgree, FundingIsKept, QuantitiesMatchTokens, TokenSupply,
              tradeVars, vaultVars
<1>6. NothingBeforeActivation' /\ VaultKeepsGifts'
  <2>1. contributedAssets \in Nat
    BY StateFacts
  <2>2. QED BY <1>1, <1>2, <1>3, <2>1
        DEF IInv, NothingBeforeActivation, VaultKeepsGifts, tradeVars, vaultVars
<1>7. RedemptionIsFunded'
  <2>1. TerminalLiability(outcome, qYes, qNo)' = TerminalLiability(outcome, qYes, qNo)
    BY <1>1 DEF TerminalLiability, tradeVars
  <2>2. qYes \in Nat /\ qNo \in Nat /\ outcome \in Outcomes
    BY StateFacts DEF IInv, TypeOK
  <2>3. TerminalLiability(outcome, qYes, qNo) \in Nat
    BY <2>2, LiabilityBound
  <2>4. QED BY <1>1, <1>2, <1>3, <2>1, <2>3 DEF IInv, RedemptionIsFunded
<1>8. ExposureMatchesCustody'
  <2>1. marketExposure[Market] \in Nat /\ marketExposure' = marketExposure
    BY <1>1, StateFacts DEF riskVars
  <2>2. voidDustReleased' = voidDustReleased
    BY <1>1
  <2>3. ~voidDustReleased =>
          usdc[Market] + usdc[Vault] - marketExposure[Market] = given[Market] + given[Vault]
    BY DEF IInv, ExposureMatchesCustody, Unrecorded, Given
  <2>4. marketExposure'[Market] = marketExposure[Market]
    BY <2>1
  <2>5. usdc'[Market] + usdc'[Vault] = usdc[Market] + usdc[Vault] + amount
    BY <1>2, <1>3
  <2>6. given'[Market] + given'[Vault] = given[Market] + given[Vault] + amount
    BY <1>2, <1>3
  <2>7. ASSUME usdc[Market] + usdc[Vault] - marketExposure[Market] = given[Market] + given[Vault]
        PROVE  usdc'[Market] + usdc'[Vault] - marketExposure'[Market] = given'[Market] + given'[Vault]
    BY <1>2, <1>3, <2>1, <2>4, <2>5, <2>6, <2>7
  <2>8. ~voidDustReleased' =>
          usdc'[Market] + usdc'[Vault] - marketExposure'[Market] = given'[Market] + given'[Vault]
    BY <2>2, <2>3, <2>7, Zenon
  <2>9. QED BY <2>8 DEF ExposureMatchesCustody, Unrecorded, Given
<1>9. CollateralFollowsCost'
  <2>1. /\ CostAt(<<qYes, qNo>>)' = CostAt(<<qYes, qNo>>) /\ CostAt(<<0, 0>>)' = CostAt(<<0, 0>>)
        /\ contributedAssets' = contributedAssets /\ contributedAssets \in Nat
    BY <1>1, StateFacts DEF CostAt, tradeVars, vaultVars
  <2>2. CostAt(<<qYes, qNo>>) \in Nat /\ CostAt(<<0, 0>>) \in Nat
    BY CostFacts DEF IInv, TypeOK, CostAt
  <2>3. QED BY <1>1, <1>2, <1>3, <2>1, <2>2 DEF IInv, CollateralFollowsCost
<1>10. QED BY <1>4, <1>5, <1>6, <1>7, <1>8, <1>9 DEF IInv

(* Pausing, the clock, and a step that changes nothing here.                 *)
LEMMA QuietKeeps ==
    ASSUME IInv, now' \in 0 .. MAX_TIME, paused' \in BOOLEAN,
           UNCHANGED <<usdc, given, status, outcome, totalFees, voidDustReleased, tradeVars, vaultVars,
                       marketExposure, systemExposure>>
    PROVE  IInv'
<1>1. TypeOK'
  BY DEF IInv, TypeOK, RiskTypeOK, tradeVars, vaultVars
<1>2. PhasesAgree' /\ NothingBeforeActivation' /\ VaultKeepsGifts' /\ FundingIsKept' /\ RedemptionIsFunded'
  BY DEF IInv, PhasesAgree, NothingBeforeActivation, VaultKeepsGifts, FundingIsKept, RedemptionIsFunded, tradeVars, vaultVars
<1>3. ExposureMatchesCustody' /\ CollateralFollowsCost' /\ QuantitiesMatchTokens'
  BY DEF IInv, ExposureMatchesCustody, Unrecorded, Given, CollateralFollowsCost, CostAt, QuantitiesMatchTokens,
         TokenSupply, tradeVars, vaultVars
<1>4. QED BY <1>1, <1>2, <1>3 DEF IInv

(* Every step keeps the invariant.                                          *)
LEMMA NextIInv == IInv /\ [Next]_vars => IInv'
<1> SUFFICES ASSUME IInv, [Next]_vars PROVE IInv'
  OBVIOUS
<1>0. now \in 0 .. MAX_TIME /\ paused \in BOOLEAN
  BY DEF IInv, TypeOK, RiskTypeOK
<1>1. ASSUME NEW a \in Accounts, NEW amount \in Contributions, Contribute(a, amount)
      PROVE  IInv'
  BY <1>1, ContributeKeeps
<1>2. CASE Activate
  BY <1>2, ActivateKeeps
<1>3. ASSUME NEW a \in Accounts, WithdrawFailedFunding(a)
      PROVE  IInv'
  BY <1>3, WithdrawFailedKeeps
<1>4. ASSUME NEW a \in Accounts, RedeemSome(a)
      PROVE  IInv'
  BY <1>4, RedeemKeeps DEF RedeemSome
<1>5. ASSUME NEW a \in Accounts, WithdrawSome(a)
      PROVE  IInv'
  <2>1. PICK s \in 1 .. shares[a] : WithdrawTerminal(a, s)
    BY <1>5 DEF WithdrawSome
  <2>2. s \in Nat
    BY HoldingsAreCounted
  <2>3. QED BY <2>1, <2>2, WithdrawTerminalKeeps
<1>6. ASSUME NEW a \in Accounts, NEW side \in Sides, NEW amount \in ShareAmounts,
             Buy(a, side, amount)
      PROVE  IInv'
  BY <1>6, BuyKeeps
<1>7. ASSUME NEW a \in Accounts, NEW side \in Sides, NEW amount \in ShareAmounts,
             Sell(a, side, amount)
      PROVE  IInv'
  BY <1>7, SellKeeps
<1>8. ASSUME NEW from \in Accounts, NEW to \in Accounts, NEW side \in Sides,
             NEW amount \in ShareAmounts, TransferTokens(from, to, side, amount)
      PROVE  IInv'
  BY <1>8, TransferTokensKeeps
<1>9. ASSUME NEW result \in Outcomes, Settle(result)
      PROVE  IInv'
  BY <1>9, TerminateKeeps DEF Settle
<1>10. CASE ExpireToVoid
  BY <1>10, TerminateKeeps DEF ExpireToVoid, Outcomes
<1>11. CASE ReleaseVoidDust
  BY <1>11, VoidDustKeeps
<1>12. ASSUME NEW value \in BOOLEAN, Pause(value)
       PROVE  IInv'
  BY <1>0, <1>12, QuietKeeps DEF Pause, SetPaused
<1>13. CASE Tick
  BY <1>0, <1>13, QuietKeeps DEF Tick, riskVars
<1>14. ASSUME NEW h \in Contracts, NEW amount \in 1 .. MAX_GIVEN, Give(h, amount)
       PROVE  IInv'
  BY <1>14, GiveKeeps
<1>15. CASE UNCHANGED vars
  BY <1>0, <1>15, QuietKeeps DEF vars, riskVars
<1>16. QED BY <1>1, <1>2, <1>3, <1>4, <1>5, <1>6, <1>7, <1>8, <1>9, <1>10, <1>11, <1>12, <1>13,
              <1>14, <1>15 DEF Next

(* So it holds in every reachable state.                                    *)
LEMMA IInvHolds == Spec => []IInv
BY InitIInv, NextIInv, PTL DEF Spec

-----------------------------------------------------------------------------
(* An active market holds at least its larger quantity at any quantities its *)
(* trades can reach: funding exceeds what the cost can fall short of it.     *)
LEMMA CollateralCovers ==
    ASSUME IInv, status = "ACTIVE", NEW y \in Quantities, NEW n \in Quantities
    PROVE  /\ CostAt(<<qYes, qNo>>) \in Nat /\ COST[y][n] \in Nat
           /\ Larger(y, n) <= usdc[Market] - given[Market] - (CostAt(<<qYes, qNo>>) - COST[y][n])
<1>1. usdc[Market] = contributedAssets + CostAt(<<qYes, qNo>>) - COST[0][0] + given[Market]
  BY DEF IInv, CollateralFollowsCost, CostAt
<1>2. /\ contributedAssets \in Nat /\ contributedAssets >= FUNDING_TARGET
      /\ usdc[Market] \in Nat /\ given[Market] \in Nat
  BY StateFacts DEF IInv, FundingIsKept
<1>3. CostAt(<<qYes, qNo>>) \in Nat /\ COST[y][n] \in Nat /\ COST[0][0] \in Nat
  BY CostFacts DEF IInv, TypeOK, CostAt
<1>4. Larger(y, n) + COST[0][0] <= COST[y][n] + FUNDING_TARGET /\ Larger(y, n) \in Nat
  BY CostFacts DEF Quantities, Larger
<1>5. QED BY <1>1, <1>2, <1>3, <1>4

(* No check on funds, exposure or solvency can stop a holder.               *)
LEMMA HoldersExit == IInv => HoldersCanExit
<1> SUFFICES ASSUME IInv, NEW a \in Accounts
             PROVE  /\ status = "ACTIVE" =>
                         \A side \in Sides : \A amount \in 1 .. tokens[side][a] :
                           SaleIsPriced(side, amount) => SellIsOpen(side, amount)
                    /\ status = "TERMINAL" =>
                         \A y \in 0 .. tokens["YES"][a], n \in 0 .. tokens["NO"][a] : RedeemIsOpen(y, n)
  BY DEF HoldersCanExit
<1>1. ASSUME status = "ACTIVE", NEW side \in Sides, NEW amount \in 1 .. tokens[side][a],
             SaleIsPriced(side, amount)
      PROVE  SellIsOpen(side, amount)
  <2> DEFINE q        == Sold(side, amount)
             notional == CostAt(<<qYes, qNo>>) - CostAt(q)
  <2>1. /\ tokens[side][a] \in Nat /\ tokens[side][a] <= Quantity(side)
        /\ qYes \in 0 .. MAX_Q /\ qNo \in 0 .. MAX_Q
    BY HoldingsAreCounted DEF IInv, TypeOK, Quantities
  <2>2. q[1] \in Quantities /\ q[2] \in Quantities
    <3>1. /\ amount \in 1 .. Quantity(side) /\ MAX_Q \in Nat
          /\ Quantity(side) = IF side = "YES" THEN qYes ELSE qNo
      BY <2>1, LMSRAssumption DEF Quantity
    <3>2. CASE side = "YES"
      <4>1. q = <<qYes - amount, qNo>>
        BY <3>2 DEF Sold
      <4>2. qYes - amount \in 0 .. MAX_Q
        BY <2>1, <3>1, <3>2
      <4>3. QED BY <2>1, <4>1, <4>2 DEF Quantities
    <3>3. CASE side # "YES"
      <4>1. q = <<qYes, qNo - amount>>
        BY <3>3 DEF Sold
      <4>2. qNo - amount \in 0 .. MAX_Q
        BY <2>1, <3>1, <3>3
      <4>3. QED BY <2>1, <4>1, <4>2 DEF Quantities
    <3>4. QED BY <3>2, <3>3
  <2>3. CostAt(q) = COST[q[1]][q[2]]
    BY DEF CostAt
  <2> HIDE DEF q
  <2>4. /\ CostAt(<<qYes, qNo>>) \in Nat /\ CostAt(q) \in Nat
        /\ Larger(q[1], q[2]) <= usdc[Market] - given[Market] - notional
    BY <1>1, <2>2, <2>3, CollateralCovers
  <2>5. notional \in Nat
    BY <1>1, <2>4 DEF SaleIsPriced, q
  <2>6. Larger(q[1], q[2]) \in Nat
    BY <2>2 DEF Larger, Quantities
  <2>7. /\ usdc[Market] \in Nat /\ usdc[Vault] \in Nat
        /\ given[Market] \in Nat /\ given[Vault] \in Nat /\ marketExposure[Market] \in Nat
        /\ usdc[Market] + usdc[Vault] - marketExposure[Market] = given[Market] + given[Vault]
        /\ given[Vault] <= usdc[Vault]
    BY <1>1, StateFacts
    DEF IInv, PhasesAgree, VaultKeepsGifts, ExposureMatchesCustody, Unrecorded, Given
  <2> HIDE DEF notional
  <2>8. FeeOn(notional) \div 2 \in Nat
    <3>1. FeeOn(notional) \in Nat
      BY <2>5, ShareBound DEF FeeOn
    <3>2. QED BY <3>1, FeeParts
  <2>9. /\ usdc[Market] - notional >= Larger(q[1], q[2])
        /\ notional - FeeOn(notional) \div 2 <= marketExposure[Market]
    BY <2>4, <2>5, <2>6, <2>7, <2>8
  <2>10. QED BY <2>9 DEF SellIsOpen, MaximumTerminalLiability, q, notional
<1>2. ASSUME status = "TERMINAL", NEW y \in 0 .. tokens["YES"][a], NEW n \in 0 .. tokens["NO"][a]
      PROVE  RedeemIsOpen(y, n)
  <2>1. /\ tokens["YES"][a] \in Nat /\ tokens["YES"][a] <= qYes
        /\ tokens["NO"][a] \in Nat /\ tokens["NO"][a] <= qNo
        /\ qYes \in Nat /\ qNo \in Nat
    BY HoldingsAreCounted, StateFacts DEF Sides, Quantity
  <2>2. y \in Nat /\ n \in Nat /\ y <= qYes /\ n <= qNo
    BY <2>1
  <2> DEFINE payout == RedeemPayout(y, n)
             rest   == TerminalLiability(outcome, qYes - y, qNo - n)
  <2>3. payout \in Nat /\ rest \in Nat /\ rest + payout <= usdc[Market]
    BY <1>2, <2>2, RedeemFits
  <2>4. usdc[Market] \in Nat /\ usdc[Vault] \in Nat /\ marketExposure[Market] \in Nat
    BY StateFacts
  <2>5. payout <= marketExposure[Market] + Given
    <3>0. Given = given[Market] + given[Vault] /\ given[Market] \in Nat /\ given[Vault] \in Nat
      BY StateFacts DEF Given
    <3>1. CASE ~voidDustReleased
      <4>1. usdc[Market] + usdc[Vault] - marketExposure[Market] = given[Market] + given[Vault]
        BY <3>1 DEF IInv, ExposureMatchesCustody, Unrecorded, Given
      <4> HIDE DEF payout, rest
      <4>2. QED BY <2>3, <2>4, <3>0, <4>1
    <3>2. CASE voidDustReleased
      <4>1. outcome = "VOID" /\ y = 0 /\ n = 0
        BY <2>1, <2>2, <3>2 DEF IInv, PhasesAgree
      <4>2. (0 + 0) \div 2 = 0
        BY Z3
      <4>3. payout = 0
        BY <4>1, <4>2 DEF RedeemPayout
      <4> HIDE DEF payout
      <4>4. QED BY <2>4, <3>0, <4>3
    <3>3. QED BY <3>1, <3>2
  <2> HIDE DEF payout, rest
  <2>6. rest <= usdc[Market] - payout
    BY <2>3, <2>4
  <2>7. QED BY <2>5, <2>6 DEF RedeemIsOpen, payout, rest
<1>3. QED BY <1>1, <1>2

(* An active market can be settled with any outcome.                        *)
LEMMA AnyOutcomeIsFunded == IInv => SettlementIsFunded
<1> SUFFICES ASSUME IInv, status = "ACTIVE"
             PROVE  /\ \A result \in Outcomes : TerminalLiability(result, qYes, qNo) <= usdc[Market]
                    /\ activated /\ ~vaultTerminal
  BY DEF SettlementIsFunded
<1>1. activated /\ ~vaultTerminal
  BY DEF IInv, PhasesAgree
<1>2. qYes \in Quantities /\ qNo \in Quantities /\ qYes \in Nat /\ qNo \in Nat /\ usdc[Market] \in Nat
  BY StateFacts DEF IInv, TypeOK
<1>3. Larger(qYes, qNo) <= usdc[Market]
  <2>1. /\ CostAt(<<qYes, qNo>>) \in Nat
        /\ Larger(qYes, qNo) <= usdc[Market] - given[Market] - (CostAt(<<qYes, qNo>>) - COST[qYes][qNo])
        /\ given[Market] \in Nat
    BY <1>2, CollateralCovers, StateFacts
  <2>2. CostAt(<<qYes, qNo>>) = COST[qYes][qNo]
    BY DEF CostAt
  <2>3. Larger(qYes, qNo) \in Nat
    BY <1>2 DEF Larger
  <2>4. QED BY <1>2, <2>1, <2>2, <2>3
<1>4. ASSUME NEW result \in Outcomes PROVE TerminalLiability(result, qYes, qNo) <= usdc[Market]
  <2>1. /\ TerminalLiability(result, qYes, qNo) \in Nat
        /\ TerminalLiability(result, qYes, qNo) <= Larger(qYes, qNo)
        /\ Larger(qYes, qNo) \in Nat
    BY <1>2, LiabilityBound DEF Larger
  <2>2. QED BY <1>2, <1>3, <2>1
<1>5. QED BY <1>1, <1>4

(***************************************************************************)
(* For every deployment, the variables keep their types: in particular the *)
(* quantities never go below zero and the exposure never passes its cap.   *)
(***************************************************************************)
THEOREM LMSRTypes == Spec => []TypeOK
<1>1. IInv => TypeOK
  BY DEF IInv
<1>2. QED BY <1>1, IInvHolds, PTL

(***************************************************************************)
(* Whatever the cost function and the order of trades, an active market    *)
(* holds exactly its funding and the cost of what it has sold, and what it *)
(* was sent directly.                                                      *)
(***************************************************************************)
THEOREM CollateralIsTheCost == Spec => []CollateralFollowsCost
<1>1. IInv => CollateralFollowsCost
  BY DEF IInv
<1>2. QED BY <1>1, IInvHolds, PTL

(***************************************************************************)
(* For any number of holders and providers, in whatever order they trade,  *)
(* pass tokens on, redeem and withdraw, and whatever is sent to the two    *)
(* contracts besides: the exposure is what market and vault hold less what *)
(* they were sent, every token and share is counted, no check on funds     *)
(* stops a sale, a redemption is short of exposure by what was sent at     *)
(* most, and the market can be settled with any outcome.                   *)
(***************************************************************************)
THEOREM Solvency == Spec => []SolvencyIsKept
<1>1. IInv => SolvencyIsKept
  BY HoldersExit, AnyOutcomeIsFunded DEF IInv, SolvencyIsKept
<1>2. QED BY <1>1, IInvHolds, PTL
=============================================================================
