------------------------------ MODULE LmsrQuotes ------------------------------
(* The off-chain LMSR of the legacy frontend (frontend/src/lib/lmsr.ts): its  *)
(* fixed-point exp and ln, the cost function and the quotes, step for step,   *)
(* over a scale of ONE instead of 10^18 and USDC_TO_UD instead of 10^12.  A   *)
(* market is traded at the quotes, so that what rounding loses adds up.       *)
EXTENDS Integers

CONSTANTS
    ONE,         \* the scale
    USDC_TO_UD,  \* from money to the scale
    LOG2_E, LN_2, \* log2(e) and ln(2) in the scale
    B,           \* the market's liquidity, in money
    MaxShares,   \* bound on the shares of a side
    Lots         \* sizes of a trade

VARIABLES
    qYes, qNo,   \* the state quotes are made for
    collected    \* what trades have paid, less what they were paid
vars == <<qYes, qNo, collected>>

TypeOK == qYes \in 0 .. MaxShares /\ qNo \in 0 .. MaxShares /\ collected \in Int

Init == qYes = 0 /\ qNo = 0 /\ collected = 0

usdcToUd(x) == x * USDC_TO_UD

(* BigInt division rounds toward zero.                                       *)
Quotient(a, b) == IF a >= 0 THEN a \div b ELSE -((-a) \div b)

udToUsdc(x) == Quotient(x, USDC_TO_UD)

udMul(x, y) == Quotient(x * y, ONE)

udDiv(x, y) == Quotient(x * ONE, y)

(* 2^k times the seven-term series of exp(f ln 2), k and f the whole and the *)
(* fractional part of x log2(e).                                             *)
udExp(x) ==
    LET y == udMul(x, LOG2_E)
        k == y \div ONE
        z == udMul(y - k * ONE, LN_2)
        z2 == udMul(z, z)
        z3 == udMul(z2, z)
        z4 == udMul(z3, z)
        z5 == udMul(z4, z)
        z6 == udMul(z5, z)
        z7 == udMul(z6, z)
    IN (ONE + z + z2 \div 2 + z3 \div 6 + z4 \div 24 + z5 \div 120 + z6 \div 720 + z7 \div 5040)
           * 2 ^ k

(* x is halved k times into [ONE, 2 ONE); a sum of two exponentials, the      *)
(* larger of them ONE, is never below ONE.                                   *)
udLn(x) ==
    LET k == CHOOSE n \in 0 .. 20 : x \div 2 ^ n \in ONE .. 2 * ONE - 1
        m == x \div 2 ^ k
        u == udDiv(m - ONE, m + ONE)
        u2 == udMul(u, u)
        u3 == udMul(u2, u)
        u5 == udMul(u3, u2)
        u7 == udMul(u5, u2)
        u9 == udMul(u7, u2)
        u11 == udMul(u9, u2)
        u13 == udMul(u11, u2)
    IN k * LN_2 + 2 * (u + u3 \div 3 + u5 \div 5 + u7 \div 7 + u9 \div 9 + u11 \div 11 + u13 \div 13)

ratio(q) == udDiv(usdcToUd(q), usdcToUd(B))

(* exp(r - other), or ONE if it is the larger of the two.                    *)
Weight(r, other) == IF r >= other THEN ONE ELSE udDiv(ONE, udExp(other - r))

\* Mutant: the larger exponent taken out of the sum is not put back.
cost_Unshifted(y, n) ==
    LET rY == ratio(y) rN == ratio(n) IN
    udToUsdc(udMul(usdcToUd(B), udLn(Weight(rY, rN) + Weight(rN, rY))))

cost(y, n) ==
    LET rY == ratio(y) rN == ratio(n) larger == IF rY > rN THEN rY ELSE rN IN
    udToUsdc(udMul(usdcToUd(B), udLn(Weight(rY, rN) + Weight(rN, rY)) + larger))

costToBuy(y, n, dy, dn) == cost(y + dy, n + dn) - cost(y, n)

\* Mutant: the shares of the two sides are taken for each other.
returnOnSell_Swapped(y, n, dy, dn) ==
    IF dy > y \/ dn > n THEN 0 ELSE cost(y, n) - cost(y - dn, n - dy)

returnOnSell(y, n, dy, dn) ==
    IF dy > y \/ dn > n THEN 0 ELSE cost(y, n) - cost(y - dy, n - dn)

priceYes(y, n) ==
    LET rY == ratio(y) rN == ratio(n) IN
    udDiv(Weight(rY, rN), Weight(rY, rN) + Weight(rN, rY))

FEE_BPS == 200

applyBuyFee(raw) == Quotient(raw * FEE_BPS, 10000)

maxLpLoss == udToUsdc(udMul(usdcToUd(B), LN_2))

(* A trade of dy or dn shares at its quote; the fee of a buy is apart.       *)
Sizes == (Lots \X {0}) \cup ({0} \X Lots)

quoteBuy(y, n, dy, dn) ==
    LET raw == costToBuy(y, n, dy, dn) IN
    [raw |-> raw, withFee |-> raw + applyBuyFee(raw), price |-> priceYes(y + dy, n + dn)]

quoteSell(y, n, dy, dn) ==
    [net |-> returnOnSell(y, n, dy, dn), price |-> priceYes(y - dy, n - dn)]

Buy == \E size \in Sizes :
    /\ qYes + size[1] <= MaxShares /\ qNo + size[2] <= MaxShares
    /\ qYes' = qYes + size[1] /\ qNo' = qNo + size[2]
    /\ collected' = collected + quoteBuy(qYes, qNo, size[1], size[2]).raw

Sell == \E size \in Sizes :
    /\ size[1] <= qYes /\ size[2] <= qNo
    /\ qYes' = qYes - size[1] /\ qNo' = qNo - size[2]
    /\ collected' = collected - quoteSell(qYes, qNo, size[1], size[2]).net

Next == Buy \/ Sell

----------------------------------------------------------------------------
(* What trades have paid is what the state costs that they led to, whichever  *)
(* way it was reached: no way round earns, or loses, anything.               *)
PathsCostTheSame == collected = cost(qYes, qNo) - cost(0, 0)

(* Whatever trades are made at the quotes, in whatever order, either outcome  *)
(* costs the provider at most b ln 2, but for one unit of rounding.          *)
LossIsBounded ==
    /\ qYes - collected <= maxLpLoss + 1
    /\ qNo - collected <= maxLpLoss + 1

(* Buying shares and selling them again at once does not earn anything, and  *)
(* the quoted price of YES moves the way of the trade.                       *)
QuotesAreCoherent ==
    \A size \in Sizes :
        qYes + size[1] <= MaxShares /\ qNo + size[2] <= MaxShares =>
            LET bought == quoteBuy(qYes, qNo, size[1], size[2])
                sold == quoteSell(qYes + size[1], qNo + size[2], size[1], size[2]) IN
            /\ sold.net <= bought.withFee
            /\ size[2] = 0 => bought.price >= sold.price
            /\ size[1] = 0 => bought.price <= sold.price

(* The file's header: "Price is always in (0, 1) - never exactly 0 or 1".    *)
PriceIsNeverCertain == priceYes(qYes, qNo) \in 1 .. ONE - 1
=============================================================================
