----------------------------- MODULE BaseTrading -----------------------------
(* A trade from the market page: a live quote, the prepared call with the     *)
(* user's slippage in it, and the wallet's transaction                        *)
(* (apps/web/app/markets/[id]/trade-panel.tsx, apps/api-worker/src            *)
(* quote-adapter.ts and transaction-adapter.ts).  Other traders move the      *)
(* price, the market closes and ends while the three are under way.  A price  *)
(* stands for what one more lot costs, fee included; a sale is paid it.       *)
EXTENDS Integers

CONSTANTS
    Trades,      \* presses of the button
    Side,        \* what each does: BUY or SELL on LMSR, STAKE on a pool
    Slippage,    \* slippageBps each user chose
    MaxPrice,
    Funds        \* what the user lets the market take, at most

VARIABLES
    price,       \* the chain: what a lot costs now
    status,      \* the chain: ACTIVE, CLOSED (past closeTime) or TERMINAL
    indexed,     \* Market.status as the indexer last wrote it
    allowance,
    trade        \* each press: its step, its quote, what it was paid or paid
vars == <<price, status, indexed, allowance, trade>>

Buying(t) == Side[t] /= "SELL"

TypeOK ==
    /\ price \in 1 .. MaxPrice
    /\ status \in {"ACTIVE", "CLOSED", "TERMINAL"} /\ indexed \in {"ACTIVE", "TERMINAL"}
    /\ allowance \in 0 .. Funds
    /\ \A t \in Trades :
         trade[t].step \in {"idle", "quoted", "prepared", "sent", "failed", "confirmed"}

Init ==
    /\ price \in 1 .. MaxPrice
    /\ status = "ACTIVE" /\ indexed = "ACTIVE"
    /\ allowance \in {0, Funds}
    /\ trade = [t \in Trades |-> [step |-> "idle"]]

(* The chain and the indexer go their own way.                               *)
OthersTrade ==
    /\ status = "ACTIVE"
    /\ price' \in 1 .. MaxPrice \ {price}
    /\ UNCHANGED <<status, indexed, allowance, trade>>

MarketMovesOn ==
    /\ \/ status = "ACTIVE" /\ status' = "CLOSED"
       \/ status /= "TERMINAL" /\ status' = "TERMINAL"
    /\ UNCHANGED <<price, indexed, allowance, trade>>

IndexerCatchesUp ==
    /\ status = "TERMINAL" /\ indexed /= status
    /\ indexed' = status
    /\ UNCHANGED <<price, status, allowance, trade>>

Becomes(t, flow) == trade' = [trade EXCEPT ![t] = flow]

(* POST quote, read from the chain: a stake costs its amount whatever the    *)
(* pool holds.                                                               *)
LiveQuote(t) ==
    /\ trade[t].step \in {"idle", "failed"}
    /\ status = "ACTIVE"
    /\ Becomes(t, [step |-> "quoted", total |-> IF Side[t] = "STAKE" THEN 1 ELSE price])
    /\ UNCHANGED <<price, status, indexed, allowance>>

\* Mutant: the sale's bound is taken upwards from the quote's remainder.
Limit_Remainder(t, total) ==
    CASE Side[t] = "BUY" -> (total * (10000 + Slippage[t]) + 9999) \div 10000
      [] Side[t] = "SELL" -> (total * Slippage[t]) \div 10000
      [] Side[t] = "STAKE" -> total

(* maxTotal is rounded up and minNet down.                                   *)
Limit(t, total) ==
    CASE Side[t] = "BUY" -> (total * (10000 + Slippage[t]) + 9999) \div 10000
      [] Side[t] = "SELL" -> (total * (10000 - Slippage[t])) \div 10000
      [] Side[t] = "STAKE" -> total

(* POST prepare-trade, from the indexed row.  The row never carries           *)
(* collateralAddress (MarketSchema), so approval is always null and the page  *)
(* never has the wallet approve: the allowance is what it was.               *)
PrepareTrade(t) ==
    /\ trade[t].step = "quoted"
    /\ indexed = "ACTIVE"
    /\ Becomes(t, [step |-> "prepared", total |-> trade[t].total,
                   limit |-> Limit(t, trade[t].total)])
    /\ UNCHANGED <<price, status, indexed, allowance>>

SendTrade(t) ==
    /\ trade[t].step = "prepared"
    /\ Becomes(t, [trade[t] EXCEPT !.step = "sent"])
    /\ UNCHANGED <<price, status, indexed, allowance>>

(* What the market's guards let pass.                                        *)
Passes(t) ==
    LET flow == trade[t] IN
    /\ status = "ACTIVE"
    /\ Buying(t) => allowance >= (IF Side[t] = "STAKE" THEN flow.limit ELSE price)
    /\ Side[t] = "BUY" => price <= flow.limit
    /\ Side[t] = "SELL" => price >= flow.limit

(* The receipt: success is shown, anything else is an error.                 *)
Confirm(t) ==
    /\ trade[t].step = "sent"
    /\ IF Passes(t)
       THEN LET paid == IF Side[t] = "STAKE" THEN trade[t].limit ELSE price IN
            /\ allowance' = IF Buying(t) THEN allowance - paid ELSE allowance
            /\ Becomes(t, [step |-> "confirmed", total |-> trade[t].total, paid |-> paid])
       ELSE Becomes(t, [step |-> "failed"]) /\ UNCHANGED allowance
    /\ UNCHANGED <<price, status, indexed>>

(* A quote, a preparation or the wallet's signature is refused.              *)
Refuse(t) ==
    /\ trade[t].step \in {"quoted", "prepared"}
    /\ Becomes(t, [step |-> "failed"])
    /\ UNCHANGED <<price, status, indexed, allowance>>

Next ==
    \/ OthersTrade \/ MarketMovesOn \/ IndexerCatchesUp
    \/ \E t \in Trades : LiveQuote(t) \/ PrepareTrade(t) \/ SendTrade(t) \/ Confirm(t) \/ Refuse(t)

----------------------------------------------------------------------------
(* Whatever moves between the quote and the transaction, a confirmed trade    *)
(* is within the user's slippage of the total it was quoted.                 *)
TradesStayNearTheirQuote ==
    \A t \in Trades : trade[t].step = "confirmed" =>
        LET flow == trade[t] IN
        /\ Buying(t) => (flow.paid - flow.total) * 10000 < flow.total * Slippage[t] + 10000
        /\ ~Buying(t) => (flow.total - flow.paid) * 10000 <= flow.total * Slippage[t] + 9999

(* What the page hopes of an unmoved market: the trade that was quoted and    *)
(* prepared goes through.                                                    *)
UnmovedTradesPass ==
    \A t \in Trades :
        trade[t].step = "sent" /\ status = "ACTIVE" /\ price = trade[t].total => Passes(t)
=============================================================================
