----------------------------- MODULE ArcTrading -----------------------------
(* A user's trades on one market, from the trading panel through the bets    *)
(* routes to the Circle wallet that signs for the user on Arc                *)
(* (frontend/src/components/TradingPanel.tsx, app/api/bets, lib/arc-userops).*)
(* Circle answers a known idempotency key with the transaction it has.       *)
EXTENDS Naturals, Sequences, FiniteSets

CONSTANTS
    Requests,    \* route functions that may run at the same time
    MaxPresses,  \* bound on the buttons pressed, claims apart
    Failing      \* calls that may fail without the contract refusing them

Calls == {"approve", "buy", "sell", "redeem"}

VARIABLES
    row,      \* lmsrStatus of the market's row, which follows the contract
    arc,      \* on Arc: the market's status, the allowance, the user's tokens
    circle,   \* the transactions Circle knows, in the order they came
    request,  \* what each route function holds in memory
    presses   \* buttons pressed so far, and answers lost

vars == <<row, arc, circle, request, presses>>

Idle == [button |-> "none", awaited |-> FALSE, pc |-> "idle", tx |-> 0, tokens |-> 0]

Init ==
    /\ row = "Active"
    /\ arc = [status |-> "Active", allowed |-> FALSE, tokens |-> 0]
    /\ circle = <<>>
    /\ request = [r \in Requests |-> Idle]
    /\ presses = 0

At(r, pc) == request[r].pc = pc
Goto(r, pc) == request' = [request EXCEPT ![r].pc = pc]
Finish(r) == request' = [request EXCEPT ![r] = Idle]

----------------------------------------------------------------------------
(* The panel.  A button is off while its own answer is awaited.              *)

Begin(r, button, pc) ==
    /\ At(r, "idle")
    /\ \A q \in Requests : request[q].button = button => ~request[q].awaited
    /\ request' = [request EXCEPT ![r] =
         [Idle EXCEPT !.button = button, !.awaited = TRUE, !.pc = pc]]

Press == presses < MaxPresses /\ presses' = presses + 1

(* The routes look at the row, which may be older than the contract.         *)
PressBuy(r) ==
    /\ Press
    /\ row = "Active"
    /\ Begin(r, "buy", "allowance")
    /\ UNCHANGED <<row, arc, circle>>

PressSell(r) ==
    /\ Press
    /\ row = "Active"
    /\ Begin(r, "sell", "sell")
    /\ UNCHANGED <<row, arc, circle>>

PressClaim(r) ==
    /\ row = "Finalized"
    /\ Begin(r, "claim", "tokens")
    /\ UNCHANGED <<row, arc, circle, presses>>

(* The answer is lost, or the page is loaded again: the button is on, and    *)
(* the function still runs.                                                  *)
LoseAnswer(r) ==
    /\ request[r].awaited
    /\ Press
    /\ request' = [request EXCEPT ![r].awaited = FALSE]
    /\ UNCHANGED <<row, arc, circle>>

----------------------------------------------------------------------------
(* makeArcIdempotencyKey: the time is part of the key of a buy or a sell.    *)

\* Mutant: the time is part of every key.
KeyOf_Fresh(call) == <<call, Len(circle) + 1>>

KeyOf(call) ==
    IF call \in {"approve", "redeem"} THEN <<call>> ELSE <<call, Len(circle) + 1>>

Known(key) == {i \in DOMAIN circle : circle[i].key = key}

(* callContract, executeContractCall: the function gets the id of the        *)
(* transaction that has this key.                                            *)
Submit(r, call, amount, pc) ==
    IF Known(KeyOf(call)) # {}
    THEN /\ request' = [request EXCEPT ![r].pc = pc,
                                       ![r].tx = CHOOSE i \in Known(KeyOf(call)) : TRUE]
         /\ UNCHANGED circle
    ELSE /\ circle' = Append(circle, [call |-> call, key |-> KeyOf(call),
                                      amount |-> amount, state |-> "SENT"])
         /\ request' = [request EXCEPT ![r].pc = pc, ![r].tx = Len(circle) + 1]

(* POST bets/place.                                                          *)
ReadAllowance(r) ==
    /\ At(r, "allowance")
    /\ Goto(r, IF arc.allowed THEN "buy" ELSE "approve")
    /\ UNCHANGED <<row, arc, circle, presses>>

Approve(r) ==
    /\ At(r, "approve")
    /\ Submit(r, "approve", 0, "approving")
    /\ UNCHANGED <<row, arc, presses>>

\* Mutant: the buy follows without waiting.
WaitForApproval_Not(r) ==
    /\ At(r, "approving")
    /\ Goto(r, "buy")
    /\ UNCHANGED <<row, arc, circle, presses>>

(* waitForArcTx: 90 seconds, and the whole route throws when they are over   *)
(* or the approval failed.                                                   *)
WaitForApproval(r) ==
    /\ At(r, "approving")
    /\ IF circle[request[r].tx].state = "COMPLETE" THEN Goto(r, "buy") ELSE Finish(r)
    /\ UNCHANGED <<row, arc, circle, presses>>

Buy(r) ==
    /\ At(r, "buy")
    /\ Submit(r, "buy", 1, "done")
    /\ UNCHANGED <<row, arc, presses>>

(* POST bets/exit.                                                           *)
Sell(r) ==
    /\ At(r, "sell")
    /\ Submit(r, "sell", 1, "done")
    /\ UNCHANGED <<row, arc, presses>>

(* POST bets/claim: the balances, and with them the whole of them redeemed.  *)
ReadTokens(r) ==
    /\ At(r, "tokens")
    /\ IF arc.tokens = 0
       THEN Finish(r)
       ELSE request' = [request EXCEPT ![r].pc = "redeem", ![r].tokens = arc.tokens]
    /\ UNCHANGED <<row, arc, circle, presses>>

Redeem(r) ==
    /\ At(r, "redeem")
    /\ Submit(r, "redeem", request[r].tokens, "done")
    /\ UNCHANGED <<row, arc, presses>>

Answer(r) ==
    /\ At(r, "done")
    /\ Finish(r)
    /\ UNCHANGED <<row, arc, circle, presses>>

----------------------------------------------------------------------------
(* Arc: a transaction is done when the contract lets it, else it fails.      *)

Allows(tx) ==
    CASE tx.call = "approve" -> TRUE
      [] tx.call = "buy" -> arc.status = "Active" /\ arc.allowed
      [] tx.call = "sell" -> arc.status = "Active" /\ arc.tokens >= tx.amount
      [] tx.call = "redeem" -> arc.status = "Finalized" /\ arc.tokens >= tx.amount

Effect(tx) ==
    CASE tx.call = "approve" -> [arc EXCEPT !.allowed = TRUE]
      [] tx.call = "buy" -> [arc EXCEPT !.tokens = @ + tx.amount]
      [] OTHER -> [arc EXCEPT !.tokens = @ - tx.amount]

Mine(i) ==
    /\ circle[i].state = "SENT"
    /\ \/ /\ Allows(circle[i])
          /\ arc' = Effect(circle[i])
          /\ circle' = [circle EXCEPT ![i].state = "COMPLETE"]
       \/ /\ ~Allows(circle[i]) \/ circle[i].call \in Failing
          /\ circle' = [circle EXCEPT ![i].state = "FAILED"]
          /\ UNCHANGED arc
    /\ UNCHANGED <<row, request, presses>>

Finalize ==
    /\ arc.status = "Active"
    /\ arc' = [arc EXCEPT !.status = "Finalized"]
    /\ UNCHANGED <<row, circle, request, presses>>

Mirror ==
    /\ row # arc.status
    /\ row' = arc.status
    /\ UNCHANGED <<arc, circle, request, presses>>

----------------------------------------------------------------------------
RouteStep(r) ==
    \/ ReadAllowance(r) \/ Approve(r) \/ WaitForApproval(r) \/ Buy(r)
    \/ Sell(r) \/ ReadTokens(r) \/ Redeem(r) \/ Answer(r)

Next ==
    \/ \E r \in Requests : PressBuy(r) \/ PressSell(r) \/ PressClaim(r)
                           \/ LoseAnswer(r) \/ RouteStep(r)
    \/ \E i \in DOMAIN circle : Mine(i)
    \/ Finalize \/ Mirror

(* Functions run on, sent transactions are mined, and the user of a final    *)
(* market goes on asking for what is there.                                  *)
Fairness ==
    /\ \A r \in Requests : WF_vars(RouteStep(r))
    /\ WF_vars(\E r \in Requests : PressClaim(r))
    /\ WF_vars(\E i \in DOMAIN circle : Mine(i))
    /\ WF_vars(Mirror)

Spec == Init /\ [][Next]_vars /\ Fairness

----------------------------------------------------------------------------
(* Requests point at transactions Circle knows.                              *)
TypeOK ==
    /\ row \in {"Active", "Finalized"}
    /\ arc \in [status : {"Active", "Finalized"}, allowed : BOOLEAN, tokens : Nat]
    /\ \A r \in Requests : request[r].tx \in 0 .. Len(circle)

(* bets/place waits for the approval, "otherwise it races and reverts": a    *)
(* buy is only ever sent when its allowance is there.                        *)
BuysFindTheirAllowance ==
    \A i \in DOMAIN circle : circle[i].call = "buy" => arc.allowed

(* However many claims overlap after lost answers, one redemption is sent:   *)
(* the second would burn nothing, or what came in between.                   *)
RedeemedOnce == Cardinality({i \in DOMAIN circle : circle[i].call = "redeem"}) <= 1

(* Who goes on asking for the tokens of a finalised market is paid.          *)
ClaimIsPaid == (row = "Finalized" /\ arc.tokens > 0) ~> arc.tokens = 0
=============================================================================
