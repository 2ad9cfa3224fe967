------------------------------- MODULE ArcDesk ------------------------------
(* How a market of the Arc application comes to be: a user's suggestion, the *)
(* administrator's verdict on it, the contract that is made for the market,  *)
(* and the one market that is featured (app/api/markets, admin/suggestions,  *)
(* admin/markets, lib/arc-factory.ts).  An action runs from one await to     *)
(* the next.                                                                 *)
EXTENDS Naturals, Sequences, FiniteSets

CONSTANTS
    Desks,     \* functions of the administrator that may run at a time
    Markets,   \* rows that may be made
    MaxCalls   \* bound on the calls and the functions that die

None == "none"

VARIABLES
    suggestion,  \* the MarketSuggestion row: status, and the market made of it
    market,      \* the Market rows: made for what, contract, featured; told
                 \* is history, the contract the body of a POST named
    contracts,   \* the markets the factory's contracts were made for, in order
    desk,        \* what each function holds in memory
    calls        \* calls and deaths so far

vars == <<suggestion, market, contracts, desk, calls>>

Idle == [pc |-> "idle", market |-> None, contract |-> 0]

Init ==
    /\ suggestion = [status |-> None, market |-> None]
    /\ market = [m \in Markets |-> [origin |-> None, contract |-> 0, featured |-> FALSE,
                                 told |-> 0]]
    /\ contracts = <<>>
    /\ desk = [d \in Desks |-> Idle]
    /\ calls = 0

At(d, pc) == desk[d].pc = pc
Goto(d, pc) == desk' = [desk EXCEPT ![d].pc = pc]
GotoMarket(d, pc, m) == desk' = [desk EXCEPT ![d].pc = pc, ![d].market = m]
Finish(d) == desk' = [desk EXCEPT ![d] = Idle]
Call(d) == At(d, "idle") /\ calls < MaxCalls /\ calls' = calls + 1
Made(m) == market[m].origin # None
Free(c) == \A m \in Markets : market[m].contract # c      \* arcAddress is unique

----------------------------------------------------------------------------
(* POST markets/suggest, once.                                               *)
Suggest ==
    /\ suggestion.status = None
    /\ suggestion' = [suggestion EXCEPT !.status = "pending"]
    /\ UNCHANGED <<market, contracts, desk, calls>>

(* Both verdicts read the suggestion first and write it later.               *)
ReadSuggestion(d, verdict) ==
    /\ Call(d)
    /\ suggestion.status = "pending"
    /\ Goto(d, verdict)
    /\ UNCHANGED <<suggestion, market, contracts>>

(* One transaction makes the market and flips the suggestion.                *)
Approve(d) ==
    /\ At(d, "approve")
    /\ \E m \in {n \in Markets : ~Made(n)} :
         /\ market' = [market EXCEPT ![m].origin = "suggestion"]
         /\ suggestion' = [status |-> "approved", market |-> m]
         /\ GotoMarket(d, "simulate", m)
    /\ UNCHANGED <<contracts, calls>>

Reject(d) ==
    /\ At(d, "reject")
    /\ suggestion' = [suggestion EXCEPT !.status = "rejected"]
    /\ Finish(d)
    /\ UNCHANGED <<market, contracts, calls>>

(* POST markets.  The body may name a contract, which is stored unasked: one *)
(* the factory made, for whichever market, or an address where it has made   *)
(* none yet.  The row gets a contract of its own all the same, if it can.    *)
CreateMarket(d) ==
    /\ Call(d)
    /\ \E m \in {n \in Markets : ~Made(n)}, c \in 0 .. Len(contracts) + 1 :
         /\ c # 0 => Free(c)                    \* else the insert throws
         /\ market' = [market EXCEPT ![m].origin = "admin", ![m].contract = c,
                                     ![m].told = c]
         /\ GotoMarket(d, "simulate", m)
    /\ UNCHANGED <<suggestion, contracts>>

(* "Deploy to Arc" for a market that has no contract.                        *)
DeployArc(d, m) ==
    /\ Call(d)
    /\ Made(m) /\ market[m].contract = 0
    /\ GotoMarket(d, "simulate", m)
    /\ UNCHANGED <<suggestion, market, contracts>>

(* createMarketOnArc never throws: without an address the caller goes home.  *)
(* A contract whose receipt did not come in time is there all the same.      *)
WriteContract(d) ==
    /\ At(d, "simulate")
    /\ \/ /\ contracts' = Append(contracts, desk[d].market)
          /\ desk' = [desk EXCEPT ![d].pc = "receipt", ![d].contract = Len(contracts) + 1]
       \/ Finish(d) /\ UNCHANGED contracts
    /\ UNCHANGED <<suggestion, market, calls>>

ReadReceipt(d) ==
    /\ At(d, "receipt")
    /\ Goto(d, "stamp") \/ Finish(d)
    /\ UNCHANGED <<suggestion, market, contracts, calls>>

\* Mutant: the address is that of the factory's newest market.
Stamp_Newest(d) ==
    /\ At(d, "stamp")
    /\ market' = IF Free(Len(contracts))
                 THEN [market EXCEPT ![desk[d].market].contract = Len(contracts),
                                     ![desk[d].market].told = 0]
                 ELSE market
    /\ Finish(d)
    /\ UNCHANGED <<suggestion, contracts, calls>>

(* The update throws when another row has the address, and is not retried.   *)
Stamp(d) ==
    /\ At(d, "stamp")
    /\ market' = LET m == desk[d].market
                     c == desk[d].contract
                 IN  IF \E n \in Markets \ {m} : market[n].contract = c THEN market
                     ELSE [market EXCEPT ![m].contract = c, ![m].told = 0]
    /\ Finish(d)
    /\ UNCHANGED <<suggestion, contracts, calls>>

(* set_featured: every market is taken down, then one is put up.             *)
Unpin(d, m) ==
    /\ Call(d)
    /\ Made(m)
    /\ market' = [n \in Markets |-> [market[n] EXCEPT !.featured = FALSE]]
    /\ GotoMarket(d, "pin", m)
    /\ UNCHANGED <<suggestion, contracts>>

Pin(d) ==
    /\ At(d, "pin")
    /\ market' = [market EXCEPT ![desk[d].market].featured = TRUE]
    /\ Finish(d)
    /\ UNCHANGED <<suggestion, contracts, calls>>

TakeDown(d, m) ==
    /\ Call(d)
    /\ Made(m)
    /\ market' = [market EXCEPT ![m].featured = FALSE]
    /\ UNCHANGED <<suggestion, contracts, desk>>

Dies(d) ==
    /\ ~At(d, "idle")
    /\ calls < MaxCalls /\ calls' = calls + 1
    /\ Finish(d)
    /\ UNCHANGED <<suggestion, market, contracts>>

----------------------------------------------------------------------------
Next ==
    \/ Suggest
    \/ \E d \in Desks :
         \/ ReadSuggestion(d, "approve") \/ ReadSuggestion(d, "reject")
         \/ Approve(d) \/ Reject(d) \/ CreateMarket(d)
         \/ WriteContract(d) \/ ReadReceipt(d) \/ Stamp(d) \/ Pin(d) \/ Dies(d)
         \/ \E m \in Markets : DeployArc(d, m) \/ Unpin(d, m) \/ TakeDown(d, m)

Spec == Init /\ [][Next]_vars

----------------------------------------------------------------------------
(* Rows point at rows and at contracts that are there.                       *)
TypeOK ==
    /\ suggestion.status \in {None, "pending", "approved", "rejected"}
    /\ \A m \in Markets : /\ market[m].origin \in {None, "suggestion", "admin"}
                          /\ market[m].contract \in 0 .. Len(contracts) + 1

(* Whatever overlaps or dies, an approved suggestion has its market, no two  *)
(* rows share a contract, and a row trades on a contract that was made for   *)
(* it, unless the contract is the one a POST's body told the row of: only    *)
(* such a row may point at another market's, or at none.                     *)
RowsPointBack ==
    /\ suggestion.status = "approved" =>
         suggestion.market # None /\ market[suggestion.market].origin = "suggestion"
    /\ \A m \in Markets : market[m].contract \notin {0, market[m].told} =>
         market[m].contract \in DOMAIN contracts /\ contracts[market[m].contract] = m
    /\ \A m, n \in Markets : market[m].contract = market[n].contract /\ m # n =>
         market[m].contract = 0

(* handleReject and handleApprove answer "Suggestion already reviewed": one  *)
(* suggestion has one verdict, and one market at most.                       *)
ReviewedOnce ==
    /\ Cardinality({m \in Markets : market[m].origin = "suggestion"}) <= 1
    /\ suggestion.status = "rejected" => suggestion.market = None

(* handleDeployArc answers "Market already deployed on Arc": a contract that *)
(* users may hold tokens of is never taken from its market.                  *)
ContractIsKept ==
    [][\A m \in Markets : market[m].contract # 0 =>
         market'[m].contract = market[m].contract]_vars

(* set_featured unpins "any currently featured market first".                *)
OneFeatured == Cardinality({m \in Markets : market[m].featured}) <= 1
=============================================================================
