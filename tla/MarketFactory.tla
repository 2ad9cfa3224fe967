--------------------------- MODULE MarketFactory ----------------------------
(* How markets come to be on Base, and what they log: MarketFactory.sol with *)
(* the ProtocolRegistry, the release deployers, the ResolutionGateway's      *)
(* bindings, and the life of the markets as far as their events tell it      *)
(* (PoolMarket and LMSRMarket hold their accounting).  An action is one      *)
(* transaction: stakes, shares and fees count in units of one.               *)
EXTENDS Naturals, Sequences, FiniteSets, SequencesExt

CONSTANTS
    Ids,       \* market identifiers
    MaxUnits   \* bound on the stakes of a side, the fundings and the trades

Releases == {"POOL", "LMSR"}
Sides == {"YES", "NO"}
Outcomes == Sides \cup {"VOID"}

VARIABLES
    release,  \* ProtocolRegistry: unknown, active, inactive
    market,   \* the factory's markets: engine, resolver bound, status, totals
    logged    \* the events of the last transaction, in their order

vars == <<release, market, logged>>

NoMarket == [engine |-> "none", bound |-> FALSE, status |-> "none", outcome |-> "none",
             total |-> [s \in Sides |-> 0], fees |-> 0, funding |-> 0]

Init ==
    /\ release = [r \in Releases |-> "unknown"]
    /\ market = [i \in Ids |-> NoMarket]
    /\ logged = <<>>

(* An event: who emits it, and the arguments the projections look at.        *)
Event(name, at, id, arg) == [name |-> name, at |-> at, id |-> id, arg |-> arg]
AtMarket(i) == <<"market", i>>
AtVault(i) == <<"vault", i>>
Emit(events) == logged' = events

Lives(i, engine, status) == market[i].engine = engine /\ market[i].status = status

----------------------------------------------------------------------------
(* ProtocolRegistry.                                                         *)

RegisterRelease(r) ==
    /\ release[r] = "unknown"
    /\ release' = [release EXCEPT ![r] = "active"]
    /\ Emit(<<Event("ReleaseRegistered", <<"registry">>, r, [active |-> TRUE])>>)
    /\ UNCHANGED market

SetReleaseActive(r, active) ==
    /\ release[r] # "unknown"
    /\ release' = [release EXCEPT ![r] = IF active THEN "active" ELSE "inactive"]
    /\ Emit(<<Event("ReleaseActivationChanged", <<"registry">>, r, [active |-> active])>>)
    /\ UNCHANGED market

CreatedBy(engine) == IF engine = "POOL" THEN "POOLCreated" ELSE "LMSRCreated"

(* _validate, the deployer's CREATE2 and bindings, then _register: the       *)
(* gateway's event comes before the factory's.                               *)
Create(i, engine) ==
    /\ market[i] = NoMarket
    /\ release[engine] = "active"
    /\ market' = [market EXCEPT ![i] = [NoMarket EXCEPT
            !.engine = engine, !.bound = TRUE,
            !.status = IF engine = "POOL" THEN "ACTIVE" ELSE "FUNDING"]]
    /\ Emit(<<Event("MarketRegistered", <<"gateway">>, i, [market |-> AtMarket(i)]),
              Event(CreatedBy(engine), <<"factory">>, i, [market |-> AtMarket(i)])>>)
    /\ UNCHANGED release

----------------------------------------------------------------------------
(* Trading and funding.                                                      *)

Stake(i, side) ==
    /\ Lives(i, "POOL", "ACTIVE") /\ market[i].total[side] < MaxUnits
    /\ market' = [market EXCEPT ![i].total[side] = @ + 1]
    /\ Emit(<<Event("Staked", AtMarket(i), i, [side |-> side])>>)
    /\ UNCHANGED release

Contribute(i) ==
    /\ Lives(i, "LMSR", "FUNDING") /\ market[i].funding < MaxUnits
    /\ market' = [market EXCEPT ![i].funding = @ + 1]
    /\ Emit(<<Event("Contributed", AtVault(i), i, [amount |-> 1])>>)
    /\ UNCHANGED release

(* The market's event, then the vault's, of the same name.                   *)
Activate(i) ==
    /\ Lives(i, "LMSR", "FUNDING") /\ market[i].funding > 0
    /\ market' = [market EXCEPT ![i].status = "ACTIVE"]
    /\ Emit(<<Event("Activated", AtMarket(i), i, [amount |-> market[i].funding]),
              Event("Activated", AtVault(i), i, [amount |-> market[i].funding])>>)
    /\ UNCHANGED release

(* The funding deadline has passed: all of it, by its one provider.          *)
WithdrawFailedFunding(i) ==
    /\ Lives(i, "LMSR", "FUNDING") /\ market[i].funding > 0
    /\ market' = [market EXCEPT ![i].status = "FAILED", ![i].funding = 0]
    /\ Emit(<<Event("FailedFundingWithdrawn", AtVault(i), i, [amount |-> market[i].funding])>>)
    /\ UNCHANGED release

Buy(i, side) ==
    /\ Lives(i, "LMSR", "ACTIVE") /\ market[i].fees < MaxUnits
    /\ market' = [market EXCEPT ![i].total[side] = @ + 1, ![i].fees = @ + 1]
    /\ Emit(<<Event("Bought", AtMarket(i), i, [side |-> side])>>)
    /\ UNCHANGED release

Sell(i, side) ==
    /\ Lives(i, "LMSR", "ACTIVE") /\ market[i].total[side] > 0 /\ market[i].fees < 2 * MaxUnits
    /\ market' = [market EXCEPT ![i].total[side] = @ - 1, ![i].fees = @ + 1]
    /\ Emit(<<Event("Sold", AtMarket(i), i, [side |-> side])>>)
    /\ UNCHANGED release

----------------------------------------------------------------------------
(* The end.  A pool with an empty side is void, whatever the gateway says,   *)
(* and only a pool takes its fee when it settles.                            *)

Verdict(i, outcome) ==
    IF market[i].engine = "POOL" /\ \E s \in Sides : market[i].total[s] = 0
    THEN "VOID" ELSE outcome
FeeOf(i, final) == IF market[i].engine = "POOL" /\ final # "VOID" THEN 1 ELSE 0

Settle(i, final) ==
    market' = [market EXCEPT ![i].status = "TERMINAL", ![i].outcome = final,
                             ![i].fees = @ + FeeOf(i, final)]
Settled(i, final) ==
    Event("Settled", AtMarket(i), i, [outcome |-> final, fee |-> FeeOf(i, final)])

(* submitResolution: the market's event, then the gateway's, which repeats   *)
(* what the envelope said.                                                   *)
SubmitResolution(i, outcome) ==
    /\ market[i].bound /\ market[i].status = "ACTIVE"
    /\ Settle(i, Verdict(i, outcome))
    /\ Emit(<<Settled(i, Verdict(i, outcome)),
              Event("ResolutionConsumed", <<"gateway">>, i,
                    [market |-> AtMarket(i), outcome |-> outcome])>>)
    /\ UNCHANGED release

ExpireToVoid(i) ==
    /\ market[i].status = "ACTIVE"
    /\ Settle(i, "VOID")
    /\ Emit(<<Settled(i, "VOID")>>)
    /\ UNCHANGED release

(* Tokens are burned one at a time; the vault's assets leave whole.          *)
Redeem(i, side) ==
    /\ Lives(i, "LMSR", "TERMINAL") /\ market[i].total[side] > 0
    /\ market' = [market EXCEPT ![i].total[side] = @ - 1]
    /\ Emit(<<Event("Redeemed", AtMarket(i), i, [side |-> side])>>)
    /\ UNCHANGED release

WithdrawTerminal(i) ==
    /\ Lives(i, "LMSR", "TERMINAL") /\ market[i].funding > 0
    /\ market' = [market EXCEPT ![i].funding = 0]
    /\ Emit(<<Event("TerminalWithdrawn", AtVault(i), i, [amount |-> market[i].funding])>>)
    /\ UNCHANGED release

----------------------------------------------------------------------------
Next ==
    \/ \E r \in Releases : RegisterRelease(r) \/ \E a \in BOOLEAN : SetReleaseActive(r, a)
    \/ \E i \in Ids :
         \/ \E e \in Releases : Create(i, e)
         \/ \E s \in Sides : Stake(i, s) \/ Buy(i, s) \/ Sell(i, s) \/ Redeem(i, s)
         \/ Contribute(i) \/ Activate(i) \/ WithdrawFailedFunding(i)
         \/ (\E o \in Outcomes : SubmitResolution(i, o)) \/ ExpireToVoid(i)
         \/ WithdrawTerminal(i)

Spec == Init /\ [][Next]_vars
=============================================================================
