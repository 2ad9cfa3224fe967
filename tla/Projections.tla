---------------------------- MODULE Projections -----------------------------
(* The read model of the protocol: projectEvents (packages/db/src/           *)
(* projections.ts) folds the indexed events of the Base contracts, in their  *)
(* order, into releases and markets.                                         *)
EXTENDS MarketFactory

VARIABLE shown  \* what the events so far add up to

Unknown == "unknown"

NewMarket(address, engine) ==
    [address |-> address, engine |-> engine, resolver |-> Unknown, active |-> engine = "POOL",
     total |-> [s \in Sides |-> 0], fees |-> 0, funding |-> 0,
     outcome |-> Unknown, settled |-> FALSE]

Absent == NewMarket(<<>>, "none")
Empty == [release |-> [r \in Releases |-> Unknown], market |-> [i \in Ids |-> Absent]]

(* The market whose address emitted the event, if the state knows it.        *)
MarketsAt(state, address) ==
    {i \in Ids : state.market[i].address = address}

Change(state, address, F(_)) ==
    [state EXCEPT !.market = [i \in Ids |->
        IF i \in MarketsAt(state, address) THEN F(@[i]) ELSE @[i]]]

\* Mutant: what is sold is added like what is bought.
Trade_Adds(m, event) ==
    [m EXCEPT !.total[event.arg.side] = @ + 1, !.fees = IF event.name = "Staked" THEN @ ELSE @ + 1]

Trade(m, event) ==
    [m EXCEPT !.total[event.arg.side] = IF event.name = "Sold" THEN @ - 1 ELSE @ + 1,
              !.fees = IF event.name = "Staked" THEN @ ELSE @ + 1]

Contribution(m, event) == [m EXCEPT !.funding = @ + event.arg.amount]

Activation(m, event) == [m EXCEPT !.active = TRUE, !.funding = event.arg.amount]

Settlement(m, event) ==
    [m EXCEPT !.active = FALSE, !.settled = TRUE,
              !.outcome = event.arg.outcome, !.fees = @ + event.arg.fee]

Consumption(m, event) == [m EXCEPT !.settled = TRUE, !.outcome = event.arg.outcome]

(* The event's own market is changed; an event nobody is known for changes   *)
(* nothing.                                                                  *)
projectEvent(state, event) ==
    CASE event.name = "ReleaseRegistered" ->
            [state EXCEPT !.release[event.id] = "active"]
      [] event.name = "ReleaseActivationChanged" ->
            [state EXCEPT !.release[event.id] =
                IF @ = Unknown THEN @ ELSE IF event.arg.active THEN "active" ELSE "inactive"]
      [] event.name \in {"POOLCreated", "LMSRCreated"} ->
            [state EXCEPT !.market[event.id] =
                NewMarket(event.arg.market, IF event.name = "POOLCreated" THEN "POOL" ELSE "LMSR")]
      [] event.name \in {"Staked", "Bought", "Sold"} ->
            Change(state, event.at, LAMBDA m : Trade(m, event))
      [] event.name = "Contributed" ->
            Change(state, event.at, LAMBDA m : Contribution(m, event))
      [] event.name = "Activated" ->
            Change(state, event.at, LAMBDA m : Activation(m, event))
      [] event.name = "Settled" ->
            Change(state, event.at, LAMBDA m : Settlement(m, event))
      [] event.name = "MarketRegistered" ->
            [state EXCEPT !.market[event.id] =
                IF @ = Absent THEN @ ELSE [@ EXCEPT !.resolver = event.id]]
      [] event.name = "ResolutionConsumed" ->
            Change(state, event.arg.market, LAMBDA m : Consumption(m, event))
      [] OTHER -> state

(* One event after the other, from the empty state on.                       *)
projectEvents(state, events) == FoldLeft(projectEvent, state, events)

ProjectionInit == Init /\ shown = Empty
ProjectionNext == Next /\ shown' = projectEvents(shown, logged')
ProjectionSpec == ProjectionInit /\ [][ProjectionNext]_<<vars, shown>>

----------------------------------------------------------------------------
(* Rows are of the factory's making.                                         *)
TypeOK ==
    /\ \A i \in Ids : market[i].status \in {"none", "FUNDING", "FAILED", "ACTIVE", "TERMINAL"}
    /\ \A i \in Ids : \A s \in Sides : market[i].total[s] \in 0 .. 2 * MaxUnits

(* "these records are rebuildable projections" of Base: whatever the markets *)
(* do, folding their events gives the releases, and for every market its     *)
(* engine, phase, fees and, while it trades, its totals.                     *)
ProjectionFollowsBase ==
    /\ shown.release = release
    /\ \A i \in Ids :
         LET m == market[i]
             p == shown.market[i]
         IN  /\ p = Absent <=> m = NoMarket
             /\ p # Absent =>
                  /\ p.engine = m.engine /\ p.fees = m.fees
                  /\ p.active <=> m.status = "ACTIVE"
                  /\ p.settled <=> m.status = "TERMINAL"
                  /\ m.status = "ACTIVE" => p.total = m.total /\ p.funding = m.funding

(* The outcome a reader is shown is the one the market pays out by.          *)
OutcomeIsTheMarkets ==
    \A i \in Ids : market[i].status = "TERMINAL" =>
        shown.market[i].outcome = market[i].outcome

(* Every market the gateway has bound is shown with its resolver.            *)
ResolverIsKnown ==
    \A i \in Ids : market[i].bound => shown.market[i].resolver # Unknown

(* The funding shown is what the vault holds.                                *)
FundingIsKnown ==
    \A i \in Ids : market[i].status \in {"FUNDING", "FAILED"} =>
        shown.market[i].funding = market[i].funding
=============================================================================
