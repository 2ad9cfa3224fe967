----------------------------- MODULE AdminPanels -----------------------------
(* The panels of the Arc application's admin page (app/admin/page.tsx): the   *)
(* review queue, the disputes, the buttons of a market's row (pin, deploy,    *)
(* force-resolve, trigger, refund) and the backfill.  Each panel sends its    *)
(* requests, marks itself busy, and asks for its list again; panels are taken *)
(* away and come anew when a tab is left, a table is loaded or a dialog is    *)
(* closed, and another administrator decides in the meantime.                *)
(*                                                                            *)
(* And its treasury tab: what the markets' contracts hold, read live by GET   *)
(* admin/treasury in seven calls per market that may fail one by one, and the *)
(* sweeps of fees and of collateral that POST admin/treasury/sweep simulates  *)
(* and sends.  The contract's guards are those the routes' comments name.     *)
(* The tab shares nothing with the panels but the page.                       *)
EXTENDS Integers, FiniteSets

CONSTANTS
    Items,     \* suggestions, and markets in dispute
    Buttons,   \* the buttons of the markets' rows
    Requests,  \* requests under way
    Markets,   \* contracts the treasury tab shows
    MaxFees,   \* fees a contract may hold, and collateral it need not keep
    MaxMoves   \* bound on what others do on the chain

None == "none"
Lists == {"review", "dispute"}
Backfill == "backfill"
Panels == Lists \cup Buttons \cup {Backfill}
Off == [at |-> None]

(* What is taken away, and comes anew, together.  A tab that is left: markets, *)
(* review queue, settlements.  The rows of the markets' table, whenever it is  *)
(* loaded again or searched (the first set once more), and those of the       *)
(* settlements' when they are filtered; the panels above these, when the list *)
(* is empty and loaded.  The dialog of the refund, which stands over the page. *)
MarketRows == {"pin", "deploy", "force"}
Unmounts ==
    {MarketRows, {"review"}, {"trigger", "dispute", Backfill},
     {"trigger"}, {"dispute", Backfill}, {"refund"}}

VARIABLES
    open,     \* the server: what still waits for a verdict, per list
    shown,    \* what each list shows as waiting
    busy,     \* busyId, submitting, busy, running: what a panel is busy with
    report,   \* the backfill's last answer: None, a dry run, a commit
    request   \* each request: its panel, what it is about, where it is, and
              \* whether the panel that sent it is still there
vars == <<open, shown, busy, report, request>>

VARIABLES
    chain,     \* per market: stage, fees, collateral, reserve
    treasury,  \* what the treasury wallet got by sweeps
    moves,
    tab,       \* rows shown, and busyId: the market whose buttons are disabled
    sweeps,    \* sweep requests under way: market and kind
    txs        \* sweeps sent to the chain and not executed yet
treasuryVars == <<chain, treasury, moves, tab, sweeps, txs>>

Kinds == {"fees", "collateral"}
Stages == {"Active", "Finalized", "GraceOver"}

TypeOK ==
    /\ \A p \in Lists : open[p] \subseteq Items /\ shown[p] \subseteq Items
    /\ \A p \in Panels : busy[p] \in Items \cup {None, "on", "dry", "commit"}
    /\ report \in {None, "dry", "commit"}
    /\ \A m \in Markets : chain[m].stage \in Stages /\ chain[m].fees \in 0 .. MaxFees
    /\ moves \in 0 .. MaxMoves /\ treasury \in Nat
    /\ tab.busy \in Markets \cup {None}

Init ==
    /\ open = [p \in Lists |-> Items]
    /\ shown = [p \in Lists |-> {}]
    /\ busy = [p \in Panels |-> None]
    /\ report = None
    /\ request = [r \in Requests |-> Off]

(* The panels of S go, with their marks and lists, and stand there anew.  A   *)
(* request goes on without the panel that sent it.                           *)
Gone(S, requests) ==
    /\ busy' = [p \in Panels |-> IF p \in S THEN None ELSE busy[p]]
    /\ shown' = [p \in Lists |-> IF p \in S THEN {} ELSE shown[p]]
    /\ report' = IF Backfill \in S THEN None ELSE report
    /\ request' = [r \in Requests |->
                     IF requests[r] # Off /\ requests[r].panel \in S
                     THEN [requests[r] EXCEPT !.here = FALSE] ELSE requests[r]]

Send(r, p, what) ==
    /\ request[r] = Off
    /\ request' = [request EXCEPT ![r] = [at |-> "sent", panel |-> p, what |-> what, here |-> TRUE]]
    /\ busy' = [busy EXCEPT ![p] = what]
    /\ UNCHANGED <<open, shown, report>>

(* approve, reject: the buttons stand on a row that is shown as pending, and  *)
(* only the row that was pressed last is disabled.                           *)
Review(r, i) == i \in shown["review"] /\ busy["review"] # i /\ Send(r, "review", i)

(* DisputeResolvePanel: the same.                                            *)
ResolveDispute(r, i) == i \in shown["dispute"] /\ busy["dispute"] # i /\ Send(r, "dispute", i)

(* A row's button: disabled while its own request runs.                      *)
PressButton(r, b) == b \in Buttons /\ busy[b] = None /\ Send(r, b, "on")

Pin(r) == PressButton(r, "pin")
DeployArc(r) == PressButton(r, "deploy")
ForceResolve(r) == PressButton(r, "force")
TriggerResolve(r) == PressButton(r, "trigger")
Refund(r) == PressButton(r, "refund")

(* Dry run, and commit once a dry run's report is shown.                     *)
RunBackfill(r, mode) ==
    /\ busy[Backfill] = None
    /\ mode = "commit" => report = "dry"
    /\ Send(r, Backfill, mode)

----------------------------------------------------------------------------
(* The server gives its verdict once, and refuses a second one; the answer of *)
(* what it did may be lost.  The refund is asked for without the caller's     *)
(* token, and always refused.                                                *)
Serve(r) ==
    /\ request[r].at = "sent"
    /\ LET p == request[r].panel i == request[r].what
           stands == p \in Lists => i \in open[p] IN
       \E answer \in {"ok", "error"} :
         /\ answer = "ok" => stands /\ p # "refund"
         /\ request' = [request EXCEPT ![r].at = answer]
         /\ \/ p \in Lists /\ stands /\ open' = [open EXCEPT ![p] = @ \ {i}]
            \/ (p \in Lists => answer = "error") /\ UNCHANGED open
    /\ UNCHANGED <<shown, busy, report>>

(* fetchQueue, load: the list as the server has it, or an error, which       *)
(* empties the queue and leaves the disputes.                                *)
Fetched(p) ==
    \/ shown' = [shown EXCEPT ![p] = open[p]]
    \/ shown' = [shown EXCEPT ![p] = IF p = "review" THEN {} ELSE @]

\* Mutant: the answer clears the mark of whatever stands there now.
Cleared_Always(r) == [busy EXCEPT ![request[r].panel] = None]

(* The finally of every handler; a panel that is gone is not marked any more. *)
Cleared(r) ==
    [busy EXCEPT ![request[r].panel] = IF request[r].here THEN None ELSE @]

(* The answer of a verdict asks for the list before the mark is cleared; that *)
(* of a backfill is its report.                                              *)
Answer(r) ==
    /\ request[r].at \in {"ok", "error"} /\ request[r].panel # "pin"
    /\ LET p == request[r].panel here == request[r].here ok == request[r].at = "ok" IN
       /\ IF here /\ ok /\ p \in Lists THEN Fetched(p) ELSE UNCHANGED shown
       /\ report' = IF here /\ ok /\ p = Backfill THEN request[r].what ELSE report
       /\ busy' = Cleared(r)
    /\ request' = [request EXCEPT ![r] = Off]
    /\ UNCHANGED open

(* That of a pin loads the markets' table again, also where it is an error    *)
(* (one that is thrown is one that never came: only its mark is cleared).    *)
AnswerPin(r) ==
    /\ request[r].at \in {"ok", "error"} /\ request[r].panel = "pin"
    /\ \/ Gone(MarketRows, [request EXCEPT ![r] = Off])
       \/ /\ request[r].at = "error"
          /\ busy' = Cleared(r) /\ request' = [request EXCEPT ![r] = Off]
          /\ UNCHANGED <<shown, report>>
    /\ UNCHANGED open

(* The panel's own load: when it appears, or on Retry.                       *)
Load(p) ==
    /\ shown[p] = {}
    /\ Fetched(p)
    /\ UNCHANGED <<open, busy, report, request>>

OthersDecide(p, i) ==
    /\ i \in open[p]
    /\ open' = [open EXCEPT ![p] = @ \ {i}]
    /\ UNCHANGED <<shown, busy, report, request>>

(* Another tab, a table that is loaded again, by its button or by the timer   *)
(* of a deployment, a verdict or a refund, a filter, a dialog that is closed. *)
Unmount(S) == Gone(S, request) /\ UNCHANGED open

Next ==
    \/ \E r \in Requests :
         \/ \E i \in Items : Review(r, i) \/ ResolveDispute(r, i)
         \/ Pin(r) \/ DeployArc(r) \/ ForceResolve(r) \/ TriggerResolve(r) \/ Refund(r)
         \/ \E mode \in {"dry", "commit"} : RunBackfill(r, mode)
         \/ Serve(r) \/ Answer(r) \/ AnswerPin(r)
    \/ \E p \in Lists : Load(p) \/ \E i \in Items : OthersDecide(p, i)
    \/ \E S \in Unmounts : Unmount(S)

----------------------------------------------------------------------------
(* The treasury tab.                                                         *)

NoRow == [known |-> FALSE, ready |-> FALSE, fees |-> 0, sweepable |-> 0]

TreasuryInit ==
    /\ chain = [m \in Markets |-> [stage |-> "Active", fees |-> 0, collateral |-> 2, reserve |-> 0]]
    /\ treasury = 0 /\ moves = 0
    /\ tab = [rows |-> [m \in Markets |-> NoRow], busy |-> None]
    /\ sweeps = {} /\ txs = {}

(* Trades pay fees, a market is finalized with a reserve for its winners,     *)
(* winners redeem, the grace period passes.                                  *)
Trade(c) == {[c EXCEPT !.fees = @ + 1]}
Finalize(c) == {[c EXCEPT !.stage = "Finalized", !.reserve = w] : w \in 0 .. c.collateral}
Redeem(c) == {[c EXCEPT !.collateral = @ - 1, !.reserve = @ - 1]}
Grace(c) == {[c EXCEPT !.stage = "GraceOver"]}

ChainMoves(m) ==
    /\ moves < MaxMoves /\ moves' = moves + 1
    /\ LET c == chain[m] IN
       \E next \in (IF c.stage = "Active" /\ c.fees < MaxFees THEN Trade(c) ELSE {})
                   \cup (IF c.stage = "Active" THEN Finalize(c) ELSE {})
                   \cup (IF c.reserve > 0 THEN Redeem(c) ELSE {})
                   \cup (IF c.stage = "Finalized" THEN Grace(c) ELSE {}) :
         chain' = [chain EXCEPT ![m] = next]
    /\ UNCHANGED <<treasury, tab, sweeps, txs>>

----------------------------------------------------------------------------
\* Mutant: the market need not be final.
Row_AnyStage(c, reserve, dated, graced) ==
    LET ready == graced /\ (c.stage = "GraceOver" \/ ~dated) IN
    [known |-> TRUE, ready |-> ready, fees |-> c.fees,
     sweepable |-> IF ready THEN c.collateral - reserve ELSE 0]

(* One market's row.  An old contract's, or a failed, read of the reserve, of *)
(* finalizedAt or of the grace period counts as 0: without its date no grace  *)
(* is left, without a grace period nothing is ready.                         *)
Row(c, reserve, dated, graced) ==
    LET ready == graced /\ (c.stage = "GraceOver" \/ (c.stage = "Finalized" /\ ~dated)) IN
    [known |-> TRUE, ready |-> ready, fees |-> c.fees,
     sweepable |-> IF ready THEN c.collateral - reserve ELSE 0]

(* GET treasury: a market whose reads throw has no row.                      *)
LoadTreasury ==
    /\ \E failed, undated, unreserved, graceless \in SUBSET Markets :
         tab' = [tab EXCEPT !.rows = [m \in Markets |->
                   IF m \in failed THEN NoRow
                   ELSE Row(chain[m], IF m \in unreserved THEN 0 ELSE chain[m].reserve,
                            m \notin undated, m \notin graceless)]]
    /\ UNCHANGED <<chain, treasury, moves, sweeps, txs>>

(* The buttons of a row.                                                     *)
Offered(m, kind) ==
    /\ tab.rows[m].known /\ tab.busy # m
    /\ IF kind = "fees" THEN tab.rows[m].fees > 0
       ELSE tab.rows[m].ready /\ tab.rows[m].sweepable > 0

PressSweep(m, kind) ==
    /\ Offered(m, kind)
    /\ tab' = [tab EXCEPT !.busy = m]
    /\ sweeps' = sweeps \cup {[market |-> m, kind |-> kind]}
    /\ UNCHANGED <<chain, treasury, moves, txs>>

Allowed(s) ==
    LET c == chain[s.market] IN
    IF s.kind = "fees" THEN c.fees > 0
    ELSE c.stage = "GraceOver" /\ c.collateral > c.reserve

(* The route: an error, of the simulation or of any call, is the answer ...   *)
RouteRefuses(s) ==
    /\ s \in sweeps
    /\ sweeps' = sweeps \ {s}
    /\ tab' = [tab EXCEPT !.busy = None]
    /\ UNCHANGED <<chain, treasury, moves, txs>>

(* ... otherwise the transaction is sent and its hash answered, without a     *)
(* receipt; the tab loads its rows again and keeps busyId.                   *)
RouteSends(s) ==
    /\ s \in sweeps /\ Allowed(s)
    /\ txs' = txs \cup {s}
    /\ sweeps' = sweeps \ {s}
    /\ UNCHANGED <<chain, treasury, moves, tab>>

Execute(t) ==
    /\ t \in txs
    /\ LET c == chain[t.market] IN
       IF ~Allowed(t) THEN UNCHANGED <<chain, treasury>>
       ELSE IF t.kind = "fees"
       THEN /\ treasury' = treasury + c.fees
            /\ chain' = [chain EXCEPT ![t.market].fees = 0]
       ELSE /\ treasury' = treasury + c.collateral - c.reserve
            /\ chain' = [chain EXCEPT ![t.market].collateral = c.reserve]
    /\ txs' = txs \ {t}
    /\ UNCHANGED <<moves, tab, sweeps>>

TreasuryNext ==
    \/ LoadTreasury
    \/ \E m \in Markets : ChainMoves(m) \/ \E kind \in Kinds : PressSweep(m, kind)
    \/ \E s \in sweeps : RouteRefuses(s) \/ RouteSends(s)
    \/ \E t \in txs : Execute(t)

----------------------------------------------------------------------------
About(p, what) ==
    {r \in Requests : request[r] # Off /\ request[r].panel = p /\ request[r].what = what}
Here == {r \in Requests : request[r] # Off /\ request[r].here}

(* A row's button and the backfill have one request under way of the panel    *)
(* that stands there, whatever those that are gone still have: only a tab     *)
(* that was left, a table that was loaded or filtered, or a dialog that was   *)
(* closed in the meantime lets a second one be sent.  A commit is one that a  *)
(* dry run announced.                                                        *)
ButtonsAreSingle ==
    /\ \A b \in Buttons : Cardinality(About(b, "on") \cap Here) <= 1
    /\ Cardinality((About(Backfill, "dry") \cup About(Backfill, "commit")) \cap Here) <= 1
    /\ About(Backfill, "commit") \cap Here # {} => report = "dry"

(* No panel stays busy for ever, whatever its request comes to.              *)
PanelsComeBack == \A p \in Panels : busy[p] # None ~> busy[p] = None

(* What disabled={busyId === s.id} is for and does not do when two rows are   *)
(* pressed: one verdict on a row at a time.                                  *)
OneVerdictAtATime == \A p \in Lists, i \in Items : Cardinality(About(p, i) \cap Here) <= 1

(* What "disabled={busy}" does not do once the panel came anew.              *)
ButtonsStaySingle == \A b \in Buttons : Cardinality(About(b, "on")) <= 1

(* Whatever reads fail, collateral is offered only of a final market, and     *)
(* what is swept never touches what winners can still redeem.                *)
SweepsSpareTheWinners ==
    \A m \in Markets :
        /\ chain[m].collateral >= chain[m].reserve
        /\ tab.rows[m].ready => chain[m].stage # "Active"

(* "True if status==Finalized AND grace period has passed".                  *)
ReadyMeansGraceIsOver == \A m \in Markets : tab.rows[m].ready => chain[m].stage = "GraceOver"

(* What disabled={isBusy} is for, and a sweep that was sent never undoes: the *)
(* row's buttons come back.                                                  *)
ButtonsComeBack == tab.busy # None ~> tab.busy = None
=============================================================================
