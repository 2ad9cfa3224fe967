----------------------------- MODULE ArcIndexer -----------------------------
(* Overlapping passes of the Arc indexer (frontend/src/lib/arc-indexer.ts)   *)
(* over the factory and one market's contract: which blocks a pass scans,    *)
(* what it writes from them, and where it leaves the cursors.  An action     *)
(* runs from one write to the next; blocks do not change once they are mined.*)
EXTENDS Naturals, Sequences

CONSTANTS
    Passes,      \* passes that may run at the same time
    MaxRange,    \* blocks of one scan, and the lookback after a jump
    MaxBlocks,   \* bound on the chain
    MaxBreaks,   \* bound on the passes that break off
    Outage,      \* may the chain run away from the indexer?
    DbFails      \* may the insertion of a trade fail?

VARIABLES
    blocks,   \* what the market does in each block of the chain
    row,      \* its Market row: stamped with the address, statuses, cursor
    factory,  \* the factory's cursor
    trades,   \* the blocks whose trade has an ArcTrade row
    pass,     \* what each pass holds in memory
    breaks    \* passes that broke off so far

vars == <<blocks, row, factory, trades, pass, breaks>>

Events == {"created", "trade", "finalized", "nothing"}
Idle == [pc |-> "idle", tip |-> 0, to |-> 0, found |-> {}, seen |-> "Active"]

Init ==
    /\ blocks = <<>>
    /\ row = [stamped |-> FALSE, lms |-> "Active", status |-> "active", cursor |-> 0]
    /\ factory = 0
    /\ trades = {}
    /\ pass = [p \in Passes |-> Idle]
    /\ breaks = 0

Tip == Len(blocks)
Happened(e) == \E b \in 1 .. Tip : blocks[b] = e
ChainStatus == IF Happened("finalized") THEN "Finalized" ELSE "Active"

At(p, pc) == pass[p].pc = pc

----------------------------------------------------------------------------
(* The chain.  A market is created once, trades until it is final.  Without  *)
(* an outage the indexer, which runs every 30 seconds, is never further      *)
(* behind than it can scan.                                                  *)

Created == CHOOSE b \in 1 .. Tip : blocks[b] = "created"
InReach ==
    Happened("created") =>
        Tip + 1 - (IF row.cursor = 0 THEN Created ELSE row.cursor) <= MaxRange

MineBlock(e) ==
    /\ Tip < MaxBlocks
    /\ Outage \/ InReach
    /\ e = "created" => ~Happened("created")
    /\ e \in {"trade", "finalized"} => Happened("created") /\ ~Happened("finalized")
    /\ blocks' = Append(blocks, e)
    /\ UNCHANGED <<row, factory, trades, pass, breaks>>

(* createMarketOnArc's caller stamps the row when it has the receipt.        *)
StampRow ==
    /\ Happened("created") /\ ~row.stamped
    /\ row' = [row EXCEPT !.stamped = TRUE]
    /\ UNCHANGED <<blocks, factory, trades, pass, breaks>>

----------------------------------------------------------------------------
(* indexArcOnce.                                                             *)

\* Mutant: the scan begins one block late.
From_Late(cursor, tip) == IF cursor = 0 THEN 1 ELSE cursor + 2

(* A cursor at nothing, or too far behind, jumps near the tip.               *)
From(cursor, tip) ==
    IF cursor = 0 \/ tip > cursor + 2 * MaxRange
    THEN IF tip > MaxRange THEN tip - MaxRange ELSE 1
    ELSE cursor + 1

To(from, tip) == IF from + MaxRange > tip THEN tip ELSE from + MaxRange

ReadTip(p) ==
    /\ At(p, "idle") /\ Tip > 0
    /\ pass' = [pass EXCEPT ![p] = [Idle EXCEPT !.pc = "factory", !.tip = Tip]]
    /\ UNCHANGED <<blocks, row, factory, trades, breaks>>

(* The factory's events: a market whose row is stamped is active again, and  *)
(* one whose row is not is passed over.                                      *)
ScanFactory(p) ==
    /\ At(p, "factory")
    /\ LET from == From(factory, pass[p].tip)
           to == To(from, pass[p].tip)
       IN  /\ pass' = [pass EXCEPT ![p].to = to,
                                   ![p].pc = IF to >= from THEN "factory_cursor" ELSE "market"]
           /\ row' = IF row.stamped /\ \E b \in from .. to : blocks[b] = "created"
                     THEN [row EXCEPT !.lms = "Active"] ELSE row
    /\ UNCHANGED <<blocks, factory, trades, breaks>>

SetFactoryCursor(p) ==
    /\ At(p, "factory_cursor")
    /\ factory' = pass[p].to
    /\ pass' = [pass EXCEPT ![p].pc = "market", ![p].to = 0]
    /\ UNCHANGED <<blocks, row, trades, breaks>>

(* The market is scanned if its row is stamped.  Trades are written first,   *)
(* and they come first on the chain.                                         *)
(* Past MaxBlocks the chain goes on with empty blocks: there is a range to   *)
(* scan, and nothing in it.                                                  *)
ScanMarket(p) ==
    /\ At(p, "market")
    /\ LET from == From(row.cursor, pass[p].tip)
           to == To(from, pass[p].tip)
       IN  IF row.stamped /\ (to >= from \/ row.cursor = MaxBlocks)
           THEN pass' = [pass EXCEPT ![p] = [Idle EXCEPT !.pc = "write", !.to = to,
                  !.found = {b \in from .. to : blocks[b] \in {"trade", "finalized"}}]]
           ELSE pass' = [pass EXCEPT ![p] = Idle]
    /\ UNCHANGED <<blocks, row, factory, trades, breaks>>

Next1(p) == CHOOSE b \in pass[p].found : \A c \in pass[p].found : b <= c
Drop(p) == pass' = [pass EXCEPT ![p].found = @ \ {Next1(p)}]

(* A trade that is there already is refused; one that could not be written   *)
(* is only warned about.                                                     *)
InsertTrade(p) ==
    /\ At(p, "write") /\ pass[p].found # {} /\ blocks[Next1(p)] = "trade"
    /\ trades' = trades \cup {Next1(p)} \/ (DbFails /\ UNCHANGED trades)
    /\ Drop(p)
    /\ UNCHANGED <<blocks, row, factory, breaks>>

ApplyStatusUpdate(p) ==
    /\ At(p, "write") /\ pass[p].found # {} /\ blocks[Next1(p)] = "finalized"
    /\ row' = [row EXCEPT !.lms = "Finalized", !.status = "resolved"]
    /\ Drop(p)
    /\ UNCHANGED <<blocks, factory, trades, breaks>>

(* reconcileMarketState reads the contract, then writes status and cursor.   *)
ReadState(p) ==
    /\ At(p, "write") /\ pass[p].found = {}
    /\ pass' = [pass EXCEPT ![p].pc = "reconcile", ![p].seen = ChainStatus]
    /\ UNCHANGED <<blocks, row, factory, trades, breaks>>

\* Mutant: the cursor is moved to the tip, whatever was scanned.
Reconcile_ToTip(p) ==
    /\ At(p, "reconcile")
    /\ row' = [row EXCEPT !.lms = pass[p].seen, !.cursor = Tip]
    /\ pass' = [pass EXCEPT ![p] = Idle]
    /\ UNCHANGED <<blocks, factory, trades, breaks>>

Reconcile(p) ==
    /\ At(p, "reconcile")
    /\ row' = [row EXCEPT !.lms = pass[p].seen, !.cursor = pass[p].to]
    /\ pass' = [pass EXCEPT ![p] = Idle]
    /\ UNCHANGED <<blocks, factory, trades, breaks>>

(* A read throws, or the function is killed: the pass ends where it is.      *)
Breaks(p) ==
    /\ ~At(p, "idle")
    /\ breaks < MaxBreaks /\ breaks' = breaks + 1
    /\ pass' = [pass EXCEPT ![p] = Idle]
    /\ UNCHANGED <<blocks, row, factory, trades>>

----------------------------------------------------------------------------
PassStep(p) ==
    \/ ReadTip(p) \/ ScanFactory(p) \/ SetFactoryCursor(p) \/ ScanMarket(p)
    \/ InsertTrade(p) \/ ApplyStatusUpdate(p) \/ ReadState(p) \/ Reconcile(p)

Next ==
    \/ \E e \in Events : MineBlock(e)
    \/ StampRow
    \/ \E p \in Passes : PassStep(p) \/ Breaks(p)

(* The chain goes on, the cron route starts passes for ever, and a pass runs *)
(* until it ends.                                                            *)
Fairness ==
    /\ WF_vars(MineBlock("nothing"))
    /\ \A p \in Passes : WF_vars(PassStep(p))

Spec == Init /\ [][Next]_vars /\ Fairness

----------------------------------------------------------------------------
(* Cursors point into the chain.                                             *)
TypeOK ==
    /\ \A b \in 1 .. Tip : blocks[b] \in Events
    /\ row.cursor \in 0 .. Tip /\ factory \in 0 .. Tip
    /\ row.lms \in {"Active", "Finalized"} /\ row.status \in {"active", "resolved"}
    /\ trades \subseteq 1 .. Tip

(* "replaying the same range is safe": however passes overlap, break off and *)
(* set the cursor back, what lies at or below the market's cursor is in the  *)
(* database.                                                                 *)
NothingBelowTheCursorIsLost ==
    \A b \in 1 .. row.cursor :
        /\ blocks[b] = "trade" => b \in trades
        /\ blocks[b] = "finalized" => row.status = "resolved"

(* A final market's row comes to say so, and every trade is there, though    *)
(* late passes still call the market active.                                 *)
RowComesToTheChain ==
    (row.stamped /\ Happened("finalized"))
        ~> /\ row.lms = "Finalized" /\ row.status = "resolved"
           /\ \A b \in 1 .. Tip : blocks[b] = "trade" => b \in trades
=============================================================================
