--------------------------- MODULE ArcSettlement ---------------------------
(* The resolution pipeline of the Arc application.  Overlapping resolver     *)
(* ticks (frontend/src/lib/resolver-pipeline.ts), the administrator's routes *)
(* and the status half of the Arc indexer all write the Market and           *)
(* Settlement rows of one market, while its contract on Arc and the GenLayer *)
(* resolver move on their own.  An action runs from one await to the next.   *)
EXTENDS Naturals, Sequences

CONSTANTS
    Ticks,       \* resolver ticks that may run at the same time
    Verdicts,    \* what the GenLayer resolver may answer
    MaxUpsets    \* bound on the administrator's calls, the functions that die
                 \* half way, the transactions that time out and the times the
                 \* indexer falls behind, together

Outcomes == {"YES", "NO", "VOID", "UNRESOLVED", "INVALID"}

VARIABLES
    market,      \* the Market row
    settlement,  \* the Settlement row
    worker,      \* what each resolver tick holds in memory
    stamp,       \* the outcome dispute-resolve sent and has not stamped yet
    indexer,     \* the indexer's pass over the events of the market, its cursor,
                 \* and how many events are too far back to be scanned
    arc,         \* the market's contract on Arc: status, outcome, events, txs
    genlayer,    \* the resolver contract: manifest, verdict, late transactions
    upsets       \* how many of these there were so far

rows == <<market, settlement>>
chains == <<arc, genlayer>>
vars == <<market, settlement, worker, stamp, indexer, arc, genlayer, upsets>>

\* Mutant: the rows a dead function left "resolving" are not taken up.
InFlight_Queued == {"pending_resolve", "retry_later"}

InFlight == {"pending_resolve", "resolving", "retry_later"}
Decided == {"YES", "NO"}

(* The manifest holds the market's Arc address, and nothing else in it       *)
(* changes after the market is made: the address tells two hashes apart.     *)
ManifestOf(m) == IF m.deployed THEN "with_address" ELSE "without_address"

Idle == [pc |-> "idle", snap |-> <<>>, tx |-> "none",
         verdict |-> "none"]

Init ==
    /\ market \in [status: {"active"}, lms: {"Active"}, deployed: BOOLEAN]
    /\ settlement = [status |-> "none", resolution |-> "none", arcTx |-> FALSE]
    /\ worker = [t \in Ticks |-> Idle]
    /\ stamp = "none"
    /\ indexer = [pc |-> "idle", cursor |-> 0, next |-> 0, upto |-> 0,
                  passed |-> 0, seen |-> "Active"]
    /\ arc = [status |-> "Active", outcome |-> "none", events |-> <<>>, pool |-> {}]
    /\ genlayer = [manifest |-> "none", verdict |-> "none", late |-> {}]
    /\ upsets = 0

----------------------------------------------------------------------------
(* The resolver tick.                                                        *)

Upset == upsets < MaxUpsets /\ upsets' = upsets + 1

At(t, pc) == worker[t].pc = pc
Goto(t, pc) == worker' = [worker EXCEPT ![t].pc = pc]
Finish(t) == worker' = [worker EXCEPT ![t] = Idle]
Send(t, pc) == worker' = [worker EXCEPT ![t].pc = pc, ![t].tx = "sent"]
Snap(t) == worker[t].snap[1]

Save(status) == settlement' = [settlement EXCEPT !.status = status]
SaveOutcome(status, v) ==
    settlement' = [settlement EXCEPT !.status = status, !.resolution = v]
Fail(t) == Save("failed") /\ Finish(t)

(* The rows are read together; this copy of them is the one used below.      *)
Load(t) ==
    /\ At(t, "idle")
    /\ settlement.status \in InFlight
    /\ worker' = [worker EXCEPT
         ![t].pc = "advance",
         ![t].snap = <<[status |-> market.status, lms |-> market.lms,
                        deployed |-> market.deployed, arcTx |-> settlement.arcTx]>>]
    /\ UNCHANGED <<rows, stamp, indexer, chains, upsets>>

(* The market is past its expiry from the start.  One that this tick seeds   *)
(* is loaded by the next.                                                    *)
Seed ==
    /\ market.status = "active"
    /\ settlement.status = "none"
    /\ Save("pending_resolve")
    /\ UNCHANGED <<market, worker, stamp, indexer, chains, upsets>>

(* advanceSettlement up to its first write of the manifest registration.     *)
WaitsForChain(s) == s.status = "resolved" \/ s.lms # "Active" \/ s.arcTx

Skip(t) ==
    /\ At(t, "advance")
    /\ WaitsForChain(Snap(t))
    /\ Finish(t)
    /\ UNCHANGED <<rows, stamp, indexer, chains, upsets>>

Begin(t) ==
    /\ At(t, "advance")
    /\ ~WaitsForChain(Snap(t))
    /\ \E configured \in BOOLEAN :
         IF configured THEN Save("resolving") /\ Goto(t, "lookup") ELSE Fail(t)
    /\ UNCHANGED <<market, stamp, indexer, chains, upsets>>

(* getRegisteredMarket answers nothing when a read fails, and an empty hash  *)
(* when only the hash could not be read.                                     *)
LookupManifest(t) ==
    /\ At(t, "lookup")
    /\ \E read \in {"nothing", "no_hash", "all"} :
         IF read = "nothing" \/ genlayer.manifest = "none"
         THEN Send(t, "registering") /\ UNCHANGED settlement
         ELSE IF read = "all" /\ genlayer.manifest # ManifestOf(Snap(t))
              THEN Save("manifest_mismatch") /\ Finish(t)
              ELSE Save("resolving") /\ Send(t, "resolving")
    /\ UNCHANGED <<market, stamp, indexer, chains, upsets>>

(* waitForConfirmedWrite gives up on a transaction that still may run.       *)
GiveUp(t, tx) ==
    /\ worker[t].tx = "sent"
    /\ Upset
    /\ genlayer' = [genlayer EXCEPT !.late = @ \cup {tx}]
    /\ Fail(t)

(* Where a tick saves the same status twice with nothing but its own work in *)
(* between, one save stands for both.                                        *)
RegisterAnswered(t) ==
    /\ At(t, "registering")
    /\ worker[t].tx \notin {"none", "sent"}
    /\ LET same == genlayer.manifest = ManifestOf(Snap(t))
       IN  IF \/ worker[t].tx = "SUCCESS"
              \/ worker[t].tx = "FAILED" /\ same   \* already registered
           THEN Save("resolving") /\ Send(t, "resolving")
           ELSE Fail(t)
    /\ UNCHANGED <<market, stamp, indexer, chains, upsets>>

RegisterTimesOut(t) ==
    /\ At(t, "registering")
    /\ GiveUp(t, ManifestOf(Snap(t)))
    /\ UNCHANGED <<market, stamp, indexer, arc>>

ResolveTimesOut(t) ==
    /\ At(t, "resolving")
    /\ GiveUp(t, "resolve")
    /\ UNCHANGED <<market, stamp, indexer, arc>>

\* Mutant: the hash the verdict was given under is not compared.
Refusal_AnyHash(s) == IF ~s.deployed \/ s.status # "active" THEN "failed" ELSE "none"

(* validateResolution: what it finds wrong with a payload, by the copy of    *)
(* the rows the tick began with.                                             *)
Refusal(s) ==
    CASE ~s.deployed \/ s.status # "active" -> "failed"
      [] genlayer.manifest # ManifestOf(s) -> "manifest_mismatch"
      [] OTHER -> "none"

\* Mutant: VOID gets a status nobody knows.
StatusFor_Void(v) == IF v \in Decided THEN "resolving"
                     ELSE IF v = "VOID" THEN "void" ELSE "retry_later"

(* What is saved for a verdict that passed: VOID has no way to be refunded   *)
(* on Arc and blocks, the undecided answers are asked for again.             *)
StatusFor(v) ==
    CASE v \in Decided -> "resolving" [] v = "VOID" -> "blocked" [] OTHER -> "retry_later"

ResolveAnswered(t) ==
    /\ At(t, "resolving")
    /\ worker[t].tx \notin {"none", "sent"}
    /\ \E readable \in BOOLEAN :
         LET v == genlayer.verdict
             refusal == Refusal(Snap(t))
         IN  IF worker[t].tx # "SUCCESS" \/ ~readable
             THEN Fail(t)
             ELSE /\ SaveOutcome(IF refusal = "none" THEN StatusFor(v) ELSE refusal, v)
                  /\ IF refusal = "none" /\ v \in Decided
                     THEN worker' = [worker EXCEPT ![t].pc = "propose", ![t].verdict = v]
                     ELSE Finish(t)
    /\ UNCHANGED <<market, stamp, indexer, chains, upsets>>

(* arcWriteContract: it returns the hash of a transaction nobody waits for.  *)
Propose(t) ==
    /\ At(t, "propose")
    /\ \/ /\ arc.status = "Active"
          /\ arc' = [arc EXCEPT !.pool =
                       @ \cup {[fn |-> "propose", outcome |-> worker[t].verdict]}]
          /\ Goto(t, "proposed")
          /\ UNCHANGED settlement
       \/ Fail(t) /\ UNCHANGED arc      \* not Active, or the RPC failed
    /\ UNCHANGED <<market, stamp, indexer, genlayer, upsets>>

SaveProposal(t) ==
    /\ At(t, "proposed")
    /\ settlement' = [status |-> "proposed_on_arc",
                      resolution |-> worker[t].verdict, arcTx |-> TRUE]
    /\ Finish(t)
    /\ UNCHANGED <<market, stamp, indexer, chains, upsets>>

TickStep(t) ==
    \/ Skip(t) \/ Begin(t) \/ LookupManifest(t)
    \/ RegisterAnswered(t) \/ RegisterTimesOut(t)
    \/ ResolveAnswered(t) \/ ResolveTimesOut(t)
    \/ Propose(t) \/ SaveProposal(t)

(* The function is killed: its memory goes, what it sent stays sent.         *)
TickDies(t) ==
    /\ ~At(t, "idle")
    /\ Upset
    /\ Finish(t)
    /\ genlayer' = IF worker[t].tx = "sent"
                   THEN [genlayer EXCEPT !.late = @ \cup
                          {IF At(t, "resolving") THEN "resolve"
                                                 ELSE ManifestOf(Snap(t))}]
                   ELSE genlayer
    /\ UNCHANGED <<rows, stamp, indexer, arc>>

----------------------------------------------------------------------------
(* The resolver contract, as genlayer.ts uses it: a market is registered     *)
(* once, and YES, NO and VOID are final; whether it refuses to resolve such  *)
(* a market again, or only repeats itself, is left open.                     *)

Settled == genlayer.verdict \in Decided \cup {"VOID"}

AnswerTo(t, answer) == worker' = [worker EXCEPT ![t].tx = answer]

GenLayerRegisters(t) ==
    /\ At(t, "registering") /\ worker[t].tx = "sent"
    /\ \/ AnswerTo(t, "UNDETERMINED") /\ UNCHANGED genlayer
       \/ IF genlayer.manifest = "none"
          THEN /\ genlayer' = [genlayer EXCEPT !.manifest = ManifestOf(Snap(t))]
               /\ AnswerTo(t, "SUCCESS")
          ELSE AnswerTo(t, "FAILED") /\ UNCHANGED genlayer
    /\ UNCHANGED <<rows, stamp, indexer, arc, upsets>>

GenLayerResolves(t) ==
    /\ At(t, "resolving") /\ worker[t].tx = "sent"
    /\ \/ /\ \/ AnswerTo(t, "UNDETERMINED")
             \/ (genlayer.manifest = "none" \/ Settled) /\ AnswerTo(t, "FAILED")
             \/ Settled /\ AnswerTo(t, "SUCCESS")
          /\ UNCHANGED genlayer
       \/ /\ genlayer.manifest # "none" /\ ~Settled
          /\ \E v \in Verdicts : genlayer' = [genlayer EXCEPT !.verdict = v]
          /\ AnswerTo(t, "SUCCESS")
    /\ UNCHANGED <<rows, stamp, indexer, arc, upsets>>

GenLayerRunsLate ==
    /\ \E tx \in genlayer.late :
         LET rest == [genlayer EXCEPT !.late = @ \ {tx}]
         IN  IF tx = "resolve"
             THEN IF genlayer.manifest # "none" /\ ~Settled
                  THEN \E v \in Verdicts : genlayer' = [rest EXCEPT !.verdict = v]
                  ELSE genlayer' = rest
             ELSE genlayer' = IF genlayer.manifest = "none"
                              THEN [rest EXCEPT !.manifest = tx] ELSE rest
    /\ UNCHANGED <<rows, worker, stamp, indexer, arc, upsets>>

----------------------------------------------------------------------------
(* The market's contract on Arc, as lmsr-abi.ts and the routes describe it.  *)

Moves(fn) ==
    CASE fn = "propose" /\ arc.status = "Active" -> "Pending"
      [] fn = "dispute" /\ arc.status = "Pending" -> "Disputed"
      [] fn = "finalize" /\ arc.status = "Pending" -> "Finalized"
      [] fn = "admin" /\ arc.status # "Finalized" -> "Finalized"
      [] OTHER -> "reverted"

Run(fn, outcome, pool) ==
    arc' = IF Moves(fn) = "reverted" THEN [arc EXCEPT !.pool = pool]
           ELSE [status |-> Moves(fn), outcome |-> outcome, pool |-> pool,
                 events |-> Append(arc.events, [status |-> Moves(fn),
                                                outcome |-> outcome])]

ArcMines ==
    /\ \E tx \in arc.pool : Run(tx.fn, tx.outcome, arc.pool \ {tx})
    /\ UNCHANGED <<rows, worker, stamp, indexer, genlayer, upsets>>

(* Anyone may dispute a proposal, or finalise it when its window has passed. *)
ArcMoves(fn) ==
    /\ market.deployed /\ arc.status = "Pending"
    /\ Run(fn, arc.outcome, arc.pool)
    /\ UNCHANGED <<rows, worker, stamp, indexer, genlayer, upsets>>

----------------------------------------------------------------------------
(* The administrator's routes.                                               *)

(* genlayer_resolve: the row is queued again whatever it says.               *)
Requeue ==
    /\ Upset
    /\ Save("pending_resolve")
    /\ UNCHANGED <<market, worker, stamp, indexer, chains>>

Refund ==
    /\ Upset
    /\ market.status \notin {"resolved", "refunded"}
    /\ market' = [market EXCEPT !.status = "refunded"]
    /\ Save("refunded")
    /\ UNCHANGED <<worker, stamp, indexer, chains>>

Pause(on) ==
    /\ Upset
    /\ market' = [market EXCEPT !.status = IF on THEN "paused" ELSE "active"]
    /\ UNCHANGED <<settlement, worker, stamp, indexer, chains>>

Deploy ==
    /\ Upset
    /\ ~market.deployed
    /\ market' = [market EXCEPT !.deployed = TRUE, !.lms = "Active"]
    /\ UNCHANGED <<settlement, worker, stamp, indexer, chains>>

ResolutionOf(o) == IF o = "INVALID" THEN "none" ELSE o

(* dispute-resolve sends adminResolve, then stamps the settlement, unless the *)
(* function dies in between.                                                 *)
AdminResolve(o) ==
    /\ Upset
    /\ stamp = "none"
    /\ market.deployed /\ market.lms # "Finalized"
    /\ arc.status # "Finalized"         \* else the write throws
    /\ arc' = [arc EXCEPT !.pool = @ \cup {[fn |-> "admin", outcome |-> o]}]
    /\ stamp' \in {o, "none"}
    /\ UNCHANGED <<rows, worker, indexer, genlayer>>

Stamp ==
    /\ stamp # "none"
    /\ settlement' = [status |-> "submitted_to_arc", arcTx |-> TRUE,
                      resolution |-> ResolutionOf(stamp)]
    /\ stamp' = "none"
    /\ UNCHANGED <<market, worker, indexer, chains, upsets>>

----------------------------------------------------------------------------
(* The indexer, for the events of this market.                               *)

(* Where a scan starts: behind the cursor, or near the tip when the cursor is *)
(* too far behind.                                                           *)
Start == IF indexer.passed > indexer.cursor THEN indexer.passed ELSE indexer.cursor

(* No pass has come to its end for so many blocks that the cursor is too far *)
(* behind: what happened before the last ones is not scanned any more.       *)
FallBehind ==
    /\ indexer.pc = "idle"
    /\ Upset
    /\ \E n \in Start + 1 .. Len(arc.events) : indexer' = [indexer EXCEPT !.passed = n]
    /\ UNCHANGED <<rows, worker, stamp, chains>>

(* A pass scans up to the tip or, when it is behind, as far as a range goes. *)
IndexStart ==
    /\ indexer.pc = "idle"
    /\ market.deployed
    /\ indexer.cursor < Len(arc.events) \/ market.lms # arc.status
    /\ \E upto \in Start .. Len(arc.events) :
         /\ IF upto = Len(arc.events) THEN UNCHANGED upsets ELSE Upset
         /\ indexer' = [indexer EXCEPT !.pc = "apply", !.next = Start, !.upto = upto]
    /\ UNCHANGED <<rows, worker, stamp, chains>>

Event == arc.events[indexer.next + 1]
Applying == indexer.pc \in {"apply", "mark"} /\ indexer.next < indexer.upto

(* A final event is mirrored onto the settlement first, then on the market.  *)
MirrorSettlement ==
    /\ Applying /\ indexer.pc = "apply" /\ Event.status = "Finalized"
    /\ settlement' = [status |-> "submitted_to_arc", arcTx |-> TRUE,
                      resolution |-> ResolutionOf(Event.outcome)]
    /\ indexer' = [indexer EXCEPT !.pc = "mark"]
    /\ UNCHANGED <<market, worker, stamp, chains, upsets>>

MirrorMarket ==
    /\ Applying /\ (indexer.pc = "mark" \/ Event.status # "Finalized")
    /\ market' = [market EXCEPT
         !.lms = Event.status,
         !.status = IF Event.status = "Finalized" THEN "resolved" ELSE @]
    /\ indexer' = [indexer EXCEPT !.pc = "apply", !.next = @ + 1]
    /\ UNCHANGED <<settlement, worker, stamp, chains, upsets>>

(* reconcileMarketState: read the contract, then write row and cursor.       *)
ReadStatus ==
    /\ indexer.pc = "apply" /\ indexer.next = indexer.upto
    /\ indexer' = [indexer EXCEPT !.pc = "reconcile", !.seen = arc.status]
    /\ UNCHANGED <<rows, worker, stamp, chains, upsets>>

\* Mutant: the cursor goes to the tip of now, not of the pass's beginning.
Reconcile_ToTip ==
    /\ indexer.pc = "reconcile"
    /\ market' = [market EXCEPT !.lms = indexer.seen]
    /\ indexer' = [indexer EXCEPT !.pc = "idle", !.cursor = Len(arc.events)]
    /\ UNCHANGED <<settlement, worker, stamp, chains, upsets>>

Reconcile ==
    /\ indexer.pc = "reconcile"
    /\ market' = [market EXCEPT !.lms = indexer.seen]
    /\ indexer' = [indexer EXCEPT !.pc = "idle", !.cursor = indexer.upto]
    /\ UNCHANGED <<settlement, worker, stamp, chains, upsets>>

IndexerStep == IndexStart \/ MirrorSettlement \/ MirrorMarket \/ ReadStatus \/ Reconcile

IndexerDies ==
    /\ indexer.pc # "idle"
    /\ Upset
    /\ indexer' = [indexer EXCEPT !.pc = "idle"]
    /\ UNCHANGED <<rows, worker, stamp, chains>>

----------------------------------------------------------------------------
Administrator ==
    \/ Requeue \/ Refund \/ Deploy
    \/ \E on \in BOOLEAN : Pause(on)
    \/ \E o \in {"YES", "NO", "INVALID"} : AdminResolve(o)

Next ==
    \/ Seed
    \/ \E t \in Ticks : Load(t) \/ TickStep(t) \/ TickDies(t)
    \/ \E t \in Ticks : GenLayerRegisters(t) \/ GenLayerResolves(t)
    \/ GenLayerRunsLate \/ ArcMines
    \/ ArcMoves("dispute") \/ ArcMoves("finalize")
    \/ Administrator \/ Stamp
    \/ IndexerStep \/ IndexerDies \/ FallBehind

(* The cron routes run ticks and passes for ever, each function goes on      *)
(* until it returns or dies, and sent transactions are mined.                *)
Fairness ==
    /\ WF_vars(Seed)
    /\ \A t \in Ticks : WF_vars(Load(t)) /\ WF_vars(TickStep(t))
    /\ \A t \in Ticks : WF_vars(GenLayerRegisters(t) \/ GenLayerResolves(t))
    /\ WF_vars(GenLayerRunsLate) /\ WF_vars(ArcMines) /\ WF_vars(Stamp)
    /\ WF_vars(IndexerStep)

Spec == Init /\ [][Next]_vars /\ Fairness

----------------------------------------------------------------------------
(* Rows and contracts hold values of their columns, a tick is between two of *)
(* its awaits, and the indexer's positions are in the log.                   *)
Rowstatus == {"active", "paused", "resolved", "refunded"}
Lms == {"Active", "Pending", "Disputed", "Finalized"}
Manifests == {"with_address", "without_address"}
Statuses == {"none", "pending_resolve", "resolving", "retry_later", "failed",
             "blocked", "manifest_mismatch", "proposed_on_arc",
             "submitted_to_arc", "refunded"}
Steps == {"idle", "advance", "lookup", "registering", "resolving", "propose", "proposed"}
Answers == {"none", "sent", "SUCCESS", "FAILED", "UNDETERMINED"}
Copies == [status: Rowstatus, lms: Lms, deployed: BOOLEAN, arcTx: BOOLEAN]
Snaps == {<<>>} \cup {<<c>> : c \in Copies}
MaybeOutcome == Outcomes \cup {"none"}
Logged == [status: Lms, outcome: MaybeOutcome]
Sent == [fn: {"propose", "admin"}, outcome: MaybeOutcome]
Memory == [pc: Steps, snap: Snaps, tx: Answers, verdict: MaybeOutcome]

TypeOK ==
    /\ market \in [status: Rowstatus, lms: Lms, deployed: BOOLEAN]
    /\ settlement \in [status: Statuses, resolution: MaybeOutcome, arcTx: BOOLEAN]
    /\ worker \in [Ticks -> Memory]
    /\ stamp \in MaybeOutcome
    /\ indexer \in [pc: {"idle", "apply", "mark", "reconcile"}, cursor: Nat, next: Nat,
                    upto: Nat, passed: Nat, seen: Lms]
    /\ {indexer.cursor, indexer.upto, indexer.passed} \subseteq 0 .. Len(arc.events)
    /\ arc \in [status: Lms, outcome: MaybeOutcome, events: Seq(Logged), pool: SUBSET Sent]
    /\ genlayer \in [manifest: Manifests \cup {"none"}, verdict: MaybeOutcome,
                     late: SUBSET (Manifests \cup {"resolve"})]
    /\ upsets \in 0 .. MaxUpsets

(* A resolution the pipeline proposes on Arc, in whatever order ticks, late  *)
(* transactions and administrators act, is the final verdict GenLayer gave   *)
(* under the manifest that names the market's own contract.                  *)
Proposals ==
    {tx.outcome : tx \in {x \in arc.pool : x.fn = "propose"}} \cup
    {arc.events[i].outcome : i \in {j \in 1 .. Len(arc.events) :
                                      arc.events[j].status = "Pending"}}
ProposalsCarryTheVerdict ==
    Proposals # {} => /\ Proposals = {genlayer.verdict}
                      /\ genlayer.manifest = "with_address"

(* A settlement that is in flight, and has no Arc transaction, is worked on  *)
(* until it leaves: whoever died holding it, it is taken up again, unless a  *)
(* proposal already on Arc has its dispute window to wait for.               *)
Unworked == settlement.status \in {"pending_resolve", "resolving"} /\ ~settlement.arcTx
NoSettlementIsForgotten == Unworked ~> ~Unworked \/ arc.status # "Active"

(* Once the contract is final the market's row comes to say so, passes that  *)
(* die half way, scans of a part and events that come during a pass          *)
(* included.  When the indexer fell so far behind that it passed over the    *)
(* final event, the status it reads from the contract says so, and only the  *)
(* row's own status does not.  It need not stay so: whoever pauses or        *)
(* unpauses writes over any status.                                          *)
PassedOverTheEnd == indexer.passed = Len(arc.events)
FinalityIsMirrored ==
    <>(arc.status = "Finalized")
        => <>(market.lms = "Finalized" /\ (market.status = "resolved" \/ PassedOverTheEnd))

(* lib/arc-indexer.ts says the chain is the source of truth and the tables   *)
(* are a cache of it: once the indexer has passed the final event, nobody is *)
(* left at work and the market is resolved, the settlement says how.         *)
Quiet == /\ \A t \in Ticks : At(t, "idle")
         /\ stamp = "none" /\ indexer.pc = "idle"
         /\ indexer.cursor = Len(arc.events)
SettlementIsTheChains ==
    Quiet /\ arc.status = "Finalized" /\ market.status = "resolved"
        => settlement.resolution = ResolutionOf(arc.outcome)
=============================================================================
