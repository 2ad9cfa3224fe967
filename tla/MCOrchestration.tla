--------------------------- MODULE MCOrchestration ---------------------------
(* The pure and the durable parts of the orchestration worker that meet      *)
(* nowhere but in its scheduler, checked side by side: a behaviour is one    *)
(* part's, and the others rest.                                              *)
EXTENDS Naturals, FiniteSets

CONSTANTS
    MaxIntents, Dispatchers, MaxFailures, MaxDeaths,  \* Outbox
    Workers, Readings, MaxCrashes,                    \* GenLayerLifecycle
    Ids, MaxUnits,                                    \* Projections
    Proposals, BaseMarkets, BOND, MAX_REVISIONS,      \* ProposalWorkflow
    TIMEOUT, Callers, MAX_TIME

ASSUME EscrowAssumption ==
    /\ BOND \in Nat \ {0} /\ BOND % 2 = 0
    /\ MAX_REVISIONS \in Nat /\ TIMEOUT \in Nat \ {0} /\ MAX_TIME \in Nat
    /\ "no market" \notin BaseMarkets /\ IsFiniteSet(Proposals)
ASSUME BoundsAssumption ==
    /\ MaxIntents \in Nat /\ MaxFailures \in Nat /\ MaxDeaths \in Nat
    /\ MaxCrashes \in Nat /\ MaxUnits \in Nat \ {0}

\* ResolutionSchedule: the real tables, consulted just before, at and just
\* after every instant at which the answer may change.
LastAttempt == 4
Offset == [a \in 0 .. 4 |-> <<0, 1800, 14400, 86400, 259200>>[a + 1]]
FailureTimes == {0, 14400000, 345540000}
Edges == {0, 60000, 300000, 900000, 1800000, 3600000, 14400000, 14460000, 14700000,
          18000000, 21600000, 36000000, 86400000, 259200000, 345540000, 345600000}
Instants == UNION {{e, e + 1} \cup (IF e = 0 THEN {} ELSE {e - 1}) : e \in Edges}

VARIABLE part  \* the part that is at work

VARIABLES now, state
scheduleVars == <<now, state>>

VARIABLES row, due, queue, workflow, dispatcher, failures, deaths
outboxVars == <<row, due, queue, workflow, dispatcher, failures, deaths>>

VARIABLES attempt, chain, worker, crashes
genlayerVars == <<attempt, chain, worker, crashes>>

VARIABLES release, market, logged, shown
baseVars == <<release, market, logged, shown>>

VARIABLES blockTime, bonds, held, returned, reserve, record, job
proposalVars == <<blockTime, bonds, held, returned, reserve, record, job>>

Schedule == INSTANCE ResolutionSchedule
Durable == INSTANCE Outbox
GenLayer == INSTANCE GenLayerLifecycle WITH Results <- Readings
ReadModel == INSTANCE Projections
Proposal == INSTANCE ProposalWorkflow WITH now <- blockTime, Workers <- Callers

vars == <<part, scheduleVars, outboxVars, genlayerVars, baseVars, proposalVars>>

AtRest == now = 0 /\ state = CHOOSE s \in Schedule!ScheduleStates : ~s.failed

Init ==
    /\ part \in {"schedule", "outbox", "genlayer", "projections", "proposal"}
    /\ IF part = "schedule" THEN Schedule!Init ELSE AtRest
    /\ Durable!Init /\ GenLayer!Init /\ ReadModel!ProjectionInit /\ Proposal!Init

ScheduleWorks == part = "schedule"
    /\ UNCHANGED <<part, outboxVars, genlayerVars, baseVars, proposalVars>>
OutboxWorks == part = "outbox"
    /\ UNCHANGED <<part, scheduleVars, genlayerVars, baseVars, proposalVars>>
GenLayerWorks == part = "genlayer"
    /\ UNCHANGED <<part, scheduleVars, outboxVars, baseVars, proposalVars>>
ReadModelWorks == part = "projections"
    /\ UNCHANGED <<part, scheduleVars, outboxVars, genlayerVars, proposalVars>>
ProposalWorks == part = "proposal"
    /\ UNCHANGED <<part, scheduleVars, outboxVars, genlayerVars, baseVars>>

Next ==
    \/ ScheduleWorks /\ Schedule!Next
    \/ OutboxWorks /\ Durable!Next
    \/ GenLayerWorks /\ GenLayer!Next
    \/ ReadModelWorks /\ ReadModel!ProjectionNext
    \/ ProposalWorks /\ Proposal!Next

(* Each part's fairness, while it is the one at work.  That somebody calls    *)
(* the outbox's dispatcher, the GenLayer worker or the schedule is not part   *)
(* of it: the repository holds no caller of theirs.                          *)
Fairness ==
    /\ \A d \in Dispatchers : WF_outboxVars(OutboxWorks /\ Durable!DispatcherStep(d))
    /\ \A i \in 1 .. MaxIntents :
         /\ WF_outboxVars(OutboxWorks /\ Durable!TimePasses(i))
         /\ WF_outboxVars(OutboxWorks /\ Durable!Deliver(i))
    /\ \A w \in Workers : WF_genlayerVars(GenLayerWorks /\ GenLayer!Runs(w))
    /\ WF_genlayerVars(GenLayerWorks /\ GenLayer!Decide)
    /\ WF_genlayerVars(GenLayerWorks /\ GenLayer!Finalize)
    /\ WF_proposalVars(ProposalWorks /\ Proposal!Tick)
    /\ \A p \in Proposals : WF_proposalVars(ProposalWorks /\ Proposal!DirectRefund(p))

Spec == Init /\ [][Next]_vars /\ Fairness

----------------------------------------------------------------------------
(* The schedule submits what the resolver accepts, waits for evidence only    *)
(* while the resolver would refuse it, and never beyond the deadline.        *)
ScheduleSuitsTheResolver ==
    part = "schedule" =>
        Schedule!SubmissionsAreAccepted /\ Schedule!WaitsOnlyWhileRefused /\ Schedule!DeadlineIsKept

(* Dispatchers never both hold an intent, and mark only what was sent; one    *)
(* GenLayer transaction is sent for an attempt, and what is attested is what  *)
(* it decided.                                                               *)
NothingIsSentTwice == Durable!OneLease /\ GenLayer!OneSubmission

(* Where reconciliations go on, an intent becomes a workflow unless the       *)
(* dispatcher that held it died; and where the transaction goes on being     *)
(* followed, a decoded result comes to the row, though observations cross.   *)
WorkComesToAnEnd == Durable!IntentStartsUnlessOrphaned /\ GenLayer!RowBecomesFinal

(* Folding the events of Base gives the markets' state.                      *)
ProjectionFollowsBase == ReadModel!ProjectionFollowsBase

(* A record that says how a bond ended is right about the chain, and never   *)
(* counts a revision the contract has not counted.                           *)
RecordTellsTheDisposition ==
    Proposal!RecordTellsTheDisposition /\ Proposal!RevisionsNeverAhead

(* Before its timeout a bond returns only behind a finalized resolver and a  *)
(* bound market; the escrow holds the locked bonds, and what it paid adds up. *)
BondsArePaidRight == Proposal!RefundNeedsFinalizedResolver /\ Proposal!EscrowIsExact

(* No bond stays in custody for ever.                                        *)
BondsLeaveCustody == Proposal!BondsLeaveCustody
=============================================================================
