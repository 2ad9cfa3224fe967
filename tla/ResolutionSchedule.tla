------------------------- MODULE ResolutionSchedule -------------------------
(***************************************************************************)
(* nextResolutionAction (apps/orchestration-worker/src/resolution-         *)
(* schedule.ts): what the scheduler does next about one market.  The       *)
(* function is pure; the specification lets time pass over one schedule    *)
(* state and asks, at each instant, whether its answer suits the resolver  *)
(* contract (MarketResolver, another language and another unit of time)    *)
(* and the terminal deadline of the market.                                *)
(***************************************************************************)
EXTENDS MarketResolver, Sequences

CONSTANTS
    Instants,      \* the instants at which the schedule is consulted (ms)
    FailureTimes   \* instants at which the last technical failure happened

VARIABLES now, state
scheduleVars == <<now, state>>

\* The resolution time of the market is the origin of time.
EVIDENCE_OFFSETS_MS == <<0, 30 * 60000, 4 * 3600000, 24 * 3600000, 72 * 3600000>>
TECHNICAL_DELAYS_MS == <<60000, 5 * 60000, 15 * 60000, 3600000, 6 * 3600000>>
TERMINAL_DEADLINE_MS == 96 * 3600000

Least(i, j) == IF i < j THEN i ELSE j

Wait(until) == [kind |-> "WAIT", until |-> until]
Do(kind, attempt) == [kind |-> kind, attempt |-> attempt]

\* TECHNICAL_DELAYS_MS[technicalAttempt] ?? TECHNICAL_DELAYS_MS.at(-1)
TechnicalDelay(technicalAttempt) ==
    TECHNICAL_DELAYS_MS[Least(technicalAttempt + 1, Len(TECHNICAL_DELAYS_MS))]

\* Mutant: the backoff is not cut at the deadline.
RetryAction_Uncapped(s, t) ==
    LET until == s.lastTechnicalFailureAt + TechnicalDelay(s.technicalAttempt)
    IN  IF t < until THEN Wait(until) ELSE Do("RETRY_SAME_OPERATION", s.technicalAttempt)

RetryAction(s, t) ==
    LET until == Least(s.lastTechnicalFailureAt + TechnicalDelay(s.technicalAttempt),
                       TERMINAL_DEADLINE_MS)
    IN  IF t < until THEN Wait(until)
                     ELSE Do("RETRY_SAME_OPERATION", s.technicalAttempt)

\* Mutant: the attempt advances without an UNRESOLVED result.
NextAttempt_Advances(s) == Least(s.evidenceAttempt + 1, Len(EVIDENCE_OFFSETS_MS) - 1)

NextAttempt(s) ==
    Least(s.evidenceAttempt + (IF s.lastEvidenceOutcome = "UNRESOLVED" THEN 1 ELSE 0),
          Len(EVIDENCE_OFFSETS_MS) - 1)

\* Mutant: the due instant itself is waited out.
EvidenceAction_Late(s, t) ==
    LET due == EVIDENCE_OFFSETS_MS[NextAttempt(s) + 1]
    IN  IF t <= due THEN Wait(due) ELSE Do("SUBMIT_EVIDENCE_ATTEMPT", NextAttempt(s))

EvidenceAction(s, t) ==
    LET due == EVIDENCE_OFFSETS_MS[NextAttempt(s) + 1]
    IN  IF t < due THEN Wait(due) ELSE Do("SUBMIT_EVIDENCE_ATTEMPT", NextAttempt(s))

\* `until` of a settled market is MAX_SAFE_INTEGER: it is never looked at again.
FOREVER == 2147483647

nextResolutionAction(s, t) ==
    CASE s.terminalSettled -> Wait(FOREVER)
      [] ~s.terminalSettled /\ t >= TERMINAL_DEADLINE_MS -> Do("EXPIRE_TO_VOID", 0)
      [] OTHER ->
            IF s.finalizedSuccessfulTx THEN Do("REQUEST_ATTESTATIONS", 0)
            ELSE IF s.failed THEN RetryAction(s, t) ELSE EvidenceAction(s, t)

Action == nextResolutionAction(state, now)

-----------------------------------------------------------------------------
(***************************************************************************)
(* The states a scheduler may hold.  An UNRESOLVED outcome of the last     *)
(* attempt does not occur: the resolver turns it into VOID.                *)
(***************************************************************************)
ScheduleStates ==
    {s \in [evidenceAttempt : Attempts,
            lastEvidenceOutcome : {"UNRESOLVED", NONE},
            technicalAttempt : 0 .. Len(TECHNICAL_DELAYS_MS),
            failed : BOOLEAN,
            lastTechnicalFailureAt : FailureTimes,
            finalizedSuccessfulTx : BOOLEAN,
            terminalSettled : BOOLEAN] :
        /\ s.lastEvidenceOutcome = "UNRESOLVED" => s.evidenceAttempt < LastAttempt
        /\ ~s.failed => s.technicalAttempt = 0}

\* The record of the resolver that a schedule state describes: the attempts
\* before the current one, and that one once it has a result, are UNRESOLVED.
DescribedRecord(s) ==
    [a \in Attempts |->
        IF a < s.evidenceAttempt \/ (a = s.evidenceAttempt /\ s.lastEvidenceOutcome = "UNRESOLVED")
        THEN "UNRESOLVED" ELSE NONE]

Init == /\ now \in Instants
        /\ state \in ScheduleStates
        /\ state.failed => state.lastTechnicalFailureAt <= now
        /\ ~state.failed => state.lastTechnicalFailureAt = 0

Tick == \E t \in Instants : now < t /\ now' = t /\ UNCHANGED state

Next == Tick
Spec == Init /\ [][Next]_scheduleVars

-----------------------------------------------------------------------------
(***************************************************************************)
(* An evidence attempt the scheduler submits is one the resolver contract  *)
(* accepts: it is in sequence, unconsumed, and not too early, although the *)
(* two programs keep separate tables in separate units.                    *)
(***************************************************************************)
SubmissionsAreAccepted ==
    Action.kind = "SUBMIT_EVIDENCE_ATTEMPT"
        => MayResolve(DescribedRecord(state), Action.attempt, now \div 1000)

(***************************************************************************)
(* And it is not late: while a market waits for evidence, the resolver     *)
(* would refuse every attempt.                                             *)
(***************************************************************************)
WaitsOnlyWhileRefused ==
    (Action.kind = "WAIT" /\ ~state.failed /\ ~state.terminalSettled)
        => \A a \in Attempts : ~MayResolve(DescribedRecord(state), a, now \div 1000)

(***************************************************************************)
(* No wait of a market that is not settled outlasts its terminal deadline, *)
(* whatever the technical backoff, and from the deadline on the scheduler  *)
(* expires the market.                                                     *)
(***************************************************************************)
DeadlineIsKept ==
    ~state.terminalSettled =>
        /\ Action.kind = "WAIT" => now < Action.until /\ Action.until <= TERMINAL_DEADLINE_MS
        /\ now >= TERMINAL_DEADLINE_MS => Action.kind = "EXPIRE_TO_VOID"
=============================================================================
