------------------------------ MODULE Outbox --------------------------------
(* The transactional outbox of the orchestration worker: dispatchers         *)
(* (apps/orchestration-worker/src/durable-intents.ts) move intents from      *)
(* WorkflowState rows (packages/db/src/repositories.ts, workflowIntents) to  *)
(* a queue that delivers at least once, whose consumer (index.ts,            *)
(* queue-dispatch.ts) starts one workflow for each key.  An action runs from *)
(* one await to the next.                                                    *)
EXTENDS Naturals, FiniteSets

CONSTANTS
    MaxIntents,   \* intents are numbered as they are created
    Dispatchers,
    MaxFailures,  \* bound on statements, sends and acknowledgements that fail
    MaxDeaths     \* bound on dispatchers that die

VARIABLES
    row,         \* state of each intent's WorkflowState row
    due,         \* whether its nextRunAt is null or past
    queue,       \* messages of each intent in the queue
    workflow,    \* the intents whose workflow was created
    dispatcher,  \* what each dispatcher holds in memory
    failures, deaths

vars == <<row, due, queue, workflow, dispatcher, failures, deaths>>

Intents == 1 .. MaxIntents
Idle == [pc |-> "idle", intent |-> 0, rest |-> {}]

Init ==
    /\ row = [i \in Intents |-> "ABSENT"]
    /\ due = [i \in Intents |-> FALSE]
    /\ queue = [i \in Intents |-> 0]
    /\ workflow = {}
    /\ dispatcher = [d \in Dispatchers |-> Idle]
    /\ failures = 0 /\ deaths = 0

(* createWithWorkflowIntent: proposal and intent in one transaction; a       *)
(* repeated request finds them.                                              *)
Create(i) ==
    /\ row[i] = "ABSENT" /\ \A j \in 1 .. i - 1 : row[j] # "ABSENT"
    /\ row' = [row EXCEPT ![i] = "PENDING"]
    /\ due' = [due EXCEPT ![i] = TRUE]
    /\ UNCHANGED <<queue, workflow, dispatcher, failures, deaths>>

TimePasses(i) ==
    /\ row[i] # "ABSENT" /\ ~due[i]
    /\ due' = [due EXCEPT ![i] = TRUE]
    /\ UNCHANGED <<row, queue, workflow, dispatcher, failures, deaths>>

----------------------------------------------------------------------------
(* A dispatcher works off one intent, or what a reconciliation listed.       *)

At(d, pc) == dispatcher[d].pc = pc
Current(d) == dispatcher[d].intent
Goto(d, pc) == dispatcher' = [dispatcher EXCEPT ![d].pc = pc]

(* The oldest of what is to be done comes first.                             *)
Take(d, todo) ==
    \/ todo = {} /\ dispatcher' = [dispatcher EXCEPT ![d] = Idle]
    \/ \E i \in todo :
         /\ \A j \in todo : i <= j
         /\ dispatcher' = [dispatcher EXCEPT ![d] =
                            [pc |-> "load", intent |-> i, rest |-> todo \ {i}]]

GoOn(d) == Take(d, dispatcher[d].rest)

Claimable(i) == row[i] \in {"PENDING", "RETRY"} /\ due[i]

(* dispatchIntent for a row that was just created.                           *)
Dispatch(d) ==
    /\ At(d, "idle")
    /\ \E i \in Intents : row[i] # "ABSENT" /\ Take(d, {i})
    /\ UNCHANGED <<row, due, queue, workflow, failures, deaths>>

(* reconcileIntents: listDue, oldest first.                                  *)
Reconcile(d) ==
    /\ At(d, "idle") /\ \E i \in Intents : Claimable(i)
    /\ Take(d, {i \in Intents : Claimable(i)})
    /\ UNCHANGED <<row, due, queue, workflow, failures, deaths>>

Load(d) ==
    /\ At(d, "load")
    /\ IF row[Current(d)] = "DISPATCHED" THEN GoOn(d) ELSE Goto(d, "claim")
    /\ UNCHANGED <<row, due, queue, workflow, failures, deaths>>

\* Mutant: the update does not look at the state again.
Claim_Unchecked(d) ==
    /\ At(d, "claim")
    /\ row' = [row EXCEPT ![Current(d)] = "CLAIMED"]
    /\ due' = [due EXCEPT ![Current(d)] = FALSE]
    /\ Goto(d, "send")
    /\ UNCHANGED <<queue, workflow, failures, deaths>>

(* One conditional update; who comes second is told "busy".                  *)
Claim(d) ==
    /\ At(d, "claim")
    /\ IF Claimable(Current(d))
       THEN /\ row' = [row EXCEPT ![Current(d)] = "CLAIMED"]
            /\ due' = [due EXCEPT ![Current(d)] = FALSE]
            /\ Goto(d, "send")
       ELSE GoOn(d) /\ UNCHANGED <<row, due>>
    /\ UNCHANGED <<queue, workflow, failures, deaths>>

Send(d) ==
    /\ At(d, "send")
    /\ queue' = [queue EXCEPT ![Current(d)] = @ + 1]
    /\ Goto(d, "mark")
    /\ UNCHANGED <<row, due, workflow, failures, deaths>>

MarkDispatched(d) ==
    /\ At(d, "mark")
    /\ row' = [row EXCEPT ![Current(d)] = "DISPATCHED"]
    /\ due' = [due EXCEPT ![Current(d)] = TRUE]
    /\ GoOn(d)
    /\ UNCHANGED <<queue, workflow, failures, deaths>>

(* The send, or marking what was sent, throws.                               *)
Throws(d) ==
    /\ At(d, "send") \/ At(d, "mark")
    /\ failures < MaxFailures /\ failures' = failures + 1
    /\ Goto(d, "retry")
    /\ UNCHANGED <<row, due, queue, workflow, deaths>>

\* Mutant: a failed intent is left as it was claimed.
MarkRetry_Forgotten(d) ==
    /\ At(d, "retry")
    /\ dispatcher' = [dispatcher EXCEPT ![d] = Idle]
    /\ UNCHANGED <<row, due, queue, workflow, failures, deaths>>

(* The error is thrown on: the intents after this one are not looked at.     *)
MarkRetry(d) ==
    /\ At(d, "retry")
    /\ row' = [row EXCEPT ![Current(d)] = "RETRY"]
    /\ due' = [due EXCEPT ![Current(d)] = FALSE]
    /\ dispatcher' = [dispatcher EXCEPT ![d] = Idle]
    /\ UNCHANGED <<queue, workflow, failures, deaths>>

Dies(d) ==
    /\ ~At(d, "idle")
    /\ deaths < MaxDeaths /\ deaths' = deaths + 1
    /\ dispatcher' = [dispatcher EXCEPT ![d] = Idle]
    /\ UNCHANGED <<row, due, queue, workflow, failures>>

----------------------------------------------------------------------------
(* queue: the workflow of the key is created, or there already; the message  *)
(* is acknowledged, unless the acknowledgement is lost.                      *)
Deliver(i) ==
    /\ queue[i] > 0
    /\ workflow' = workflow \cup {i}
    /\ queue' = [queue EXCEPT ![i] = @ - 1]
    /\ UNCHANGED <<row, due, dispatcher, failures, deaths>>

LoseAck(i) ==
    /\ queue[i] > 0 /\ i \notin workflow
    /\ failures < MaxFailures /\ failures' = failures + 1
    /\ workflow' = workflow \cup {i}
    /\ UNCHANGED <<row, due, queue, dispatcher, deaths>>

----------------------------------------------------------------------------
DispatcherStep(d) == Load(d) \/ Claim(d) \/ Send(d) \/ MarkDispatched(d) \/ MarkRetry(d)

Next ==
    \/ \E i \in Intents : Create(i) \/ TimePasses(i) \/ Deliver(i) \/ LoseAck(i)
    \/ \E d \in Dispatchers :
         Dispatch(d) \/ Reconcile(d) \/ DispatcherStep(d) \/ Throws(d) \/ Dies(d)

(* A function that was called runs on, time passes, the queue delivers.       *)
(* Nothing in the repository calls dispatchIntent or reconcileIntents        *)
(* (index.ts schedules other jobs), so that they are called is not assumed.  *)
Fairness ==
    /\ \A d \in Dispatchers : WF_vars(DispatcherStep(d))
    /\ \A i \in Intents : WF_vars(TimePasses(i)) /\ WF_vars(Deliver(i))

Spec == Init /\ [][Next]_vars /\ Fairness

----------------------------------------------------------------------------
(* Rows are in a state of the outbox, memory holds intents.                  *)
TypeOK ==
    /\ row \in [Intents -> {"ABSENT", "PENDING", "CLAIMED", "DISPATCHED", "RETRY"}]
    /\ queue \in [Intents -> Nat] /\ workflow \subseteq Intents
    /\ \A d \in Dispatchers :
         IF At(d, "idle") THEN dispatcher[d] = Idle
         ELSE Current(d) \in Intents /\ dispatcher[d].rest \subseteq Intents

(* "concurrent dispatchers can never both claim a live intent": whatever     *)
(* dispatchers list, load, fail and come back with, one at most sends, marks *)
(* or gives back an intent, and what is marked dispatched was sent.          *)
Holds(d, i) == dispatcher[d].pc \in {"send", "mark", "retry"} /\ Current(d) = i
OneLease ==
    \A i \in Intents :
        /\ Cardinality({d \in Dispatchers : Holds(d, i)}) <= 1
        /\ row[i] = "DISPATCHED" => queue[i] > 0 \/ i \in workflow

(* What the outbox asks of whoever is to run it: a reconciliation that has   *)
(* something to claim again and again is made again and again.               *)
ReconciledAgainAndAgain == SF_vars(\E d \in Dispatchers : Reconcile(d))

(* If reconciliations go on, an intent comes to be a workflow, whatever      *)
(* fails on the way; only the death of the dispatcher that holds it can keep *)
(* it from that.                                                             *)
Orphaned(i) == row[i] = "CLAIMED" /\ \A d \in Dispatchers : ~Holds(d, i)
IntentStartsUnlessOrphaned ==
    ReconciledAgainAndAgain => \A i \in 1 .. MaxIntents :
        row[i] = "PENDING" ~> i \in workflow \/ (Orphaned(i) /\ deaths > 0)

(* dispatchIntent: "A crash after send and before markDispatched is safe     *)
(* because ... reconciliation can retry the intent": it can always be listed *)
(* again until it is marked.                                                 *)
IntentIsDispatched ==
    ReconciledAgainAndAgain => \A i \in 1 .. MaxIntents : row[i] = "PENDING" ~> row[i] = "DISPATCHED"
=============================================================================
