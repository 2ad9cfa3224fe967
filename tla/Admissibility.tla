--------------------------- MODULE Admissibility ---------------------------
(***************************************************************************)
(* How the question of one proposal is put to GenLayer, once, and how the  *)
(* answer gets back: the row of its operation in WorkflowState, its        *)
(* Proposal row, the queue, workflow instances that handle its job, and    *)
(* the reconciler that sends the job again when the row is due.            *)
(*                                                                         *)
(* Instances overlap and share nothing but the database.  A step of theirs *)
(* is one SQL statement or one call to GenLayer.                           *)
(***************************************************************************)
EXTENDS Integers, FiniteSets

CONSTANTS Workers,        \* workflow instances alive at the same time
          Reconcilers,    \* reconcile jobs running at the same time
          Decisions,      \* decisions GenLayer may come to
          None, ProposalId,
          INTENT_EXTERNAL_IDS, \* what writers of the intent put in externalId
          GIVES_UP,       \* Workflows ends an instance whose step keeps failing
          POLLS,          \* length of ADMISSIBILITY_POLL_SCHEDULE
          MAX_TXS,        \* bound on remote transactions
          MAX_QUEUED,     \* bound on resumptions waiting in the queue
          MAX_FAILURES    \* bound on failed calls

(* proposal-persistence.ts writes the proposal's id, repositories.ts with  *)
(* proposalAdmissibilityIntent nothing.                                    *)
ASSUME AdmissibilityAssumption ==
    /\ Decisions \subseteq {"APPROVED", "NEEDS_REVISION", "REJECTED"}
    /\ INTENT_EXTERNAL_IDS \subseteq {None, ProposalId}
    /\ GIVES_UP \in BOOLEAN
    /\ POLLS \in Nat /\ MAX_TXS \in Nat /\ MAX_QUEUED \in Nat /\ MAX_FAILURES \in Nat
    /\ None \notin Decisions \cup Nat /\ ProposalId \notin Nat /\ ProposalId # None

Txs == 1 .. MAX_TXS

VARIABLES row,         \* WorkflowState of admissibility:<proposal>
          proposal,    \* the Proposal's workflowStatus and decision
          first,       \* the API's message: is it queued, has it an instance
          resumes,     \* resumptions in the queue
          worker, reconciler,
          txs,         \* the transactions sent so far
          history,     \* those the address-history RPC returns
          assessment,  \* get_assessment of the finalized state
          failures

vars == <<row, proposal, first, resumes, worker, reconciler, txs, history, assessment, failures>>
dbVars == <<row, proposal>>
queueVars == <<first, resumes>>
genlayerVars == <<txs, history, assessment>>

Closed == {"FINALIZED", "FAILED"}
RowStates == {"ABSENT", "PENDING", "READY", "SUBMITTING", "SUBMITTED", "RETRY",
              "RECONCILE_CLAIMED"} \cup Closed
Statuses == {"BOND_CONFIRMED", "WAITING_FINALITY", "FAILED",
             "ACTIVATING", "REVISION_REQUIRED", "DISPOSITION_PENDING"}
Observations == [state : {"RETRY"} \cup Closed, decision : Decisions \cup {None}]
Steps == {"idle", "create", "find", "defer", "defer2", "claim", "reload", "write",
          "persist", "load", "look", "row", "proposal"}
NoObservation == [state |-> "RETRY", decision |-> None]
Rows == [state : RowStates, ext : Txs \cup {None, ProposalId},
         due : {"none", "later", "now"}, recovery : BOOLEAN]
Jobs == [pc : Steps, polls : 0 .. POLLS, tx : Txs \cup {None, ProposalId}, obs : Observations]
Idle == [pc |-> "idle", polls |-> 0, tx |-> None, obs |-> NoObservation]

TypeOK ==
    /\ row \in Rows
    /\ proposal \in [status : Statuses, decision : Decisions \cup {None}]
    /\ first \in [queued : BOOLEAN, started : BOOLEAN]
    /\ resumes \in 0 .. MAX_QUEUED
    /\ worker \in [Workers -> Jobs]
    /\ reconciler \in [Reconcilers -> {"idle", "send", "release"}]
    /\ txs \in [Txs -> [status : {"unsent", "pending", "decided", "finalized", "failed"},
                        decision : Decisions \cup {None}]]
    /\ history \in SUBSET Txs
    /\ assessment \in Decisions \cup {None}
    /\ failures \in 0 .. MAX_FAILURES

Init ==
    /\ row = [state |-> "ABSENT", ext |-> None, due |-> "none", recovery |-> FALSE]
    /\ proposal = [status |-> "BOND_CONFIRMED", decision |-> None]
    /\ first = [queued |-> FALSE, started |-> FALSE] /\ resumes = 0
    /\ worker = [w \in Workers |-> Idle]
    /\ reconciler = [r \in Reconcilers |-> "idle"]
    /\ txs = [t \in Txs |-> [status |-> "unsent", decision |-> None]]
    /\ history = {} /\ assessment = None /\ failures = 0

Goto(w, step) == worker' = [worker EXCEPT ![w] = [@ EXCEPT !.pc = step]]
End(w) == worker' = [worker EXCEPT ![w] = Idle]

(* Workflows tries the step again from its start; polls are steps of their *)
(* own.                                                                    *)
Restart(w) ==
    worker' = [worker EXCEPT ![w] = [Idle EXCEPT !.polls = worker[w].polls,
                 !.pc = IF worker[w].polls = 0 THEN "create" ELSE "load"]]

Throw(w) == Restart(w) \/ End(w)

Failure == failures < MAX_FAILURES /\ failures' = failures + 1
-----------------------------------------------------------------------------
(* The API: proposal and intent in one database transaction, which a       *)
(* repeated request finds done, and then the message.                      *)

PersistVerifiedProposal ==
    /\ row.state = "ABSENT"
    /\ \E x \in INTENT_EXTERNAL_IDS : row' = [row EXCEPT !.state = "PENDING", !.ext = x]
    /\ UNCHANGED <<proposal, queueVars, worker, reconciler, genlayerVars, failures>>

SendIntent ==
    /\ row.state # "ABSENT"
    /\ first' = [first EXCEPT !.queued = TRUE]
    /\ UNCHANGED <<dbVars, resumes, worker, reconciler, genlayerVars, failures>>

-----------------------------------------------------------------------------
(* Delivery.  The instance is named after the message's key: a second      *)
(* delivery of the API's message finds it and is dropped.  Each resumption *)
(* has a key of its own, the due time it was claimed at.                   *)

DeliverFirst(w) ==
    /\ first.queued
    /\ first' = [queued |-> FALSE, started |-> TRUE]
    /\ \/ first.started /\ UNCHANGED worker
       \/ ~first.started /\ worker[w].pc = "idle" /\ Goto(w, "create")
    /\ UNCHANGED <<dbVars, resumes, reconciler, genlayerVars, failures>>

DeliverResume(w) ==
    /\ resumes > 0 /\ worker[w].pc = "idle"
    /\ resumes' = resumes - 1
    /\ Goto(w, "create")
    /\ UNCHANGED <<dbVars, first, reconciler, genlayerVars, failures>>

-----------------------------------------------------------------------------
(* submitAdmissibilityOnce.                                                *)

(* createIfAbsent: the row is there, as the message is sent after it.      *)
CreateIfAbsent(w) ==
    /\ worker[w].pc = "create"
    /\ Goto(w, IF row.ext # None THEN "load"
               ELSE IF row.state = "SUBMITTING" \/ row.recovery THEN "find" ELSE "claim")
    /\ UNCHANGED <<dbVars, queueVars, reconciler, genlayerVars, failures>>

\* Mutant: what the history does not have was never sent.
FindSubmission_OrSend(w) ==
    /\ worker[w].pc = "find"
    /\ \/ \E t \in history :
            /\ history = {t}
            /\ worker' = [worker EXCEPT ![w] = [@ EXCEPT !.pc = "persist", !.tx = t]]
            /\ UNCHANGED failures
       \/ Cardinality(history) # 1 /\ Goto(w, "write") /\ UNCHANGED failures
       \/ Failure /\ Goto(w, "defer")
    /\ UNCHANGED <<dbVars, queueVars, reconciler, genlayerVars>>

FindSubmission(w) ==
    /\ worker[w].pc = "find"
    /\ \/ \E t \in history :
            /\ history = {t}
            /\ worker' = [worker EXCEPT ![w] = [@ EXCEPT !.pc = "persist", !.tx = t]]
            /\ UNCHANGED failures
       \/ Cardinality(history) # 1 /\ Goto(w, "defer") /\ UNCHANGED failures
       \/ Failure /\ Goto(w, "defer")
    /\ UNCHANGED <<dbVars, queueVars, reconciler, genlayerVars>>

(* deferSubmissionRecovery: two statements, after which the instance ends. *)
DeferSubmissionRecovery(w) ==
    /\ worker[w].pc = "defer"
    /\ row' = IF row.ext = None
              THEN [row EXCEPT !.state = "RETRY", !.due = "later", !.recovery = TRUE]
              ELSE row
    /\ Goto(w, "defer2")
    /\ UNCHANGED <<proposal, queueVars, reconciler, genlayerVars, failures>>

DeferProposal(w) ==
    /\ worker[w].pc = "defer2"
    /\ proposal' = [proposal EXCEPT !.status = "WAITING_FINALITY"]
    /\ End(w)
    /\ UNCHANGED <<row, queueVars, reconciler, genlayerVars, failures>>

\* Mutant: any row that has no transaction may be claimed.
Claimable_Unsubmitted == row.ext = None

Claimable == row.state \in {"READY", "PENDING"} /\ row.ext = None

ClaimSubmission(w) ==
    /\ worker[w].pc = "claim"
    /\ \/ Claimable /\ row' = [row EXCEPT !.state = "SUBMITTING"] /\ Goto(w, "write")
       \/ ~Claimable /\ Goto(w, "reload") /\ UNCHANGED row
    /\ UNCHANGED <<proposal, queueVars, reconciler, genlayerVars, failures>>

(* "submission is already owned by another worker", unless it is done.     *)
LoadConcurrent(w) ==
    /\ worker[w].pc = "reload"
    /\ \/ row.ext # None /\ Goto(w, "load")
       \/ row.ext = None /\ Throw(w)
    /\ UNCHANGED <<dbVars, queueVars, reconciler, genlayerVars, failures>>

(* The call sends the transaction; its answer may be lost.                 *)
WriteContract(w) ==
    /\ worker[w].pc = "write"
    /\ \E t \in Txs :
         /\ txs[t].status = "unsent" /\ \A s \in Txs : s < t => txs[s].status # "unsent"
         /\ txs' = [txs EXCEPT ![t] = [status |-> "pending", decision |-> None]]
         /\ \/ /\ worker' = [worker EXCEPT ![w] = [@ EXCEPT !.pc = "persist", !.tx = t]]
               /\ UNCHANGED failures
            \/ Failure /\ Restart(w)
    /\ UNCHANGED <<dbVars, queueVars, reconciler, history, assessment>>

PersistSubmission(w) ==
    /\ worker[w].pc = "persist"
    /\ row' = [row EXCEPT !.ext = worker[w].tx, !.state = "SUBMITTED"]
    /\ Goto(w, "load")
    /\ UNCHANGED <<proposal, queueVars, reconciler, genlayerVars, failures>>

-----------------------------------------------------------------------------
(* followAdmissibility, in the first step and in each poll.                *)

Load(w) ==
    /\ worker[w].pc = "load"
    /\ worker' = [worker EXCEPT ![w] = [@ EXCEPT !.pc = "look", !.tx = row.ext]]
    /\ UNCHANGED <<dbVars, queueVars, reconciler, genlayerVars, failures>>

\* Mutant: an accepted decision is taken for the final one.
Observation_Decided(t) ==
    CASE txs[t].status \in {"decided", "finalized"} ->
             [state |-> "FINALIZED", decision |-> txs[t].decision]
      [] txs[t].status = "failed" -> [state |-> "FAILED", decision |-> None]
      [] OTHER -> NoObservation

(* classifyAdmissibility and the readback of the final assessment.         *)
Observation(t) ==
    CASE txs[t].status = "finalized" -> [state |-> "FINALIZED", decision |-> assessment]
      [] txs[t].status = "failed"    -> [state |-> "FAILED", decision |-> None]
      [] OTHER -> NoObservation

(* getTransaction does not know a proposal's id.                           *)
Look(w) ==
    /\ worker[w].pc = "look"
    /\ \/ /\ worker[w].tx \in Txs
          /\ worker' = [worker EXCEPT ![w] = [@ EXCEPT !.pc = "row",
                                                       !.obs = Observation(worker[w].tx)]]
       \/ worker[w].tx \notin Txs /\ Throw(w)
    /\ UNCHANGED <<dbVars, queueVars, reconciler, genlayerVars, failures>>

\* Mutant: what is not final yet is stored as it is.
Observed_AsIs(obs) ==
    IF obs.state = "RETRY" THEN [row EXCEPT !.state = "SUBMITTED", !.due = "none"]
    ELSE [row EXCEPT !.state = obs.state, !.due = "none"]

Observed(obs) ==
    [row EXCEPT !.state = obs.state, !.due = IF obs.state = "RETRY" THEN "later" ELSE "none"]

(* persistObservation: the operation's row first, then the Proposal.       *)
PersistObservation(w) ==
    /\ worker[w].pc = "row"
    /\ row' = Observed(worker[w].obs)
    /\ Goto(w, "proposal")
    /\ UNCHANGED <<proposal, queueVars, reconciler, genlayerVars, failures>>

\* Mutant: the row's state becomes the workflow's status.
StatusOf_Raw(obs) == obs.state

StatusOf(obs) ==
    CASE obs.decision = "APPROVED"       -> "ACTIVATING"
      [] obs.decision = "NEEDS_REVISION" -> "REVISION_REQUIRED"
      [] obs.decision = "REJECTED"       -> "DISPOSITION_PENDING"
      [] obs.state = "FAILED"            -> "FAILED"
      [] OTHER                           -> "WAITING_FINALITY"

(* The statement of a poll that stores a decision binds a parameter it     *)
(* does not use, so PostgreSQL does not know its type and refuses it.      *)
Refused(job) == job.polls > 0 /\ job.obs.decision # None

UpdateProposal(w) ==
    LET obs == worker[w].obs IN
    /\ worker[w].pc = "proposal" /\ ~Refused(worker[w])
    /\ proposal' = [status |-> StatusOf(obs),
                    decision |-> IF obs.decision # None THEN obs.decision ELSE proposal.decision]
    /\ IF obs.state \in Closed \/ worker[w].polls = POLLS THEN End(w)
       ELSE worker' = [worker EXCEPT ![w] = [Idle EXCEPT !.pc = "load", !.polls = worker[w].polls + 1]]
    /\ UNCHANGED <<row, queueVars, reconciler, genlayerVars, failures>>

UpdateIsRefused(w) ==
    /\ worker[w].pc = "proposal" /\ Refused(worker[w])
    /\ Throw(w)
    /\ UNCHANGED <<dbVars, queueVars, reconciler, genlayerVars, failures>>

(* Any call fails, or the worker stops: before the call has an effect, or  *)
(* after it, when the next step is the one not taken.                      *)
Fail(w) ==
    /\ worker[w].pc # "idle" /\ Failure
    /\ \/ Restart(w)
       \/ GIVES_UP /\ End(w)
    /\ UNCHANGED <<dbVars, queueVars, reconciler, genlayerVars>>

-----------------------------------------------------------------------------
(* reconcileDueLifecycleIntents.                                           *)

\* Mutant: a row whose lease has run out is not due.
Due_NotReclaimed ==
    \/ row.state = "PENDING" /\ row.due = "none"
    \/ row.state = "RETRY" /\ row.due = "now"

Due ==
    \/ row.state = "PENDING" /\ row.due = "none"
    \/ row.state \in {"RETRY", "RECONCILE_CLAIMED"} /\ row.due = "now"

ClaimDue(r) ==
    /\ reconciler[r] = "idle" /\ Due
    /\ row' = [row EXCEPT !.state = "RECONCILE_CLAIMED", !.due = "later"]
    /\ reconciler' = [reconciler EXCEPT ![r] = "send"]
    /\ UNCHANGED <<proposal, queueVars, worker, genlayerVars, failures>>

SendResume(r) ==
    /\ reconciler[r] = "send"
    /\ \/ /\ resumes < MAX_QUEUED /\ resumes' = resumes + 1
          /\ reconciler' = [reconciler EXCEPT ![r] = "idle"]
          /\ UNCHANGED failures
       \/ /\ Failure
          /\ reconciler' = [reconciler EXCEPT ![r] = "release"]
          /\ UNCHANGED resumes
    /\ UNCHANGED <<dbVars, first, worker, genlayerVars>>

ReleaseForRetry(r) ==
    /\ reconciler[r] = "release"
    /\ row' = [row EXCEPT !.state = "RETRY", !.due = "later"]
    /\ reconciler' = [reconciler EXCEPT ![r] = "idle"]
    /\ UNCHANGED <<proposal, queueVars, worker, genlayerVars, failures>>

ReconcilerStops(r) ==
    /\ reconciler[r] # "idle" /\ Failure
    /\ reconciler' = [reconciler EXCEPT ![r] = "idle"]
    /\ UNCHANGED <<dbVars, queueVars, worker, genlayerVars>>

(* nextRunAt comes.                                                        *)
Elapse ==
    /\ row.due = "later"
    /\ row' = [row EXCEPT !.due = "now"]
    /\ UNCHANGED <<proposal, queueVars, worker, reconciler, genlayerVars, failures>>

-----------------------------------------------------------------------------
(* GenLayer: a decision may be overturned until it is final.               *)

Decide(t, d) ==
    /\ txs[t].status \in {"pending", "decided"} /\ txs[t].decision # d
    /\ txs' = [txs EXCEPT ![t] = [status |-> "decided", decision |-> d]]
    /\ UNCHANGED <<dbVars, queueVars, worker, reconciler, history, assessment, failures>>

Finalize(t) ==
    /\ txs[t].status = "decided"
    /\ txs' = [txs EXCEPT ![t].status = "finalized"]
    /\ assessment' = txs[t].decision
    /\ UNCHANGED <<dbVars, queueVars, worker, reconciler, history, failures>>

FinalizeFailed(t) ==
    /\ txs[t].status \in {"pending", "decided"}
    /\ txs' = [txs EXCEPT ![t] = [status |-> "failed", decision |-> None]]
    /\ UNCHANGED <<dbVars, queueVars, worker, reconciler, history, assessment, failures>>

Index(t) ==
    /\ txs[t].status # "unsent" /\ t \notin history
    /\ history' = history \cup {t}
    /\ UNCHANGED <<dbVars, queueVars, worker, reconciler, txs, assessment, failures>>

-----------------------------------------------------------------------------
Step(w) ==
    \/ CreateIfAbsent(w) \/ FindSubmission(w) \/ DeferSubmissionRecovery(w) \/ DeferProposal(w)
    \/ ClaimSubmission(w) \/ LoadConcurrent(w) \/ WriteContract(w) \/ PersistSubmission(w)
    \/ Load(w) \/ Look(w) \/ PersistObservation(w) \/ UpdateProposal(w)
    \/ UpdateIsRefused(w)

Reconcile(r) == ClaimDue(r) \/ SendResume(r) \/ ReleaseForRetry(r)

Next ==
    \/ PersistVerifiedProposal \/ SendIntent \/ Elapse
    \/ \E w \in Workers : DeliverFirst(w) \/ DeliverResume(w) \/ Step(w) \/ Fail(w)
    \/ \E r \in Reconcilers : Reconcile(r) \/ ReconcilerStops(r)
    \/ \E t \in Txs : Finalize(t) \/ FinalizeFailed(t) \/ Index(t)
    \/ \E t \in Txs, d \in Decisions : Decide(t, d)

Spec == Init /\ [][Next]_vars

(* The queue delivers, instances go on, the scheduler keeps calling the    *)
(* reconciler, time passes and the history RPC catches up.  GenLayer need  *)
(* not decide, and the API need not send.                                  *)
FairSpec ==
    /\ Spec
    /\ WF_vars(\E w \in Workers : DeliverFirst(w))
    /\ WF_vars(\E w \in Workers : DeliverResume(w))
    /\ \A w \in Workers : WF_vars(Step(w))
    /\ \A r \in Reconcilers : WF_vars(Reconcile(r))
    /\ WF_vars(Elapse)
    /\ \A t \in Txs : WF_vars(Index(t))
-----------------------------------------------------------------------------
(***************************************************************************)
(* A question is put to GenLayer at most once, however often its job is    *)
(* delivered and whatever answers are lost: "never turn an ambiguous       *)
(* external write into a second transaction".                              *)
(***************************************************************************)
AtMostOneSubmission ==
    \A s, t \in Txs : txs[s].status # "unsent" /\ txs[t].status # "unsent" => s = t

(***************************************************************************)
(* "Encodes assess with proposal identity and persists one external        *)
(* transaction": what an instance asks GenLayer about was sent there.      *)
(***************************************************************************)
FollowsATransaction ==
    \A w \in Workers : worker[w].pc = "look" =>
        worker[w].tx \in Txs /\ txs[worker[w].tx].status # "unsent"

(***************************************************************************)
(* A decision in the database is the finalized assessment, never one that  *)
(* was overturned later; and a closed operation's transaction is final.    *)
(***************************************************************************)
DecisionIsTheAssessment ==
    /\ proposal.decision # None => proposal.decision = assessment
    /\ row.state \in Closed => txs[row.ext].status \in {"finalized", "failed"}

(***************************************************************************)
(* An operation that is not closed has somebody who will see to it: an     *)
(* instance, or the reconciler, now or when its due time comes.            *)
(***************************************************************************)
OperationIsNeverAbandoned ==
    \/ row.state \in {"ABSENT"} \cup Closed
    \/ row.state = "PENDING" /\ row.due = "none"
    \/ row.state \in {"RETRY", "RECONCILE_CLAIMED"} /\ row.due # "none"
    \/ \E w \in Workers : worker[w].pc # "idle"

(***************************************************************************)
(* Once the assessment is final its operation is closed, though workers    *)
(* stop between any two statements and the transaction's id may have been  *)
(* lost on the way back.                                                   *)
(***************************************************************************)
AssessmentClosesOperation == assessment # None ~> row.state = "FINALIZED"

(***************************************************************************)
(* "Requires finalized get_assessment readback and persists" it: the       *)
(* Proposal, which the rest of the system reads, comes to hold the final   *)
(* assessment.                                                             *)
(***************************************************************************)
DecisionIsRecorded == \A d \in Decisions : assessment = d ~> proposal.decision = d

(***************************************************************************)
(* "Reconciliation scans undispatched workflow intents and resends them":  *)
(* a persisted intent is submitted in the end, sent by the API or not.     *)
(***************************************************************************)
IntentIsSubmitted == row.state = "PENDING" ~> \E t \in Txs : txs[t].status # "unsent"

(***************************************************************************)
(* Continuations converge: once GenLayer's decision is final, the status   *)
(* of the Proposal comes to say so and keeps saying it.                    *)
(***************************************************************************)
StatusSettles ==
    \A d \in Decisions : [](assessment = d => <>[](proposal.status = StatusOf([state |-> "FINALIZED", decision |-> d])))
=============================================================================
