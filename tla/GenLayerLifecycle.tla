-------------------------- MODULE GenLayerLifecycle -------------------------
(* One resolution attempt on GenLayer (apps/orchestration-worker/src/        *)
(* genlayer-lifecycle.ts): workers submit it once between them, and follow   *)
(* the transaction that was persisted until it is final.  An action runs     *)
(* from one await to the next.                                               *)
EXTENDS Naturals, FiniteSets

CONSTANTS
    Workers,
    Results,    \* what the final transaction may say
    MaxCrashes  \* bound on the workers that stop

Outcomes == {"YES", "NO", "VOID", "UNRESOLVED"}

VARIABLES
    attempt,  \* the durable row: claim, transaction, lifecycle, outcome
    chain,    \* transactions sent, and the state and result of the persisted one
    worker,   \* what each worker holds in memory
    crashes

vars == <<attempt, chain, worker, crashes>>

Idle == [pc |-> "idle", seen |-> "pending"]
NoTx == 0

Init ==
    /\ attempt = [created |-> FALSE, claimed |-> FALSE, tx |-> NoTx,
                  lifecycle |-> "READY", outcome |-> "none", attestable |-> FALSE]
    /\ chain = [sent |-> 0, state |-> "pending", result |-> "none"]
    /\ worker = [w \in Workers |-> Idle]
    /\ crashes = 0

At(w, pc) == worker[w].pc = pc
Goto(w, pc) == worker' = [worker EXCEPT ![w].pc = pc]

----------------------------------------------------------------------------
(* submitOnce.  A worker whose attempt has a transaction returns it.         *)

CreateIfAbsent(w) ==
    /\ At(w, "idle") /\ attempt.tx = NoTx
    /\ attempt' = [attempt EXCEPT !.created = TRUE]
    /\ Goto(w, "claim")
    /\ UNCHANGED <<chain, crashes>>

\* Mutant: an attempt that has no transaction yet is claimed again.
ClaimSubmission_Again(w) ==
    /\ At(w, "claim")
    /\ IF attempt.tx = NoTx
       THEN attempt' = [attempt EXCEPT !.claimed = TRUE] /\ Goto(w, "write")
       ELSE worker' = [worker EXCEPT ![w] = Idle] /\ UNCHANGED attempt
    /\ UNCHANGED <<chain, crashes>>

(* READY -> SUBMITTING in one update; who loses returns the transaction if   *)
(* it is there, and throws if it is not.                                     *)
ClaimSubmission(w) ==
    /\ At(w, "claim")
    /\ IF ~attempt.claimed
       THEN attempt' = [attempt EXCEPT !.claimed = TRUE] /\ Goto(w, "write")
       ELSE worker' = [worker EXCEPT ![w] = Idle] /\ UNCHANGED attempt
    /\ UNCHANGED <<chain, crashes>>

WriteContract(w) ==
    /\ At(w, "write")
    /\ chain' = [chain EXCEPT !.sent = @ + 1]
    /\ Goto(w, "persist")
    /\ UNCHANGED <<attempt, crashes>>

PersistSubmission(w) ==
    /\ At(w, "persist")
    /\ attempt' = [attempt EXCEPT !.tx = chain.sent, !.lifecycle = "SUBMITTED"]
    /\ worker' = [worker EXCEPT ![w] = Idle]
    /\ UNCHANGED <<chain, crashes>>

Crash(w) ==
    /\ ~At(w, "idle")
    /\ crashes < MaxCrashes /\ crashes' = crashes + 1
    /\ worker' = [worker EXCEPT ![w] = Idle]
    /\ UNCHANGED <<attempt, chain>>

----------------------------------------------------------------------------
(* followPersistedTransaction.                                               *)

GetTransaction(w) ==
    /\ At(w, "idle") /\ attempt.tx # NoTx
    /\ worker' = [worker EXCEPT ![w] =
         [pc |-> "observe", seen |-> IF chain.state = "finalized" THEN chain.result ELSE chain.state]]
    /\ UNCHANGED <<attempt, chain, crashes>>

\* Mutant: an UNRESOLVED result may be attested like the others.
Classified_Attests(seen) ==
    CASE seen = "pending" -> [lifecycle |-> "SUBMITTED", outcome |-> "none", attestable |-> FALSE]
      [] seen = "decided" -> [lifecycle |-> "ACCEPTED", outcome |-> "none", attestable |-> FALSE]
      [] seen \in Outcomes -> [lifecycle |-> "FINALIZED", outcome |-> seen, attestable |-> TRUE]
      [] OTHER -> [lifecycle |-> "FAILED", outcome |-> "none", attestable |-> FALSE]

(* classifyFinality: execution and trace must both have succeeded.           *)
Classified(seen) ==
    CASE seen = "pending" -> [lifecycle |-> "SUBMITTED", outcome |-> "none", attestable |-> FALSE]
      [] seen = "decided" -> [lifecycle |-> "ACCEPTED", outcome |-> "none", attestable |-> FALSE]
      [] seen \in Outcomes ->
            [lifecycle |-> "FINALIZED", outcome |-> seen, attestable |-> seen # "UNRESOLVED"]
      [] OTHER -> [lifecycle |-> "FAILED", outcome |-> "none", attestable |-> FALSE]

\* Mutant: only a row that is still SUBMITTED takes an observation.
PersistObservation_FirstOnly(w) ==
    /\ At(w, "observe")
    /\ LET seen == Classified(worker[w].seen) IN
       attempt' = IF worker[w].seen = "undecodable" \/ attempt.lifecycle # "SUBMITTED" THEN attempt
                  ELSE [attempt EXCEPT !.lifecycle = seen.lifecycle,
                          !.outcome = IF seen.outcome = "none" THEN @ ELSE seen.outcome,
                          !.attestable = seen.attestable]
    /\ worker' = [worker EXCEPT ![w] = Idle]
    /\ UNCHANGED <<chain, crashes>>

(* The patch is written over the row; a result that cannot be decoded        *)
(* throws, and nothing is written.                                           *)
PersistObservation(w) ==
    /\ At(w, "observe")
    /\ LET seen == Classified(worker[w].seen) IN
       attempt' = IF worker[w].seen = "undecodable" THEN attempt
                  ELSE [attempt EXCEPT !.lifecycle = seen.lifecycle,
                          !.outcome = IF seen.outcome = "none" THEN @ ELSE seen.outcome,
                          !.attestable = seen.attestable]
    /\ worker' = [worker EXCEPT ![w] = Idle]
    /\ UNCHANGED <<chain, crashes>>

(* GenLayer decides the transaction, and finalises it after the appeals.     *)
Decide ==
    /\ attempt.tx # NoTx /\ chain.state = "pending"
    /\ chain' = [chain EXCEPT !.state = "decided"]
    /\ UNCHANGED <<attempt, worker, crashes>>

Finalize ==
    /\ chain.state = "decided"
    /\ \E r \in Results : chain' = [chain EXCEPT !.state = "finalized", !.result = r]
    /\ UNCHANGED <<attempt, worker, crashes>>

----------------------------------------------------------------------------
Step(w) ==
    \/ CreateIfAbsent(w) \/ ClaimSubmission(w) \/ WriteContract(w) \/ PersistSubmission(w)
    \/ GetTransaction(w) \/ PersistObservation(w)

Next ==
    \/ \E w \in Workers : Step(w) \/ Crash(w)
    \/ Decide \/ Finalize

Runs(w) ==
    ClaimSubmission(w) \/ WriteContract(w) \/ PersistSubmission(w) \/ PersistObservation(w)

(* A function that was called runs on, and GenLayer goes on.  Nothing in the *)
(* repository calls submitOnce or followPersistedTransaction, so that they   *)
(* are called is not assumed.                                                *)
Fairness ==
    /\ \A w \in Workers : WF_vars(Runs(w))
    /\ WF_vars(Decide) /\ WF_vars(Finalize)

Spec == Init /\ [][Next]_vars /\ Fairness

----------------------------------------------------------------------------
(* The row holds a lifecycle; a transaction is one that was sent.            *)
TypeOK ==
    /\ attempt.lifecycle \in {"READY", "SUBMITTED", "ACCEPTED", "FINALIZED", "FAILED"}
    /\ attempt.tx \in 0 .. chain.sent
    /\ chain.state \in {"pending", "decided", "finalized"}

(* However workers overlap, return and crash, one transaction is sent for    *)
(* the attempt, and what may be attested is what the final one decided.      *)
OneSubmission ==
    /\ chain.sent <= 1
    /\ attempt.attestable => chain.result = attempt.outcome /\ attempt.outcome # "UNRESOLVED"

(* What the module asks of whoever is to run it.                             *)
FollowedAgainAndAgain == \A w \in Workers : WF_vars(GetTransaction(w))

(* If the transaction is followed again and again, the row of a decoded      *)
(* result comes to be final, though a late follower writes an older          *)
(* observation over a newer one.                                             *)
RowBecomesFinal ==
    FollowedAgainAndAgain =>
        ((chain.state = "finalized" /\ chain.result \in Outcomes)
            ~> attempt.lifecycle = "FINALIZED" /\ attempt.outcome = chain.result)

(* "A durable claim closes the only safe coordination boundary": whoever     *)
(* claims the attempt brings it to a transaction.                            *)
AttemptIsSubmitted ==
    (\A w \in Workers : SF_vars(CreateIfAbsent(w))) => (attempt.created ~> attempt.tx # NoTx)
=============================================================================
