------------------------ MODULE AdmissibilityProofs ------------------------
(***************************************************************************)
(* Admissibility, for any number of instances and reconcilers, any number  *)
(* of failures and either writer of the row: the question is put at most   *)
(* once, and a recorded decision is the finalized assessment.              *)
(***************************************************************************)
EXTENDS Admissibility, TLAPS

USE AdmissibilityAssumption DEF Txs

Sent(t)    == txs[t].status # "unsent"
Settled(t) == txs[t].status \in {"finalized", "failed"}
NothingSent == \A t \in Txs : ~Sent(t)

Unclaimed == row.state \in {"ABSENT", "PENDING", "READY"}

(***************************************************************************)
(* What is true of an instance at each of its steps.  The one that is      *)
(* about to send is the first to send anything; an instance that follows   *)
(* a transaction follows the one in the row; an observation that closes    *)
(* the operation is of a transaction that has settled.                     *)
(***************************************************************************)
Knows(job) ==
    /\ job.pc = "write" => ~Unclaimed /\ row.ext = None /\ NothingSent
    /\ job.pc = "persist" => job.tx \in Txs /\ Sent(job.tx)
    /\ job.pc \in {"load", "look", "row", "proposal"} \/ job.polls > 0 => row.ext # None
    /\ job.pc \in {"look", "row", "proposal"} => job.tx = row.ext
    /\ job.pc \in {"row", "proposal"} =>
         /\ job.obs.state \notin Closed => job.obs.decision = None
         /\ job.obs.state \in Closed =>
              /\ job.tx \in Txs /\ Settled(job.tx)
              /\ job.obs.decision \in {None, assessment}

(* What is true of the row.                                                *)
RowInv ==
    /\ Unclaimed => NothingSent
    /\ row.state = "ABSENT" => row.ext = None
    /\ row.ext \in Txs => Sent(row.ext)
    /\ row.ext = ProposalId => NothingSent
    /\ row.state \in Closed => row.ext \in Txs /\ Settled(row.ext)

(* What is true of GenLayer and of the decision.                           *)
RemoteInv ==
    /\ AtMostOneSubmission
    /\ \A t \in history : Sent(t)
    /\ assessment # None => \E t \in Txs : Settled(t)
    /\ proposal.decision \in {None, assessment}

OneWriter == \A v, w \in Workers : worker[v].pc = "write" /\ worker[w].pc = "write" => v = w

IInv ==
    /\ TypeOK /\ RowInv /\ RemoteInv /\ OneWriter
    /\ \A w \in Workers : Knows(worker[w])

-----------------------------------------------------------------------------
(* What the updates of an instance's record are.                           *)

LEMMA JobMoves ==
    ASSUME NEW job \in Jobs, NEW step \in Steps
    PROVE  LET new == [job EXCEPT !.pc = step]
           IN  /\ new \in Jobs /\ new.pc = step
               /\ new.tx = job.tx /\ new.obs = job.obs /\ new.polls = job.polls
BY DEF Jobs

LEMMA JobMovesTo ==
    ASSUME NEW old \in Jobs, NEW step \in Steps
    PROVE  \E job \in Jobs :
             /\ job = [old EXCEPT !.pc = step]
             /\ job.pc = step /\ job.polls = old.polls /\ job.tx = old.tx /\ job.obs = old.obs
<1> DEFINE new == [old EXCEPT !.pc = step]
<1>1. /\ new \in Jobs /\ new.pc = step
      /\ new.tx = old.tx /\ new.obs = old.obs /\ new.polls = old.polls
  BY JobMoves
<1> HIDE DEF new
<1>2. \E job \in Jobs : /\ job = new /\ job.pc = step
                        /\ job.polls = old.polls /\ job.tx = old.tx /\ job.obs = old.obs
  BY <1>1
<1>3. QED BY <1>2 DEF new

LEMMA JobStartsAgain ==
    ASSUME NEW step \in Steps, NEW n \in 0 .. POLLS
    PROVE  LET new == [Idle EXCEPT !.polls = n, !.pc = step]
           IN  new \in Jobs /\ new.pc = step /\ new.polls = n
BY DEF Jobs, Idle, NoObservation, Observations, Closed, Steps

LEMMA IdleIsAJob == Idle \in Jobs /\ Idle.pc = "idle" /\ Idle.polls = 0
BY DEF Jobs, Idle, NoObservation, Observations, Closed, Steps

(* What the types say of an instance and of the row.                       *)
LEMMA Types ==
    ASSUME TypeOK
    PROVE  /\ row \in Rows /\ row.ext \in Txs \cup {None, ProposalId} /\ row.state \in RowStates
           /\ \A w \in Workers :
                /\ worker[w] \in Jobs /\ worker[w].pc \in Steps /\ worker[w].polls \in 0 .. POLLS
                /\ worker[w].tx \in Txs \cup {None, ProposalId}
                /\ worker[w].obs \in Observations
           /\ assessment \in Decisions \cup {None}
           /\ \A t \in Txs : txs[t].decision \in Decisions \cup {None}
BY DEF TypeOK, Jobs, Rows

-----------------------------------------------------------------------------
(***************************************************************************)
(* A step that moves one instance, none of whose knowledge it upsets, and  *)
(* leaves the row and GenLayer alone.                                      *)
(***************************************************************************)
LEMMA LocalStep ==
    ASSUME IInv, NEW w \in Workers, NEW job \in Jobs,
           worker' = [worker EXCEPT ![w] = job],
           UNCHANGED <<row, txs, history, assessment>>,
           job.pc # "write", Knows(job),
           TypeOK', proposal'.decision \in {None, assessment}
    PROVE  IInv'
<1>1. \A v \in Workers : worker'[v] = IF v = w THEN job ELSE worker[v]
  BY DEF IInv, TypeOK
<1>2. \A j : Knows(j)' <=> Knows(j)
  BY DEF Knows, Unclaimed, NothingSent, Sent, Settled
<1>3. \A v \in Workers : Knows(worker'[v])
  BY <1>1 DEF IInv
<1>4. (\A v \in Workers : Knows(worker[v]))'
  BY <1>2, <1>3
<1>5. OneWriter'
  BY <1>1 DEF IInv, OneWriter
<1>6. RowInv' /\ RemoteInv'
  BY DEF IInv, RowInv, RemoteInv, AtMostOneSubmission, Unclaimed, NothingSent, Sent, Settled
<1>7. QED BY <1>4, <1>5, <1>6 DEF IInv

(***************************************************************************)
(* A step that moves no instance keeps the invariant when it keeps what    *)
(* they know, the row's part and GenLayer's.                               *)
(***************************************************************************)
LEMMA SharedStep ==
    ASSUME IInv, UNCHANGED worker, TypeOK', RowInv', RemoteInv',
           \A j \in Jobs : Knows(j) => Knows(j)'
    PROVE  IInv'
<1>1. (\A w \in Workers : Knows(worker[w]))'
  <2>1. ASSUME NEW w \in Workers PROVE Knows(worker[w])'
    <3>1. worker[w] \in Jobs
      BY DEF IInv, TypeOK
    <3>2. PICK j \in Jobs : j = worker[w]
      BY <3>1
    <3>3. Knows(j)'
      BY <3>2 DEF IInv
    <3>4. j = worker'[w]
      BY <3>2
    <3>5. QED BY <3>3, <3>4 DEF Knows
  <2>2. QED BY <2>1
<1>2. QED BY <1>1 DEF IInv, OneWriter

-----------------------------------------------------------------------------
LEMMA InitEstablishes == Init => IInv
<1> SUFFICES ASSUME Init PROVE IInv
  OBVIOUS
<1>1. TypeOK
  BY IdleIsAJob DEF Init, TypeOK, Rows, RowStates, Statuses
<1>2. \A w \in Workers : Knows(worker[w]) /\ worker[w].pc = "idle"
  BY IdleIsAJob DEF Init, Knows
<1>3. RowInv /\ RemoteInv
  BY DEF Init, RowInv, RemoteInv, AtMostOneSubmission, NothingSent, Sent, Settled, Closed
<1>4. QED BY <1>1, <1>2, <1>3 DEF IInv, OneWriter

-----------------------------------------------------------------------------
(* The API, the reconciler, time: steps on the row.                        *)

(* The row changes; its identity stays, and it is neither given back to be *)
(* submitted nor closed.                                                   *)
LEMMA RowMoves ==
    ASSUME IInv, UNCHANGED <<worker, proposal, txs, history, assessment>>, TypeOK',
           row'.ext = row.ext,
           row'.state = row.state \/ row'.state \in {"RETRY", "RECONCILE_CLAIMED"}
    PROVE  IInv'
<1>1. RowInv' /\ RemoteInv'
  BY DEF IInv, RowInv, RemoteInv, AtMostOneSubmission, Unclaimed, NothingSent, Sent, Settled,
         Closed
<1>2. ASSUME NEW j \in Jobs, Knows(j) PROVE Knows(j)'
  BY <1>2 DEF Knows, Unclaimed, NothingSent, Sent, Settled
<1>3. QED BY <1>1, <1>2, SharedStep

LEMMA PersistPreserves == IInv /\ PersistVerifiedProposal => IInv'
<1> SUFFICES ASSUME IInv, PersistVerifiedProposal PROVE IInv'
  OBVIOUS
<1>1. PICK x \in INTENT_EXTERNAL_IDS : row' = [row EXCEPT !.state = "PENDING", !.ext = x]
  BY DEF PersistVerifiedProposal
<1>2. row'.state = "PENDING" /\ row'.ext \in {None, ProposalId} /\ row' \in Rows
  BY <1>1, Types DEF IInv, Rows, RowStates
<1>3. UNCHANGED <<worker, proposal, txs, history, assessment>>
  BY DEF PersistVerifiedProposal, genlayerVars
<1>4. TypeOK'
  BY <1>2 DEF PersistVerifiedProposal, IInv, TypeOK, queueVars, genlayerVars
<1>5. NothingSent /\ row.ext = None
  BY DEF PersistVerifiedProposal, IInv, RowInv, Unclaimed
<1>6. RowInv' /\ RemoteInv'
  BY <1>2, <1>3, <1>5 DEF IInv, RowInv, RemoteInv, AtMostOneSubmission, Unclaimed, NothingSent,
                          Sent, Settled, Closed
<1>7. ASSUME NEW j \in Jobs, Knows(j) PROVE Knows(j)'
  <2>1. Unclaimed
    BY DEF PersistVerifiedProposal, Unclaimed
  <2>2. QED BY <1>3, <1>5, <1>7, <2>1 DEF Knows, NothingSent, Sent, Settled
<1>8. QED BY <1>3, <1>4, <1>6, <1>7, SharedStep

LEMMA SendIntentPreserves == IInv /\ SendIntent => IInv'
<1> SUFFICES ASSUME IInv, SendIntent PROVE IInv'
  OBVIOUS
<1>1. TypeOK'
  BY DEF IInv, SendIntent, TypeOK, dbVars, genlayerVars
<1>2. QED BY <1>1, RowMoves DEF SendIntent, dbVars, genlayerVars

LEMMA ReconcilePreserves ==
    ASSUME NEW r \in Reconcilers PROVE IInv /\ (Reconcile(r) \/ ReconcilerStops(r)) => IInv'
<1> SUFFICES ASSUME IInv, Reconcile(r) \/ ReconcilerStops(r) PROVE IInv'
  OBVIOUS
<1> USE DEF dbVars, queueVars, genlayerVars
<1>1. row'.ext = row.ext /\ row' \in Rows
      /\ (row'.state = row.state \/ row'.state \in {"RETRY", "RECONCILE_CLAIMED"})
  BY Types DEF IInv, Rows, RowStates, Reconcile, ReconcilerStops, ClaimDue, SendResume,
               ReleaseForRetry
<1>2. resumes' \in 0 .. MAX_QUEUED
  BY DEF IInv, TypeOK, Reconcile, ReconcilerStops, ClaimDue, SendResume, ReleaseForRetry
<1>3. failures' \in 0 .. MAX_FAILURES
  BY DEF IInv, TypeOK, Reconcile, ReconcilerStops, ClaimDue, SendResume, ReleaseForRetry, Failure
<1>4. reconciler' \in [Reconcilers -> {"idle", "send", "release"}]
  BY DEF IInv, TypeOK, Reconcile, ReconcilerStops, ClaimDue, SendResume, ReleaseForRetry
<1>5. UNCHANGED <<worker, proposal, first, txs, history, assessment>>
  BY DEF Reconcile, ReconcilerStops, ClaimDue, SendResume, ReleaseForRetry
<1>6. TypeOK'
  BY <1>1, <1>2, <1>3, <1>4, <1>5 DEF IInv, TypeOK
<1>7. QED BY <1>1, <1>5, <1>6, RowMoves

LEMMA ElapsePreserves == IInv /\ Elapse => IInv'
<1> SUFFICES ASSUME IInv, Elapse PROVE IInv'
  OBVIOUS
<1>1. row'.ext = row.ext /\ row' \in Rows /\ row'.state = row.state
  BY Types DEF IInv, Rows, Elapse
<1>2. TypeOK'
  BY <1>1 DEF IInv, TypeOK, Elapse, queueVars, genlayerVars
<1>3. QED BY <1>1, <1>2, RowMoves DEF Elapse, genlayerVars

-----------------------------------------------------------------------------
(* GenLayer.                                                               *)

(* A transaction that was sent, and has not settled, goes on: there is no  *)
(* other, so no observation and no decision refers to anything settled.    *)
LEMMA TransactionMoves ==
    ASSUME IInv, NEW t \in Txs, txs[t].status \in {"pending", "decided"},
           UNCHANGED <<row, proposal, worker, history>>, TypeOK',
           txs'[t].status # "unsent", \A s \in Txs : s # t => txs'[s] = txs[s],
           assessment' = assessment \/ (Settled(t))'
    PROVE  IInv'
<1>1. Sent(t) /\ ~Settled(t) /\ \A s \in Txs : Sent(s) => s = t
  BY DEF IInv, RemoteInv, AtMostOneSubmission, Sent, Settled
<1>2. \A s \in Txs : ~Settled(s)
  BY <1>1 DEF Settled, Sent
<1>3. \A s \in Txs : Sent(s)' <=> Sent(s)
  BY <1>1 DEF Sent
<1>4. assessment = None /\ proposal.decision = None
  BY <1>2 DEF IInv, RemoteInv
<1>5. RowInv'
  BY <1>2, <1>3 DEF IInv, RowInv, Unclaimed, NothingSent
<1>6. RemoteInv'
  <2>1. AtMostOneSubmission' /\ (\A s \in history : Sent(s))'
    BY <1>3 DEF IInv, RemoteInv, AtMostOneSubmission, Sent, TypeOK
  <2>2. (assessment # None => \E s \in Txs : Settled(s))'
    BY <1>4
  <2>3. QED BY <1>4, <2>1, <2>2 DEF RemoteInv
<1>7. ASSUME NEW j \in Jobs, Knows(j) PROVE Knows(j)'
  BY <1>2, <1>3, <1>7 DEF Knows, Unclaimed, NothingSent
<1>8. QED BY <1>5, <1>6, <1>7, SharedStep

LEMMA GenLayerPreserves ==
    ASSUME NEW t \in Txs
    PROVE  IInv /\ (Finalize(t) \/ FinalizeFailed(t) \/ \E d \in Decisions : Decide(t, d)) => IInv'
<1> SUFFICES ASSUME IInv, Finalize(t) \/ FinalizeFailed(t) \/ \E d \in Decisions : Decide(t, d)
             PROVE  IInv'
  OBVIOUS
<1> USE DEF dbVars, queueVars
<1>1. CASE Finalize(t)
  <2>1. TypeOK'
    BY <1>1 DEF IInv, TypeOK, Finalize
  <2>2. txs'[t].status = "finalized" /\ \A s \in Txs : s # t => txs'[s] = txs[s]
    BY <1>1 DEF IInv, TypeOK, Finalize
  <2>3. QED BY <1>1, <2>1, <2>2, TransactionMoves DEF Finalize, Settled
<1>2. CASE FinalizeFailed(t)
  <2>1. TypeOK'
    BY <1>2 DEF IInv, TypeOK, FinalizeFailed
  <2>2. txs'[t].status = "failed" /\ \A s \in Txs : s # t => txs'[s] = txs[s]
    BY <1>2 DEF IInv, TypeOK, FinalizeFailed
  <2>3. QED BY <1>2, <2>1, <2>2, TransactionMoves DEF FinalizeFailed
<1>3. ASSUME NEW d \in Decisions, Decide(t, d) PROVE IInv'
  <2>1. TypeOK'
    BY <1>3 DEF IInv, TypeOK, Decide
  <2>2. txs'[t].status = "decided" /\ \A s \in Txs : s # t => txs'[s] = txs[s]
    BY <1>3 DEF IInv, TypeOK, Decide
  <2>3. QED BY <1>3, <2>1, <2>2, TransactionMoves DEF Decide
<1>4. QED BY <1>1, <1>2, <1>3

LEMMA IndexPreserves == ASSUME NEW t \in Txs PROVE IInv /\ Index(t) => IInv'
<1> SUFFICES ASSUME IInv, Index(t) PROVE IInv'
  OBVIOUS
<1> USE DEF dbVars, queueVars
<1>1. TypeOK'
  BY DEF IInv, TypeOK, Index
<1>2. RowInv' /\ RemoteInv'
  BY DEF IInv, RowInv, RemoteInv, AtMostOneSubmission, Unclaimed, NothingSent, Sent, Settled, Index
<1>3. ASSUME NEW j \in Jobs, Knows(j) PROVE Knows(j)'
  BY <1>3 DEF Knows, Unclaimed, NothingSent, Sent, Settled, Index
<1>4. QED BY <1>1, <1>2, <1>3, SharedStep DEF Index

-----------------------------------------------------------------------------
(* Instances: steps that leave the database and GenLayer alone.            *)

(* A step that starts or ends again knows nothing it did not know.         *)
LEMMA StartsAgain ==
    ASSUME IInv, NEW w \in Workers, Restart(w) \/ End(w)
    PROVE  \E job \in Jobs : worker' = [worker EXCEPT ![w] = job] /\ job.pc # "write" /\ Knows(job)
<1>1. worker[w].polls \in 0 .. POLLS /\ Knows(worker[w])
  BY Types DEF IInv
<1>2. CASE End(w)
  <2>1. Knows(Idle)
    BY IdleIsAJob DEF Knows
  <2>2. worker' = [worker EXCEPT ![w] = Idle]
    BY <1>2 DEF End
  <2>3. Idle \in Jobs /\ Idle.pc # "write"
    BY IdleIsAJob
  <2>4. QED BY <2>1, <2>2, <2>3
<1>3. CASE Restart(w)
  <2> DEFINE step == IF worker[w].polls = 0 THEN "create" ELSE "load"
             job  == [Idle EXCEPT !.polls = worker[w].polls, !.pc = step]
  <2>1. step \in Steps /\ (step = "load" => worker[w].polls > 0)
    BY <1>1 DEF Steps
  <2>2. job \in Jobs /\ job.pc = step /\ job.polls = worker[w].polls
    <3> DEFINE n == worker[w].polls
    <3> HIDE DEF step, n
    <3>1. step \in Steps /\ n \in 0 .. POLLS
      BY <1>1, <2>1 DEF n
    <3>2. LET new == [Idle EXCEPT !.polls = n, !.pc = step]
          IN  new \in Jobs /\ new.pc = step /\ new.polls = n
      BY <3>1, JobStartsAgain
    <3>3. QED BY <3>2 DEF n
  <2>3. worker' = [worker EXCEPT ![w] = job]
    BY <1>3 DEF Restart
  <2>4. step # "write" /\ step \notin {"persist", "look", "row", "proposal"}
    OBVIOUS
  <2> HIDE DEF step, job
  <2>5. Knows(job)
    BY <1>1, <2>1, <2>2, <2>4 DEF Knows
  <2>6. QED BY <2>2, <2>3, <2>4, <2>5
<1>4. QED BY <1>2, <1>3

LEMMA WorkerTypes ==
    ASSUME TypeOK, NEW w \in Workers, NEW job \in Jobs, worker' = [worker EXCEPT ![w] = job]
    PROVE  worker' \in [Workers -> Jobs]
BY DEF TypeOK

LEMMA DeliverPreserves ==
    ASSUME NEW w \in Workers PROVE IInv /\ (DeliverFirst(w) \/ DeliverResume(w)) => IInv'
<1> SUFFICES ASSUME IInv, DeliverFirst(w) \/ DeliverResume(w) PROVE IInv'
  OBVIOUS
<1> USE DEF dbVars, genlayerVars
<1>1. first' \in [queued : BOOLEAN, started : BOOLEAN] /\ resumes' \in 0 .. MAX_QUEUED
  <2>1. first \in [queued : BOOLEAN, started : BOOLEAN] /\ resumes \in 0 .. MAX_QUEUED
    BY DEF IInv, TypeOK
  <2>2. CASE DeliverFirst(w)
    BY <2>1, <2>2 DEF DeliverFirst
  <2>3. CASE DeliverResume(w)
    BY <2>1, <2>3 DEF DeliverResume
  <2>4. QED BY <2>2, <2>3
<1>2. UNCHANGED <<row, proposal, txs, history, assessment, reconciler, failures>>
  BY DEF DeliverFirst, DeliverResume
<1>3. CASE UNCHANGED worker
  <2>1. TypeOK'
    BY <1>1, <1>2, <1>3 DEF IInv, TypeOK
  <2>2. QED BY <1>2, <1>3, <2>1, RowMoves
<1>4. CASE Goto(w, "create")
  <2> DEFINE job == [worker[w] EXCEPT !.pc = "create"]
  <2>1. job \in Jobs /\ job.pc = "create" /\ job.polls = worker[w].polls /\ Knows(worker[w])
    <3>1. worker[w] \in Jobs /\ Knows(worker[w]) /\ "create" \in Steps
      BY Types DEF IInv, Steps
    <3>2. QED BY <3>1, JobMoves
  <2>2. worker' = [worker EXCEPT ![w] = job]
    BY <1>4 DEF Goto
  <2>3. TypeOK'
    BY <1>1, <1>2, <2>1, <2>2, WorkerTypes DEF IInv, TypeOK
  <2>4. Knows(job)
    BY <2>1 DEF Knows
  <2>5. proposal'.decision \in {None, assessment}
    BY <1>2 DEF IInv, RemoteInv
  <2>6. QED BY <1>2, <2>1, <2>2, <2>3, <2>4, <2>5, LocalStep
<1>5. QED BY <1>3, <1>4 DEF DeliverFirst, DeliverResume

(* A step of an instance that reads, or fails.                             *)
LEMMA ReadStep ==
    ASSUME IInv, NEW w \in Workers, NEW job \in Jobs, worker' = [worker EXCEPT ![w] = job],
           job.pc # "write", Knows(job), failures' \in 0 .. MAX_FAILURES,
           UNCHANGED <<dbVars, queueVars, reconciler, genlayerVars>>
    PROVE  IInv'
<1>1. TypeOK'
  BY WorkerTypes DEF IInv, TypeOK, dbVars, queueVars, genlayerVars
<1>2. proposal'.decision \in {None, assessment}
  BY DEF IInv, RemoteInv, dbVars
<1>3. QED BY <1>1, <1>2, LocalStep DEF dbVars, genlayerVars

LEMMA FailPreserves ==
    ASSUME NEW w \in Workers PROVE IInv /\ Fail(w) => IInv'
<1> SUFFICES ASSUME IInv, Fail(w) PROVE IInv'
  OBVIOUS
<1>1. PICK job \in Jobs : worker' = [worker EXCEPT ![w] = job] /\ job.pc # "write" /\ Knows(job)
  BY StartsAgain DEF Fail
<1>2. failures' \in 0 .. MAX_FAILURES
  BY DEF IInv, TypeOK, Fail, Failure
<1>3. QED BY <1>1, <1>2, ReadStep DEF Fail

LEMMA CreatePreserves ==
    ASSUME NEW w \in Workers PROVE IInv /\ CreateIfAbsent(w) => IInv'
<1> SUFFICES ASSUME IInv, CreateIfAbsent(w) PROVE IInv'
  OBVIOUS
<1> DEFINE step == IF row.ext # None THEN "load"
                   ELSE IF row.state = "SUBMITTING" \/ row.recovery THEN "find" ELSE "claim"
           job  == [worker[w] EXCEPT !.pc = step]
<1>1. job \in Jobs /\ job.pc = step /\ job.polls = worker[w].polls /\ Knows(worker[w])
  <2>1. worker[w] \in Jobs /\ Knows(worker[w]) /\ step \in Steps
    BY Types DEF IInv, Steps
  <2> HIDE DEF step
  <2>2. QED BY <2>1, JobMoves
<1>2. Knows(job)
  BY <1>1 DEF Knows
<1>3. worker' = [worker EXCEPT ![w] = job]
  BY DEF CreateIfAbsent, Goto
<1>4. failures' \in 0 .. MAX_FAILURES
  BY DEF CreateIfAbsent, IInv, TypeOK
<1>5. job.pc # "write" /\ UNCHANGED <<dbVars, queueVars, reconciler, genlayerVars>>
  BY <1>1 DEF CreateIfAbsent
<1>6. QED BY <1>1, <1>2, <1>3, <1>4, <1>5, ReadStep

LEMMA FindPreserves ==
    ASSUME NEW w \in Workers PROVE IInv /\ FindSubmission(w) => IInv'
<1> SUFFICES ASSUME IInv, FindSubmission(w) PROVE IInv'
  OBVIOUS
<1>1. failures' \in 0 .. MAX_FAILURES
  <2>1. failures \in 0 .. MAX_FAILURES
    BY DEF IInv, TypeOK
  <2>2. UNCHANGED failures \/ Failure
    BY DEF FindSubmission
  <2>3. QED BY <2>1, <2>2 DEF Failure
<1>2. worker[w] \in Jobs /\ Knows(worker[w])
  BY Types DEF IInv
<1>3. ASSUME NEW t \in history,
             worker' = [worker EXCEPT ![w] = [@ EXCEPT !.pc = "persist", !.tx = t]]
      PROVE  IInv'
  <2> DEFINE job == [worker[w] EXCEPT !.pc = "persist", !.tx = t]
  <2>1. t \in Txs /\ Sent(t)
    BY DEF IInv, TypeOK, RemoteInv
  <2>2. job \in Jobs /\ job.pc = "persist" /\ job.tx = t /\ job.polls = worker[w].polls
    <3>1. "persist" \in Steps /\ t \in Txs \cup {None, ProposalId}
      BY <2>1 DEF Steps
    <3>2. QED BY <1>2, <3>1 DEF Jobs
  <2>3. Knows(job)
    BY <1>2, <2>1, <2>2 DEF Knows
  <2>4. worker' = [worker EXCEPT ![w] = job]
    BY <1>3
  <2>5. QED BY <1>1, <2>2, <2>3, <2>4, ReadStep DEF FindSubmission
<1>4. CASE Goto(w, "defer")
  <2> DEFINE job == [worker[w] EXCEPT !.pc = "defer"]
  <2>1. job \in Jobs /\ job.pc = "defer" /\ job.polls = worker[w].polls
    BY <1>2, JobMoves DEF Steps
  <2>2. Knows(job)
    BY <1>2, <2>1 DEF Knows
  <2>3. worker' = [worker EXCEPT ![w] = job]
    BY <1>4 DEF Goto
  <2>4. QED BY <1>1, <2>1, <2>2, <2>3, ReadStep DEF FindSubmission
<1>5. QED BY <1>3, <1>4 DEF FindSubmission

LEMMA ReloadPreserves ==
    ASSUME NEW w \in Workers PROVE IInv /\ LoadConcurrent(w) => IInv'
<1> SUFFICES ASSUME IInv, LoadConcurrent(w) PROVE IInv'
  OBVIOUS
<1>1. failures' \in 0 .. MAX_FAILURES
  BY DEF LoadConcurrent, IInv, TypeOK
<1>2. \E job \in Jobs : worker' = [worker EXCEPT ![w] = job] /\ job.pc # "write" /\ Knows(job)
  <2>1. CASE row.ext # None /\ Goto(w, "load")
    <3> DEFINE job == [worker[w] EXCEPT !.pc = "load"]
    <3>1. job \in Jobs /\ job.pc = "load" /\ job.polls = worker[w].polls /\ Knows(worker[w])
      <4>1. worker[w] \in Jobs /\ Knows(worker[w]) /\ "load" \in Steps
        BY Types DEF IInv, Steps
      <4>2. QED BY <4>1, JobMoves
    <3>2. Knows(job)
      BY <2>1, <3>1 DEF Knows
    <3>3. worker' = [worker EXCEPT ![w] = job]
      BY <2>1 DEF Goto
    <3>4. QED BY <3>1, <3>2, <3>3
  <2>2. CASE Throw(w)
    BY <2>2, StartsAgain DEF Throw
  <2>3. QED BY <2>1, <2>2 DEF LoadConcurrent
<1>3. QED BY <1>1, <1>2, ReadStep DEF LoadConcurrent

LEMMA LoadPreserves ==
    ASSUME NEW w \in Workers PROVE IInv /\ Load(w) => IInv'
<1> SUFFICES ASSUME IInv, Load(w) PROVE IInv'
  OBVIOUS
<1> DEFINE job == [worker[w] EXCEPT !.pc = "look", !.tx = row.ext]
<1>1. /\ job \in Jobs /\ job.pc = "look" /\ job.tx = row.ext
      /\ job.polls = worker[w].polls /\ Knows(worker[w])
  <2>1. worker[w] \in Jobs /\ Knows(worker[w]) /\ "look" \in Steps
    BY Types DEF IInv, Steps
  <2>2. row.ext \in Txs \cup {None, ProposalId}
    BY Types DEF IInv
  <2>3. QED BY <2>1, <2>2 DEF Jobs
<1>2. Knows(job)
  BY <1>1 DEF Load, Knows
<1>3. worker' = [worker EXCEPT ![w] = job] /\ failures' \in 0 .. MAX_FAILURES
  BY DEF Load, IInv, TypeOK
<1>4. QED BY <1>1, <1>2, <1>3, ReadStep DEF Load

LEMMA LookPreserves ==
    ASSUME NEW w \in Workers PROVE IInv /\ Look(w) => IInv'
<1> SUFFICES ASSUME IInv, Look(w) PROVE IInv'
  OBVIOUS
<1>1. failures' \in 0 .. MAX_FAILURES
  BY DEF Look, IInv, TypeOK
<1>2. \E job \in Jobs : worker' = [worker EXCEPT ![w] = job] /\ job.pc # "write" /\ Knows(job)
  <2>1. CASE worker[w].tx \in Txs
             /\ worker' = [worker EXCEPT ![w] = [@ EXCEPT !.pc = "row",
                                                          !.obs = Observation(worker[w].tx)]]
    <3> DEFINE obs == Observation(worker[w].tx)
               job == [worker[w] EXCEPT !.pc = "row", !.obs = obs]
    <3>1. /\ obs \in Observations
          /\ obs.state \notin Closed => obs.decision = None
          /\ obs.state \in Closed => Settled(worker[w].tx) /\ obs.decision \in {None, assessment}
      BY <2>1, Types DEF IInv, Observation, Observations, NoObservation, Closed, Settled
    <3>2. /\ job \in Jobs /\ job.pc = "row" /\ job.obs = obs /\ job.tx = worker[w].tx
          /\ job.polls = worker[w].polls /\ Knows(worker[w])
      <4>1. worker[w] \in Jobs /\ Knows(worker[w])
        BY Types DEF IInv
      <4> HIDE DEF obs
      <4>2. QED BY <3>1, <4>1 DEF Jobs, Steps
    <3>3. Knows(job)
      BY <2>1, <3>1, <3>2 DEF Look, Knows
    <3>4. QED BY <2>1, <3>2, <3>3
  <2>2. CASE Throw(w)
    BY <2>2, StartsAgain DEF Throw
  <2>3. QED BY <2>1, <2>2 DEF Look
<1>3. QED BY <1>1, <1>2, ReadStep DEF Look

-----------------------------------------------------------------------------
(* Instances: steps that write.                                            *)

(***************************************************************************)
(* A step that moves one instance and changes the shared state.  The       *)
(* others keep what they know, no other being about to send when this one  *)
(* was; and it is about to send only if nobody has claimed the row.        *)
(***************************************************************************)
LEMMA WriteStep ==
    ASSUME IInv, NEW w \in Workers, NEW job \in Jobs, worker' = [worker EXCEPT ![w] = job],
           TypeOK', RowInv', RemoteInv', Knows(job)',
           job.pc = "write" => Unclaimed,
           \A j \in Jobs : Knows(j) /\ (worker[w].pc = "write" => j.pc # "write") => Knows(j)'
    PROVE  IInv'
<1>1. \A v \in Workers : worker'[v] = IF v = w THEN job ELSE worker[v]
  BY DEF IInv, TypeOK
<1>2. ASSUME NEW v \in Workers, v # w PROVE Knows(worker[v])'
  <2>1. PICK j \in Jobs : j = worker[v]
    BY DEF IInv, TypeOK
  <2>2. Knows(j) /\ (worker[w].pc = "write" => j.pc # "write")
    BY <1>2, <2>1 DEF IInv, OneWriter
  <2>3. Knows(j)'
    BY <2>2
  <2>4. j = worker'[v]
    BY <1>1, <1>2, <2>1
  <2>5. QED BY <2>3, <2>4 DEF Knows
<1>3. Knows(worker[w])'
  BY <1>1 DEF Knows
<1>4. OneWriter'
  BY <1>1 DEF IInv, OneWriter, Knows
<1>5. QED BY <1>2, <1>3, <1>4 DEF IInv

LEMMA DeferPreserves ==
    ASSUME NEW w \in Workers PROVE IInv /\ DeferSubmissionRecovery(w) => IInv'
<1> SUFFICES ASSUME IInv, DeferSubmissionRecovery(w) PROVE IInv'
  OBVIOUS
<1>1. worker[w] \in Jobs /\ Knows(worker[w]) /\ "defer2" \in Steps
  BY Types DEF IInv, Steps
<1>2. PICK job \in Jobs : /\ job = [worker[w] EXCEPT !.pc = "defer2"]
                          /\ job.pc = "defer2" /\ job.polls = worker[w].polls
  BY <1>1, JobMovesTo
<1>3. worker' = [worker EXCEPT ![w] = job]
  BY <1>2 DEF DeferSubmissionRecovery, Goto
<1>4. /\ row' \in Rows /\ row'.ext = row.ext
      /\ row'.state = row.state \/ row'.state = "RETRY"
  BY Types DEF IInv, Rows, RowStates, DeferSubmissionRecovery
<1>5. UNCHANGED <<proposal, queueVars, reconciler, txs, history, assessment, failures>>
  BY DEF DeferSubmissionRecovery, genlayerVars
<1>6. TypeOK'
  BY <1>3, <1>4, <1>5, WorkerTypes DEF IInv, TypeOK, queueVars
<1>7. RowInv' /\ RemoteInv'
  BY <1>4, <1>5 DEF IInv, RowInv, RemoteInv, AtMostOneSubmission, Unclaimed, NothingSent, Sent,
                    Settled, Closed
<1>8. ASSUME NEW j \in Jobs, Knows(j) PROVE Knows(j)'
  BY <1>4, <1>5, <1>8 DEF Knows, Unclaimed, NothingSent, Sent, Settled
<1>9. Knows(job)
  BY <1>1, <1>2 DEF Knows
<1>10. Knows(job)' /\ job.pc # "write"
  BY <1>2, <1>8, <1>9
<1>11. QED BY <1>3, <1>6, <1>7, <1>8, <1>10, WriteStep

LEMMA DeferProposalPreserves ==
    ASSUME NEW w \in Workers PROVE IInv /\ DeferProposal(w) => IInv'
<1> SUFFICES ASSUME IInv, DeferProposal(w) PROVE IInv'
  OBVIOUS
<1>1. proposal' \in [status : Statuses, decision : Decisions \cup {None}]
      /\ proposal'.decision = proposal.decision
  BY DEF DeferProposal, IInv, TypeOK, Statuses
<1>2. worker' = [worker EXCEPT ![w] = Idle]
  BY DEF DeferProposal, End
<1>3. TypeOK'
  BY <1>1, <1>2, IdleIsAJob, WorkerTypes
     DEF DeferProposal, IInv, TypeOK, queueVars, genlayerVars
<1>4. Knows(Idle)
  BY IdleIsAJob DEF Knows
<1>5. QED BY <1>1, <1>2, <1>3, <1>4, IdleIsAJob, LocalStep
         DEF DeferProposal, genlayerVars, IInv, RemoteInv

LEMMA ClaimPreserves ==
    ASSUME NEW w \in Workers PROVE IInv /\ ClaimSubmission(w) => IInv'
<1> SUFFICES ASSUME IInv, ClaimSubmission(w) PROVE IInv'
  OBVIOUS
<1>1. worker[w] \in Jobs /\ Knows(worker[w]) /\ {"write", "reload"} \subseteq Steps
  BY Types DEF IInv, Steps
<1>2. CASE /\ Claimable /\ row' = [row EXCEPT !.state = "SUBMITTING"]
           /\ Goto(w, "write")
  <2>1. PICK job \in Jobs : /\ job = [worker[w] EXCEPT !.pc = "write"]
                            /\ job.pc = "write" /\ job.polls = worker[w].polls
    BY <1>1, JobMovesTo
  <2>2. worker' = [worker EXCEPT ![w] = job]
    BY <1>2, <2>1 DEF Goto
  <2>3. row' \in Rows /\ row'.ext = None /\ row'.state = "SUBMITTING"
    BY <1>2, Types DEF IInv, Rows, RowStates, Claimable
  <2>4. Unclaimed /\ NothingSent /\ row.ext = None
    BY <1>2 DEF Claimable, Unclaimed, IInv, RowInv
  <2>5. UNCHANGED <<proposal, queueVars, reconciler, txs, history, assessment, failures>>
    BY DEF ClaimSubmission, genlayerVars
  <2>6. TypeOK'
    BY <2>2, <2>3, <2>5, WorkerTypes DEF IInv, TypeOK, queueVars
  <2>7. RowInv' /\ RemoteInv'
    BY <2>3, <2>5 DEF IInv, RowInv, RemoteInv, AtMostOneSubmission, Unclaimed, NothingSent, Sent,
                      Settled, Closed
  <2>8. ASSUME NEW j \in Jobs, Knows(j) PROVE Knows(j)'
    BY <2>3, <2>4, <2>5, <2>8 DEF Knows, NothingSent, Sent, Settled
  <2>9. Knows(job)'
    BY <1>1, <2>1, <2>3, <2>4, <2>5 DEF Knows, Unclaimed, NothingSent, Sent
  <2>10. QED BY <2>2, <2>4, <2>6, <2>7, <2>8, <2>9, WriteStep
<1>3. CASE Goto(w, "reload") /\ UNCHANGED row
  <2> DEFINE job == [worker[w] EXCEPT !.pc = "reload"]
  <2>1. job \in Jobs /\ job.pc = "reload" /\ job.polls = worker[w].polls
    BY <1>1, JobMoves
  <2>2. Knows(job)
    BY <1>1, <2>1 DEF Knows
  <2>3. worker' = [worker EXCEPT ![w] = job]
    BY <1>3 DEF Goto
  <2>4. failures' \in 0 .. MAX_FAILURES
    BY DEF ClaimSubmission, IInv, TypeOK
  <2>5. QED BY <1>3, <2>1, <2>2, <2>3, <2>4, ReadStep DEF ClaimSubmission, dbVars
<1>4. QED BY <1>2, <1>3 DEF ClaimSubmission

(* The instance that sends has claimed the row, and nothing was sent.      *)
LEMMA WritePreserves ==
    ASSUME NEW w \in Workers PROVE IInv /\ WriteContract(w) => IInv'
<1> SUFFICES ASSUME IInv, WriteContract(w) PROVE IInv'
  OBVIOUS
<1>1. PICK t \in Txs :
         /\ txs' = [txs EXCEPT ![t] = [status |-> "pending", decision |-> None]]
         /\ \/ /\ worker' = [worker EXCEPT ![w] = [@ EXCEPT !.pc = "persist", !.tx = t]]
               /\ UNCHANGED failures
            \/ Failure /\ Restart(w)
  BY DEF WriteContract
<1>2. NothingSent /\ row.ext = None /\ ~Unclaimed
  BY DEF IInv, Knows, WriteContract
<1>3. (Sent(t))' /\ \A s \in Txs : s # t => (~Sent(s))'
  BY <1>1, <1>2 DEF IInv, TypeOK, Sent, NothingSent
<1>4. UNCHANGED <<row, proposal, first, resumes, reconciler, history, assessment>>
  BY DEF WriteContract, dbVars, queueVars
<1>5. RowInv'
  BY <1>2, <1>4 DEF IInv, RowInv, Unclaimed
<1>6. RemoteInv'
  <2>1. AtMostOneSubmission'
    BY <1>3 DEF AtMostOneSubmission, Sent
  <2>2. history = {} /\ assessment = None
    BY <1>2 DEF IInv, TypeOK, RemoteInv, NothingSent, Sent, Settled
  <2>3. QED BY <1>4, <2>1, <2>2 DEF IInv, RemoteInv
<1>7. ASSUME NEW j \in Jobs, Knows(j), j.pc # "write" PROVE Knows(j)'
  BY <1>2, <1>4, <1>7 DEF Knows, NothingSent, Sent, Settled
<1>8. \E job \in Jobs : worker' = [worker EXCEPT ![w] = job] /\ job.pc # "write" /\ Knows(job)'
  <2>1. CASE worker' = [worker EXCEPT ![w] = [@ EXCEPT !.pc = "persist", !.tx = t]]
    <3>1. worker[w] \in Jobs /\ Knows(worker[w])
      BY Types DEF IInv
    <3>2. "persist" \in Steps /\ t \in Txs \cup {None, ProposalId}
      BY DEF Steps
    <3>3. PICK job \in Jobs : /\ job = [worker[w] EXCEPT !.pc = "persist", !.tx = t]
                              /\ job.pc = "persist" /\ job.tx = t /\ job.polls = worker[w].polls
      <4> DEFINE new == [worker[w] EXCEPT !.pc = "persist", !.tx = t]
      <4>1. new \in Jobs /\ new.pc = "persist" /\ new.tx = t /\ new.polls = worker[w].polls
        BY <3>1, <3>2 DEF Jobs
      <4> HIDE DEF new
      <4>2. \E job \in Jobs : /\ job = new /\ job.pc = "persist"
                              /\ job.tx = t /\ job.polls = worker[w].polls
        BY <4>1
      <4>3. QED BY <4>2 DEF new
    <3>4. Knows(job)'
      BY <1>3, <1>4, <3>1, <3>3 DEF Knows
    <3>5. QED BY <2>1, <3>3, <3>4
  <2>2. CASE Restart(w)
    <3>1. PICK job \in Jobs :
             worker' = [worker EXCEPT ![w] = job] /\ job.pc # "write" /\ Knows(job)
      BY <2>2, StartsAgain
    <3>2. Knows(job)'
      BY <1>7, <3>1
    <3>3. QED BY <3>1, <3>2
  <2>3. QED BY <1>1, <2>1, <2>2
<1>9. PICK job \in Jobs : worker' = [worker EXCEPT ![w] = job] /\ job.pc # "write" /\ Knows(job)'
  BY <1>8
<1>10. TypeOK'
  <2>1. txs' \in [Txs -> [status : {"unsent", "pending", "decided", "finalized", "failed"},
                          decision : Decisions \cup {None}]]
    BY <1>1 DEF IInv, TypeOK
  <2>2. failures' \in 0 .. MAX_FAILURES
    BY <1>1 DEF IInv, TypeOK, Failure
  <2>3. worker' \in [Workers -> Jobs]
    BY <1>9, WorkerTypes DEF IInv
  <2>4. QED BY <1>4, <2>1, <2>2, <2>3 DEF IInv, TypeOK
<1>11. worker[w].pc = "write"
  BY DEF WriteContract
<1>12. QED BY <1>5, <1>6, <1>7, <1>9, <1>10, <1>11, WriteStep

(* The transaction that is stored is the only one there is, so whoever     *)
(* follows one follows this one.                                           *)
LEMMA PersistSubmissionPreserves ==
    ASSUME NEW w \in Workers PROVE IInv /\ PersistSubmission(w) => IInv'
<1> SUFFICES ASSUME IInv, PersistSubmission(w) PROVE IInv'
  OBVIOUS
<1>1. worker[w] \in Jobs /\ Knows(worker[w]) /\ "load" \in Steps
  BY Types DEF IInv, Steps
<1>2. PICK job \in Jobs : /\ job = [worker[w] EXCEPT !.pc = "load"]
                          /\ job.pc = "load" /\ job.polls = worker[w].polls
  BY <1>1, JobMovesTo
<1>3. worker' = [worker EXCEPT ![w] = job]
  BY <1>2 DEF PersistSubmission, Goto
<1>4. worker[w].tx \in Txs /\ Sent(worker[w].tx)
  BY <1>1 DEF Knows, PersistSubmission
<1>5. row' \in Rows /\ row'.ext = worker[w].tx /\ row'.state = "SUBMITTED"
  BY <1>4, Types DEF IInv, Rows, RowStates, PersistSubmission
<1>6. UNCHANGED <<proposal, queueVars, reconciler, txs, history, assessment, failures>>
  BY DEF PersistSubmission, genlayerVars
<1>7. row'.ext \in Txs /\ (Sent(row.ext))' /\ row'.ext \notin {None, ProposalId}
  BY <1>4, <1>5, <1>6 DEF Sent
<1>8. row.ext # None => row'.ext = row.ext
  <2>1. SUFFICES ASSUME row.ext # None PROVE row'.ext = row.ext
    OBVIOUS
  <2>2. row.ext \in Txs /\ Sent(row.ext)
    BY <1>4, <2>1, Types DEF IInv, RowInv, NothingSent
  <2>3. QED BY <1>4, <1>5, <2>2 DEF IInv, RemoteInv, AtMostOneSubmission, Sent
<1>9. TypeOK'
  BY <1>3, <1>5, <1>6, WorkerTypes DEF IInv, TypeOK, queueVars
<1>10. RowInv' /\ RemoteInv'
  <2>1. RowInv'
    BY <1>5, <1>7 DEF RowInv, Unclaimed, Closed
  <2>2. RemoteInv'
    BY <1>6 DEF IInv, RemoteInv, AtMostOneSubmission, Sent, Settled
  <2>3. QED BY <2>1, <2>2
<1>11. ASSUME NEW j \in Jobs, Knows(j) PROVE Knows(j)'
  <2>1. j.pc # "write"
    BY <1>4, <1>11 DEF Knows, NothingSent
  <2>2. QED BY <1>6, <1>7, <1>8, <1>11, <2>1 DEF Knows, Sent, Settled
<1>12. Knows(job)' /\ job.pc # "write"
  BY <1>2, <1>7 DEF Knows
<1>13. QED BY <1>3, <1>9, <1>10, <1>11, <1>12, WriteStep

LEMMA PersistObservationPreserves ==
    ASSUME NEW w \in Workers PROVE IInv /\ PersistObservation(w) => IInv'
<1> SUFFICES ASSUME IInv, PersistObservation(w) PROVE IInv'
  OBVIOUS
<1>1. worker[w] \in Jobs /\ Knows(worker[w]) /\ "proposal" \in Steps
  BY Types DEF IInv, Steps
<1>2. PICK job \in Jobs : /\ job = [worker[w] EXCEPT !.pc = "proposal"]
                          /\ job.pc = "proposal" /\ job.polls = worker[w].polls
                          /\ job.tx = worker[w].tx /\ job.obs = worker[w].obs
  BY <1>1, JobMovesTo
<1>3. worker' = [worker EXCEPT ![w] = job]
  BY <1>2 DEF PersistObservation, Goto
<1>4. /\ row' \in Rows /\ row'.ext = row.ext /\ row'.state = worker[w].obs.state
      /\ row'.state \in {"RETRY"} \cup Closed
  <2>1. worker[w].obs.state \in {"RETRY"} \cup Closed
    BY Types DEF IInv, Observations
  <2>2. row \in Rows
    BY Types DEF IInv
  <2>3. QED BY <2>1, <2>2 DEF Rows, RowStates, PersistObservation, Observed
<1>5. UNCHANGED <<proposal, queueVars, reconciler, txs, history, assessment, failures>>
  BY DEF PersistObservation, genlayerVars
<1>6. row'.state \in Closed => row.ext \in Txs /\ Settled(row.ext)
  BY <1>1, <1>4 DEF PersistObservation, Knows
<1>7. TypeOK'
  BY <1>3, <1>4, <1>5, WorkerTypes DEF IInv, TypeOK, queueVars
<1>8. RowInv' /\ RemoteInv'
  <2>1. RowInv'
    BY <1>4, <1>5, <1>6 DEF IInv, RowInv, Unclaimed, NothingSent, Sent, Settled, Closed
  <2>2. RemoteInv'
    BY <1>5 DEF IInv, RemoteInv, AtMostOneSubmission, Sent, Settled
  <2>3. QED BY <2>1, <2>2
<1>9. ASSUME NEW j \in Jobs, Knows(j) PROVE Knows(j)'
  BY <1>4, <1>5, <1>9 DEF Knows, Unclaimed, NothingSent, Sent, Settled, Closed
<1>10. Knows(job) /\ job.pc # "write"
  BY <1>1, <1>2 DEF PersistObservation, Knows
<1>11. Knows(job)'
  BY <1>9, <1>10
<1>12. QED BY <1>3, <1>7, <1>8, <1>9, <1>10, <1>11, WriteStep

LEMMA UpdateProposalPreserves ==
    ASSUME NEW w \in Workers PROVE IInv /\ UpdateProposal(w) => IInv'
<1> SUFFICES ASSUME IInv, UpdateProposal(w) PROVE IInv'
  OBVIOUS
<1> DEFINE obs == worker[w].obs
<1>1. /\ obs \in Observations /\ worker[w].polls \in 0 .. POLLS
      /\ Knows(worker[w]) /\ worker[w].pc = "proposal"
  BY Types DEF IInv, UpdateProposal
<1>2. proposal'.decision \in {None, assessment}
  BY <1>1 DEF UpdateProposal, Knows, IInv, RemoteInv
<1>3. proposal' \in [status : Statuses, decision : Decisions \cup {None}]
  <2>1. proposal.decision \in Decisions \cup {None} /\ obs.decision \in Decisions \cup {None}
    BY <1>1 DEF IInv, TypeOK, Observations
  <2>2. StatusOf(obs) \in Statuses
    BY DEF StatusOf, Statuses
  <2> HIDE DEF obs
  <2>3. proposal' = [status |-> StatusOf(obs),
                     decision |-> IF obs.decision # None THEN obs.decision ELSE proposal.decision]
    BY DEF UpdateProposal, obs
  <2>4. QED BY <2>1, <2>2, <2>3
<1>4. UNCHANGED <<row, first, resumes, reconciler, txs, history, assessment, failures>>
  BY DEF UpdateProposal, queueVars, genlayerVars
<1>5. \E job \in Jobs : worker' = [worker EXCEPT ![w] = job] /\ job.pc # "write" /\ Knows(job)
  <2>1. CASE End(w)
    BY <2>1, StartsAgain
  <2>2. CASE /\ worker[w].polls # POLLS
             /\ worker' = [worker EXCEPT ![w] = [Idle EXCEPT !.pc = "load",
                                                             !.polls = worker[w].polls + 1]]
    <3> DEFINE n   == worker[w].polls + 1
               job == [Idle EXCEPT !.pc = "load", !.polls = n]
    <3>1. n \in 0 .. POLLS /\ "load" \in Steps
      BY <1>1, <2>2 DEF Steps
    <3>2. job \in Jobs /\ job.pc = "load"
      <4> HIDE DEF n
      <4>1. job = [Idle EXCEPT !.polls = n, !.pc = "load"]
        BY DEF Idle
      <4> HIDE DEF job
      <4>2. QED BY <3>1, <4>1, JobStartsAgain
    <3>3. row.ext # None
      BY <1>1 DEF Knows
    <3>4. Knows(job)
      <4> HIDE DEF job
      <4>1. QED BY <3>2, <3>3 DEF Knows
    <3>5. QED BY <2>2, <3>2, <3>4
  <2>3. QED BY <2>1, <2>2 DEF UpdateProposal
<1>6. PICK job \in Jobs : worker' = [worker EXCEPT ![w] = job] /\ job.pc # "write" /\ Knows(job)
  BY <1>5
<1>7. TypeOK'
  BY <1>3, <1>4, <1>6, WorkerTypes DEF IInv, TypeOK
<1>8. QED BY <1>2, <1>4, <1>6, <1>7, LocalStep

LEMMA RefusedPreserves ==
    ASSUME NEW w \in Workers PROVE IInv /\ UpdateIsRefused(w) => IInv'
<1> SUFFICES ASSUME IInv, UpdateIsRefused(w) PROVE IInv'
  OBVIOUS
<1>1. PICK job \in Jobs : worker' = [worker EXCEPT ![w] = job] /\ job.pc # "write" /\ Knows(job)
  BY StartsAgain DEF UpdateIsRefused, Throw
<1>2. failures' \in 0 .. MAX_FAILURES
  BY DEF UpdateIsRefused, IInv, TypeOK
<1>3. QED BY <1>1, <1>2, ReadStep DEF UpdateIsRefused

-----------------------------------------------------------------------------
LEMMA StutterPreserves == IInv /\ UNCHANGED vars => IInv'
<1> SUFFICES ASSUME IInv, UNCHANGED vars PROVE IInv'
  OBVIOUS
<1>1. TypeOK'
  BY DEF IInv, TypeOK, vars
<1>2. QED BY <1>1, RowMoves DEF vars

LEMMA StepPreserves == ASSUME NEW w \in Workers PROVE IInv /\ Step(w) => IInv'
BY CreatePreserves, FindPreserves, DeferPreserves, DeferProposalPreserves, ClaimPreserves,
   ReloadPreserves, WritePreserves, PersistSubmissionPreserves, LoadPreserves, LookPreserves,
   PersistObservationPreserves, UpdateProposalPreserves, RefusedPreserves DEF Step

(* The invariant the safety properties follow from.                        *)
THEOREM AdmissibilityInvariant == Spec => []IInv
<1>1. IInv /\ [Next]_vars => IInv'
  <2> SUFFICES ASSUME IInv, [Next]_vars PROVE IInv'
    OBVIOUS
  <2>1. CASE PersistVerifiedProposal \/ SendIntent \/ Elapse
    BY <2>1, PersistPreserves, SendIntentPreserves, ElapsePreserves
  <2>2. CASE \E w \in Workers : DeliverFirst(w) \/ DeliverResume(w) \/ Step(w) \/ Fail(w)
    BY <2>2, DeliverPreserves, StepPreserves, FailPreserves
  <2>3. CASE \E r \in Reconcilers : Reconcile(r) \/ ReconcilerStops(r)
    BY <2>3, ReconcilePreserves
  <2>4. CASE \E t \in Txs : Finalize(t) \/ FinalizeFailed(t) \/ Index(t)
    BY <2>4, GenLayerPreserves, IndexPreserves
  <2>5. CASE \E t \in Txs, d \in Decisions : Decide(t, d)
    BY <2>5, GenLayerPreserves
  <2>6. CASE UNCHANGED vars
    BY <2>6, StutterPreserves
  <2>7. QED BY <2>1, <2>2, <2>3, <2>4, <2>5, <2>6 DEF Next
<1>2. QED BY InitEstablishes, <1>1, PTL DEF Spec

(* Every variable keeps its type.                                          *)
THEOREM AdmissibilityTypes == Spec => []TypeOK
<1>1. IInv => TypeOK
  BY DEF IInv
<1>2. QED BY AdmissibilityInvariant, <1>1, PTL

(* submitAdmissibilityOnce: redelivered jobs, overlapping instances, lost  *)
(* answers and stopped workers lead to no second transaction.              *)
THEOREM AdmissibilityIsSubmittedOnce == Spec => []AtMostOneSubmission
<1>1. IInv => AtMostOneSubmission
  BY DEF IInv, RemoteInv
<1>2. QED BY AdmissibilityInvariant, <1>1, PTL

(* persistObservation: the decision is the finalized one, whichever of the *)
(* observers, and however late, writes it.                                 *)
THEOREM RecordedDecisionIsFinal == Spec => []DecisionIsTheAssessment
<1>1. IInv => DecisionIsTheAssessment
  BY DEF IInv, RowInv, RemoteInv, DecisionIsTheAssessment, Settled
<1>2. QED BY AdmissibilityInvariant, <1>1, PTL

-----------------------------------------------------------------------------
(***************************************************************************)
(* Who sees to an open operation.  One that waits has a due time, or is    *)
(* pending and always due.  One being submitted has an instance that will  *)
(* store a transaction or put the operation off, one that was submitted    *)
(* has an instance that will store what it observes, and no step of either *)
(* but the last lets go of it.                                             *)
(***************************************************************************)
Submitters == {"create", "find", "defer", "write", "persist"}
Followers  == {"create", "persist", "load", "look", "row"}

Attended ==
    /\ row.state # "READY"
    /\ row.state \in {"ABSENT", "PENDING"} => row.due = "none"
    /\ row.state \in {"RETRY", "RECONCILE_CLAIMED"} => row.due # "none"
    /\ row.state = "SUBMITTING" =>
         row.ext = None /\ \E w \in Workers : worker[w].pc \in Submitters
    /\ row.state = "SUBMITTED" =>
         row.ext \in Txs /\ \E w \in Workers : worker[w].pc \in Followers

(* The other instances stay where they are.                                *)
OnlyMoves(w) == \A v \in Workers : v # w => worker'[v] = worker[v]

LEMMA MoveOfOne ==
    ASSUME TypeOK, NEW w \in Workers
    PROVE  /\ \A step \in Steps : Goto(w, step) => OnlyMoves(w) /\ worker'[w].pc = step
           /\ Restart(w) => /\ OnlyMoves(w)
                            /\ worker'[w].pc = IF worker[w].polls = 0 THEN "create" ELSE "load"
<1>1. worker[w] \in Jobs /\ worker[w].polls \in 0 .. POLLS
  BY Types
<1>2. ASSUME NEW step \in Steps, Goto(w, step) PROVE OnlyMoves(w) /\ worker'[w].pc = step
  <2> DEFINE job == [worker[w] EXCEPT !.pc = step]
  <2>1. job.pc = step
    BY <1>1, JobMoves
  <2>2. worker' = [worker EXCEPT ![w] = job]
    BY <1>2 DEF Goto
  <2> HIDE DEF job
  <2>3. QED BY <2>1, <2>2 DEF OnlyMoves, TypeOK
<1>3. ASSUME Restart(w)
      PROVE  OnlyMoves(w) /\ worker'[w].pc = IF worker[w].polls = 0 THEN "create" ELSE "load"
  <2> DEFINE n    == worker[w].polls
             step == IF n = 0 THEN "create" ELSE "load"
             job  == [Idle EXCEPT !.polls = n, !.pc = step]
  <2>1. job.pc = step
    <3>1. step \in Steps /\ n \in 0 .. POLLS
      BY <1>1 DEF Steps
    <3> HIDE DEF step, n
    <3>2. QED BY <3>1, JobStartsAgain
  <2>2. worker' = [worker EXCEPT ![w] = job]
    BY <1>3 DEF Restart
  <2> HIDE DEF job
  <2>3. QED BY <2>1, <2>2 DEF OnlyMoves, TypeOK
<1>4. QED BY <1>2, <1>3

(* The row stays as it is, and the instance that moves does not let go.    *)
LEMMA StillAttended ==
    ASSUME Attended, NEW w \in Workers, OnlyMoves(w), UNCHANGED row,
           row.state = "SUBMITTING" /\ worker[w].pc \in Submitters => worker'[w].pc \in Submitters,
           row.state = "SUBMITTED" /\ worker[w].pc \in Followers => worker'[w].pc \in Followers
    PROVE  Attended'
<1>1. row.state = "SUBMITTING" => \E v \in Workers : worker'[v].pc \in Submitters
  BY DEF Attended, OnlyMoves
<1>2. row.state = "SUBMITTED" => \E v \in Workers : worker'[v].pc \in Followers
  BY DEF Attended, OnlyMoves
<1>3. QED BY <1>1, <1>2 DEF Attended

(* An operation that waits with a due time, or is closed, is attended to.  *)
LEMMA PutOff ==
    ASSUME \/ row'.state \in {"RETRY", "RECONCILE_CLAIMED"} /\ row'.due # "none"
           \/ row'.state \in Closed
    PROVE  Attended'
BY DEF Attended, Closed

(* Starting again is not letting go: an instance that polls has a          *)
(* transaction in the row, so one that submits is not among them.          *)
LEMMA RestartAttends ==
    ASSUME IInv, Attended, NEW w \in Workers, Restart(w), UNCHANGED row
    PROVE  Attended'
<1>1. Knows(worker[w]) /\ OnlyMoves(w)
      /\ worker'[w].pc = IF worker[w].polls = 0 THEN "create" ELSE "load"
  BY MoveOfOne DEF IInv
<1>2. row.ext = None => worker[w].polls = 0
  BY <1>1, Types DEF Knows, IInv
<1>3. row.state = "SUBMITTING" => worker'[w].pc \in Submitters
  BY <1>1, <1>2 DEF Attended, Submitters
<1>4. worker'[w].pc \in Followers
  BY <1>1 DEF Followers
<1>5. QED BY <1>1, <1>3, <1>4, StillAttended

(* An instance whose step is in neither list may do as it likes.           *)
LEMMA BystanderAttends ==
    ASSUME Attended, NEW w \in Workers, OnlyMoves(w), UNCHANGED row,
           worker[w].pc \notin Submitters \cup Followers
    PROVE  Attended'
BY StillAttended

LEMMA EndMoves == ASSUME TypeOK, NEW w \in Workers, End(w) PROVE OnlyMoves(w)
BY DEF End, OnlyMoves, TypeOK

LEMMA ThrowMoves == ASSUME TypeOK, NEW w \in Workers, Throw(w) PROVE OnlyMoves(w)
BY EndMoves, MoveOfOne DEF Throw

-----------------------------------------------------------------------------
LEMMA RowIsAttended ==
    IInv /\ Attended /\ (\/ PersistVerifiedProposal \/ SendIntent \/ Elapse
                         \/ \E r \in Reconcilers : Reconcile(r) \/ ReconcilerStops(r)) => Attended'
<1> SUFFICES ASSUME IInv, Attended,
                    \/ PersistVerifiedProposal \/ SendIntent \/ Elapse
                    \/ \E r \in Reconcilers : Reconcile(r) \/ ReconcilerStops(r)
             PROVE  Attended'
  OBVIOUS
<1> USE DEF dbVars
<1>1. row \in Rows
  BY Types DEF IInv
<1>2. CASE PersistVerifiedProposal
  <2>1. row'.state = "PENDING" /\ row'.due = "none"
    BY <1>1, <1>2 DEF PersistVerifiedProposal, Rows, Attended
  <2>2. QED BY <2>1 DEF Attended
<1>3. CASE Elapse
  <2>1. row'.state = row.state /\ row'.ext = row.ext /\ row'.due = "now" /\ row.due = "later"
    BY <1>1, <1>3 DEF Elapse, Rows
  <2>2. QED BY <1>3, <2>1 DEF Attended, Elapse
<1>4. ASSUME NEW r \in Reconcilers, ClaimDue(r) \/ ReleaseForRetry(r) PROVE Attended'
  <2>1. row'.state \in {"RETRY", "RECONCILE_CLAIMED"} /\ row'.due = "later"
    BY <1>1, <1>4 DEF ClaimDue, ReleaseForRetry, Rows
  <2>2. QED BY <2>1, PutOff
<1>5. CASE SendIntent
  BY <1>5 DEF SendIntent, Attended
<1>6. ASSUME NEW r \in Reconcilers, SendResume(r) \/ ReconcilerStops(r) PROVE Attended'
  BY <1>6 DEF SendResume, ReconcilerStops, Attended
<1>7. QED BY <1>2, <1>3, <1>4, <1>5, <1>6 DEF Reconcile

LEMMA DeliveryAttends ==
    ASSUME NEW w \in Workers
    PROVE  IInv /\ Attended /\ (DeliverFirst(w) \/ DeliverResume(w)) => Attended'
<1> SUFFICES ASSUME IInv, Attended, DeliverFirst(w) \/ DeliverResume(w) PROVE Attended'
  OBVIOUS
<1>1. row' = row
  BY DEF DeliverFirst, DeliverResume, dbVars
<1>2. CASE UNCHANGED worker
  BY <1>1, <1>2 DEF Attended
<1>3. CASE worker[w].pc = "idle" /\ Goto(w, "create")
  <2>1. OnlyMoves(w)
    BY <1>3, MoveOfOne DEF IInv, Steps
  <2>2. QED BY <1>1, <1>3, <2>1, BystanderAttends DEF Submitters, Followers
<1>4. QED BY <1>2, <1>3 DEF DeliverFirst, DeliverResume

(* The steps that read, and those that write other than the row.           *)
LEMMA ReadingAttends ==
    ASSUME NEW w \in Workers
    PROVE  IInv /\ Attended /\ (CreateIfAbsent(w) \/ FindSubmission(w) \/ WriteContract(w)
                                \/ Load(w) \/ Look(w)) => Attended'
<1> SUFFICES ASSUME IInv, Attended, \/ CreateIfAbsent(w) \/ FindSubmission(w) \/ WriteContract(w)
                                    \/ Load(w) \/ Look(w)
             PROVE  Attended'
  OBVIOUS
<1> USE DEF Submitters, Followers
<1>1. row' = row
  BY DEF CreateIfAbsent, FindSubmission, WriteContract, Load, Look, dbVars
<1>2. worker[w] \in Jobs /\ Knows(worker[w]) /\ TypeOK
  BY Types DEF IInv
<1>3. \A step \in {"find", "defer", "claim", "load"} : Goto(w, step) =>
        OnlyMoves(w) /\ worker'[w].pc = step
  BY <1>2, MoveOfOne DEF Steps
<1>4. \A t : \A step \in {"persist", "look"} :
        worker' = [worker EXCEPT ![w] = [@ EXCEPT !.pc = step, !.tx = t]] =>
        OnlyMoves(w) /\ worker'[w].pc = step
  BY <1>2 DEF OnlyMoves, TypeOK, Jobs
<1>5. CASE CreateIfAbsent(w)
  <2>1. PICK step \in {"find", "claim", "load"} :
          /\ Goto(w, step)
          /\ step = IF row.ext # None THEN "load"
                    ELSE IF row.state = "SUBMITTING" \/ row.recovery THEN "find" ELSE "claim"
    BY <1>5 DEF CreateIfAbsent
  <2>2. row.state = "SUBMITTING" => step = "find"
    BY <2>1 DEF Attended
  <2>3. row.state = "SUBMITTED" => step = "load"
    BY <2>1 DEF Attended
  <2>4. QED BY <1>1, <1>3, <2>1, <2>2, <2>3, StillAttended
<1>6. CASE FindSubmission(w)
  <2>1. OnlyMoves(w) /\ worker'[w].pc \in {"persist", "defer"}
    BY <1>3, <1>4, <1>6 DEF FindSubmission
  <2>2. worker[w].pc = "find"
    BY <1>6 DEF FindSubmission
  <2>3. QED BY <1>1, <2>1, <2>2, StillAttended
<1>7. CASE WriteContract(w)
  <2>1. CASE Restart(w)
    BY <1>1, <2>1, RestartAttends
  <2>2. CASE \E t \in Txs : worker' = [worker EXCEPT ![w] = [@ EXCEPT !.pc = "persist", !.tx = t]]
    BY <1>1, <1>4, <2>2, StillAttended
  <2>3. QED BY <1>7, <2>1, <2>2 DEF WriteContract
<1>8. CASE Load(w)
  <2>1. OnlyMoves(w) /\ worker'[w].pc = "look"
    BY <1>4, <1>8 DEF Load
  <2>2. worker[w].pc = "load"
    BY <1>8 DEF Load
  <2>3. QED BY <1>1, <2>1, <2>2, StillAttended
<1>9. CASE Look(w)
  <2>1. worker[w].pc = "look" /\ worker[w].tx = row.ext
    BY <1>2, <1>9 DEF Look, Knows
  <2>2. CASE worker[w].tx \notin Txs
    <3>1. row.state # "SUBMITTED" /\ OnlyMoves(w)
      BY <1>2, <1>9, <2>1, <2>2, ThrowMoves DEF Look, Attended
    <3>2. QED BY <1>1, <2>1, <3>1, StillAttended
  <2>3. CASE worker[w].tx \in Txs
    <3>1. worker' = [worker EXCEPT ![w] = [@ EXCEPT !.pc = "row", !.obs = Observation(worker[w].tx)]]
      BY <1>9, <2>3 DEF Look
    <3>2. OnlyMoves(w) /\ worker'[w].pc = "row"
      BY <1>2, <3>1 DEF OnlyMoves, TypeOK, Jobs
    <3>3. QED BY <1>1, <2>1, <3>2, StillAttended
  <2>4. QED BY <2>2, <2>3
<1>10. QED BY <1>5, <1>6, <1>7, <1>8, <1>9

(* The steps that write the row.                                           *)
LEMMA WritingAttends ==
    ASSUME NEW w \in Workers
    PROVE  IInv /\ Attended /\ (DeferSubmissionRecovery(w) \/ ClaimSubmission(w)
                                \/ PersistSubmission(w) \/ PersistObservation(w)) => Attended'
<1> SUFFICES ASSUME IInv, Attended, \/ DeferSubmissionRecovery(w) \/ ClaimSubmission(w)
                                    \/ PersistSubmission(w) \/ PersistObservation(w)
             PROVE  Attended'
  OBVIOUS
<1> USE DEF Submitters, Followers
<1>1. worker[w] \in Jobs /\ Knows(worker[w]) /\ TypeOK /\ row \in Rows
  BY Types DEF IInv
<1>2. \A step \in {"defer2", "write", "reload", "load", "proposal"} : Goto(w, step) =>
        OnlyMoves(w) /\ worker'[w].pc = step
  BY <1>1, MoveOfOne DEF Steps
<1>3. CASE DeferSubmissionRecovery(w)
  <2>1. CASE row.ext = None
    <3>1. row'.state = "RETRY" /\ row'.due = "later"
      BY <1>1, <1>3, <2>1 DEF DeferSubmissionRecovery, Rows
    <3>2. QED BY <3>1, PutOff
  <2>2. CASE row.ext # None
    <3>1. row' = row /\ worker[w].pc = "defer" /\ row.state # "SUBMITTING" /\ OnlyMoves(w)
      BY <1>2, <1>3, <2>2 DEF DeferSubmissionRecovery, Attended
    <3>2. QED BY <3>1, StillAttended
  <2>3. QED BY <2>1, <2>2
<1>4. CASE ClaimSubmission(w)
  <2>1. CASE Claimable /\ row' = [row EXCEPT !.state = "SUBMITTING"] /\ Goto(w, "write")
    <3>1. row'.state = "SUBMITTING" /\ row'.ext = None /\ worker'[w].pc = "write"
      BY <1>1, <1>2, <2>1 DEF Rows, Claimable
    <3>2. QED BY <3>1 DEF Attended
  <2>2. CASE Goto(w, "reload") /\ UNCHANGED row
    <3>1. worker[w].pc = "claim" /\ OnlyMoves(w)
      BY <1>2, <1>4, <2>2 DEF ClaimSubmission
    <3>2. QED BY <2>2, <3>1, BystanderAttends
  <2>3. QED BY <1>4, <2>1, <2>2 DEF ClaimSubmission
<1>5. CASE PersistSubmission(w)
  <2>1. worker[w].tx \in Txs /\ worker'[w].pc = "load"
    BY <1>1, <1>2, <1>5 DEF PersistSubmission, Knows
  <2>2. row'.state = "SUBMITTED" /\ row'.ext \in Txs
    BY <1>1, <1>5, <2>1 DEF PersistSubmission, Rows
  <2>3. QED BY <2>1, <2>2 DEF Attended
<1>6. CASE PersistObservation(w)
  <2> DEFINE obs == worker[w].obs
  <2>1. obs.state \in {"RETRY"} \cup Closed
    BY Types DEF IInv, Observations
  <2>2. row'.state = obs.state /\ (obs.state = "RETRY" => row'.due = "later")
    BY <1>1, <1>6 DEF PersistObservation, Observed, Rows
  <2>3. QED BY <2>1, <2>2, PutOff
<1>7. QED BY <1>3, <1>4, <1>5, <1>6

(* The steps of an instance that has let go already.                       *)
LEMMA LeavingAttends ==
    ASSUME NEW w \in Workers
    PROVE  IInv /\ Attended /\ (DeferProposal(w) \/ LoadConcurrent(w) \/ UpdateProposal(w)
                                \/ UpdateIsRefused(w)) => Attended'
<1> SUFFICES ASSUME IInv, Attended, \/ DeferProposal(w) \/ LoadConcurrent(w) \/ UpdateProposal(w)
                                    \/ UpdateIsRefused(w)
             PROVE  Attended'
  OBVIOUS
<1>1. row' = row /\ worker[w].pc \in {"defer2", "reload", "proposal"}
  BY DEF DeferProposal, LoadConcurrent, UpdateProposal, UpdateIsRefused, dbVars
<1>2. TypeOK
  BY DEF IInv
<1>3. CASE DeferProposal(w)
  BY <1>2, <1>3, EndMoves, <1>1, BystanderAttends DEF DeferProposal, Submitters, Followers
<1>4. CASE LoadConcurrent(w)
  <2>1. Goto(w, "load") => OnlyMoves(w)
    BY <1>2, MoveOfOne DEF Steps
  <2>2. OnlyMoves(w)
    BY <1>2, <1>4, <2>1, ThrowMoves DEF LoadConcurrent
  <2>3. QED BY <1>1, <2>2, BystanderAttends DEF Submitters, Followers
<1>5. CASE UpdateProposal(w)
  <2>1. \A job : worker' = [worker EXCEPT ![w] = job] => OnlyMoves(w)
    BY <1>2 DEF OnlyMoves, TypeOK
  <2>2. OnlyMoves(w)
    BY <1>5, <2>1 DEF UpdateProposal, End
  <2>3. QED BY <1>1, <2>2, BystanderAttends DEF Submitters, Followers
<1>6. CASE UpdateIsRefused(w)
  BY <1>1, <1>2, <1>6, ThrowMoves, BystanderAttends DEF UpdateIsRefused, Submitters, Followers
<1>7. QED BY <1>3, <1>4, <1>5, <1>6

LEMMA GenLayerAttends ==
    ASSUME Attended, UNCHANGED <<row, worker>> PROVE Attended'
BY DEF Attended

(* Workflows ends an instance whose step keeps failing.                    *)
GivesUp(w) == GIVES_UP /\ Failure /\ End(w)

LEMMA StepsAttend ==
    IInv /\ Attended /\ [Next]_vars => Attended' \/ \E w \in Workers : GivesUp(w)
<1> SUFFICES ASSUME IInv, Attended, [Next]_vars, ~ \E w \in Workers : GivesUp(w)
             PROVE  Attended'
  OBVIOUS
<1>1. CASE \/ PersistVerifiedProposal \/ SendIntent \/ Elapse
           \/ \E r \in Reconcilers : Reconcile(r) \/ ReconcilerStops(r)
  BY <1>1, RowIsAttended
<1>2. ASSUME NEW w \in Workers, DeliverFirst(w) \/ DeliverResume(w) PROVE Attended'
  BY <1>2, DeliveryAttends
<1>3. ASSUME NEW w \in Workers, Step(w) PROVE Attended'
  BY <1>3, ReadingAttends, WritingAttends, LeavingAttends DEF Step
<1>4. ASSUME NEW w \in Workers, Fail(w) PROVE Attended'
  BY <1>4, RestartAttends DEF Fail, GivesUp, dbVars
<1>5. ASSUME NEW t \in Txs, \/ Finalize(t) \/ FinalizeFailed(t) \/ Index(t)
                            \/ \E d \in Decisions : Decide(t, d)
      PROVE  Attended'
  BY <1>5, GenLayerAttends DEF Finalize, FinalizeFailed, Index, Decide, dbVars
<1>6. CASE UNCHANGED vars
  BY <1>6, GenLayerAttends DEF vars
<1>7. QED BY <1>1, <1>2, <1>3, <1>4, <1>5, <1>6 DEF Next

(***************************************************************************)
(* Of everything that may happen to an operation (redelivery, failing      *)
(* calls, stopped reconcilers, crossed observations) one thing alone can   *)
(* leave it with nobody: that Workflows gives an instance up.              *)
(***************************************************************************)
THEOREM OnlyGivingUpAbandons ==
    Spec => [][Attended => Attended' \/ \E w \in Workers : GivesUp(w)]_vars
<1>1. IInv /\ [Next]_vars => [Attended => Attended' \/ \E w \in Workers : GivesUp(w)]_vars
  BY StepsAttend
<1>2. QED BY AdmissibilityInvariant, <1>1, PTL DEF Spec

(***************************************************************************)
(* reconcileDueLifecycleIntents and the retries of Workflows leave nothing *)
(* between them, as long as Workflows never ends an instance whose step    *)
(* keeps failing: where it does, an operation that was being submitted has *)
(* nobody, and the property is violated.                                   *)
(***************************************************************************)
THEOREM OperationsAreAttended == ASSUME ~GIVES_UP PROVE Spec => []OperationIsNeverAbandoned
<1>1. Init => Attended
  BY DEF Init, Attended
<1>2. IInv /\ Attended /\ [Next]_vars => Attended'
  BY StepsAttend DEF GivesUp
<1>3. IInv /\ Attended => OperationIsNeverAbandoned
  <2>1. SUFFICES ASSUME IInv, Attended PROVE OperationIsNeverAbandoned
    OBVIOUS
  <2>2. row.state \in RowStates
    BY <2>1, Types DEF IInv
  <2>3. QED BY <2>1, <2>2
           DEF Attended, OperationIsNeverAbandoned, RowStates, Closed, Submitters, Followers
<1>4. QED BY AdmissibilityInvariant, <1>1, <1>2, <1>3, PTL DEF Spec
=============================================================================
