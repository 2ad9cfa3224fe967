-------------------------- MODULE ProposalSubmission --------------------------
(* From the create page's button to a recorded proposal.  Every press is a    *)
(* proposal of its own (a fresh market id and idempotency key); the page asks *)
(* the API for the bond's calls, has the wallet approve and lock, and hands   *)
(* the lock's hash to the API (apps/web/app/create/page.tsx), which checks    *)
(* the receipt, writes the row with its workflow and queues the job           *)
(* (apps/api-worker/src/index.ts, proposal-adapter.ts,                        *)
(* proposal-persistence.ts).  A press names its proposal, its key and its     *)
(* lock transaction; the other steps of each may fail.                        *)
(*                                                                            *)
(* And what the proposer is shown afterwards: the workflow writes the         *)
(* Proposal row, the API answers from it, or for a minute from what it last   *)
(* answered if the database fails (read-model.ts, getProposal), and the       *)
(* status page asks again only while the answer says RUNNING                  *)
(* (apps/web/app/create/status/[id]/page.tsx).                                *)
EXTENDS Naturals

CONSTANTS
    Users,
    Presses,
    Owner,       \* who presses
    Recoveries,  \* the presses of a page opened with ?recoverTx
    BOND,        \* PROPOSAL_BOND
    Isolates     \* API workers, each with a cache of its own

None == "none"

VARIABLES
    page,        \* where each press is
    tx,          \* its lock transaction: none, pending, locked or reverted
    allowance,   \* USDC each user lets the escrow take
    named,       \* RECOVERY_BOND_TX_HASH
    post,        \* the submission each press has at the API
    rows,        \* Proposal
    pending,     \* WorkflowState rows the reconciler will pick up
    jobs         \* GENETIA_JOBS
vars == <<page, tx, allowance, named, post, rows, pending, jobs>>

Quiet == [at |-> None]

TypeOK ==
    /\ page \in [Presses -> {"form", "preparing", "reading", "approving", "approved",
                             "ready", "waiting", "submitting", "recorded", "failed"}]
    /\ tx \in [Presses -> {None, "pending", "locked", "reverted"}]
    /\ allowance \in [Users -> 0 .. BOND]
    /\ named \in Presses \cup {None}
    /\ \A p \in Presses : post[p].at \in {None, "verify", "persist", "send"}
    /\ rows \subseteq [id : Presses, key : Presses, tx : Presses, by : Users]
    /\ pending \subseteq Presses /\ jobs \subseteq Presses

Init ==
    /\ page = [p \in Presses |-> "form"]
    /\ tx = [p \in Presses |-> None]
    /\ allowance = [u \in Users |-> 0]
    /\ named = None
    /\ post = [p \in Presses |-> Quiet]
    /\ rows = {} /\ pending = {} /\ jobs = {}

Moves(p, from, to) == page[p] = from /\ page' = [page EXCEPT ![p] = to]
chainAndApi == <<tx, allowance, named, post, rows, pending, jobs>>

(* The button stays enabled: a press may follow another at any time.         *)
Press(p) == p \notin Recoveries /\ Moves(p, "form", "preparing") /\ UNCHANGED chainAndApi

PrepareBond(p) == Moves(p, "preparing", "reading") /\ UNCHANGED chainAndApi

ReadAllowance(p) ==
    /\ Moves(p, "reading", IF allowance[Owner[p]] < BOND THEN "approving" ELSE "ready")
    /\ UNCHANGED chainAndApi

Approve(p) ==
    /\ Moves(p, "approving", "approved")
    /\ allowance' = [allowance EXCEPT ![Owner[p]] = BOND]
    /\ UNCHANGED <<tx, named, post, rows, pending, jobs>>

WaitForApproval(p) == Moves(p, "approved", "ready") /\ UNCHANGED chainAndApi

SendLock(p) ==
    /\ Moves(p, "ready", "waiting")
    /\ tx' = [tx EXCEPT ![p] = "pending"]
    /\ UNCHANGED <<allowance, named, post, rows, pending, jobs>>

(* ProposalBondEscrow.lock: it reverts when a press before it took the        *)
(* allowance.                                                                *)
Mine(p) ==
    LET u == Owner[p] IN
    /\ tx[p] = "pending"
    /\ tx' = [tx EXCEPT ![p] = IF allowance[u] >= BOND THEN "locked" ELSE "reverted"]
    /\ allowance' = IF allowance[u] >= BOND THEN [allowance EXCEPT ![u] = @ - BOND] ELSE allowance
    /\ UNCHANGED <<page, named, post, rows, pending, jobs>>

(* The page does not look at the receipt's status; the API does.             *)
WaitForLock(p) ==
    /\ tx[p] \in {"locked", "reverted"}
    /\ Moves(p, "waiting", "submitting")
    /\ UNCHANGED chainAndApi

(* POST /market-proposals: the proposal and key of p with the transaction t. *)
Submitted(p, t) ==
    /\ post[p] = Quiet
    /\ post' = [post EXCEPT ![p] = [at |-> "verify", tx |-> t]]
    /\ UNCHANGED <<page, tx, allowance, named, rows, pending, jobs>>

SubmitProposal(p) == page[p] = "submitting" /\ Submitted(p, p)

(* A client of the API that was not answered posts the same again.           *)
SubmitAgain(p) == page[p] = "failed" /\ tx[p] /= None /\ Submitted(p, p)

(* The page opened with ?recoverTx=t sends no transaction; each press of it   *)
(* has a key that no row has.                                                *)
RecoverTx(p, t) ==
    /\ p \in Recoveries
    /\ \A row \in rows : row.key /= p
    /\ Submitted(p, t)

(* The operator names the confirmed bond the recovery branch may use.        *)
NameRecovery(t) ==
    /\ tx[t] = "locked"
    /\ named /= t
    /\ named' = t
    /\ UNCHANGED <<page, tx, allowance, post, rows, pending, jobs>>

\* Mutant: any bond of the proposer's will do for the proposal.
Locks_Any(t, id, u) == tx[t] = "locked" /\ Owner[t] = u

(* verifyBondReceipt: the transaction locked the user's bond for this id.    *)
Locks(t, id, u) == tx[t] = "locked" /\ t = id /\ Owner[t] = u

\* Mutant: the recovery branch derives the id from the new press.
ProposalId_Canonical(p, t) == p

(* bondProposalIdFromReceipt for the named bond, the canonical id otherwise. *)
ProposalId(p, t) == IF t = named THEN t ELSE p

VerifyBondReceipt(p) ==
    LET id == ProposalId(p, post[p].tx) IN
    /\ post[p].at = "verify"
    /\ Locks(post[p].tx, id, Owner[p])
    /\ post' = [post EXCEPT ![p] = [at |-> "persist", tx |-> @.tx, id |-> id]]
    /\ UNCHANGED <<page, tx, allowance, named, rows, pending, jobs>>

(* One transaction: the key's row answers a repetition, the unique columns   *)
(* refuse a bond that another key has recorded.                              *)
PersistVerifiedProposal(p) ==
    LET row == [id |-> post[p].id, key |-> p, tx |-> post[p].tx, by |-> Owner[p]] IN
    /\ post[p].at = "persist"
    /\ \A other \in rows \ {row} :
           other.key /= row.key /\ other.id /= row.id /\ other.tx /= row.tx
    /\ rows' = rows \cup {row}
    /\ pending' = IF row \in rows THEN pending ELSE pending \cup {row.id}
    /\ post' = [post EXCEPT ![p].at = "send"]
    /\ UNCHANGED <<page, tx, allowance, named, jobs>>

(* The job is queued and the page goes on to the proposal's status.          *)
QueueJob(p) ==
    /\ post[p].at = "send"
    /\ jobs' = jobs \cup {post[p].id}
    /\ page' = [page EXCEPT ![p] = "recorded"]
    /\ post' = [post EXCEPT ![p] = Quiet]
    /\ UNCHANGED <<tx, allowance, named, rows, pending>>

(* A check, the database, the queue or the answer fails.                     *)
RefuseSubmission(p) ==
    /\ post[p].at /= None
    /\ post' = [post EXCEPT ![p] = Quiet]
    /\ page' = [page EXCEPT ![p] = "failed"]
    /\ UNCHANGED <<tx, allowance, named, rows, pending, jobs>>

(* The wallet is refused, the API or the node does not answer: the page says *)
(* so and forgets where it was.                                              *)
Fail(p) ==
    /\ page[p] \in {"preparing", "reading", "approving", "approved", "ready", "waiting"}
    /\ page' = [page EXCEPT ![p] = "failed"]
    /\ UNCHANGED chainAndApi

(* reconcileIntents sends what the request did not.                          *)
Reconcile ==
    /\ ~(pending \subseteq jobs)
    /\ jobs' = jobs \cup pending
    /\ UNCHANGED <<page, tx, allowance, named, post, rows, pending>>

Next ==
    \/ \E p \in Presses :
         \/ Press(p) \/ PrepareBond(p) \/ ReadAllowance(p) \/ Approve(p) \/ WaitForApproval(p)
         \/ SendLock(p) \/ Mine(p) \/ WaitForLock(p)
         \/ SubmitProposal(p) \/ SubmitAgain(p)
         \/ VerifyBondReceipt(p) \/ PersistVerifiedProposal(p) \/ QueueJob(p)
         \/ RefuseSubmission(p) \/ Fail(p)
         \/ NameRecovery(p)
         \/ \E t \in Presses : RecoverTx(p, t)
    \/ Reconcile

----------------------------------------------------------------------------
(* The status page.                                                          *)
(* Proposal."workflowStatus", in the order the workflow writes it; 0 is no row. *)
NoRow == 0
BondConfirmed == 1
WaitingFinality == 2
Decided == 3        \* ACTIVATING, REVISION_REQUIRED or DISPOSITION_PENDING
Nothing == 0

VARIABLES
    proposalRow,  \* the status of the row
    cache,        \* proposalCache of each isolate
    statusPage, shown
statusVars == <<proposalRow, cache, statusPage, shown>>

StatusTypeOK ==
    /\ proposalRow \in NoRow .. Decided
    /\ cache \in [Isolates -> Nothing .. Decided]
    /\ statusPage \in {"loading", "timer", "still"}
    /\ shown \in Nothing .. Decided

StatusInit ==
    /\ proposalRow \in {NoRow, BondConfirmed}
    /\ cache = [i \in Isolates |-> Nothing]
    /\ statusPage = "loading"
    /\ shown = Nothing

WorkflowWrites ==
    /\ proposalRow < Decided
    /\ proposalRow' = proposalRow + 1
    /\ UNCHANGED <<cache, statusPage, shown>>

Running(value) == value = BondConfirmed

Show(value) ==
    /\ shown' = value
    /\ statusPage' = IF Running(value) THEN "timer" ELSE "still"

\* Mutant: an error is shown and the page does not ask again.
Error_Final == statusPage' = "still" /\ UNCHANGED shown

(* The catch: ask again in five seconds, keep what is shown.                 *)
Error == statusPage' = "timer" /\ UNCHANGED shown

Load(i) ==
    /\ statusPage = "loading" /\ proposalRow /= NoRow
    /\ cache' = [cache EXCEPT ![i] = proposalRow]
    /\ Show(proposalRow)
    /\ UNCHANGED proposalRow

(* The database fails: the isolate's answer of the last minute, if any; no    *)
(* row yet, or no answer at all: the page's catch.                           *)
LoadFails(i) ==
    /\ statusPage = "loading"
    /\ \/ cache[i] /= Nothing /\ Show(cache[i])
       \/ Error
    /\ UNCHANGED <<proposalRow, cache>>

Expire(i) ==
    /\ cache[i] /= Nothing
    /\ cache' = [cache EXCEPT ![i] = Nothing]
    /\ UNCHANGED <<proposalRow, statusPage, shown>>

Timer ==
    /\ statusPage = "timer"
    /\ statusPage' = "loading"
    /\ UNCHANGED <<proposalRow, cache, shown>>

StatusNext == WorkflowWrites \/ Timer \/ \E i \in Isolates : Load(i) \/ LoadFails(i) \/ Expire(i)

----------------------------------------------------------------------------
(* A recorded proposal is the one whose bond its proposer locked, no bond is *)
(* recorded for two, and only recorded proposals are queued.                 *)
RowsStandOnBonds ==
    /\ \A row \in rows : tx[row.tx] = "locked" /\ row.id = row.tx /\ Owner[row.tx] = row.by
    /\ \A row, other \in rows : row.tx = other.tx => row = other
    /\ jobs \subseteq {row.id : row \in rows}

(* A locked bond comes to be recorded and queued, while the user posts it or *)
(* recovers it and the operator names it.                                    *)
BondsAreRecorded == \A p \in Presses : tx[p] = "locked" ~> p \in jobs

(* The page comes to say that the proposal is no longer just running, however *)
(* often its requests fail first.                                            *)
LeavesRunning == <>(shown >= WaitingFinality)

(* The page: "A decision is shown only after successful finality": that it is *)
(* shown then, without the page being loaded again.                          *)
DecisionIsShown == <>(shown = Decided)
=============================================================================
