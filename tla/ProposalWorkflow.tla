-------------------------- MODULE ProposalWorkflow --------------------------
(***************************************************************************)
(* proposal-workflow.ts over ProposalBondEscrow.sol.  A handler loads the  *)
(* proposal's record, checks it, awaits calls of the bond contract and     *)
(* saves the record: every await is a point where another worker runs, the *)
(* handler's worker dies, or anyone calls the contract.  A handler that    *)
(* throws or dies leaves what it already did; a retry is a new handler.    *)
(*                                                                         *)
(* A step that awaits a contract call is enabled when the call succeeds; a *)
(* call that reverts, or whose receipt never arrives, is a Crash.          *)
(***************************************************************************)
EXTENDS ProposalBondEscrow

CONSTANTS Workers,     \* concurrent invocations
          MAX_TIME     \* bound: the clock stops here

VARIABLES record,      \* the store's row of each proposal
          job          \* what each worker is in the middle of

vars == <<now, escrowVars, record, job>>

States == {"PRECHECKED", "BONDED", "REVISION_REQUIRED", "RESOLVER_DEPLOYING",
           "RESOLVER_FINALIZED", "BASE_BOUND", "BOND_REFUNDED", "REJECTED", "TIMED_OUT"}
Final  == {"BOND_REFUNDED", "REJECTED", "TIMED_OUT"}

Record   == [state : States, revisions : 0 .. MAX_REVISIONS,
             resolverTxId : BOOLEAN, baseMarket : BaseMarkets \cup {NoMarket}]
NoRecord == [state |-> "NO RECORD"]
NewRecord(s) == [state |-> s, revisions |-> 0, resolverTxId |-> FALSE, baseMarket |-> NoMarket]

(* A job: the proposal, the await it is at, and what it loaded or was given. *)
Steps == {"lock", "create", "deploy", "revise", "saveRevision", "reject", "retain",
          "saveRejected", "finalize", "saveBound", "bind", "approve", "saveRefunded",
          "refund", "saveTimedOut"}
Idle == [step |-> "idle"]
Job  == [p : Proposals, step : Steps, revisions : 0 .. MAX_REVISIONS,
         baseMarket : BaseMarkets \cup {NoMarket}]

TypeOK ==
    /\ EscrowTypeOK
    /\ now <= MAX_TIME
    /\ record \in [Proposals -> Record \cup {NoRecord}]
    /\ job \in [Workers -> Job \cup {Idle}]

Init ==
    /\ EscrowInit
    /\ record = [p \in Proposals |-> NoRecord]
    /\ job = [w \in Workers |-> Idle]

-----------------------------------------------------------------------------
(* Loading: requireRecord, the handler's checks, and on to its first await. *)

Known(p) == record[p] # NoRecord

Start(w, p, step, revisions, baseMarket) ==
    /\ job[w] = Idle
    /\ job' = [job EXCEPT ![w] = [p |-> p, step |-> step, revisions |-> revisions,
                                  baseMarket |-> baseMarket]]
    /\ UNCHANGED <<now, escrowVars, record>>

BeginProposal(w, p) == ~Known(p) /\ Start(w, p, "lock", 0, NoMarket)

(* A failed precheck needs no bond: createIfAbsent is all there is to do.  *)
BeginUnchecked(p) ==
    /\ ~Known(p)
    /\ record' = [record EXCEPT ![p] = NewRecord("PRECHECKED")]
    /\ UNCHANGED <<now, escrowVars, job>>

ApplyAdmissibility(w, p, decision) ==
    /\ Known(p) /\ record[p].state \notin Final
    /\ \/ decision = "APPROVED" /\ Start(w, p, "deploy", 0, NoMarket)
       \/ /\ decision = "NEEDS_REVISION" /\ record[p].revisions < MAX_REVISIONS
          /\ Start(w, p, "revise", record[p].revisions, NoMarket)
       \/ /\ decision = "REJECTED" /\ record[p].revisions >= MAX_REVISIONS
          /\ Start(w, p, "reject", 0, NoMarket)

MarkResolverFinalized(w, p) ==
    /\ Known(p) /\ record[p].state = "RESOLVER_DEPLOYING"
    /\ Start(w, p, "finalize", 0, NoMarket)

\* Mutant: a resolver that is still deploying is good enough.
BindBaseMarket_Early(w, p, baseMarket) ==
    /\ Known(p) /\ record[p].state \in {"RESOLVER_DEPLOYING", "RESOLVER_FINALIZED"}
    /\ Start(w, p, "saveBound", 0, baseMarket)

BindBaseMarket(w, p, baseMarket) ==
    /\ Known(p) /\ record[p].state = "RESOLVER_FINALIZED"
    /\ Start(w, p, "saveBound", 0, baseMarket)

MarkAbuse(w, p) ==
    /\ Known(p) /\ record[p].state \notin Final
    /\ Start(w, p, "retain", 0, NoMarket)

TimeoutProposal(w, p) ==
    /\ Known(p) /\ record[p].state \notin Final
    /\ Start(w, p, "refund", 0, NoMarket)

-----------------------------------------------------------------------------
(* The awaits.                                                             *)

At(w, step)   == job[w].step = step
GoTo(w, step) == job' = [job EXCEPT ![w].step = step]
Return(w)     == job' = [job EXCEPT ![w] = Idle]

(* An awaited contract call that was mined and answered.                   *)
Call(w, at, call, next) ==
    /\ At(w, at) /\ call
    /\ GoTo(w, next)
    /\ UNCHANGED <<now, record>>

(* store.save(proposalId, { state, ... }): the patch over whatever is there now. *)
Save(w, at, patched) ==
    /\ At(w, at)
    /\ record' = [record EXCEPT ![job[w].p] = patched]
    /\ UNCHANGED <<now, escrowVars>>

Row(w) == record[job[w].p]

(* Bound: a bond is locked early enough for its timeout to fall before MAX_TIME. *)
BoundedLock(p) == now + TIMEOUT <= MAX_TIME /\ Lock(p)

LockCall(w) == Call(w, "lock", BoundedLock(job[w].p), "create")

CreateBonded(w) ==
    /\ Save(w, "create", IF Known(job[w].p) THEN Row(w) ELSE NewRecord("BONDED"))
    /\ Return(w)

SaveDeploying(w) ==
    /\ Save(w, "deploy", [Row(w) EXCEPT !.state = "RESOLVER_DEPLOYING"])
    /\ Return(w)

\* Mutant: the revision is saved without the contract being told.
RevisionCall_Skipped(w) == Call(w, "revise", UNCHANGED escrowVars, "saveRevision")

RevisionCall(w) == Call(w, "revise", RecordRevision(job[w].p), "saveRevision")

SaveRevision(w) ==
    /\ Save(w, "saveRevision", [Row(w) EXCEPT !.revisions = job[w].revisions + 1,
                                              !.state = "REVISION_REQUIRED"])
    /\ Return(w)

RejectCall(w) == Call(w, "reject", RejectOrdinary(job[w].p), "saveRejected")

RetainCall(w) == Call(w, "retain", RetainForAbuse(job[w].p), "saveRejected")

SaveRejected(w) ==
    /\ Save(w, "saveRejected", [Row(w) EXCEPT !.state = "REJECTED"])
    /\ Return(w)

SaveFinalized(w) ==
    /\ Save(w, "finalize", [Row(w) EXCEPT !.state = "RESOLVER_FINALIZED", !.resolverTxId = TRUE])
    /\ Return(w)

SaveBound(w) ==
    /\ Save(w, "saveBound", [Row(w) EXCEPT !.state = "BASE_BOUND",
                                           !.baseMarket = job[w].baseMarket])
    /\ GoTo(w, "bind")

\* Mutant: the refund is recorded when the market is bound.
BindCall_ThenRefunded(w) ==
    Call(w, "bind", BindMarket(job[w].p, job[w].baseMarket), "saveRefunded")

BindCall(w) == Call(w, "bind", BindMarket(job[w].p, job[w].baseMarket), "approve")

ApproveCall(w) == Call(w, "approve", Approve(job[w].p), "saveRefunded")

SaveRefunded(w) ==
    /\ Save(w, "saveRefunded", [Row(w) EXCEPT !.state = "BOND_REFUNDED"])
    /\ Return(w)

RefundCall(w) == Call(w, "refund", TimeoutRefund(job[w].p), "saveTimedOut")

SaveTimedOut(w) ==
    /\ Save(w, "saveTimedOut", [Row(w) EXCEPT !.state = "TIMED_OUT"])
    /\ Return(w)

(* The worker dies, the call reverts, or its answer is lost: the handler is gone. *)
Crash(w) ==
    /\ job[w] # Idle
    /\ Return(w)
    /\ UNCHANGED <<now, escrowVars, record>>

-----------------------------------------------------------------------------
(* Permissionless calls, by the proposer or by anyone.                     *)

DirectLock(p)   == BoundedLock(p) /\ UNCHANGED <<now, record, job>>
DirectRefund(p) == TimeoutRefund(p) /\ UNCHANGED <<now, record, job>>

Tick ==
    /\ now < MAX_TIME
    /\ now' = now + 1
    /\ UNCHANGED <<escrowVars, record, job>>

Decisions == {"APPROVED", "NEEDS_REVISION", "REJECTED"}

Handle(w, p) ==
    \/ BeginProposal(w, p)
    \/ \E d \in Decisions : ApplyAdmissibility(w, p, d)
    \/ MarkResolverFinalized(w, p)
    \/ \E b \in BaseMarkets : BindBaseMarket(w, p, b)
    \/ MarkAbuse(w, p)
    \/ TimeoutProposal(w, p)

Continue(w) ==
    \/ LockCall(w)     \/ CreateBonded(w)
    \/ SaveDeploying(w)
    \/ RevisionCall(w) \/ SaveRevision(w)
    \/ RejectCall(w)   \/ RetainCall(w)   \/ SaveRejected(w)
    \/ SaveFinalized(w)
    \/ SaveBound(w)    \/ BindCall(w)     \/ ApproveCall(w)  \/ SaveRefunded(w)
    \/ RefundCall(w)   \/ SaveTimedOut(w)

Next ==
    \/ \E w \in Workers, p \in Proposals : Handle(w, p)
    \/ \E w \in Workers : Continue(w) \/ Crash(w)
    \/ \E p \in Proposals : BeginUnchecked(p) \/ DirectLock(p) \/ DirectRefund(p)
    \/ Tick

Spec == Init /\ [][Next]_vars

(* Time passes and someone, the proposer for one, uses the permissionless refund.
   Nothing is assumed of the workers. *)
FairSpec == Spec /\ WF_vars(Tick) /\ \A p \in Proposals : WF_vars(DirectRefund(p))

-----------------------------------------------------------------------------
(***************************************************************************)
(* A record that says how the bond ended is right about the chain, however *)
(* many workers, retries and stale saves there were.                       *)
(***************************************************************************)
RecordTellsTheDisposition ==
    \A p \in Proposals : Known(p) =>
      /\ record[p].state \in {"BOND_REFUNDED", "TIMED_OUT"} => bonds[p].state = "REFUNDED"
      /\ record[p].state = "REJECTED" => bonds[p].state = "DISPOSED"

(***************************************************************************)
(* "Refunds only after finalized resolver and Base binding": before its    *)
(* timeout a bond returns whole to the proposer only if a finalized        *)
(* resolver is recorded and a market is bound.                             *)
(***************************************************************************)
RefundNeedsFinalizedResolver ==
    \A p \in Proposals : bonds[p].state = "REFUNDED" /\ ~Expired(p) =>
      /\ Known(p) /\ record[p].resolverTxId
      /\ bonds[p].baseMarket # NoMarket

(***************************************************************************)
(* The store never counts a revision the contract has not counted, so the  *)
(* ordinary rejection the workflow allows is one the contract accepts.     *)
(***************************************************************************)
RevisionsNeverAhead ==
    \A p \in Proposals : Known(p) => record[p].revisions <= bonds[p].revisions

(***************************************************************************)
(* No bond stays in custody for ever, even if every worker is dead and no  *)
(* operator decides anything.                                              *)
(***************************************************************************)
BondsLeaveCustody == \A p \in Proposals : Locked(p) ~> ~Locked(p)
=============================================================================
