---------------------------- MODULE BaseIndexer ----------------------------
(***************************************************************************)
(* The reader of Base logs: BaseIndexer.runOnce, the job around it that    *)
(* schedules the next batch, and the PostgreSQL store with its one cursor. *)
(* Jobs overlap: the scheduler's ticks, redelivered jobs and continuations *)
(* run at the same time and share nothing but the store.  A step of a      *)
(* worker is what runOnce does between two awaits.                         *)
(*                                                                         *)
(* The chain grows and, near its head, is reorganized.  A block is a       *)
(* version number: it has one decoded event, told apart by block and       *)
(* version.                                                                *)
(***************************************************************************)
EXTENDS Integers, FiniteSets

CONSTANTS Workers,          \* jobs that run at the same time
          DEPLOYMENT_BLOCK, BATCH_SIZE, CONFIRMATIONS,
          REORG_DEPTH,      \* a reorganization replaces at most this many blocks
          GENESIS_HEIGHT,   \* the chain's height at first
          MAX_HEIGHT,       \* bound: the chain stops growing here
          MAX_REORGS,       \* bound on reorganizations
          MAX_FAILURES      \* bound on failed steps

ASSUME IndexerAssumption ==
    /\ DEPLOYMENT_BLOCK \in Nat \ {0} /\ BATCH_SIZE \in Nat \ {0}
    /\ CONFIRMATIONS \in Nat /\ REORG_DEPTH \in Nat
    /\ REORG_DEPTH <= CONFIRMATIONS
    /\ GENESIS_HEIGHT \in Nat /\ MAX_HEIGHT \in Nat /\ GENESIS_HEIGHT <= MAX_HEIGHT
    /\ MAX_REORGS \in Nat /\ MAX_FAILURES \in Nat

Blocks   == 0 .. MAX_HEIGHT
Versions == Nat            \* how often a block has been replaced
Events   == Blocks \X Versions

VARIABLES latest,          \* the chain's height
          chain,           \* the version of each block, those to come included
          reorgs, failures,
          nextBlock,       \* the cursor; NoCursor before there is a row
          lastBlockHash,
          indexed,         \* events in the database
          queued, started, \* continuations waiting, and those a workflow exists for
          worker

NoCursor == -1
vars == <<latest, chain, reorgs, failures, nextBlock, lastBlockHash, indexed, queued, started, worker>>
chainVars == <<latest, chain, reorgs>>
storeVars == <<nextBlock, lastBlockHash, indexed>>
queueVars == <<queued, started>>

\* Mutant: the newest blocks count as final.
ConfirmedHead_Latest == latest

ConfirmedHead == IF latest >= CONFIRMATIONS THEN latest - CONFIRMATIONS ELSE 0

Steps == {"idle", "cursor", "head", "logs", "persist", "block", "advance", "continue"}
Jobs  == [pc : Steps, from : Nat, head : Nat, end : Nat, logs : SUBSET Events, hash : Versions]
Idle  == [pc |-> "idle", from |-> 0, head |-> 0, end |-> 0, logs |-> {}, hash |-> 0]

TypeOK ==
    /\ latest \in Blocks
    /\ chain \in [Blocks -> Versions]
    /\ reorgs \in Nat /\ failures \in Nat
    /\ nextBlock \in {NoCursor} \cup DEPLOYMENT_BLOCK .. ConfirmedHead + 1
    /\ lastBlockHash \in Versions
    /\ indexed \in SUBSET Events
    /\ queued \in SUBSET Nat /\ started \in SUBSET Nat
    /\ worker \in [Workers -> Jobs]

Init ==
    /\ latest = GENESIS_HEIGHT
    /\ chain = [b \in Blocks |-> 0]
    /\ reorgs = 0 /\ failures = 0
    /\ nextBlock = NoCursor /\ lastBlockHash = 0 /\ indexed = {}
    /\ queued = {} /\ started = {}
    /\ worker = [w \in Workers |-> Idle]

Lesser(x, y) == IF x < y THEN x ELSE y

Canonical(from, end) == {<<b, chain[b]>> : b \in from .. end}

Goto(w, step) == worker' = [worker EXCEPT ![w].pc = step]
-----------------------------------------------------------------------------
(* The chain.                                                              *)

Mine ==
    /\ latest < MAX_HEIGHT
    /\ latest' = latest + 1
    /\ UNCHANGED <<chain, reorgs, failures, storeVars, queueVars, worker>>

(* The blocks from b on are replaced, those not yet mined with them.       *)
Reorg(b) ==
    /\ reorgs < MAX_REORGS
    /\ b <= latest /\ b > latest - REORG_DEPTH
    /\ chain' = [c \in Blocks |-> IF c < b THEN chain[c] ELSE reorgs + 1]
    /\ reorgs' = reorgs + 1
    /\ UNCHANGED <<latest, failures, storeVars, queueVars, worker>>

-----------------------------------------------------------------------------
(* Deliveries.  A tick has an identity of its own; a continuation is named *)
(* after its first block, and only one workflow of a name is ever created. *)

Tick(w) ==
    /\ worker[w].pc = "idle"
    /\ Goto(w, "cursor")
    /\ UNCHANGED <<chainVars, failures, storeVars, queueVars>>

DeliverContinuation(w, n) ==
    /\ n \in queued
    /\ queued' = queued \ {n}
    /\ \/ /\ n \in started
          /\ UNCHANGED <<started, worker>>
       \/ /\ n \notin started
          /\ started' = started \cup {n}
          /\ worker[w].pc = "idle"
          /\ Goto(w, "cursor")
    /\ UNCHANGED <<chainVars, failures, storeVars>>

-----------------------------------------------------------------------------
(* runOnce.                                                                *)

ReadCursor(w) ==
    /\ worker[w].pc = "cursor"
    /\ worker' = [worker EXCEPT ![w] = [@ EXCEPT !.pc = "head",
                    !.from = IF nextBlock = NoCursor THEN DEPLOYMENT_BLOCK ELSE nextBlock]]
    /\ UNCHANGED <<chainVars, failures, storeVars, queueVars>>

\* Mutant: the head itself is left for later.
ReadHead_StopsAtHead(w) ==
    LET head == ConfirmedHead
        from == worker[w].from
    IN  /\ worker[w].pc = "head"
        /\ \/ /\ from >= head
              /\ worker' = [worker EXCEPT ![w] = Idle]
           \/ /\ from < head
              /\ worker' = [worker EXCEPT ![w] = [@ EXCEPT !.pc = "logs", !.head = head,
                              !.end = Lesser(from + BATCH_SIZE - 1, head)]]
        /\ UNCHANGED <<chainVars, failures, storeVars, queueVars>>

ReadHead(w) ==
    LET head == ConfirmedHead
        from == worker[w].from
    IN  /\ worker[w].pc = "head"
        /\ \/ /\ from > head
              /\ worker' = [worker EXCEPT ![w] = Idle]
           \/ /\ from <= head
              /\ worker' = [worker EXCEPT ![w] = [@ EXCEPT !.pc = "logs", !.head = head,
                              !.end = Lesser(from + BATCH_SIZE - 1, head)]]
        /\ UNCHANGED <<chainVars, failures, storeVars, queueVars>>

\* Mutant: the batch leaves its first block out.
FetchLogs_AfterFrom(w) ==
    /\ worker[w].pc = "logs"
    /\ worker' = [worker EXCEPT ![w] = [@ EXCEPT !.pc = "persist",
                                       !.logs = Canonical(worker[w].from + 1, worker[w].end)]]
    /\ UNCHANGED <<chainVars, failures, storeVars, queueVars>>

FetchLogs(w) ==
    /\ worker[w].pc = "logs"
    /\ worker' = [worker EXCEPT ![w] = [@ EXCEPT !.pc = "persist",
                                                 !.logs = Canonical(worker[w].from, worker[w].end)]]
    /\ UNCHANGED <<chainVars, failures, storeVars, queueVars>>

PersistEvents(w) ==
    /\ worker[w].pc = "persist"
    /\ indexed' = indexed \cup worker[w].logs
    /\ Goto(w, "block")
    /\ UNCHANGED <<chainVars, failures, nextBlock, lastBlockHash, queueVars>>

FetchBlock(w) ==
    /\ worker[w].pc = "block"
    /\ worker' = [worker EXCEPT ![w] = [@ EXCEPT !.pc = "advance",
                                                 !.hash = chain[worker[w].end]]]
    /\ UNCHANGED <<chainVars, failures, storeVars, queueVars>>

\* Mutants: the last job to finish sets the cursor; the cursor skips the
\* batch after the one that was read; the hash of a later job is kept.
MoveCursor_LastWins(next, hash) == nextBlock' = next /\ lastBlockHash' = hash
MoveCursor_Skips(next, hash) ==
    IF nextBlock < next
    THEN nextBlock' = next + 1 /\ lastBlockHash' = hash
    ELSE UNCHANGED <<nextBlock, lastBlockHash>>
MoveCursor_HashAlways(next, hash) ==
    /\ lastBlockHash' = hash
    /\ nextBlock' = IF nextBlock < next THEN next ELSE nextBlock

MoveCursor(next, hash) ==
    IF nextBlock < next
    THEN nextBlock' = next /\ lastBlockHash' = hash
    ELSE UNCHANGED <<nextBlock, lastBlockHash>>

AdvanceCursor(w) ==
    /\ worker[w].pc = "advance"
    /\ MoveCursor(worker[w].end + 1, worker[w].hash)
    /\ Goto(w, "continue")
    /\ UNCHANGED <<chainVars, failures, indexed, queueVars>>

(* runBaseIndexJob: a batch that stops short of the head asks for another. *)
Continue(w) ==
    /\ worker[w].pc = "continue"
    /\ queued' = IF worker[w].end < worker[w].head
                 THEN queued \cup {worker[w].end + 1} ELSE queued
    /\ worker' = [worker EXCEPT ![w] = Idle]
    /\ UNCHANGED <<chainVars, failures, storeVars, started>>

(* Any await may fail and any worker stop; what is in the database stays.  *)
Fail(w) ==
    /\ worker[w].pc # "idle" /\ failures < MAX_FAILURES
    /\ failures' = failures + 1
    /\ worker' = [worker EXCEPT ![w] = Idle]
    /\ UNCHANGED <<chainVars, storeVars, queueVars>>

Step(w) ==
    \/ ReadCursor(w) \/ ReadHead(w) \/ FetchLogs(w) \/ PersistEvents(w)
    \/ FetchBlock(w) \/ AdvanceCursor(w) \/ Continue(w)

Next ==
    \/ Mine
    \/ \E b \in Blocks : Reorg(b)
    \/ \E w \in Workers : Tick(w) \/ Step(w) \/ Fail(w)
    \/ \E w \in Workers, n \in queued : DeliverContinuation(w, n)

Spec == Init /\ [][Next]_vars

(* The scheduler keeps ticking, and a job that has started goes on.        *)
FairSpec ==
    /\ Spec
    /\ WF_vars(\E w \in Workers : Tick(w))
    /\ \A w \in Workers : WF_vars(Step(w))
-----------------------------------------------------------------------------
(***************************************************************************)
(* However jobs overlap and wherever they stop, nothing below the cursor   *)
(* is missing: a later job starts at the cursor and never looks back, so   *)
(* an event that is not there by then is lost for good.                    *)
(***************************************************************************)
NoGapBelowCursor ==
    nextBlock # NoCursor => Canonical(DEPLOYMENT_BLOCK, nextBlock - 1) \subseteq indexed

(***************************************************************************)
(* "Keep unfinalized head blocks out": no event of a block that has been   *)
(* replaced is ever in the database.                                       *)
(***************************************************************************)
IndexedIsCanonical == \A e \in indexed : e[2] = chain[e[1]]

(***************************************************************************)
(* The cursor's hash is that of the block before it, although block, hash  *)
(* and cursor were read and written at different times.                    *)
(***************************************************************************)
HashMatchesCursor == nextBlock # NoCursor => lastBlockHash = chain[nextBlock - 1]

(***************************************************************************)
(* Together: what the database holds is the chain's, without a gap.        *)
(***************************************************************************)
IndexIsSound == NoGapBelowCursor /\ IndexedIsCanonical /\ HashMatchesCursor

(***************************************************************************)
(* "Out-of-order overlapping jobs can never move the shared cursor back."  *)
(***************************************************************************)
CursorOnlyAdvances == [][nextBlock' >= nextBlock]_vars

(***************************************************************************)
(* Every block that is final at some time is indexed in the end, whichever *)
(* jobs fail: the continuation that was lost is made up for by a tick.     *)
(***************************************************************************)
CatchesUp ==
    \A b \in Blocks :
      (b >= DEPLOYMENT_BLOCK /\ b <= latest - CONFIRMATIONS) ~> (<<b, chain[b]>> \in indexed)
=============================================================================
