----------------------------- MODULE Resolution -----------------------------
(***************************************************************************)
(* How the outcome of one market travels from its resolver contract on     *)
(* GenLayer to the market contract on Base: transactions on GenLayer that  *)
(* are accepted, overturned and finalized; watchers that read the          *)
(* finalized result and sign it (workers/resolution-watcher), some of      *)
(* which sign anything; the gateway that counts signatures                 *)
(* (ResolutionGateway.sol); and the market that settles or expires.        *)
(* Anybody may send a resolve transaction, ask a watcher for a signature,  *)
(* submit an envelope or expire the market.                                *)
(*                                                                         *)
(* The fields of an envelope that the gateway and the watchers compare     *)
(* with constants of the market (ids, chains, manifest, release) are left  *)
(* out: an envelope here is one for this market.                           *)
(***************************************************************************)
EXTENDS MarketResolver, FiniteSets, Functions

CONSTANTS
    Txs,             \* identities of GenLayer transactions to this resolver
    Honest, Faulty,  \* watchers that run the watcher's code, and that do not
    Outsider,        \* a key outside the watcher set
    THRESHOLD,       \* signatures the gateway asks for (3 of 5)
    AVAILABLE,       \* resolutionAvailableTime of the market
    DEADLINE,        \* terminalDeadline of the market
    MaxTime          \* bound on the clock

Watchers == Honest \cup Faulty

ASSUME QuorumAssumption ==
    /\ IsFiniteSet(Honest) /\ IsFiniteSet(Faulty)
    /\ Honest \cap Faulty = {}
    /\ THRESHOLD \in Nat /\ Cardinality(Faulty) < THRESHOLD
    /\ Outsider \notin Watchers

ASSUME TimeAssumption ==
    /\ AVAILABLE \in Nat /\ DEADLINE \in Nat /\ MaxTime \in Nat
    /\ AVAILABLE < DEADLINE /\ DEADLINE <= MaxTime

VARIABLES
    now,             \* the clock of both chains
    tx,              \* lifecycle of each GenLayer transaction
    accepted,        \* the resolver's record in the accepted state
    final,           \* the resolver's record in the finalized state
    checked,         \* envelope whose transaction an honest watcher has checked
    signatures,      \* signatures honest watchers gave out
    consumed,        \* consumedTransactions of the gateway
    terminal, outcome,  \* of the market
    oneSided         \* whether only one side of the market holds stake

resolverVars == <<tx, accepted, final>>
watcherVars == <<checked, signatures>>
marketVars == <<consumed, terminal, outcome, oneSided>>
vars == <<now, resolverVars, watcherVars, marketVars>>

REVERTED == "REVERTED"
Phases == {"unsent", "pending", "accepted", "finalized"}
TxStates == [phase : Phases, attempt : Attempts, result : Results \cup {NONE, REVERTED}]
Envelopes == [tx : Txs, attempt : Attempts, outcome : Verdicts]
Unchecked == [state |-> "idle"]
Checked(e) == [state |-> "checked", envelope |-> e]

TypeOK ==
    /\ now \in 0 .. MaxTime
    /\ tx \in [Txs -> TxStates]
    /\ accepted \in Records
    /\ final \in Records
    /\ checked \in [Honest -> {Unchecked} \cup {Checked(e) : e \in Envelopes}]
    /\ signatures \subseteq [signer : Honest, envelope : Envelopes]
    /\ consumed \subseteq Txs
    /\ terminal \in BOOLEAN
    /\ outcome \in Verdicts \cup {NONE}
    /\ oneSided \in BOOLEAN

Init ==
    /\ now = 0
    /\ tx = [t \in Txs |-> [phase |-> "unsent", attempt |-> 0, result |-> NONE]]
    /\ accepted = NoRecord
    /\ final = NoRecord
    /\ checked = [w \in Honest |-> Unchecked]
    /\ signatures = {}
    /\ consumed = {}
    /\ terminal = FALSE
    /\ outcome = NONE
    /\ oneSided \in BOOLEAN

Successful(t) == tx[t].result \in Results

Pending(attempt) == [phase |-> "pending", attempt |-> attempt, result |-> NONE]
Executed(t, result) == [phase |-> "accepted", attempt |-> tx[t].attempt, result |-> result]

-----------------------------------------------------------------------------
(***************************************************************************)
(* The resolver on GenLayer.                                               *)
(***************************************************************************)
Send(t, attempt) ==
    /\ tx[t].phase = "unsent"
    /\ tx' = [tx EXCEPT ![t] = Pending(attempt)]
    /\ UNCHANGED <<now, accepted, final, watcherVars, marketVars>>

\* resolve returns: the validators agree on a candidate, which is recorded.
Resolve(t, candidate) ==
    /\ tx[t].phase = "pending"
    /\ MayResolve(accepted, tx[t].attempt, now - AVAILABLE)
    /\ LET recorded == RecordedOutcome(tx[t].attempt, candidate) IN
         /\ accepted' = [accepted EXCEPT ![tx[t].attempt] = recorded]
         /\ tx' = [tx EXCEPT ![t] = Executed(t, recorded)]
    /\ UNCHANGED <<now, final, watcherVars, marketVars>>

\* Mutant: a call that raises leaves its attempt consumed.
Revert_Consumes(t) ==
    /\ tx[t].phase = "pending"
    /\ tx' = [tx EXCEPT ![t] = Executed(t, REVERTED)]
    /\ accepted' = [accepted EXCEPT ![tx[t].attempt] = REVERTED]
    /\ UNCHANGED <<now, final, watcherVars, marketVars>>

\* resolve raises: a check refuses the call, or the candidate breaks the
\* locked policy, which may happen to any call.
Revert(t) ==
    /\ tx[t].phase = "pending"
    /\ tx' = [tx EXCEPT ![t] = Executed(t, REVERTED)]
    /\ UNCHANGED <<now, accepted, final, watcherVars, marketVars>>

\* An appeal overturns the accepted transactions, which execute again.
Overturn ==
    /\ \E t \in Txs : tx[t].phase = "accepted"
    /\ accepted' = final
    /\ tx' = [t \in Txs |-> IF tx[t].phase = "accepted" THEN Pending(tx[t].attempt) ELSE tx[t]]
    /\ UNCHANGED <<now, final, watcherVars, marketVars>>

\* Transactions of a contract are finalized in the order they executed.
Finalize(t) ==
    /\ tx[t].phase = "accepted"
    /\ \A previous \in 0 .. tx[t].attempt - 1 : Successful(t) => final[previous] # NONE
    /\ tx' = [tx EXCEPT ![t].phase = "finalized"]
    /\ final' = IF Successful(t) THEN [final EXCEPT ![tx[t].attempt] = tx[t].result] ELSE final
    /\ UNCHANGED <<now, accepted, watcherVars, marketVars>>

-----------------------------------------------------------------------------
(***************************************************************************)
(* An honest watcher: attestWithClient reads the transaction, then the     *)
(* finalized state of the resolver, and signs if assertWatcherEligible     *)
(* finds that both agree with the envelope.                                *)
(***************************************************************************)
CheckTransaction(w, e) ==
    /\ checked[w] = Unchecked
    /\ tx[e.tx].phase = "finalized" /\ Successful(e.tx)
    /\ tx[e.tx].attempt = e.attempt
    /\ checked' = [checked EXCEPT ![w] = Checked(e)]
    /\ UNCHANGED <<now, resolverVars, signatures, marketVars>>

\* Mutant: the outcome of the envelope is not compared with the resolver's.
Attest_Blindly(w) ==
    /\ checked[w] # Unchecked
    /\ signatures' = signatures \cup {[signer |-> w, envelope |-> checked[w].envelope]}
    /\ checked' = [checked EXCEPT ![w] = Unchecked]
    /\ UNCHANGED <<now, resolverVars, marketVars>>

Attest(w) ==
    /\ checked[w] # Unchecked
    /\ LET e == checked[w].envelope IN
         signatures' = IF final[e.attempt] = e.outcome
                       THEN signatures \cup {[signer |-> w, envelope |-> e]}
                       ELSE signatures
    /\ checked' = [checked EXCEPT ![w] = Unchecked]
    /\ UNCHANGED <<now, resolverVars, marketVars>>

-----------------------------------------------------------------------------
(***************************************************************************)
(* The gateway and the market on Base.                                     *)
(***************************************************************************)
\* Keys from which a submitter can have a signature over the envelope.
SignersOf(e) ==
    {w \in Honest : [signer |-> w, envelope |-> e] \in signatures} \cup Faulty \cup {Outsider}

\* Mutant: a watcher may be counted twice.
AllValidSigners_Repeated(signers) == \A i \in DOMAIN signers : signers[i] \in Watchers

\* _countValidSigners does not revert, and counts every signature: each is a
\* watcher's and no watcher's comes twice.
AllValidSigners(signers) ==
    /\ \A i \in DOMAIN signers : signers[i] \in Watchers
    /\ IsInjective(signers)

\* settle of the market
Settle(result) ==
    /\ ~terminal
    /\ now >= AVAILABLE
    /\ terminal' = TRUE
    /\ outcome' = IF oneSided THEN "VOID" ELSE result

\* A list of more signatures than THRESHOLD is accepted only if its first
\* THRESHOLD are, to the same effect.
SubmitResolution(e) ==
    /\ now < DEADLINE
    /\ e.tx \notin consumed
    /\ \E signers \in [1 .. THRESHOLD -> SignersOf(e)] : AllValidSigners(signers)
    /\ consumed' = consumed \cup {e.tx}
    /\ Settle(e.outcome)
    /\ UNCHANGED <<now, resolverVars, watcherVars, oneSided>>

\* Mutant: expiry does not wait for the deadline.
ExpireToVoid_Early ==
    /\ ~terminal /\ now >= AVAILABLE
    /\ terminal' = TRUE /\ outcome' = "VOID"
    /\ UNCHANGED <<now, resolverVars, watcherVars, consumed, oneSided>>

ExpireToVoid ==
    /\ ~terminal
    /\ now >= DEADLINE
    /\ terminal' = TRUE
    /\ outcome' = "VOID"
    /\ UNCHANGED <<now, resolverVars, watcherVars, consumed, oneSided>>

Tick ==
    /\ now < MaxTime
    /\ now' = now + 1
    /\ UNCHANGED <<resolverVars, watcherVars, marketVars>>

Next ==
    \/ \E t \in Txs, a \in Attempts : Send(t, a)
    \/ \E t \in Txs, candidate \in Results : Resolve(t, candidate)
    \/ \E t \in Txs : Revert(t) \/ Finalize(t)
    \/ Overturn
    \/ \E w \in Honest, e \in Envelopes : CheckTransaction(w, e)
    \/ \E w \in Honest : Attest(w)
    \/ \E e \in Envelopes : SubmitResolution(e)
    \/ ExpireToVoid
    \/ Tick

Spec == Init /\ [][Next]_vars

\* Time passes, and ExpireToVoid is open to anybody with an interest in the
\* market.  Nothing else is owed: no transaction, watcher or submitter.
FairSpec == Spec /\ WF_vars(Tick) /\ WF_vars(ExpireToVoid)

-----------------------------------------------------------------------------
(***************************************************************************)
(* A market that is decided YES or NO is decided as the resolver's         *)
(* finalized record says; one decided VOID has that verdict there, or has  *)
(* stake on one side only, or has passed its deadline.  Faulty watchers    *)
(* below the threshold, overturned results, failed transactions and        *)
(* replayed envelopes make no difference.                                  *)
(***************************************************************************)
OutcomeIsTheVerdict ==
    terminal => outcome \in Verdicts /\
        \/ \E a \in Attempts : final[a] = outcome
        \/ outcome = "VOID" /\ (oneSided \/ now >= DEADLINE)

(***************************************************************************)
(* The finalized record is a run of UNRESOLVED attempts that ends at the   *)
(* first verdict: attempts are neither skipped nor taken after the answer, *)
(* whatever order transactions are sent, overturned and finalized in.      *)
(***************************************************************************)
VerdictEndsTheRecord == Sequential(final)

(***************************************************************************)
(* Honest watchers never sign two outcomes for one attempt, nor an outcome *)
(* that is later replaced: what they have signed stays the resolver's      *)
(* finalized answer.                                                       *)
(***************************************************************************)
SignaturesStayTrue ==
    \A s \in signatures : final[s.envelope.attempt] = s.envelope.outcome

(***************************************************************************)
(* The machinery implements MarketDecision, with the verdict of the        *)
(* resolver being the one in its finalized record.                         *)
(***************************************************************************)
Verdict ==
    IF Resolved(final)
    THEN final[CHOOSE a \in Attempts : final[a] \in Verdicts]
    ELSE NONE

Decision == INSTANCE MarketDecision WITH
    Undecided <- NONE, verdict <- Verdict, decision <- outcome,
    oneSided <- oneSided, expired <- (now >= DEADLINE)

ImplementsDecision == Decision!Spec
=============================================================================
