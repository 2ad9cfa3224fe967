-------------------------- MODULE ResolutionProofs --------------------------
(***************************************************************************)
(* Resolution, for any watcher set with fewer faulty watchers than the     *)
(* threshold, any number of transactions and attempts, and any times: what *)
(* honest watchers sign stays the finalized answer of the resolver, its    *)
(* record ends at the verdict, and the market is decided accordingly.      *)
(***************************************************************************)
EXTENDS Resolution, FiniteSetTheorems, TLAPS

USE OffsetAssumption, TimeAssumption

(* Of THRESHOLD different watchers, one is honest.                         *)
LEMMA QuorumHasHonest ==
    ASSUME NEW S, NEW signers \in [1 .. THRESHOLD -> S], AllValidSigners(signers)
    PROVE  \E i \in 1 .. THRESHOLD : signers[i] \in Honest
<1> USE QuorumAssumption
<1> SUFFICES ASSUME \A i \in 1 .. THRESHOLD : signers[i] \notin Honest PROVE FALSE
  OBVIOUS
<1>1. signers \in [1 .. THRESHOLD -> Faulty]
  BY DEF AllValidSigners, Watchers
<1>2. signers \in Injection(1 .. THRESHOLD, Faulty)
  BY <1>1 DEF AllValidSigners, Injection
<1>3. Cardinality(1 .. THRESHOLD) <= Cardinality(Faulty)
  BY <1>2, FS_Injection
<1>4. Cardinality(Faulty) \in Nat
  BY FS_CardinalityType
<1>5. Cardinality(1 .. THRESHOLD) = THRESHOLD
  BY <1>4, FS_Interval
<1>6. QED BY <1>3, <1>4, <1>5

-----------------------------------------------------------------------------
(***************************************************************************)
(* The accepted record runs ahead of the finalized one by the successful   *)
(* transactions that are accepted and not yet finalized, one per attempt.  *)
(***************************************************************************)
InFlight(t) == tx[t].phase = "accepted" /\ Successful(t)

FinalIsAccepted == \A a \in Attempts : final[a] # NONE => accepted[a] = final[a]

InFlightRecords ==
    \A t \in Txs : InFlight(t) =>
        /\ accepted[tx[t].attempt] = tx[t].result
        /\ final[tx[t].attempt] = NONE

OneInFlightPerAttempt ==
    \A t, u \in Txs : InFlight(t) /\ InFlight(u) /\ t # u => tx[t].attempt # tx[u].attempt

RecordInv ==
    /\ FinalIsAccepted
    /\ InFlightRecords
    /\ OneInFlightPerAttempt
    /\ Sequential(accepted)
    /\ VerdictEndsTheRecord

IInv ==
    /\ TypeOK
    /\ RecordInv
    /\ SignaturesStayTrue
    /\ OutcomeIsTheVerdict

LEMMA InitIInv == Init => IInv
<1> SUFFICES ASSUME Init PROVE IInv
  OBVIOUS
<1> USE DEF Init
<1>1. TypeOK
  <2>1. tx \in [Txs -> TxStates] /\ accepted \in Records /\ final \in Records
    <3>1. 0 \in Attempts
      BY DEF Attempts
    <3>2. QED BY <3>1 DEF TxStates, Phases, Records, NoRecord
  <2>2. terminal \in BOOLEAN /\ outcome \in Verdicts \cup {NONE} /\ oneSided \in BOOLEAN
    OBVIOUS
  <2>3. now \in 0 .. MaxTime /\ checked \in [Honest -> {Unchecked} \cup {Checked(e) : e \in Envelopes}]
    OBVIOUS
  <2>4. QED BY <2>1, <2>2, <2>3 DEF TypeOK
<1>2. RecordInv
  <2>1. \A a \in Attempts : accepted[a] = NONE /\ final[a] = NONE
    BY DEF NoRecord
  <2>2. \A t \in Txs : ~InFlight(t)
    BY DEF InFlight
  <2>3. QED BY <2>1, <2>2 DEF RecordInv, FinalIsAccepted, InFlightRecords,
                OneInFlightPerAttempt, Sequential, VerdictEndsTheRecord
<1>3. SignaturesStayTrue /\ OutcomeIsTheVerdict
  BY DEF SignaturesStayTrue, OutcomeIsTheVerdict
<1>4. QED BY <1>1, <1>2, <1>3 DEF IInv

(* A recorded outcome is a result.                                         *)
LEMMA RecordedIsResult ==
    ASSUME NEW a \in Attempts, NEW candidate \in Results
    PROVE  RecordedOutcome(a, candidate) \in Results
BY DEF RecordedOutcome, Results, Verdicts

LEMMA TypeStep == TypeOK /\ [Next]_vars => TypeOK'
<1> SUFFICES ASSUME TypeOK, [Next]_vars PROVE TypeOK'
  OBVIOUS
<1> USE DEF TypeOK
<1>1. ASSUME NEW t \in Txs, NEW a \in Attempts, Send(t, a) PROVE TypeOK'
  BY <1>1 DEF Send, Pending, TxStates, Phases, watcherVars, marketVars
<1>2. ASSUME NEW t \in Txs, NEW c \in Results, Resolve(t, c) PROVE TypeOK'
  <2> DEFINE r == RecordedOutcome(tx[t].attempt, c)
  <2>1. tx[t].attempt \in Attempts /\ r \in Results
    BY RecordedIsResult DEF TxStates
  <2>2. /\ tx' = [tx EXCEPT ![t] = [phase |-> "accepted", attempt |-> tx[t].attempt, result |-> r]]
        /\ accepted' = [accepted EXCEPT ![tx[t].attempt] = r]
    BY <1>2 DEF Resolve, Executed
  <2> HIDE DEF r
  <2>3. tx' \in [Txs -> TxStates] /\ accepted' \in Records
    BY <2>1, <2>2 DEF TxStates, Phases, Records
  <2>4. QED BY <1>2, <2>3 DEF Resolve, watcherVars, marketVars
<1>3. ASSUME NEW t \in Txs, Revert(t) PROVE TypeOK'
  BY <1>3 DEF Revert, Executed, TxStates, Phases, watcherVars, marketVars
<1>4. ASSUME NEW t \in Txs, Finalize(t) PROVE TypeOK'
  BY <1>4 DEF Finalize, TxStates, Phases, Records, Successful, watcherVars, marketVars
<1>5. ASSUME Overturn PROVE TypeOK'
  BY <1>5 DEF Overturn, Pending, TxStates, Phases, watcherVars, marketVars
<1>6. ASSUME NEW w \in Honest, NEW e \in Envelopes, CheckTransaction(w, e) PROVE TypeOK'
  BY <1>6 DEF CheckTransaction, resolverVars, marketVars
<1>7. ASSUME NEW w \in Honest, Attest(w) PROVE TypeOK'
  <2>1. PICK e \in Envelopes : checked[w] = Checked(e)
    BY <1>7 DEF Attest
  <2>2. checked[w].envelope = e
    BY <2>1 DEF Checked
  <2>3. signatures' \subseteq [signer : Honest, envelope : Envelopes]
    BY <1>7, <2>2 DEF Attest
  <2>4. QED BY <1>7, <2>3 DEF Attest, resolverVars, marketVars
<1>8. ASSUME NEW e \in Envelopes, SubmitResolution(e) PROVE TypeOK'
  BY <1>8 DEF SubmitResolution, Settle, Envelopes, Verdicts, resolverVars, watcherVars
<1>9. ASSUME ExpireToVoid PROVE TypeOK'
  BY <1>9 DEF ExpireToVoid, Verdicts, resolverVars, watcherVars
<1>10. ASSUME Tick PROVE TypeOK'
  BY <1>10 DEF Tick, resolverVars, watcherVars, marketVars
<1>11. ASSUME UNCHANGED vars PROVE TypeOK'
  BY <1>11 DEF vars, resolverVars, watcherVars, marketVars
<1>12. QED
  BY <1>1, <1>2, <1>3, <1>4, <1>5, <1>6, <1>7, <1>8, <1>9, <1>10, <1>11 DEF Next

(***************************************************************************)
(* Steps that leave the transactions and both records alone.               *)
(***************************************************************************)
LEMMA RecordsUntouched ==
    ASSUME RecordInv, UNCHANGED resolverVars
    PROVE  RecordInv'
BY DEF RecordInv, FinalIsAccepted, InFlightRecords, OneInFlightPerAttempt, InFlight,
       Successful, Sequential, VerdictEndsTheRecord, resolverVars

(* An accepted result is new, in sequence, and the only one of its attempt. *)
LEMMA ResolveStep ==
    ASSUME TypeOK, RecordInv, NEW t \in Txs, NEW c \in Results, Resolve(t, c)
    PROVE  RecordInv'
<1> DEFINE a == tx[t].attempt
           r == RecordedOutcome(a, c)
<1>1. a \in Attempts /\ r \in Results
  BY RecordedIsResult DEF TypeOK, TxStates
<1>2. /\ tx' = [tx EXCEPT ![t] = [phase |-> "accepted", attempt |-> a, result |-> r]]
      /\ accepted' = [accepted EXCEPT ![a] = r]
      /\ final' = final
      /\ tx[t].phase = "pending"
      /\ accepted[a] = NONE
      /\ \A previous \in 0 .. a - 1 : accepted[previous] = "UNRESOLVED"
  BY DEF Resolve, Executed, MayResolve
<1>3. tx \in [Txs -> TxStates] /\ accepted \in [Attempts -> Results \cup {NONE}]
  BY DEF TypeOK, Records
<1> HIDE DEF r
<1>4. /\ \A u \in Txs \ {t} : tx'[u] = tx[u]
      /\ tx'[t].attempt = a /\ tx'[t].result = r
      /\ \A b \in Attempts \ {a} : accepted'[b] = accepted[b]
      /\ accepted'[a] = r
      /\ r # NONE
  BY <1>1, <1>2, <1>3 DEF Results, Verdicts, NONE
<1>5. \A u \in Txs \ {t} : InFlight(u)' => InFlight(u)
  BY <1>4 DEF InFlight, Successful
<1>6. \A u \in Txs \ {t} : InFlight(u)' => tx[u].attempt \in Attempts /\ tx[u].attempt # a
  <2>1. \A u \in Txs : InFlight(u) => accepted[tx[u].attempt] \in Results
    BY DEF RecordInv, InFlightRecords, InFlight, Successful
  <2>2. QED BY <1>2, <1>3, <1>5, <2>1 DEF TxStates, Results, Verdicts, NONE
<1>7. final[a] = NONE
  BY <1>1, <1>2 DEF RecordInv, FinalIsAccepted
<1>8. FinalIsAccepted'
  BY <1>2, <1>4, <1>7 DEF RecordInv, FinalIsAccepted
<1>9. InFlightRecords'
  BY <1>2, <1>4, <1>5, <1>6, <1>7 DEF RecordInv, InFlightRecords
<1>10. OneInFlightPerAttempt'
  BY <1>4, <1>5, <1>6 DEF RecordInv, OneInFlightPerAttempt
<1>11. Sequential(accepted)'
  <2>1. \A b \in Attempts : b > a => accepted[b] = NONE
    <3>1. SUFFICES ASSUME NEW b \in Attempts, b > a, accepted[b] # NONE PROVE FALSE
      OBVIOUS
    <3>2. a \in 0 .. b - 1
      BY <1>1, <3>1 DEF Attempts
    <3>3. accepted[a] = "UNRESOLVED"
      BY <3>1, <3>2 DEF RecordInv, Sequential
    <3>4. QED BY <1>2, <3>3 DEF NONE
  <2>2. SUFFICES ASSUME NEW b \in Attempts, accepted'[b] # NONE, NEW p \in 0 .. b - 1
                 PROVE  accepted'[p] = "UNRESOLVED"
    BY DEF Sequential
  <2>3. b <= a
    <3>1. ASSUME b > a PROVE FALSE
      <4>1. accepted[b] = NONE
        BY <2>1, <2>2, <3>1
      <4>2. b \in Attempts \ {a}
        BY <1>1, <2>2, <3>1 DEF Attempts
      <4>3. QED BY <1>4, <2>2, <4>1, <4>2
    <3>2. QED BY <1>1, <2>2, <3>1 DEF Attempts
  <2>4. p \in Attempts /\ p # a
    BY <1>1, <2>3 DEF Attempts
  <2>5. CASE b = a
    BY <1>2, <1>4, <2>4, <2>5
  <2>6. CASE b # a
    BY <1>4, <2>2, <2>4, <2>6 DEF RecordInv, Sequential
  <2>7. QED BY <2>5, <2>6
<1>12. VerdictEndsTheRecord'
  BY <1>2 DEF RecordInv, VerdictEndsTheRecord, Sequential
<1>13. QED BY <1>8, <1>9, <1>10, <1>11, <1>12 DEF RecordInv

(* Finalizing a transaction copies its result to an attempt whose          *)
(* predecessors are finalized and UNRESOLVED.                              *)
LEMMA FinalizeStep ==
    ASSUME TypeOK, RecordInv, NEW t \in Txs, Finalize(t)
    PROVE  /\ RecordInv'
           /\ \A a \in Attempts : final[a] # NONE => final'[a] = final[a]
<1>1. /\ tx \in [Txs -> TxStates] /\ final \in [Attempts -> Results \cup {NONE}]
      /\ accepted' = accepted
  BY DEF TypeOK, Records, Finalize
<1>2. /\ tx' = [tx EXCEPT ![t].phase = "finalized"]
      /\ tx[t].phase = "accepted"
  BY DEF Finalize
<1>3. /\ \A u \in Txs : tx'[u].attempt = tx[u].attempt /\ tx'[u].result = tx[u].result
      /\ \A u \in Txs \ {t} : tx'[u] = tx[u]
      /\ tx'[t].phase = "finalized"
  BY <1>1, <1>2 DEF TxStates
<1>4. ~InFlight(t)' /\ \A u \in Txs \ {t} : InFlight(u)' <=> InFlight(u)
  BY <1>3 DEF InFlight, Successful
<1>5. CASE ~Successful(t)
  <2>1. final' = final
    BY <1>5 DEF Finalize
  <2>2. QED BY <1>1, <1>3, <1>4, <2>1 DEF RecordInv, FinalIsAccepted, InFlightRecords,
               OneInFlightPerAttempt, Sequential, VerdictEndsTheRecord
<1>6. CASE Successful(t)
  <2> DEFINE a == tx[t].attempt
             r == tx[t].result
  <2>1. a \in Attempts /\ InFlight(t) /\ accepted[a] = r /\ final[a] = NONE /\ r # NONE
    BY <1>1, <1>2, <1>6 DEF TxStates, InFlight, RecordInv, InFlightRecords, Successful,
       Results, Verdicts, NONE
  <2>2. final' = [final EXCEPT ![a] = r]
    BY <1>6 DEF Finalize
  <2>3. final'[a] = r /\ \A b \in Attempts \ {a} : final'[b] = final[b]
    BY <1>1, <2>1, <2>2
  <2>4. FinalIsAccepted'
    BY <1>1, <2>1, <2>3 DEF RecordInv, FinalIsAccepted
  <2>5. InFlightRecords'
    <3>1. SUFFICES ASSUME NEW u \in Txs, InFlight(u)'
                   PROVE  /\ accepted[tx[u].attempt] = tx[u].result
                          /\ final'[tx[u].attempt] = NONE
      BY <1>1, <1>3 DEF InFlightRecords
    <3>2. u # t /\ InFlight(u)
      BY <1>4, <3>1
    <3>3. tx[u].attempt \in Attempts \ {a}
      BY <1>1, <2>1, <3>2 DEF RecordInv, OneInFlightPerAttempt, TxStates
    <3>4. QED BY <2>3, <3>2, <3>3 DEF RecordInv, InFlightRecords
  <2>6. OneInFlightPerAttempt'
    BY <1>3, <1>4 DEF RecordInv, OneInFlightPerAttempt
  <2>7. Sequential(accepted)'
    BY <1>1 DEF RecordInv, Sequential
  <2>8. VerdictEndsTheRecord'
    <3>1. \A b \in Attempts : b > a => final[b] = NONE
      <4>1. SUFFICES ASSUME NEW b \in Attempts, b > a, final[b] # NONE PROVE FALSE
        OBVIOUS
      <4>2. a \in 0 .. b - 1
        BY <2>1, <4>1 DEF Attempts
      <4>3. final[a] = "UNRESOLVED"
        BY <4>1, <4>2 DEF RecordInv, VerdictEndsTheRecord, Sequential
      <4>4. QED BY <2>1, <4>3 DEF NONE
    <3>2. SUFFICES ASSUME NEW b \in Attempts, final'[b] # NONE, NEW p \in 0 .. b - 1
                   PROVE  final'[p] = "UNRESOLVED"
      BY DEF VerdictEndsTheRecord, Sequential
    <3>3. p \in Attempts /\ p < b
      BY DEF Attempts
    <3>4. CASE b = a
      <4>0. p \in 0 .. tx[t].attempt - 1
        BY <3>2, <3>4
      <4>1. final[p] # NONE
        BY <1>6, <4>0 DEF Finalize
      <4>2. accepted[p] = final[p] /\ accepted[p] = "UNRESOLVED"
        BY <2>1, <3>3, <3>4, <4>1 DEF RecordInv, FinalIsAccepted, Sequential
      <4>3. p # a
        BY <2>1, <3>3, <3>4 DEF Attempts
      <4>4. QED BY <2>3, <3>3, <4>2, <4>3
    <3>5. CASE b # a
      <4>1. final[b] # NONE
        BY <2>3, <3>2, <3>5
      <4>2. p # a
        BY <2>1, <3>1, <3>3, <4>1
      <4>3. QED BY <2>3, <3>3, <4>1, <4>2 DEF RecordInv, VerdictEndsTheRecord, Sequential
    <3>6. QED BY <3>4, <3>5
  <2>9. \A b \in Attempts : final[b] # NONE => final'[b] = final[b]
    BY <2>1, <2>3
  <2>10. QED BY <2>4, <2>5, <2>6, <2>7, <2>8, <2>9 DEF RecordInv
<1>7. QED BY <1>5, <1>6

(* The remaining steps of transactions put none in flight.                 *)
LEMMA SendStep ==
    ASSUME TypeOK, RecordInv, NEW t \in Txs, NEW a \in Attempts, Send(t, a)
    PROVE  RecordInv'
<1>1. \A u \in Txs : InFlight(u)' => InFlight(u) /\ tx'[u] = tx[u]
  BY DEF Send, Pending, InFlight, Successful, TypeOK
<1>2. accepted' = accepted /\ final' = final
  BY DEF Send
<1>3. QED BY <1>1, <1>2 DEF RecordInv, FinalIsAccepted, InFlightRecords,
             OneInFlightPerAttempt, Sequential, VerdictEndsTheRecord

LEMMA RevertStep ==
    ASSUME TypeOK, RecordInv, NEW t \in Txs, Revert(t)
    PROVE  RecordInv'
<1>1. \A u \in Txs : InFlight(u)' => InFlight(u) /\ tx'[u] = tx[u]
  BY DEF Revert, Executed, InFlight, Successful, TypeOK, Results, Verdicts, REVERTED
<1>2. accepted' = accepted /\ final' = final
  BY DEF Revert
<1>3. QED BY <1>1, <1>2 DEF RecordInv, FinalIsAccepted, InFlightRecords,
             OneInFlightPerAttempt, Sequential, VerdictEndsTheRecord

(* An appeal returns the accepted record to the finalized one.             *)
LEMMA OverturnStep ==
    ASSUME TypeOK, RecordInv, Overturn
    PROVE  RecordInv'
<1>1. \A u \in Txs : ~InFlight(u)'
  BY DEF Overturn, Pending, InFlight, TypeOK
<1>2. accepted' = final /\ final' = final
  BY DEF Overturn
<1>3. QED BY <1>1, <1>2 DEF RecordInv, FinalIsAccepted, InFlightRecords,
             OneInFlightPerAttempt, Sequential, VerdictEndsTheRecord

-----------------------------------------------------------------------------
LEMMA RecordStep ==
    IInv /\ [Next]_vars =>
        /\ RecordInv'
        /\ \A a \in Attempts : final[a] # NONE => final'[a] = final[a]
<1> SUFFICES ASSUME IInv, [Next]_vars
             PROVE  /\ RecordInv'
                    /\ \A a \in Attempts : final[a] # NONE => final'[a] = final[a]
  OBVIOUS
<1>0. TypeOK /\ RecordInv
  BY DEF IInv
<1>1. ASSUME NEW t \in Txs, NEW a \in Attempts, Send(t, a) PROVE RecordInv' /\ final' = final
  BY <1>0, <1>1, SendStep DEF Send
<1>2. ASSUME NEW t \in Txs, NEW c \in Results, Resolve(t, c) PROVE RecordInv' /\ final' = final
  BY <1>0, <1>2, ResolveStep DEF Resolve
<1>3. ASSUME NEW t \in Txs, Revert(t) PROVE RecordInv' /\ final' = final
  BY <1>0, <1>3, RevertStep DEF Revert
<1>4. CASE Overturn
  BY <1>0, <1>4, OverturnStep DEF Overturn
<1>5. CASE \E t \in Txs : Finalize(t)
  BY <1>0, <1>5, FinalizeStep
<1>6. CASE UNCHANGED resolverVars
  BY <1>0, <1>6, RecordsUntouched DEF resolverVars
<1>7. ASSUME NEW w \in Honest, Attest(w) \/ \E e \in Envelopes : CheckTransaction(w, e)
      PROVE  UNCHANGED resolverVars
  BY <1>7 DEF Attest, CheckTransaction
<1>8. ASSUME (\E e \in Envelopes : SubmitResolution(e)) \/ ExpireToVoid \/ Tick \/ UNCHANGED vars
      PROVE  UNCHANGED resolverVars
  BY <1>8 DEF SubmitResolution, ExpireToVoid, Tick, vars
<1>9. QED BY <1>1, <1>2, <1>3, <1>4, <1>5, <1>6, <1>7, <1>8 DEF Next

(* What has been signed is finalized, and finalized attempts do not change. *)
LEMMA SignaturesStep == IInv /\ [Next]_vars => SignaturesStayTrue'
<1> SUFFICES ASSUME IInv, [Next]_vars PROVE SignaturesStayTrue'
  OBVIOUS
<1> USE DEF IInv
<1>1. \A s \in signatures : final'[s.envelope.attempt] = s.envelope.outcome
  <2>1. \A s \in signatures : s.envelope \in Envelopes
    BY DEF TypeOK
  <2>2. \A s \in signatures : s.envelope.attempt \in Attempts /\ s.envelope.outcome # NONE
    BY <2>1 DEF Envelopes, Verdicts, NONE
  <2>3. QED BY <2>2, RecordStep DEF SignaturesStayTrue
<1>2. CASE signatures' = signatures
  BY <1>1, <1>2 DEF SignaturesStayTrue
<1>3. CASE \E w \in Honest : Attest(w)
  <2>1. PICK w \in Honest : Attest(w)
    BY <1>3
  <2>2. PICK e \in Envelopes : checked[w] = Checked(e)
    BY <2>1 DEF Attest, TypeOK
  <2>3. checked[w].envelope = e
    BY <2>2 DEF Checked
  <2>4. \A s \in signatures' : s \in signatures \/ (s.envelope = e /\ final[e.attempt] = e.outcome)
    BY <2>1, <2>3 DEF Attest
  <2>5. final' = final
    BY <2>1 DEF Attest, resolverVars
  <2>6. QED BY <1>1, <2>4, <2>5 DEF SignaturesStayTrue
<1>4. signatures' = signatures \/ \E w \in Honest : Attest(w)
  BY DEF Next, vars, watcherVars, Send, Resolve, Revert, Finalize, Overturn, CheckTransaction,
         SubmitResolution, ExpireToVoid, Tick
<1>5. QED BY <1>2, <1>3, <1>4

(* A quorum contains an honest signature, hence the finalized answer.      *)
LEMMA OutcomeStep == IInv /\ [Next]_vars => OutcomeIsTheVerdict'
<1> DEFINE Justified ==
             \/ \E a \in Attempts : final[a] = outcome
             \/ outcome = "VOID" /\ (oneSided \/ now >= DEADLINE)
<1> SUFFICES ASSUME IInv, [Next]_vars, terminal' PROVE outcome' \in Verdicts /\ Justified'
  BY DEF OutcomeIsTheVerdict
<1> USE DEF IInv
<1>1. ASSUME NEW e \in Envelopes, SubmitResolution(e) PROVE outcome' \in Verdicts /\ Justified'
  <2>1. PICK signers \in [1 .. THRESHOLD -> SignersOf(e)] : AllValidSigners(signers)
    BY <1>1 DEF SubmitResolution
  <2>2. PICK i \in 1 .. THRESHOLD : signers[i] \in Honest
    BY <2>1, QuorumHasHonest
  <2>3. [signer |-> signers[i], envelope |-> e] \in signatures
    BY <2>1, <2>2, QuorumAssumption DEF SignersOf, Watchers
  <2>4. final[e.attempt] = e.outcome /\ e.attempt \in Attempts /\ e.outcome \in Verdicts
    BY <2>3 DEF SignaturesStayTrue, Envelopes
  <2>5. final' = final /\ oneSided' = oneSided
    BY <1>1 DEF SubmitResolution, resolverVars
  <2>6. outcome' = IF oneSided THEN "VOID" ELSE e.outcome
    BY <1>1 DEF SubmitResolution, Settle
  <2>7. CASE oneSided
    BY <2>5, <2>6, <2>7 DEF Verdicts
  <2>8. CASE ~oneSided
    BY <2>4, <2>5, <2>6, <2>8
  <2>9. QED BY <2>7, <2>8
<1>2. CASE ExpireToVoid
  BY <1>2 DEF ExpireToVoid, Verdicts
<1>3. CASE UNCHANGED <<terminal, outcome, oneSided>> /\ (now' = now \/ now' = now + 1)
  <2>1. outcome \in Verdicts /\ Justified
    BY <1>3 DEF OutcomeIsTheVerdict
  <2>2. ASSUME NEW a \in Attempts, final[a] = outcome PROVE Justified'
    <3>1. final[a] # NONE
      BY <2>1, <2>2 DEF Verdicts, NONE
    <3>2. final'[a] = outcome'
      BY <1>3, <2>2, <3>1, RecordStep
    <3>3. QED BY <3>2
  <2>3. ASSUME outcome = "VOID", oneSided PROVE Justified'
    BY <1>3, <2>3
  <2>4. ASSUME outcome = "VOID", now >= DEADLINE PROVE Justified'
    <3>1. now \in Nat
      BY DEF TypeOK
    <3>2. now' >= DEADLINE
      BY <1>3, <2>4, <3>1
    <3>3. QED BY <1>3, <2>4, <3>2
  <2>5. QED BY <1>3, <2>1, <2>2, <2>3, <2>4
<1>4. \/ \E e \in Envelopes : SubmitResolution(e)
      \/ ExpireToVoid
      \/ UNCHANGED <<terminal, outcome, oneSided>> /\ (now' = now \/ now' = now + 1)
  BY DEF Next, vars, marketVars, Send, Resolve, Revert, Finalize, Overturn, CheckTransaction,
         Attest, Tick
<1>5. QED BY <1>1, <1>2, <1>3, <1>4

LEMMA InductiveInvariant == Spec => []IInv
<1>1. IInv /\ [Next]_vars => IInv'
  BY TypeStep, RecordStep, SignaturesStep, OutcomeStep DEF IInv
<1>2. QED BY <1>1, InitIInv, PTL DEF Spec

-----------------------------------------------------------------------------
(***************************************************************************)
(* The variables of the resolution path stay in their types.               *)
(***************************************************************************)
THEOREM ResolutionTypeCorrect == Spec => []TypeOK
BY InductiveInvariant, PTL DEF IInv

(***************************************************************************)
(* A market is decided as its resolver's finalized record says, or VOID    *)
(* for one-sided stake or a passed deadline (ResolutionGateway's quorum    *)
(* over what the watchers attest).                                         *)
(***************************************************************************)
THEOREM DecidedAsResolved == Spec => []OutcomeIsTheVerdict
BY InductiveInvariant, PTL DEF IInv

(***************************************************************************)
(* An honest watcher's signature is never contradicted by the finalized    *)
(* state of the resolver, then or later.                                   *)
(***************************************************************************)
THEOREM AttestationsStayTrue == Spec => []SignaturesStayTrue
BY InductiveInvariant, PTL DEF IInv

(***************************************************************************)
(* The finalized attempts of a resolver are UNRESOLVED up to the verdict,  *)
(* and nothing follows it.                                                 *)
(***************************************************************************)
THEOREM RecordEndsAtVerdict == Spec => []VerdictEndsTheRecord
BY InductiveInvariant, PTL DEF IInv, RecordInv

-----------------------------------------------------------------------------
(***************************************************************************)
(* The refinement of MarketDecision.  The verdict is a CHOOSE over the     *)
(* finalized record; a record has one attempt with a verdict at most, so   *)
(* that finalizing another attempt never changes it.                       *)
(***************************************************************************)
DecisionIsMarked == terminal <=> outcome # NONE

DInv == IInv /\ DecisionIsMarked

(* A decided market has an outcome, an open one none.                      *)
LEMMA DecisionIsMarkedAlways == Spec => []DInv
<1>1. Init => DecisionIsMarked
  BY DEF Init, DecisionIsMarked
<1>2. IInv /\ DecisionIsMarked /\ [Next]_vars => DecisionIsMarked'
  <2> SUFFICES ASSUME IInv, DecisionIsMarked, [Next]_vars PROVE DecisionIsMarked'
    OBVIOUS
  <2>1. ASSUME NEW e \in Envelopes, SubmitResolution(e) PROVE DecisionIsMarked'
    BY <2>1 DEF SubmitResolution, Settle, Envelopes, Verdicts, NONE, DecisionIsMarked
  <2>2. CASE ExpireToVoid
    BY <2>2 DEF ExpireToVoid, NONE, DecisionIsMarked
  <2>3. \/ \E e \in Envelopes : SubmitResolution(e)
        \/ ExpireToVoid
        \/ UNCHANGED <<terminal, outcome>>
    BY DEF Next, vars, marketVars, Send, Resolve, Revert, Finalize, Overturn, CheckTransaction,
           Attest, Tick
  <2>4. QED BY <2>1, <2>2, <2>3 DEF DecisionIsMarked
<1>3. QED BY <1>1, <1>2, InductiveInvariant, PTL DEF Spec, DInv

(* A verdict in a sequential record is the record's verdict.               *)
LEMMA VerdictIsUnique ==
    ASSUME NEW record, Sequential(record), NEW a \in Attempts, record[a] \in Verdicts
    PROVE  /\ Resolved(record)
           /\ record[CHOOSE b \in Attempts : record[b] \in Verdicts] = record[a]
<1> DEFINE b == CHOOSE c \in Attempts : record[c] \in Verdicts
<1>1. b \in Attempts /\ record[b] \in Verdicts
  OBVIOUS
<1> HIDE DEF b
<1>2. ASSUME NEW x \in Attempts, NEW y \in Attempts, record[x] \in Verdicts, record[y] \in Verdicts
      PROVE  ~(x < y)
  <2>1. SUFFICES ASSUME x < y PROVE FALSE
    OBVIOUS
  <2>2. x \in 0 .. y - 1
    BY <2>1 DEF Attempts
  <2>3. record[x] = "UNRESOLVED"
    BY <1>2, <2>2 DEF Sequential, Verdicts, NONE
  <2>4. QED BY <1>2, <2>3 DEF Verdicts
<1>3. ~(a < b) /\ ~(b < a)
  BY <1>1, <1>2
<1>4. a = b
  BY <1>1, <1>3 DEF Attempts
<1>5. QED BY <1>4 DEF Resolved, b

(* What a step does to the verdict: nothing, or it makes the first one.    *)
LEMMA VerdictStep ==
    ASSUME DInv, [Next]_vars
    PROVE  Verdict' = Verdict \/ (Verdict = NONE /\ Verdict' \in {"YES", "NO", "VOID"})
<1>1. /\ Sequential(final) /\ Sequential(final')
      /\ \A a \in Attempts : final[a] # NONE => final'[a] = final[a]
  BY RecordStep DEF DInv, IInv, RecordInv, VerdictEndsTheRecord
<1>2. CASE Resolved(final)
  <2>1. PICK a \in Attempts : final[a] \in Verdicts
    BY <1>2 DEF Resolved
  <2>2. final'[a] = final[a]
    BY <1>1, <2>1 DEF Verdicts, NONE
  <2>3. /\ Resolved(final')
        /\ final'[CHOOSE b \in Attempts : final'[b] \in Verdicts] = final[a]
        /\ final[CHOOSE b \in Attempts : final[b] \in Verdicts] = final[a]
    BY <1>1, <2>1, <2>2, VerdictIsUnique
  <2>4. QED BY <1>2, <2>3 DEF Verdict
<1>3. CASE ~Resolved(final)
  <2>1. Verdict = NONE
    BY <1>3 DEF Verdict
  <2>2. CASE ~Resolved(final')
    BY <2>1, <2>2 DEF Verdict
  <2>3. CASE Resolved(final')
    <3>1. PICK a \in Attempts : final'[a] \in Verdicts
      BY <2>3 DEF Resolved
    <3>2. Verdict' = final'[a]
      BY <1>1, <2>3, <3>1, VerdictIsUnique DEF Verdict
    <3>3. QED BY <2>1, <3>1, <3>2 DEF Verdicts
  <2>4. QED BY <2>2, <2>3
<1>4. QED BY <1>2, <1>3

(* The record and with it the verdict change in Finalize only.             *)
LEMMA VerdictKept ==
    ASSUME final' = final
    PROVE  Verdict' = Verdict
BY DEF Verdict, Resolved

(* Every step of the machinery is a step of MarketDecision or none.        *)
LEMMA DecisionStep == DInv /\ [Next]_vars => [Decision!Next]_(Decision!decisionVars)
<1> SUFFICES ASSUME DInv, [Next]_vars PROVE [Decision!Next]_(Decision!decisionVars)
  OBVIOUS
<1> USE DEF Decision!decisionVars, Decision!Next
<1>1. ASSUME NEW e \in Envelopes, SubmitResolution(e) PROVE Decision!Settle
  <2>1. PICK signers \in [1 .. THRESHOLD -> SignersOf(e)] : AllValidSigners(signers)
    BY <1>1 DEF SubmitResolution
  <2>2. PICK i \in 1 .. THRESHOLD : signers[i] \in Honest
    BY <2>1, QuorumHasHonest
  <2>3. [signer |-> signers[i], envelope |-> e] \in signatures
    BY <2>1, <2>2, QuorumAssumption DEF SignersOf, Watchers
  <2>4. final[e.attempt] = e.outcome /\ e.attempt \in Attempts /\ e.outcome \in Verdicts
    BY <2>3 DEF DInv, IInv, SignaturesStayTrue, Envelopes
  <2>5. Verdict = e.outcome
    BY <2>4, VerdictIsUnique DEF Verdict, DInv, IInv, RecordInv, VerdictEndsTheRecord
  <2>6. Verdict' = Verdict
    BY <1>1, VerdictKept DEF SubmitResolution, resolverVars
  <2>7. /\ ~terminal /\ now < DEADLINE /\ now' = now /\ oneSided' = oneSided
        /\ outcome' = IF oneSided THEN "VOID" ELSE e.outcome
    BY <1>1 DEF SubmitResolution, Settle
  <2>8. outcome = NONE /\ Verdict # NONE
    BY <2>4, <2>5, <2>7 DEF DInv, DecisionIsMarked, Verdicts, NONE
  <2>9. ~(now >= DEADLINE)
    BY <2>7 DEF DInv, IInv, TypeOK
  <2>10. QED BY <2>5, <2>6, <2>7, <2>8, <2>9 DEF Decision!Settle
<1>2. CASE ExpireToVoid
  <2>1. Verdict' = Verdict
    BY <1>2, VerdictKept DEF ExpireToVoid, resolverVars
  <2>2. outcome = NONE
    BY <1>2 DEF ExpireToVoid, DInv, DecisionIsMarked
  <2>3. QED BY <1>2, <2>1, <2>2 DEF ExpireToVoid, Decision!Expire
<1>3. CASE Tick
  <2>1. Verdict' = Verdict
    BY <1>3, VerdictKept DEF Tick, resolverVars
  <2>2. outcome' = outcome /\ oneSided' = oneSided /\ now' = now + 1
    BY <1>3 DEF Tick, marketVars
  <2>3. now \in Nat
    BY DEF DInv, IInv, TypeOK
  <2>4. (now' >= DEADLINE) = (now >= DEADLINE) \/ (~(now >= DEADLINE) /\ (now' >= DEADLINE) = TRUE)
    BY <2>2, <2>3
  <2>5. QED BY <2>1, <2>2, <2>4 DEF Decision!PassDeadline
<1>4. CASE UNCHANGED <<now, outcome, oneSided>>
  <2>1. CASE Verdict' = Verdict
    BY <1>4, <2>1
  <2>2. CASE Verdict = NONE /\ Verdict' \in {"YES", "NO", "VOID"}
    BY <1>4, <2>2 DEF Decision!Decide
  <2>3. QED BY <2>1, <2>2, VerdictStep
<1>5. \/ \E e \in Envelopes : SubmitResolution(e)
      \/ ExpireToVoid
      \/ Tick
      \/ UNCHANGED <<now, outcome, oneSided>>
  BY DEF Next, vars, marketVars, Send, Resolve, Revert, Finalize, Overturn, CheckTransaction, Attest
<1>6. QED BY <1>1, <1>2, <1>3, <1>4, <1>5

(***************************************************************************)
(* The path from the resolver contract over watchers and gateway to the    *)
(* market implements MarketDecision, but for its fairness: whatever is     *)
(* overturned, replayed or signed by faulty watchers, there is one verdict *)
(* at most, and the market takes one decision, which is that verdict if it *)
(* is taken before the deadline and has stake on both sides.               *)
(***************************************************************************)
THEOREM DecisionIsImplemented == Spec => Decision!SafeSpec
<1>1. Init => Decision!Init
  <2> SUFFICES ASSUME Init PROVE Decision!Init
    OBVIOUS
  <2>1. ~Resolved(final)
    BY DEF Init, Resolved, NoRecord, Verdicts, NONE
  <2>2. Verdict = NONE
    BY <2>1 DEF Verdict
  <2>3. ~(now >= DEADLINE)
    BY DEF Init
  <2>4. QED BY <2>2, <2>3 DEF Init, Decision!Init
<1>2. QED BY <1>1, DecisionStep, DecisionIsMarkedAlways, PTL DEF Spec, Decision!SafeSpec
=============================================================================
