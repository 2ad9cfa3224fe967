--------------------------- MODULE MarketResolver ---------------------------
(***************************************************************************)
(* The evidence record of one resolver contract on GenLayer                *)
(* (contracts/genlayer/market_resolver.py): which attempt recorded what.   *)
(* The operators are pure, so that a module can hold one record for the    *)
(* accepted state of the chain and another for the finalized one.          *)
(***************************************************************************)
EXTENDS Integers

CONSTANTS
    Offset,        \* seconds from the resolution time to each evidence attempt
    LastAttempt    \* the attempt after which no evidence becomes VOID (4)

Attempts == 0 .. LastAttempt

ASSUME OffsetAssumption ==
    /\ LastAttempt \in Nat
    /\ Offset \in [Attempts -> Nat]

NONE == "NONE"
Verdicts == {"YES", "NO", "VOID"}
Results == Verdicts \cup {"UNRESOLVED"}
Records == [Attempts -> Results \cup {NONE}]
NoRecord == [a \in Attempts |-> NONE]

\* status = "RESOLVED": the last recorded outcome is a verdict, and since no
\* attempt follows one, that is the same as any recorded outcome being one.
Resolved(record) == \E a \in Attempts : record[a] \in Verdicts

\* Mutant: a verdict does not close the record, and the loop over the previous
\* attempts only asks that each was made.
MayResolve_AfterVerdict(record, attempt, age) ==
    /\ age >= Offset[attempt]
    /\ record[attempt] = NONE
    /\ \A previous \in 0 .. attempt - 1 : record[previous] # NONE

\* The checks resolve makes before it reads any evidence, `age` seconds after
\* the resolution time of the market.
MayResolve(record, attempt, age) ==
    /\ ~Resolved(record)
    /\ age >= Offset[attempt]
    /\ record[attempt] = NONE
    /\ \A previous \in 0 .. attempt - 1 : record[previous] = "UNRESOLVED"

\* The outcome recorded for a candidate the validators agreed on.
RecordedOutcome(attempt, candidate) ==
    IF attempt = LastAttempt /\ candidate = "UNRESOLVED" THEN "VOID" ELSE candidate

\* A run of UNRESOLVED attempts that nothing follows once one has a verdict.
Sequential(record) ==
    \A a \in Attempts : record[a] # NONE =>
        \A previous \in 0 .. a - 1 : record[previous] = "UNRESOLVED"
=============================================================================
