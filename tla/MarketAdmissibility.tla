-------------------------- MODULE MarketAdmissibility --------------------------
(* The contract that judges a proposal's terms                                *)
(* (contracts/genlayer/market_admissibility.py).  A leader asks its model,     *)
(* each validator asks its own and compares; consensus keeps the leader's      *)
(* answer when most agree and otherwise has another leader ask.  Anyone may    *)
(* have a proposal assessed again, and the last answer is the one kept.        *)
EXTENDS Naturals, FiniteSets, Sequences

CONSTANTS
    Proposals,
    Manifests,   \* what may be sent: each a record of what _precheck asks of it
    Validators,
    Codes,       \* issue codes a model may name
    MaxCalls     \* bound on calls of assess

DECISIONS == {"APPROVED", "NEEDS_REVISION", "REJECTED"}

(* A well-formed answer: a decision and a list of issue codes, in any          *)
(* combination; a model may also answer what _json_value refuses.             *)
Lists == {<<>>} \cup {<<c>> : c \in Codes} \cup {<<c, d>> : c, d \in Codes}
Answers == [decision : DECISIONS, issue_codes : Lists]
Garbage == [decision |-> "garbage", issue_codes |-> <<>>]

VARIABLES
    assessments, \* per proposal, the answers kept: none or one
    asked,       \* ghost: what each validator answered for it
    round,       \* the call under way: its proposal, manifest and leader's answer
    calls
vars == <<assessments, asked, round, calls>>

Idle == [at |-> "idle"]

TypeOK ==
    /\ \A p \in Proposals : assessments[p] \subseteq Answers /\ Cardinality(assessments[p]) <= 1
    /\ round.at \in {"idle", "leading", "voting"}
    /\ calls \in 0 .. MaxCalls

Init ==
    /\ assessments = [p \in Proposals |-> {}]
    /\ asked = [p \in Proposals |-> [v \in Validators |-> Garbage]]
    /\ round = Idle
    /\ calls = 0

(* The fields, the chains, the sources of MULTI_SOURCE, the times and the      *)
(* hash; the 96 hours to the deadline are 4 units of time.                     *)
Precheck(m) ==
    /\ m.complete /\ m.chains /\ m.bound
    /\ m.profile = "MULTI_SOURCE" => m.sources >= 2 /\ m.corroborating >= 2
    /\ m.close <= m.available /\ m.deadline = m.available + 4
    /\ m.hashed

Assess(p, m) ==
    /\ round = Idle /\ calls < MaxCalls
    /\ Precheck(m)
    /\ round' = [at |-> "leading", proposal |-> p, manifest |-> m]
    /\ calls' = calls + 1
    /\ UNCHANGED <<assessments, asked>>

(* independent(): a leader that fails is voted down like one that is wrong.    *)
Lead(answer) ==
    /\ round.at = "leading"
    /\ round' = [at |-> "voting", proposal |-> round.proposal, manifest |-> round.manifest,
                 leader |-> answer]
    /\ UNCHANGED <<assessments, asked, calls>>

\* Mutant: a refusal without a reason is compared like one with a reason.
Validate_Bare(leader, own) ==
    /\ leader \in Answers /\ own \in Answers
    /\ own.decision = leader.decision
    /\ IF leader.decision = "APPROVED" THEN own.issue_codes = <<>> /\ leader.issue_codes = <<>>
       ELSE leader.issue_codes = <<>> \/ own.issue_codes[1] = leader.issue_codes[1]

(* A validator's own failure, an empty list of its own included, is a no.      *)
Validate(leader, own) ==
    /\ leader \in Answers /\ own \in Answers
    /\ own.decision = leader.decision
    /\ IF leader.decision = "APPROVED" THEN own.issue_codes = <<>> /\ leader.issue_codes = <<>>
       ELSE /\ leader.issue_codes /= <<>> /\ own.issue_codes /= <<>>
            /\ own.issue_codes[1] = leader.issue_codes[1]

Majority(vs) == 2 * Cardinality(vs) > Cardinality(Validators)

Vote(own) ==
    /\ round.at = "voting"
    /\ IF Majority({v \in Validators : Validate(round.leader, own[v])})
       THEN /\ assessments' = [assessments EXCEPT ![round.proposal] = {round.leader}]
            /\ asked' = [asked EXCEPT ![round.proposal] = own]
            /\ round' = Idle
       ELSE /\ round' = [at |-> "leading", proposal |-> round.proposal,
                         manifest |-> round.manifest]
            /\ UNCHANGED <<assessments, asked>>
    /\ UNCHANGED calls

(* Consensus gives up after its rounds of leaders: UNDETERMINED.              *)
GiveUp ==
    /\ round.at = "leading"
    /\ round' = Idle
    /\ UNCHANGED <<assessments, asked, calls>>

Next ==
    \/ \E p \in Proposals, m \in Manifests : Assess(p, m)
    \/ \E answer \in Answers \cup {Garbage} : Lead(answer)
    \/ \E own \in [Validators -> Answers \cup {Garbage}] : Vote(own)
    \/ GiveUp

----------------------------------------------------------------------------
First(codes) == IF codes = <<>> THEN {} ELSE {Head(codes)}

(* What is kept is decisive: an approval names no issue and most validators    *)
(* found none, anything else names first what most validators named first.     *)
AssessmentIsDecisive ==
    \A p \in Proposals : \A kept \in assessments[p] :
        /\ kept.decision = "APPROVED" <=> kept.issue_codes = <<>>
        /\ Majority({v \in Validators : asked[p][v].decision = kept.decision
                        /\ First(asked[p][v].issue_codes) = First(kept.issue_codes)})

(* An approval is not taken back: what a second call of assess can break.      *)
ApprovalStands ==
    [][\A p \in Proposals : \A kept \in assessments[p] :
          kept.decision = "APPROVED" => assessments'[p] = assessments[p]]_vars
=============================================================================
