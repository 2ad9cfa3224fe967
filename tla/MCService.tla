------------------------------ MODULE MCService ------------------------------
(* What stands around the contracts and workflows, part by part: the scripts  *)
(* that provision, run and settle a market, the admissibility contract that   *)
(* is asked first, the quote library the provider's loss hangs on, the admin  *)
(* page of the Arc application; and of the web application and the API worker *)
(* that links, submissions and status pages come right (what they may never   *)
(* do is MCApplications').  A behaviour is one part's, and the others rest.   *)
EXTENDS Integers, FiniteSets, TLC

CONSTANTS
    Scripts, RunDeaths, MaxSends,                         \* ConnectedRun
    MaxStops, MaxHashes,                                  \* ConnectedResolver
    Drafts, Validators, Codes, MaxCalls,                  \* MarketAdmissibility
    ONE, USDC_TO_UD, LOG2_E, LN_2, B, MaxShares, Lots,    \* LmsrQuotes
    Fixtures, Sources, MaxSets, MaxFactories, MaxEnds,    \* Provisioning
    Items, Buttons, q1, q2,                               \* AdminPanels
    Contracts, MaxFees, MaxMoves,                         \* and its treasury tab
    NoOne, Users, Wallets, Calls, MaxLinks,               \* WalletIdentity
    Presses, Recoveries, Bond, Isolates                   \* ProposalSubmission
CONSTANTS alice, bob, c1, c2, c3, p1, r1, r2

ASSUME ScriptsAssumption ==
    /\ Scripts \subseteq {"lmsr", "pool", "settle-lmsr", "settle-pool"}
    /\ RunDeaths \in Nat /\ MaxSends \in Nat /\ MaxStops \in Nat /\ MaxHashes \in Nat
    /\ MaxEnds \in Nat /\ MaxSets \in Nat /\ MaxFactories \in Nat
    /\ Fixtures \subseteq {"pool", "lmsr", "lmsr-current"}
ASSUME ContractAssumption == IsFiniteSet(Validators) /\ MaxCalls \in Nat
ASSUME PanelsAssumption ==
    Buttons \cap {"review", "dispute", "backfill"} = {}

Good == [complete |-> TRUE, chains |-> TRUE, bound |-> TRUE, profile |-> "MULTI_SOURCE",
         sources |-> 2, corroborating |-> 2, close |-> 1, available |-> 1, deadline |-> 5,
         hashed |-> TRUE]
Manifests == {Good, [Good EXCEPT !.sources = 1], [Good EXCEPT !.deadline = 6]}
Caller == (c1 :> alice) @@ (c2 :> alice) @@ (c3 :> bob)
Owner == (p1 :> alice) @@ (r1 :> alice) @@ (r2 :> bob)

VARIABLE acting  \* the part that is at work

VARIABLES script, txs, baseChain, lagging, file, run, kills, unsaved
runVars == <<script, txs, baseChain, lagging, file, run, kills, unsaved>>

VARIABLES sent, child, recorded, recordFile, process, stops, back
resolverVars == <<sent, child, recorded, recordFile, process, stops, back>>

VARIABLES assessments, asked, round, calls
contractVars == <<assessments, asked, round, calls>>

VARIABLES qYes, qNo, collected
quoteVars == <<qYes, qNo, collected>>

VARIABLES setup, circle, env, recovery, code, factories, manifest, identity, prepared, ends, lost
circleVars == <<circle, env, recovery>>
factoryVars == <<code, factories, manifest, lost>>
fixtureVars == <<identity, prepared>>

VARIABLES open, listed, busy, report, request
panelVars == <<open, listed, busy, report, request>>

VARIABLES contracts, treasury, moves, tab, sweeps, sweepTxs
treasuryVars == <<contracts, treasury, moves, tab, sweeps, sweepTxs>>

VARIABLES linked, walletRow, call, fresh, links
identityVars == <<linked, walletRow, call, fresh, links>>

VARIABLES press, tx, bondAllowance, named, post, rows, pending, jobs
submissionVars == <<press, tx, bondAllowance, named, post, rows, pending, jobs>>

VARIABLES proposalRow, cache, statusPage, told
statusVars == <<proposalRow, cache, statusPage, told>>

Run == INSTANCE ConnectedRun WITH MaxDeaths <- RunDeaths, chain <- baseChain, deaths <- kills
Resolver == INSTANCE ConnectedResolver WITH file <- recordFile
Contract == INSTANCE MarketAdmissibility WITH Proposals <- Drafts
Quotes == INSTANCE LmsrQuotes
Setup == INSTANCE Provisioning WITH Codes <- Sources, MaxDeaths <- MaxEnds,
                                    run <- setup, deaths <- ends, unsaved <- lost
Panels == INSTANCE AdminPanels WITH Requests <- {q1, q2}, shown <- listed,
                                    Markets <- Contracts, chain <- contracts, txs <- sweepTxs
Identity == INSTANCE WalletIdentity WITH row <- walletRow
Submission == INSTANCE ProposalSubmission 
    WITH BOND <- Bond, page <- press, allowance <- bondAllowance, shown <- told

ASSUME QuotesAssumption ==
    /\ Lots \subseteq Nat /\ MaxShares \in Nat
    /\ \A y, n \in 0 .. MaxShares : Quotes!cost(y, n) \in Int

(* The provisioning scripts share only the operator's terminal: those that    *)
(* Circle serves, the resolver factory's and the fixtures' are apart; so are  *)
(* the admin page's lists and the buttons of its markets' rows.              *)
SetupParts == {"circle", "factory", "fixtures"}
PanelParts == {"rows", "lists"}
Parts ==
    {"run", "resolver", "contract", "quotes", "treasury", "identity", "submission",
     "status"} \cup SetupParts \cup PanelParts

serviceVars ==
    <<acting, runVars, resolverVars, contractVars, quoteVars, setup, circleVars, factoryVars,
      fixtureVars, ends, panelVars, treasuryVars, identityVars, submissionVars, statusVars>>

(* A part that rests has one initial state.                                  *)
ServiceInit ==
    /\ acting \in Parts
    /\ Run!Init /\ Resolver!Init /\ Contract!Init /\ Quotes!Init /\ Setup!Init
    /\ Panels!Init /\ Panels!TreasuryInit /\ Identity!Init /\ Submission!Init
    /\ Submission!StatusInit
    /\ acting = "run" \/ script = CHOOSE s \in Scripts : TRUE
    /\ acting = "status" \/ proposalRow = Submission!NoRow

Works(p) ==
    /\ acting = p /\ UNCHANGED acting
    /\ IF p = "run" THEN TRUE ELSE UNCHANGED runVars
    /\ IF p = "resolver" THEN TRUE ELSE UNCHANGED resolverVars
    /\ IF p = "contract" THEN TRUE ELSE UNCHANGED contractVars
    /\ IF p = "quotes" THEN TRUE ELSE UNCHANGED quoteVars
    /\ IF p \in SetupParts THEN TRUE ELSE UNCHANGED <<setup, ends>>
    /\ IF p = "circle" THEN TRUE ELSE UNCHANGED circleVars
    /\ IF p = "factory" THEN TRUE ELSE UNCHANGED factoryVars
    /\ IF p = "fixtures" THEN TRUE ELSE UNCHANGED fixtureVars
    /\ IF p \in PanelParts THEN TRUE ELSE UNCHANGED panelVars
    /\ IF p = "treasury" THEN TRUE ELSE UNCHANGED treasuryVars
    /\ IF p = "identity" THEN TRUE ELSE UNCHANGED identityVars
    /\ IF p = "submission" THEN TRUE ELSE UNCHANGED submissionVars
    /\ IF p = "status" THEN TRUE ELSE UNCHANGED statusVars

(* The rows' buttons leave the lists alone, and the lists the buttons.       *)
Rows ==
    /\ UNCHANGED <<open, listed>>
    /\ busy'[Panels!Backfill] = busy[Panels!Backfill]
Lists == \A b \in Buttons : busy'[b] = busy[b]

ServiceNext ==
    \/ Works("run") /\ Run!Next
    \/ Works("resolver") /\ Resolver!Next
    \/ Works("contract") /\ Contract!Next
    \/ Works("quotes") /\ Quotes!Next
    \/ \E p \in SetupParts : Works(p) /\ Setup!Next
    \/ Works("rows") /\ Panels!Next /\ Rows
    \/ Works("lists") /\ Panels!Next /\ Lists
    \/ Works("treasury") /\ Panels!TreasuryNext
    \/ Works("identity") /\ Identity!Next
    \/ Works("submission") /\ Submission!Next
    \/ Works("status") /\ Submission!StatusNext

----------------------------------------------------------------------------
Of(u) == {c \in Calls : Caller[c] = u}

(* One part is at work, so that fairness of a disjunction over the parts is   *)
(* fairness of each part's disjunct.  The operator runs a script again until  *)
(* its record says it is done, the chain mines and its nodes catch up.  Users *)
(* come back with every request, and an answer that is tried again and again  *)
(* comes; a user's bond is posted or recovered by the page r1, named by the   *)
(* operator, and accepted in the end; the status page's timer and the         *)
(* reconciler run.                                                           *)
ServiceFairness ==
    /\ WF_serviceVars(\/ Works("run") /\ Run!Mine
                      \/ Works("submission") /\ Submission!Mine(p1)
                      \/ Works("status") /\ Submission!WorkflowWrites)
    /\ WF_serviceVars(\/ Works("run") /\ Run!ReadsCatchUp
                      \/ Works("submission") /\ Submission!Reconcile
                      \/ Works("status") /\ Submission!Timer)
    /\ WF_serviceVars(\/ Works("run") /\ Run!Start
                      \/ Works("submission") /\ Submission!RefuseSubmission(p1))
    /\ WF_serviceVars(\/ Works("run") /\ Run!ScriptStep
                      \/ Works("submission") /\ Submission!RefuseSubmission(r1))
    /\ \A c \in Calls :
         /\ \A w \in Wallets : WF_serviceVars(Works("identity") /\ Identity!Authenticate(c, w))
         /\ WF_serviceVars(Works("identity") /\ Identity!AskTable(c))
    /\ SF_serviceVars(\/ Works("identity") /\ \E c \in Of(alice) : Identity!ReadPrivy(c)
                      \/ Works("submission") /\ Submission!NameRecovery(p1)
                      \/ Works("status") /\ \E i \in Isolates : Submission!Load(i))
    /\ SF_serviceVars(\/ /\ Works("identity")
                         /\ \E c \in Of(alice) : Identity!PersistPrivyWalletIdentity(c)
                      \/ Works("submission") /\ Submission!RecoverTx(r1, p1))
    /\ SF_serviceVars(\/ Works("identity") /\ \E c \in Of(bob) : Identity!ReadPrivy(c)
                      \/ Works("submission") /\ Submission!VerifyBondReceipt(r1))
    /\ SF_serviceVars(\/ /\ Works("identity")
                         /\ \E c \in Of(bob) : Identity!PersistPrivyWalletIdentity(c)
                      \/ Works("submission") /\ Submission!PersistVerifiedProposal(r1))

ServiceSpec == ServiceInit /\ [][ServiceNext]_serviceVars /\ ServiceFairness

----------------------------------------------------------------------------
(* However often scripts are stopped and run again, and buttons pressed: no   *)
(* step on the chain is made twice but one whose hash was lost, no wallet,    *)
(* deployment or fixture, and no panel that stands has two requests.         *)
NothingIsDoneTwice == Run!NothingIsDoneTwice /\ Setup!OneOfEach /\ Panels!ButtonsAreSingle

(* What a finished record, a manifest or a fixture says is so; only a run of  *)
(* an earlier attempt leaves a record that names the later one's transaction. *)
FilesAreRight == Run!DoneIsDone /\ Resolver!RecordNamesItsTransaction /\ Setup!ManifestIsTrue

(* A verdict that is kept is the validators', trades at the quotes have paid  *)
(* what their state costs, and what is swept leaves the winners their reserve. *)
VerdictsAndMoneyAreSound ==
    Contract!AssessmentIsDecisive /\ Quotes!PathsCostTheSame /\ Panels!SweepsSpareTheWinners

(* By the quotes the provider loses no more than b ln 2, and a trader who     *)
(* comes and goes at once wins nothing.                                      *)
QuotesAreSound == acting = "quotes" => Quotes!LossIsBounded /\ Quotes!QuotesAreCoherent

(* Run again often enough a script comes to its end, unless the hash of a      *)
(* withdrawal, a stake or a purchase was lost; a link that lasts is written,  *)
(* a locked bond is recorded and queued, and the status page leaves "running" *)
(* once the workflow has.                                                    *)
WorkComesRight ==
    /\ acting = "run" => Run!RunsComplete
    /\ acting = "identity" => Identity!LinkTakesEffect
    /\ acting = "submission" => Submission!BondsAreRecorded
    /\ acting = "status" => Submission!LeavesRunning
=============================================================================
