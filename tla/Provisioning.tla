----------------------------- MODULE Provisioning -----------------------------
(* The operator's scripts that come before any market: setup-circle.mjs,      *)
(* provision-treasury.mjs and approve-treasury.mjs make the treasury and let  *)
(* the Arc factory spend it, deploy-resolver-factory.mjs deploys the resolver *)
(* factory, prepare-connected-{pool,lmsr}-fixture.mjs fix a market's          *)
(* identity.  Each may end anywhere and is run again; what it leaves are      *)
(* files, the variables the operator copies from its output, and what Circle  *)
(* and GenLayer keep.                                                         *)
EXTENDS Naturals, Sequences, FiniteSets

CONSTANTS
    Fixtures,   \* the fixtures that may be prepared; the LMSR ones have a record file too
    Codes,      \* sources of the resolver factory, one after the other: 1 .. n
    MaxSets,    \* bound on the wallet sets, on the treasury wallets
    MaxFactories,
    MaxDeaths   \* bound on the scripts that end in the middle

None == "none"

VARIABLES
    run,      \* the running script: where it is, what it holds
    circle,   \* Circle: the secret registered, wallet sets, wallets by their key, the approval
    env,      \* the operator's .env: wallet set, treasury wallet
    recovery, \* the recovery file is there
    code,     \* resolver_factory.py as it is now
    factories, \* GenLayer: the deployments, each of its code, with its status
    manifest, \* genlayer-studio-dev.json: pending and canonical deployment, history
    identity, \* per fixture: the market of the fixture file, of the record file
    prepared, \* identities taken so far
    deaths, unsaved
vars == <<run, circle, env, recovery, code, factories, manifest, identity, prepared, deaths, unsaved>>

Off == [pc |-> "off", held |-> 0]

TypeOK ==
    /\ circle.sets \in 0 .. MaxSets /\ circle.approval \in {None, "pending", "complete", "failed"}
    /\ env.set \in 0 .. circle.sets /\ env.wallet \in 0 .. Len(circle.wallets)
    /\ \A f \in 1 .. Len(factories) :
         factories[f].code \in Codes /\ factories[f].status \in {"pending", "success", "failed"}
    /\ {manifest.pending, manifest.canonical} \subseteq 0 .. Len(factories)

Init ==
    /\ run = Off
    /\ circle = [registered |-> FALSE, sets |-> 0, wallets |-> << >>, approval |-> None]
    /\ env = [set |-> 0, wallet |-> 0]
    /\ recovery = FALSE
    /\ code = 1
    /\ factories = << >>
    /\ manifest = [pending |-> 0, canonical |-> 0, history |-> {}]
    /\ identity = [f \in Fixtures |-> [fixture |-> 0, record |-> 0]]
    /\ prepared = 0
    /\ deaths = 0 /\ unsaved = FALSE

Goto(pc, held) == run' = [pc |-> pc, held |-> held]
Stop == run' = Off

----------------------------------------------------------------------------
(* setup-circle: the secret is registered once, Circle gives the recovery     *)
(* file that once; any answer lets the script go on.                         *)
RegisterEntitySecret ==
    /\ run.pc = "off"
    /\ \/ /\ ~recovery /\ ~circle.registered
          /\ circle' = [circle EXCEPT !.registered = TRUE]
          /\ Goto("recovery", 0)
       \/ UNCHANGED circle /\ Goto("walletSet", 0)
    /\ UNCHANGED <<env, recovery, code, factories, manifest, identity, prepared, deaths, unsaved>>

SaveRecoveryFile ==
    /\ run.pc = "recovery"
    /\ recovery' = TRUE
    /\ Goto("walletSet", 0)
    /\ UNCHANGED <<circle, env, code, factories, manifest, identity, prepared, deaths, unsaved>>

(* A random key: every run asks for a wallet set of its own, and takes the    *)
(* first there is when it is refused.                                        *)
CreateWalletSet ==
    /\ run.pc = "walletSet"
    /\ \/ /\ circle.sets < MaxSets
          /\ circle' = [circle EXCEPT !.sets = @ + 1]
          /\ Goto("printSet", circle.sets + 1)
       \/ /\ UNCHANGED circle
          /\ Goto("printSet", IF circle.sets > 0 THEN 1 ELSE 0)
    /\ UNCHANGED <<env, recovery, code, factories, manifest, identity, prepared, deaths, unsaved>>

PasteWalletSet ==
    /\ run.pc = "printSet"
    /\ env' = [env EXCEPT !.set = IF run.held = 0 THEN @ ELSE run.held]
    /\ Stop
    /\ UNCHANGED <<circle, recovery, code, factories, manifest, identity, prepared, deaths, unsaved>>

----------------------------------------------------------------------------
\* Mutant: the key is drawn anew by every run.
CreateTreasury_Random ==
    /\ Len(circle.wallets) < MaxSets
    /\ circle' = [circle EXCEPT !.wallets = Append(@, env.set)]
    /\ Goto("printWallet", Len(circle.wallets) + 1)

(* Circle answers a key it knows with the wallet it made for it, or refuses   *)
(* it because the wallet set has changed.                                    *)
CreateTreasury ==
    IF circle.wallets = << >>
    THEN /\ circle' = [circle EXCEPT !.wallets = Append(@, env.set)]
         /\ Goto("printWallet", 1)
    ELSE /\ UNCHANGED circle
         /\ \/ Goto("printWallet", 1)
            \/ env.set # circle.wallets[1] /\ Stop

ProvisionTreasury ==
    /\ run.pc = "off" /\ env.set # 0
    /\ CreateTreasury
    /\ UNCHANGED <<env, recovery, code, factories, manifest, identity, prepared, deaths, unsaved>>

PasteTreasury ==
    /\ run.pc = "printWallet"
    /\ env' = [env EXCEPT !.wallet = run.held]
    /\ Stop
    /\ UNCHANGED <<circle, recovery, code, factories, manifest, identity, prepared, deaths, unsaved>>

(* approve-treasury: the key hangs on the factory alone, so that Circle       *)
(* answers every later run with the first one's transaction.                 *)
SubmitApproval ==
    /\ run.pc = "off" /\ env.wallet # 0
    /\ circle' = [circle EXCEPT !.approval = IF @ = None THEN "pending" ELSE @]
    /\ Goto("approval", 0)
    /\ UNCHANGED <<env, recovery, code, factories, manifest, identity, prepared, deaths, unsaved>>

ArcConfirms ==
    /\ circle.approval = "pending"
    /\ \E state \in {"complete", "failed"} : circle' = [circle EXCEPT !.approval = state]
    /\ UNCHANGED <<run, env, recovery, code, factories, manifest, identity, prepared, deaths, unsaved>>

(* Confirmed, failed, or two minutes are over.                               *)
PollApproval ==
    /\ run.pc = "approval"
    /\ Stop
    /\ UNCHANGED <<circle, env, recovery, code, factories, manifest, identity, prepared, deaths, unsaved>>

----------------------------------------------------------------------------
(* deploy-resolver-factory: a deployment that is pending is followed, of this *)
(* source only; otherwise one is sent.                                       *)
EditCode ==
    /\ code + 1 \in Codes
    /\ code' = code + 1
    /\ UNCHANGED <<run, circle, env, recovery, factories, manifest, identity, prepared, deaths, unsaved>>

\* Mutant: the deployment that is pending is not looked for.
FollowOrDeploy_Always ==
    /\ Len(factories) < MaxFactories
    /\ factories' = Append(factories, [code |-> code, status |-> "pending"])
    /\ Goto("savePending", Len(factories) + 1)

FollowOrDeploy ==
    IF manifest.pending # 0
    THEN /\ factories[manifest.pending].code = code
         /\ Goto("follow", manifest.pending)
         /\ UNCHANGED factories
    ELSE /\ Len(factories) < MaxFactories
         /\ factories' = Append(factories, [code |-> code, status |-> "pending"])
         /\ Goto("savePending", Len(factories) + 1)

DeployFactory ==
    /\ run.pc = "off"
    /\ FollowOrDeploy
    /\ UNCHANGED <<circle, env, recovery, code, manifest, identity, prepared, deaths, unsaved>>

SavePending ==
    /\ run.pc = "savePending"
    /\ manifest' = [manifest EXCEPT !.pending = run.held]
    /\ Goto("follow", run.held)
    /\ UNCHANGED <<circle, env, recovery, code, factories, identity, prepared, deaths, unsaved>>

GenLayerFinalizes(f) ==
    /\ factories[f].status = "pending"
    /\ \E status \in {"success", "failed"} : factories' = [factories EXCEPT ![f].status = status]
    /\ UNCHANGED <<run, circle, env, recovery, code, manifest, identity, prepared, deaths, unsaved>>

\* Mutant: any finalized deployment is promoted.
Promote_Finalized ==
    IF factories[run.held].status # "pending"
    THEN manifest' = [pending |-> 0, canonical |-> run.held,
                      history |-> manifest.history \cup ({manifest.canonical} \ {0})]
    ELSE UNCHANGED manifest

(* A failed deployment stays the pending one.                                *)
Promote ==
    IF factories[run.held].status = "success"
    THEN manifest' = [pending |-> 0, canonical |-> run.held,
                      history |-> manifest.history \cup ({manifest.canonical} \ {0})]
    ELSE UNCHANGED manifest

FollowDeployment ==
    /\ run.pc = "follow"
    /\ Promote
    /\ Stop
    /\ UNCHANGED <<circle, env, recovery, code, factories, identity, prepared, deaths, unsaved>>

----------------------------------------------------------------------------
(* prepare-connected-*-fixture: an identity that is there is never replaced.  *)
FixIdentity(f) ==
    /\ run.pc = "off"
    /\ identity[f].fixture = 0 /\ identity[f].record = 0
    /\ prepared' = prepared + 1
    /\ identity' = [identity EXCEPT ![f].fixture = prepared']
    /\ UNCHANGED <<circle, env, recovery, code, factories, manifest, deaths, unsaved>>

PreparePool == "pool" \in Fixtures /\ FixIdentity("pool") /\ Stop

PrepareLmsr == "lmsr" \in Fixtures /\ FixIdentity("lmsr") /\ Goto("lmsr", prepared')

(* The same script on a fixture and a record of its own.                     *)
PrepareLmsrCurrent ==
    "lmsr-current" \in Fixtures /\ FixIdentity("lmsr-current") /\ Goto("lmsr-current", prepared')

WriteRecord(f) ==
    /\ run.pc = f
    /\ identity' = [identity EXCEPT ![f].record = run.held]
    /\ Stop
    /\ UNCHANGED <<circle, env, recovery, code, factories, manifest, prepared, deaths, unsaved>>

(* The script goes on by itself.                                             *)
ScriptStep ==
    \/ SaveRecoveryFile \/ CreateWalletSet \/ PasteWalletSet \/ PasteTreasury \/ PollApproval
    \/ SavePending \/ FollowDeployment \/ \E f \in Fixtures : WriteRecord(f)

Die ==
    /\ run.pc # "off" /\ deaths < MaxDeaths
    /\ deaths' = deaths + 1
    /\ unsaved' = (unsaved \/ run.pc = "savePending")
    /\ Stop
    /\ UNCHANGED <<circle, env, recovery, code, factories, manifest, identity, prepared>>

Next ==
    \/ RegisterEntitySecret \/ ProvisionTreasury \/ SubmitApproval \/ DeployFactory
    \/ ScriptStep \/ EditCode \/ ArcConfirms
    \/ \E f \in 1 .. Len(factories) : GenLayerFinalizes(f)
    \/ PreparePool \/ PrepareLmsr \/ PrepareLmsrCurrent
    \/ Die

----------------------------------------------------------------------------
(* However often the scripts end and are run again, there is one treasury     *)
(* wallet, one deployment of the resolver factory in flight (unless the hash  *)
(* of one was lost), and no two fixtures share a market's identity.          *)
OneOfEach ==
    /\ Len(circle.wallets) <= 1
    /\ ~unsaved => Cardinality({f \in 1 .. Len(factories) : factories[f].status = "pending"}) <= 1
    /\ \A f, g \in Fixtures : f # g /\ identity[f].fixture # 0 =>
         identity[f].fixture # identity[g].fixture

(* The manifest names as canonical a deployment that succeeded, forgets none  *)
(* of those it named, and a fixture and its record are of the same market.   *)
ManifestIsTrue ==
    /\ \A f \in manifest.history \cup ({manifest.canonical} \ {0}) : factories[f].status = "success"
    /\ ~unsaved => \A f \in 1 .. Len(factories) :
         \/ f \in {manifest.pending, manifest.canonical} \cup manifest.history
         \/ run.pc = "savePending" /\ run.held = f
    /\ \A f \in Fixtures : identity[f].record # 0 => identity[f].record = identity[f].fixture

(* What approve-treasury's header says, "re-running just sets MAX again", and *)
(* a first approval that failed keeps it from doing.                         *)
ApprovalComes == env.wallet # 0 ~> circle.approval = "complete"

(* "Registers the entity secret + saves the recovery file".                  *)
RecoveryIsKept == circle.registered /\ run.pc = "off" => recovery

(* A deployment that is sent becomes canonical, or gives way to another.     *)
FactoryComes == manifest.pending # 0 ~> manifest.pending = 0
=============================================================================
