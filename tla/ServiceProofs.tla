---------------------------- MODULE ServiceProofs ----------------------------
(* What stands around the contracts and workflows, proved: the scripts that   *)
(* provision, run and settle a market, however often they are killed and run  *)
(* again; the admissibility contract, for any number of validators and votes; *)
(* the admin page, the treasury tab and the quotes; and the indexer of Base   *)
(* (BaseIndexer), for any number of overlapping jobs, any batch size, any     *)
(* failures and any reorganizations no deeper than the confirmations.         *)
EXTENDS MCService, BaseIndexer, Sequences, FiniteSetTheorems, TLAPS

(* The provisioning scripts (Provisioning).                                  *)

(* A set of which no two elements differ, counted.                           *)
LEMMA AtMostOne ==
    ASSUME NEW S, \A x, y \in S : x = y
    PROVE  IsFiniteSet(S) /\ Cardinality(S) <= 1
<1>1. CASE S = {}
  BY <1>1, FS_EmptySet
<1>2. CASE S # {}
  <2>1. PICK x : x \in S
    BY <1>2
  <2>2. S = {x}
    BY <2>1
  <2>3. IsFiniteSet({x}) /\ Cardinality({x}) = 1
    BY FS_Singleton
  <2>4. QED BY <2>2, <2>3
<1>3. QED BY <1>1, <1>2

Deployment == [code : Nat, status : {"pending", "success", "failed"}]
TreasurySteps == {"off", "recovery", "walletSet", "printSet", "printWallet", "approval"}
FactorySteps == {"savePending", "follow"}
Named == manifest.history \cup ({manifest.canonical} \ {0})
Saving(f) == setup.pc = "savePending" /\ setup.held = f

(* Deployments are named by the manifest or about to be, one that is not      *)
(* final by its pending entry, unless a hash was lost; a fixture's identity   *)
(* is never taken by another, and the record that is being written is its.   *)
SetupInv ==
    /\ setup \in [pc : TreasurySteps \cup FactorySteps \cup Fixtures, held : Nat]
    /\ circle.wallets \in Seq(Nat) /\ Len(circle.wallets) <= 1
    /\ circle \in [registered : BOOLEAN, sets : Nat, wallets : Seq(Nat),
                   approval : {"none", "pending", "complete", "failed"}]
    /\ env \in [set : Nat, wallet : Nat]
    /\ code \in Nat /\ factories \in Seq(Deployment)
    /\ manifest \in [pending : 0 .. Len(factories), canonical : 0 .. Len(factories),
                     history : SUBSET (1 .. Len(factories))]
    /\ \A f \in Named : factories[f].status = "success"
    /\ setup.pc \in FactorySteps => setup.held \in 1 .. Len(factories)
    /\ setup.pc = "savePending" => manifest.pending = 0
    /\ setup.pc = "follow" => setup.held = manifest.pending
    /\ ~lost => \A f \in 1 .. Len(factories) :
         /\ f \in {manifest.pending, manifest.canonical} \cup manifest.history \/ Saving(f)
         /\ factories[f].status = "pending" => f = manifest.pending \/ Saving(f)
    /\ prepared \in Nat /\ identity \in [Fixtures -> [fixture : 0 .. prepared, record : Nat]]
    /\ \A f, g \in Fixtures : f # g /\ identity[f].fixture # 0 =>
         identity[f].fixture # identity[g].fixture
    /\ \A f \in Fixtures : identity[f].record # 0 => identity[f].record = identity[f].fixture
    /\ setup.pc \in Fixtures => setup.held = identity[setup.pc].fixture


LEMMA StepsAreApart ==
    /\ TreasurySteps \cap FactorySteps = {} /\ TreasurySteps \cap Fixtures = {}
    /\ FactorySteps \cap Fixtures = {} /\ "off" \in TreasurySteps
BY ScriptsAssumption DEF TreasurySteps, FactorySteps

LEMMA SetupBegins == Setup!Init => SetupInv
<1> SUFFICES ASSUME Setup!Init PROVE SetupInv
  OBVIOUS
<1>1. /\ setup = [pc |-> "off", held |-> 0]
      /\ circle = [registered |-> FALSE, sets |-> 0, wallets |-> << >>, approval |-> "none"]
      /\ env = [set |-> 0, wallet |-> 0] /\ code = 1 /\ factories = << >>
      /\ manifest = [pending |-> 0, canonical |-> 0, history |-> {}]
      /\ identity = [f \in Fixtures |-> [fixture |-> 0, record |-> 0]]
      /\ prepared = 0
  BY DEF Setup!Init, Setup!Off, Setup!None
<1>2. Named = {}
  BY <1>1 DEF Named
<1>3. QED BY <1>1, <1>2, StepsAreApart DEF SetupInv, TreasurySteps, FactorySteps

(* Circle's scripts.                                                         *)
LEMMA CircleStays ==
    ASSUME SetupInv, setup.pc \in TreasurySteps, setup' \in [pc : TreasurySteps, held : Nat],
           circle' \in [registered : BOOLEAN, sets : Nat, wallets : Seq(Nat),
                        approval : {"none", "pending", "complete", "failed"}],
           Len(circle'.wallets) <= 1, env' \in [set : Nat, wallet : Nat],
           UNCHANGED <<code, factories, manifest, identity, prepared, lost>>
    PROVE  SetupInv'
BY StepsAreApart DEF SetupInv, Named, Saving, FactorySteps

LEMMA CircleScriptsStay ==
    ASSUME SetupInv,
           \/ Setup!RegisterEntitySecret \/ Setup!SaveRecoveryFile \/ Setup!CreateWalletSet
           \/ Setup!PasteWalletSet \/ Setup!ProvisionTreasury \/ Setup!PasteTreasury
           \/ Setup!SubmitApproval \/ Setup!PollApproval
    PROVE  SetupInv'
<1>1. /\ setup.pc \in TreasurySteps
      /\ UNCHANGED <<code, factories, manifest, identity, prepared, lost>>
  BY DEF Setup!RegisterEntitySecret, Setup!SaveRecoveryFile, Setup!CreateWalletSet,
         Setup!PasteWalletSet, Setup!ProvisionTreasury, Setup!PasteTreasury,
         Setup!SubmitApproval, Setup!PollApproval, TreasurySteps
<1>2. /\ setup.held \in Nat /\ env \in [set : Nat, wallet : Nat] /\ Len(circle.wallets) <= 1
      /\ circle \in [registered : BOOLEAN, sets : Nat, wallets : Seq(Nat),
                     approval : {"none", "pending", "complete", "failed"}]
  BY DEF SetupInv
<1>3. setup' \in [pc : TreasurySteps, held : Nat]
  BY <1>2 DEF Setup!RegisterEntitySecret, Setup!SaveRecoveryFile, Setup!CreateWalletSet,
         Setup!PasteWalletSet, Setup!ProvisionTreasury, Setup!CreateTreasury, Setup!PasteTreasury,
         Setup!SubmitApproval, Setup!PollApproval, Setup!Goto, Setup!Stop, Setup!Off, TreasurySteps
<1>4. env' \in [set : Nat, wallet : Nat]
  BY <1>2 DEF Setup!RegisterEntitySecret, Setup!SaveRecoveryFile, Setup!CreateWalletSet,
         Setup!PasteWalletSet, Setup!ProvisionTreasury, Setup!PasteTreasury,
         Setup!SubmitApproval, Setup!PollApproval
<1>5. CASE Setup!ProvisionTreasury
  <2>1. CASE circle.wallets = << >>
    <3>1. circle' = [circle EXCEPT !.wallets = Append(circle.wallets, env.set)]
      BY <1>5, <2>1 DEF Setup!ProvisionTreasury, Setup!CreateTreasury
    <3>2. Append(circle.wallets, env.set) \in Seq(Nat) /\ Len(Append(circle.wallets, env.set)) = 1
      BY <1>2, <2>1
    <3>3. QED BY <1>1, <1>2, <1>3, <1>4, <3>1, <3>2, CircleStays
  <2>2. CASE circle.wallets # << >>
    <3>1. circle' = circle
      BY <1>5, <2>2 DEF Setup!ProvisionTreasury, Setup!CreateTreasury
    <3>2. QED BY <1>1, <1>2, <1>3, <1>4, <3>1, CircleStays
  <2>3. QED BY <2>1, <2>2
<1>6. CASE ~Setup!ProvisionTreasury
  <2>1. \/ circle' = circle
        \/ circle' = [circle EXCEPT !.registered = TRUE]
        \/ circle' = [circle EXCEPT !.sets = circle.sets + 1]
        \/ \E a \in {"none", "pending", "complete", "failed"} : circle' = [circle EXCEPT !.approval = a]
    <3>1. CASE Setup!SubmitApproval
      <4>1. circle' = [circle EXCEPT !.approval = IF circle.approval = "none" THEN "pending"
                                                  ELSE circle.approval]
        BY <3>1 DEF Setup!SubmitApproval, Setup!None
      <4>2. circle.approval \in {"none", "pending", "complete", "failed"}
        BY <1>2
      <4>3. QED BY <4>1, <4>2
    <3>2. CASE ~Setup!SubmitApproval
      BY <1>6, <3>2 DEF Setup!RegisterEntitySecret, Setup!SaveRecoveryFile,
           Setup!CreateWalletSet, Setup!PasteWalletSet, Setup!PasteTreasury, Setup!PollApproval
    <3>3. QED BY <3>1, <3>2
  <2>2. /\ circle' \in [registered : BOOLEAN, sets : Nat, wallets : Seq(Nat),
                        approval : {"none", "pending", "complete", "failed"}]
        /\ circle'.wallets = circle.wallets
    <3>1. CASE circle' = circle
      BY <1>2, <3>1
    <3>2. CASE circle' = [circle EXCEPT !.registered = TRUE]
      BY <1>2, <3>2
    <3>3. CASE circle' = [circle EXCEPT !.sets = circle.sets + 1]
      BY <1>2, <3>3
    <3>4. ASSUME NEW a \in {"none", "pending", "complete", "failed"},
                 circle' = [circle EXCEPT !.approval = a]
          PROVE  /\ circle' \in [registered : BOOLEAN, sets : Nat, wallets : Seq(Nat),
                                  approval : {"none", "pending", "complete", "failed"}]
                 /\ circle'.wallets = circle.wallets
      BY <1>2, <3>4
    <3>5. QED BY <2>1, <3>1, <3>2, <3>3, <3>4
  <2>3. QED BY <1>1, <1>2, <1>3, <1>4, <2>2, CircleStays
<1>7. QED BY <1>5, <1>6

(* deploy-resolver-factory: what it leaves alone.                            *)
LEMMA FactoryStays ==
    ASSUME SetupInv, UNCHANGED <<circle, env, identity, prepared>>,
           setup' \in [pc : {"off"} \cup FactorySteps, held : Nat],
           code' \in Nat, factories' \in Seq(Deployment),
           manifest' \in [pending : 0 .. Len(factories'), canonical : 0 .. Len(factories'),
                          history : SUBSET (1 .. Len(factories'))],
           \A f \in Named' : factories'[f].status = "success",
           setup'.pc \in FactorySteps => setup'.held \in 1 .. Len(factories'),
           setup'.pc = "savePending" => manifest'.pending = 0,
           setup'.pc = "follow" => setup'.held = manifest'.pending,
           ~lost' => \A f \in 1 .. Len(factories') :
             /\ f \in {manifest'.pending, manifest'.canonical} \cup manifest'.history \/ Saving(f)'
             /\ factories'[f].status = "pending" => f = manifest'.pending \/ Saving(f)'
    PROVE  SetupInv'
BY StepsAreApart DEF SetupInv

LEMMA DeployStays == SetupInv /\ Setup!DeployFactory => SetupInv'
<1> SUFFICES ASSUME SetupInv, Setup!DeployFactory PROVE SetupInv'
  OBVIOUS
<1>1. /\ UNCHANGED <<circle, env, identity, prepared, code, manifest, lost>>
      /\ setup.pc = "off" /\ Setup!FollowOrDeploy
  BY DEF Setup!DeployFactory
<1>2. /\ code \in Nat /\ factories \in Seq(Deployment) /\ Len(factories) \in Nat
      /\ manifest \in [pending : 0 .. Len(factories), canonical : 0 .. Len(factories),
                        history : SUBSET (1 .. Len(factories))]
      /\ \A f \in Named : factories[f].status = "success"
      /\ ~lost => \A f \in 1 .. Len(factories) :
           /\ f \in {manifest.pending, manifest.canonical} \cup manifest.history
           /\ factories[f].status = "pending" => f = manifest.pending
  BY <1>1 DEF SetupInv, Saving
<1>3. Named' = Named
  BY <1>1 DEF Named
<1>4. CASE manifest.pending # 0
  <2>1. factories' = factories /\ setup' = [pc |-> "follow", held |-> manifest.pending]
    BY <1>1, <1>4 DEF Setup!FollowOrDeploy, Setup!Goto
  <2>2. QED BY <1>1, <1>2, <1>3, <1>4, <2>1, FactoryStays DEF FactorySteps, Saving
<1>5. CASE manifest.pending = 0
  <2> DEFINE f0 == Len(factories) + 1
             new == [code |-> code, status |-> "pending"]
  <2>1. factories' = Append(factories, new) /\ setup' = [pc |-> "savePending", held |-> f0]
    BY <1>1, <1>5 DEF Setup!FollowOrDeploy, Setup!Goto
  <2>2. new \in Deployment
    BY <1>2 DEF Deployment
  <2>3. factories' \in Seq(Deployment) /\ Len(factories') = f0
        /\ \A f \in 1 .. Len(factories) : factories'[f] = factories[f]
    BY <1>2, <2>1, <2>2
  <2>4. manifest \in [pending : 0 .. f0, canonical : 0 .. f0, history : SUBSET (1 .. f0)]
    BY <1>2
  <2>5. Named \subseteq 1 .. Len(factories)
    BY <1>2 DEF Named
  <2>6. \A f \in Named' : factories'[f].status = "success"
    BY <1>2, <1>3, <2>3, <2>5
  <2>7. ASSUME ~lost', NEW f \in 1 .. Len(factories')
        PROVE  /\ f \in {manifest'.pending, manifest'.canonical} \cup manifest'.history \/ Saving(f)'
               /\ factories'[f].status = "pending" => f = manifest'.pending \/ Saving(f)'
    <3>1. CASE f = f0
      BY <2>1, <3>1 DEF Saving
    <3>2. CASE f \in 1 .. Len(factories)
      BY <1>1, <1>2, <2>3, <2>7, <3>2
    <3>3. QED BY <1>2, <2>3, <2>7, <3>1, <3>2
  <2>8. /\ setup' \in [pc : {"off"} \cup FactorySteps, held : Nat] /\ code' \in Nat
        /\ setup'.pc \in FactorySteps => setup'.held \in 1 .. Len(factories')
        /\ setup'.pc = "savePending" => manifest'.pending = 0
        /\ setup'.pc = "follow" => setup'.held = manifest'.pending
    BY <1>1, <1>2, <1>5, <2>1, <2>3 DEF FactorySteps
  <2>9. /\ UNCHANGED <<circle, env, identity, prepared>>
        /\ manifest' \in [pending : 0 .. Len(factories'), canonical : 0 .. Len(factories'),
                          history : SUBSET (1 .. Len(factories'))]
    BY <1>1, <2>3, <2>4
  <2>10. QED BY <2>3, <2>6, <2>7, <2>8, <2>9, FactoryStays
<1>6. QED BY <1>4, <1>5

LEMMA SavePendingStays == SetupInv /\ Setup!SavePending => SetupInv'
<1> SUFFICES ASSUME SetupInv, Setup!SavePending PROVE SetupInv'
  OBVIOUS
<1>1. /\ UNCHANGED <<circle, env, identity, prepared, code, factories, lost>>
      /\ setup.pc = "savePending" /\ setup' = [pc |-> "follow", held |-> setup.held]
      /\ manifest' = [manifest EXCEPT !.pending = setup.held]
  BY DEF Setup!SavePending, Setup!Goto
<1>2. setup.held \in 1 .. Len(factories) /\ manifest.pending = 0
      /\ manifest \in [pending : 0 .. Len(factories), canonical : 0 .. Len(factories),
                        history : SUBSET (1 .. Len(factories))]
      /\ Len(factories) \in Nat
  BY <1>1 DEF SetupInv, FactorySteps
<1>3. manifest' \in [pending : 0 .. Len(factories), canonical : 0 .. Len(factories),
                     history : SUBSET (1 .. Len(factories))]
      /\ manifest'.pending = setup.held /\ manifest'.canonical = manifest.canonical
      /\ manifest'.history = manifest.history
  BY <1>1, <1>2
<1>4. Named' = Named
  BY <1>3 DEF Named
<1>5. ~lost => \A f \in 1 .. Len(factories) :
             /\ f \in {manifest'.pending, manifest'.canonical} \cup manifest'.history
             /\ factories[f].status = "pending" => f = manifest'.pending
  BY <1>1, <1>2, <1>3 DEF SetupInv, Saving
<1>6. code \in Nat /\ factories \in Seq(Deployment) /\ \A f \in Named : factories[f].status = "success"
  BY DEF SetupInv
<1>7. QED BY <1>1, <1>2, <1>3, <1>4, <1>5, <1>6, FactoryStays DEF FactorySteps

(* A deployment that is final is as it was.                                  *)
LEMMA FinalizeStays ==
    ASSUME SetupInv, NEW g \in 1 .. Len(factories), Setup!GenLayerFinalizes(g)
    PROVE  SetupInv'
<1>1. PICK status \in {"success", "failed"} : factories' = [factories EXCEPT ![g].status = status]
  BY DEF Setup!GenLayerFinalizes
<1>2. /\ factories[g].status = "pending"
      /\ UNCHANGED <<setup, circle, env, code, manifest, identity, prepared, lost>>
  BY DEF Setup!GenLayerFinalizes
<1>3. factories \in Seq(Deployment) /\ factories[g] \in Deployment
  BY DEF SetupInv
<1>4. /\ factories' \in Seq(Deployment) /\ Len(factories') = Len(factories)
      /\ \A f \in 1 .. Len(factories) : f # g => factories'[f] = factories[f]
      /\ factories'[g].status = status
  BY <1>1, <1>3 DEF Deployment
<1>5. Named' = Named /\ Named \subseteq 1 .. Len(factories) /\ g \notin Named
  BY <1>2 DEF Named, SetupInv
<1>6. \A f \in Named' : factories'[f].status = "success"
  BY <1>4, <1>5 DEF SetupInv
<1>7. \A f \in 1 .. Len(factories) : factories'[f].status = "pending" => factories[f].status = "pending"
  BY <1>2, <1>4
<1>8. QED BY <1>2, <1>4, <1>6, <1>7 DEF SetupInv, Saving

LEMMA FollowStays == SetupInv /\ Setup!FollowDeployment => SetupInv'
<1> SUFFICES ASSUME SetupInv, Setup!FollowDeployment PROVE SetupInv'
  OBVIOUS
<1>1. /\ UNCHANGED <<circle, env, identity, prepared, code, factories, lost>>
      /\ setup.pc = "follow" /\ setup' = [pc |-> "off", held |-> 0] /\ Setup!Promote
  BY DEF Setup!FollowDeployment, Setup!Stop, Setup!Off
<1>2. /\ setup.held \in 1 .. Len(factories) /\ manifest.pending = setup.held
      /\ manifest \in [pending : 0 .. Len(factories), canonical : 0 .. Len(factories),
                        history : SUBSET (1 .. Len(factories))]
      /\ Len(factories) \in Nat
      /\ code \in Nat /\ factories \in Seq(Deployment)
      /\ \A f \in Named : factories[f].status = "success"
      /\ ~lost => \A f \in 1 .. Len(factories) :
           /\ f \in {manifest.pending, manifest.canonical} \cup manifest.history
           /\ factories[f].status = "pending" => f = manifest.pending
  BY <1>1 DEF SetupInv, Saving, FactorySteps
<1>3. CASE factories[setup.held].status = "success"
  <2>1. manifest' = [pending |-> 0, canonical |-> setup.held, history |-> Named]
    BY <1>1, <1>3 DEF Setup!Promote, Named
  <2>2. Named \subseteq 1 .. Len(factories)
    BY <1>2 DEF Named
  <2>3. manifest' \in [pending : 0 .. Len(factories), canonical : 0 .. Len(factories),
                       history : SUBSET (1 .. Len(factories))]
    BY <1>2, <2>1, <2>2
  <2>4. Named' = Named \cup {setup.held}
    BY <1>2, <2>1 DEF Named
  <2>5. \A f \in Named' : factories[f].status = "success"
    BY <1>2, <1>3, <2>4
  <2>6. ~lost => \A f \in 1 .. Len(factories) :
          /\ f \in {manifest'.pending, manifest'.canonical} \cup manifest'.history
          /\ factories[f].status # "pending"
    BY <1>2, <1>3, <2>1 DEF Named
  <2>7. QED BY <1>1, <1>2, <2>3, <2>5, <2>6, FactoryStays DEF FactorySteps
<1>4. CASE factories[setup.held].status # "success"
  <2>1. manifest' = manifest
    BY <1>1, <1>4 DEF Setup!Promote
  <2>2. Named' = Named
    BY <2>1 DEF Named
  <2>3. QED BY <1>1, <1>2, <2>1, <2>2, FactoryStays DEF FactorySteps
<1>5. QED BY <1>3, <1>4

(* The fixtures: an identity is new, and the record's is the fixture's.      *)
LEMMA FixtureStays ==
    ASSUME SetupInv, UNCHANGED <<circle, env, code, factories, manifest, lost>>,
           setup.pc \notin FactorySteps, setup' \in [pc : {"off"} \cup Fixtures, held : Nat],
           prepared' \in Nat,
           identity' \in [Fixtures -> [fixture : 0 .. prepared', record : Nat]],
           \A f, g \in Fixtures : f # g /\ identity'[f].fixture # 0 =>
             identity'[f].fixture # identity'[g].fixture,
           \A f \in Fixtures : identity'[f].record # 0 => identity'[f].record = identity'[f].fixture,
           setup'.pc \in Fixtures => setup'.held = identity'[setup'.pc].fixture
    PROVE  SetupInv'
<1>1. setup'.pc \notin FactorySteps
  BY StepsAreApart DEF FactorySteps, TreasurySteps
<1>2. Named' = Named
  BY DEF Named
<1>3. setup.pc \notin {"savePending", "follow"} /\ setup'.pc \notin {"savePending", "follow"}
  BY <1>1 DEF FactorySteps
<1>4. QED BY <1>1, <1>2, <1>3, StepsAreApart DEF SetupInv, Saving, TreasurySteps

LEMMA IdentityStays ==
    ASSUME SetupInv, NEW f \in Fixtures, Setup!FixIdentity(f),
           setup' = [pc |-> "off", held |-> 0] \/ setup' = [pc |-> f, held |-> prepared']
    PROVE  SetupInv'
<1>1. /\ setup.pc = "off" /\ identity[f].fixture = 0 /\ identity[f].record = 0
      /\ prepared' = prepared + 1 /\ identity' = [identity EXCEPT ![f].fixture = prepared']
      /\ UNCHANGED <<circle, env, code, factories, manifest, lost>>
  BY DEF Setup!FixIdentity
<1>2. prepared \in Nat /\ identity \in [Fixtures -> [fixture : 0 .. prepared, record : Nat]]
  BY DEF SetupInv
<1>3. \A g \in Fixtures : g # f => identity'[g] = identity[g] /\ identity[g].fixture \in 0 .. prepared
  BY <1>1, <1>2
<1>4. identity'[f] = [fixture |-> prepared + 1, record |-> 0]
  BY <1>1, <1>2
<1>5. identity' \in [Fixtures -> [fixture : 0 .. prepared', record : Nat]]
  BY <1>1, <1>2
<1>6. ASSUME NEW g \in Fixtures, NEW h \in Fixtures, g # h, identity'[g].fixture # 0
      PROVE  identity'[g].fixture # identity'[h].fixture
  <2>1. CASE g = f
    BY <1>2, <1>3, <1>4, <1>6, <2>1
  <2>2. CASE h = f
    BY <1>2, <1>3, <1>4, <1>6, <2>2
  <2>3. CASE g # f /\ h # f
    BY <1>3, <1>6, <2>3 DEF SetupInv
  <2>4. QED BY <2>1, <2>2, <2>3
<1>7. \A g \in Fixtures : identity'[g].record # 0 => identity'[g].record = identity'[g].fixture
  BY <1>3, <1>4 DEF SetupInv
<1>8. setup.pc \notin FactorySteps /\ setup' \in [pc : {"off"} \cup Fixtures, held : Nat]
  BY <1>1, <1>2 DEF FactorySteps
<1>9. setup'.pc \in Fixtures => setup'.held = identity'[setup'.pc].fixture
  BY <1>1, <1>4, StepsAreApart
<1>10. QED BY <1>1, <1>2, <1>5, <1>6, <1>7, <1>8, <1>9, FixtureStays

LEMMA RecordStays ==
    ASSUME SetupInv, NEW f \in Fixtures, Setup!WriteRecord(f)
    PROVE  SetupInv'
<1>1. /\ setup.pc = f /\ identity' = [identity EXCEPT ![f].record = setup.held]
      /\ setup' = [pc |-> "off", held |-> 0]
      /\ UNCHANGED <<circle, env, code, factories, manifest, prepared, lost>>
  BY DEF Setup!WriteRecord, Setup!Stop, Setup!Off
<1>2. /\ prepared \in Nat /\ identity \in [Fixtures -> [fixture : 0 .. prepared, record : Nat]]
      /\ setup.held \in Nat /\ setup.held = identity[f].fixture
  BY <1>1 DEF SetupInv
<1>3. identity' \in [Fixtures -> [fixture : 0 .. prepared, record : Nat]]
  BY <1>1, <1>2
<1>4. \A g \in Fixtures : identity'[g].fixture = identity[g].fixture
        /\ (identity'[g].record = identity[g].record \/ identity'[g].record = identity[g].fixture)
  BY <1>1, <1>2
<1>5. setup.pc \notin FactorySteps /\ setup' \in [pc : {"off"} \cup Fixtures, held : Nat]
  BY <1>1, StepsAreApart
<1>6. setup'.pc \notin Fixtures
  BY <1>1, StepsAreApart
<1>7. /\ \A g, h \in Fixtures : g # h /\ identity[g].fixture # 0 =>
           identity[g].fixture # identity[h].fixture
      /\ \A g \in Fixtures : identity[g].record # 0 => identity[g].record = identity[g].fixture
  BY DEF SetupInv
<1>8. \A g, h \in Fixtures : g # h /\ identity'[g].fixture # 0 =>
           identity'[g].fixture # identity'[h].fixture
  BY <1>4, <1>7
<1>9. \A g \in Fixtures : identity'[g].record # 0 => identity'[g].record = identity'[g].fixture
  BY <1>4, <1>7
<1>10. QED BY <1>1, <1>2, <1>3, <1>5, <1>6, <1>8, <1>9, FixtureStays

LEMMA SetupStays == SetupInv /\ [Setup!Next]_(Setup!vars) => SetupInv'
<1> SUFFICES ASSUME SetupInv, [Setup!Next]_(Setup!vars) PROVE SetupInv'
  OBVIOUS
<1>1. CASE Setup!EditCode
  <2>1. code' = code + 1
        /\ UNCHANGED <<setup, circle, env, factories, manifest, identity, prepared, lost>>
    BY <1>1 DEF Setup!EditCode
  <2>2. QED BY <2>1 DEF SetupInv, Named, Saving
<1>2. CASE Setup!ArcConfirms
  <2>1. PICK outcome \in {"complete", "failed"} : circle' = [circle EXCEPT !.approval = outcome]
    BY <1>2 DEF Setup!ArcConfirms
  <2>2. UNCHANGED <<setup, env, code, factories, manifest, identity, prepared, lost>>
    BY <1>2 DEF Setup!ArcConfirms
  <2>3. circle' \in [registered : BOOLEAN, sets : Nat, wallets : Seq(Nat),
                     approval : {"none", "pending", "complete", "failed"}]
        /\ circle'.wallets = circle.wallets
    BY <2>1 DEF SetupInv
  <2>4. QED BY <2>2, <2>3 DEF SetupInv, Named, Saving
<1>3. CASE Setup!Die
  <2>1. /\ setup' = [pc |-> "off", held |-> 0] /\ lost' = (lost \/ setup.pc = "savePending")
        /\ UNCHANGED <<circle, env, code, factories, manifest, identity, prepared>>
    BY <1>3 DEF Setup!Die, Setup!Stop, Setup!Off
  <2>2. QED BY <2>1, StepsAreApart DEF SetupInv, Named, Saving, FactorySteps
<1>4. CASE UNCHANGED Setup!vars
  BY <1>4 DEF SetupInv, Named, Saving, Setup!vars
<1>5. CASE Setup!PreparePool \/ Setup!PrepareLmsr \/ Setup!PrepareLmsrCurrent
  BY <1>5, IdentityStays DEF Setup!PreparePool, Setup!PrepareLmsr, Setup!PrepareLmsrCurrent,
     Setup!Goto, Setup!Stop, Setup!Off
<1>6. QED BY <1>1, <1>2, <1>3, <1>4, <1>5, CircleScriptsStay, DeployStays, SavePendingStays, FinalizeStays,
             FollowStays, RecordStays DEF Setup!Next, Setup!ScriptStep

LEMMA OneOfEachIsKept == SetupInv => Setup!OneOfEach /\ Setup!ManifestIsTrue
<1> SUFFICES ASSUME SetupInv PROVE Setup!OneOfEach /\ Setup!ManifestIsTrue
  OBVIOUS
<1> DEFINE Waiting == {f \in 1 .. Len(factories) : factories[f].status = "pending"}
<1>1. ~lost => \A f, g \in Waiting : f = g
  <2> SUFFICES ASSUME ~lost, NEW f \in Waiting, NEW g \in Waiting PROVE f = g
    OBVIOUS
  <2>1. /\ f \in 1 .. Len(factories) /\ g \in 1 .. Len(factories)
        /\ factories[f].status = "pending" /\ factories[g].status = "pending"
    OBVIOUS
  <2> HIDE DEF Waiting
  <2>2. (f = manifest.pending \/ Saving(f)) /\ (g = manifest.pending \/ Saving(g))
    BY <2>1 DEF SetupInv
  <2>3. setup.pc = "savePending" => manifest.pending = 0
    BY DEF SetupInv
  <2>4. QED BY <2>1, <2>2, <2>3 DEF Saving
<1>2. ~lost => Setup!Cardinality(Waiting) <= 1
  BY <1>1, AtMostOne DEF Setup!Cardinality, Cardinality
<1>3. Len(circle.wallets) <= 1
      /\ \A f, g \in Fixtures : f # g /\ identity[f].fixture # 0 =>
           identity[f].fixture # identity[g].fixture
  BY DEF SetupInv
<1>4. Setup!OneOfEach
  BY <1>2, <1>3 DEF Setup!OneOfEach
<1>5. Setup!ManifestIsTrue
  BY DEF SetupInv, Named, Saving, Setup!ManifestIsTrue
<1>6. QED BY <1>4, <1>5

----------------------------------------------------------------------------
(* The scripts that run and settle a market (ConnectedRun).                  *)

Base == [created : BOOLEAN, active : BOOLEAN, terminal : BOOLEAN, shares : Nat,
         yes : Nat, no : Nat, vault : Nat, market : Nat]
Transaction == [op : Run!Operations, status : {"pending", "success", "reverted"}, amount : Nat]

Settling == script \in {"settle-lmsr", "settle-pool"}
ScriptOps ==
    CASE script = "lmsr" -> {"create", "approveVault", "contribute", "activate", "approveYes",
                             "buyYes", "approveNo", "buyNo", "sellYes", "sellNo"}
      [] script = "pool" -> {"create", "approveStakes", "stakeYes", "stakeNo"}
      [] script = "settle-lmsr" -> {"settle", "redeem", "withdraw"}
      [] script = "settle-pool" -> {"settle", "claim"}

(* What Base shows of an operation that was executed.                        *)
Shows(o, m) ==
    CASE o = "create" -> m.created
      [] o = "activate" -> m.active
      [] o = "stakeYes" -> m.yes >= 1
      [] o = "stakeNo" -> m.no >= 1
      [] o = "settle" -> m.terminal
      [] o \in {"redeem", "claim"} -> m.yes = 0 /\ m.no = 0
      [] o = "withdraw" -> m.shares = 0
      [] OTHER -> TRUE

(* Where the market n may stand that once was m: what a read that lags says   *)
(* is true of the chain that is ahead of it.                                 *)
Ahead(m, n) ==
    /\ m.created => n.created
    /\ m.active => n.active
    /\ m.terminal => n.terminal
    /\ script = "pool" => m.yes <= n.yes /\ m.no <= n.no
    /\ Settling => n.yes <= m.yes /\ n.no <= m.no /\ n.shares <= m.shares

(* The operations a script does not pass before Base shows them.             *)
Marked == {"activate", "stakeYes", "stakeNo", "settle"}

Process == [at : Nat, phase : {"off", "check", "sent", "wait"}, read : Base]

RunTypes ==
    /\ script \in Scripts
    /\ txs \in Seq(Transaction) /\ baseChain \in Base /\ lagging \in Base
    /\ file \in [hash : [Run!Operations -> Nat], status : {"none", "confirmed"}]
    /\ run \in Process
    /\ run.at <= Len(Run!Plan) + 1 /\ (run.phase # "off" => run.at >= 1)
    /\ run.phase \in {"sent", "wait"} => run.at <= Len(Run!Plan)

(* Two transactions of one guarded operation were executed.                  *)
Twice(i, j, sentOut) ==
    /\ sentOut[i].op = sentOut[j].op /\ sentOut[i].op \in Run!Guarded
    /\ sentOut[i].status = "success" /\ sentOut[j].status = "success"

(* The record names a transaction by its operation, what was executed Base    *)
(* shows, and a script is past what Base shows.  Running a market, a hash is  *)
(* in the record or was lost; of what is guarded Base executes nothing twice. *)
RunInv ==
    /\ RunTypes
    /\ \A i \in 1 .. Len(txs) : txs[i].op \in ScriptOps
         /\ (txs[i].status = "success" => Shows(txs[i].op, baseChain))
    /\ \A o \in Run!Operations : file.hash[o] # 0 =>
         file.hash[o] \in 1 .. Len(txs) /\ txs[file.hash[o]].op = o
    /\ run.phase = "sent" => Len(txs) >= 1 /\ txs[Len(txs)].op = Run!Operation
    /\ run.phase = "sent" /\ ~Settling => file.hash[Run!Operation] = 0
    /\ run.phase = "wait" => file.hash[Run!Operation] # 0
    /\ ~Settling => \A i \in 1 .. Len(txs) :
         i \in unsaved \/ file.hash[txs[i].op] = i \/ (run.phase = "sent" /\ i = Len(txs))
    /\ \A i, j \in 1 .. Len(txs) : Twice(i, j, txs) => i = j
    /\ Ahead(lagging, baseChain) /\ (script = "pool" => Ahead(run.read, baseChain))
    /\ \A k \in 1 .. Len(Run!Plan) :
         k < run.at /\ Run!Plan[k] \in Marked => Shows(Run!Plan[k], baseChain)
    /\ script = "lmsr" /\ baseChain.active => baseChain.shares >= 1
    /\ Run!DoneIsDone

LEMMA ScriptNames == \A s \in Scripts : s \in {"lmsr", "pool", "settle-lmsr", "settle-pool"}
BY ScriptsAssumption

LEMMA PlansAre ==
    ASSUME script \in Scripts
    PROVE  /\ Len(Run!Plan) \in Nat /\ ScriptOps \subseteq Run!Operations
           /\ \A k \in 1 .. Len(Run!Plan) : Run!Plan[k] \in ScriptOps
           /\ script = "lmsr" => 4 \in 1 .. Len(Run!Plan) /\ Run!Plan[4] = "activate"
           /\ script = "pool" => /\ 3 \in 1 .. Len(Run!Plan) /\ Run!Plan[3] = "stakeYes"
                                /\ 4 \in 1 .. Len(Run!Plan) /\ Run!Plan[4] = "stakeNo"
           /\ Settling => 1 \in 1 .. Len(Run!Plan) /\ Run!Plan[1] = "settle"
<1>1. CASE script = "lmsr"
  <2>1. Run!Plan = <<"create", "approveVault", "contribute", "activate", "approveYes", "buyYes",
                     "approveNo", "buyNo", "sellYes", "sellNo">>
    BY <1>1 DEF Run!Plan, Run!LMSRRun
  <2>2. ScriptOps = {"create", "approveVault", "contribute", "activate", "approveYes",
                     "buyYes", "approveNo", "buyNo", "sellYes", "sellNo"}
    BY <1>1 DEF ScriptOps
  <2>3. QED BY <1>1, <2>1, <2>2 DEF Run!Operations, Settling
<1>2. CASE script = "pool"
  <2>1. Run!Plan = <<"create", "approveStakes", "stakeYes", "stakeNo">>
    BY <1>2 DEF Run!Plan, Run!PoolRun
  <2>2. ScriptOps = {"create", "approveStakes", "stakeYes", "stakeNo"}
    BY <1>2 DEF ScriptOps
  <2>3. QED BY <1>2, <2>1, <2>2 DEF Run!Operations, Settling
<1>3. CASE script = "settle-lmsr"
  <2>1. Run!Plan = <<"settle", "redeem", "withdraw">>
    BY <1>3 DEF Run!Plan, Run!LMSRSettle
  <2>2. ScriptOps = {"settle", "redeem", "withdraw"}
    BY <1>3 DEF ScriptOps
  <2>3. QED BY <1>3, <2>1, <2>2 DEF Run!Operations, Settling
<1>4. CASE script = "settle-pool"
  <2>1. Run!Plan = <<"settle", "claim">>
    BY <1>4 DEF Run!Plan, Run!PoolSettle
  <2>2. ScriptOps = {"settle", "claim"}
    BY <1>4 DEF ScriptOps
  <2>3. QED BY <1>4, <2>1, <2>2 DEF Run!Operations, Settling
<1>5. QED BY <1>1, <1>2, <1>3, <1>4, ScriptNames

(* Which script's operations they are.                                       *)
LEMMA OpsAre ==
    ASSUME script \in Scripts, NEW o \in ScriptOps
    PROVE  /\ Settling <=> o \in {"settle", "redeem", "claim", "withdraw"}
           /\ o \in {"stakeYes", "stakeNo", "approveStakes"} => script = "pool"
           /\ script = "pool" => o \in {"create", "approveStakes", "stakeYes", "stakeNo"}
           /\ o \in {"contribute", "activate"} => script = "lmsr"
           /\ Settling => script # "pool" /\ script # "lmsr" /\ o \in Run!Guarded
<1>0. {"settle", "redeem", "claim", "withdraw"} \subseteq Run!Guarded
  BY DEF Run!Guarded
<1>1. CASE script = "lmsr"
  BY <1>1 DEF ScriptOps, Settling
<1>2. CASE script = "pool"
  BY <1>2 DEF ScriptOps, Settling
<1>3. CASE script = "settle-lmsr"
  BY <1>0, <1>3 DEF ScriptOps, Settling
<1>4. CASE script = "settle-pool"
  BY <1>0, <1>4 DEF ScriptOps, Settling
<1>5. QED BY <1>1, <1>2, <1>3, <1>4, ScriptNames

(* What Base shows it goes on showing.                                       *)
LEMMA ShowsLasts ==
    ASSUME script \in Scripts, NEW m \in Base, NEW n \in Base, Ahead(m, n),
           NEW o \in ScriptOps, Shows(o, m)
    PROVE  Shows(o, n)
<1>1. CASE o = "create" \/ o = "activate"
  BY <1>1 DEF Shows, Ahead
<1>2. CASE o = "settle"
  BY <1>2 DEF Shows, Ahead
<1>3. CASE o = "stakeYes" \/ o = "stakeNo"
  BY <1>3, OpsAre DEF Shows, Ahead, Base
<1>4. CASE o \in {"redeem", "claim", "withdraw"}
  BY <1>4, OpsAre DEF Shows, Ahead, Base
<1>5. CASE o \notin {"create", "activate", "settle", "stakeYes", "stakeNo", "redeem", "claim", "withdraw"}
  BY <1>5 DEF Shows
<1>6. QED BY <1>1, <1>2, <1>3, <1>4, <1>5

LEMMA AheadOfItself == \A m \in Base : Ahead(m, m)
BY DEF Ahead, Base

LEMMA AheadOn ==
    ASSUME NEW m \in Base, NEW n \in Base, NEW p \in Base, Ahead(m, n), Ahead(n, p)
    PROVE  Ahead(m, p)
BY DEF Ahead, Base

(* What a transaction makes of Base: it is ahead of what was, it shows the    *)
(* operation, and what is guarded did not show before.                       *)
Made(o, m, n) ==
    /\ n \in Base /\ Ahead(m, n) /\ Shows(o, n)
    /\ o \in Run!Guarded => ~Shows(o, m)
    /\ script = "lmsr" /\ (m.active => m.shares >= 1) => (n.active => n.shares >= 1)

LEMMA EffectsAre ==
    ASSUME script \in Scripts, NEW m \in Base, NEW t \in Transaction, t.op \in ScriptOps,
           Run!Executes(t.op, m)
    PROVE  Made(t.op, m, Run!Effect(t, m))
<1>a. PICK o, n : o = t.op /\ n = Run!Effect(t, m)
  OBVIOUS
<1> SUFFICES Made(o, m, n)
  BY <1>a
<1>0. /\ t.amount \in Nat /\ o \in ScriptOps /\ o \in Run!Operations /\ Run!Executes(o, m)
  BY <1>a DEF Transaction
<1>1. CASE o \in {"create", "approveVault", "approveYes", "approveNo", "approveStakes"}
  <2>1. \/ n = [m EXCEPT !.created = TRUE]
        \/ o # "create" /\ n = [m EXCEPT !.vault = 1]
        \/ o # "create" /\ n = [m EXCEPT !.market = 1]
        \/ o # "create" /\ n = [m EXCEPT !.market = t.amount]
    BY <1>a, <1>1 DEF Run!Effect
  <2>2. /\ (m.created => n.created) /\ (o = "create" => n.created)
        /\ n \in Base /\ n.active = m.active /\ n.terminal = m.terminal /\ n.shares = m.shares
        /\ n.yes = m.yes /\ n.no = m.no
    <3>1. CASE n = [m EXCEPT !.created = TRUE]
      BY <3>1 DEF Base
    <3>2. CASE o # "create" /\ n = [m EXCEPT !.vault = 1]
      BY <3>2 DEF Base
    <3>3. CASE o # "create" /\ n = [m EXCEPT !.market = 1]
      BY <3>3 DEF Base
    <3>4. CASE o # "create" /\ n = [m EXCEPT !.market = t.amount]
      BY <1>0, <3>4 DEF Base
    <3>5. QED BY <2>1, <3>1, <3>2, <3>3, <3>4
  <2>3. Shows(o, n)
    BY <1>1, <2>2 DEF Shows
  <2>4. ~Settling /\ (o \in Run!Guarded => ~Shows(o, m))
    <3>1. o \in Run!Guarded => o = "create"
      BY <1>1 DEF Run!Guarded
    <3>2. o = "create" => ~m.created
      BY <1>0 DEF Run!Executes
    <3>3. QED BY <1>0, <1>1, <3>1, <3>2, OpsAre DEF Shows
  <2>5. QED BY <2>2, <2>3, <2>4 DEF Made, Ahead, Base
<1>2. CASE o = "contribute"
  <2>1. n = [m EXCEPT !.vault = m.vault - 1, !.shares = m.shares + 1] /\ m.vault >= 1
    BY <1>a, <1>0, <1>2 DEF Run!Effect, Run!Executes
  <2>2. n \in Base /\ n.created = m.created /\ n.active = m.active /\ n.terminal = m.terminal /\ n.shares = m.shares + 1
    <3>1. m.vault - 1 \in Nat /\ m.shares + 1 \in Nat
      BY <2>1 DEF Base
    <3>2. QED BY <2>1, <3>1 DEF Base
  <2>3. ~Settling /\ script # "pool" /\ Shows(o, n) /\ o \notin Run!Guarded
    BY <1>0, <1>2, OpsAre DEF Shows, Run!Guarded
  <2>4. m.shares \in Nat
    BY DEF Base
  <2>5. QED BY <2>2, <2>3, <2>4 DEF Made, Ahead
<1>3. CASE o = "activate"
  <2>1. n = [m EXCEPT !.active = TRUE] /\ m.shares >= 1 /\ ~m.active
    BY <1>a, <1>0, <1>3 DEF Run!Effect, Run!Executes
  <2>2. n \in Base /\ n.created = m.created /\ n.active = TRUE /\ n.terminal = m.terminal /\ n.shares = m.shares
    BY <2>1 DEF Base
  <2>3. ~Settling /\ script # "pool" /\ Shows(o, n) /\ ~Shows(o, m)
    BY <1>0, <1>3, <2>1, <2>2, OpsAre DEF Shows
  <2>4. QED BY <2>1, <2>2, <2>3 DEF Made, Ahead
<1>4. CASE o \in {"buyYes", "buyNo", "sellYes", "sellNo"}
  <2>1. \/ n = [m EXCEPT !.market = m.market - 1, !.yes = m.yes + 2] /\ m.market >= 1
        \/ n = [m EXCEPT !.market = m.market - 1, !.no = m.no + 2] /\ m.market >= 1
        \/ n = [m EXCEPT !.yes = m.yes - 1] /\ m.yes >= 1
        \/ n = [m EXCEPT !.no = m.no - 1] /\ m.no >= 1
    BY <1>a, <1>0, <1>4 DEF Run!Effect, Run!Executes
  <2>2. n \in Base /\ n.created = m.created /\ n.active = m.active /\ n.terminal = m.terminal /\ n.shares = m.shares
    <3>1. CASE n = [m EXCEPT !.market = m.market - 1, !.yes = m.yes + 2] /\ m.market >= 1
      <4>1. m.market - 1 \in Nat /\ m.yes + 2 \in Nat
        BY <3>1 DEF Base
      <4>2. QED BY <3>1, <4>1 DEF Base
    <3>2. CASE n = [m EXCEPT !.market = m.market - 1, !.no = m.no + 2] /\ m.market >= 1
      <4>1. m.market - 1 \in Nat /\ m.no + 2 \in Nat
        BY <3>2 DEF Base
      <4>2. QED BY <3>2, <4>1 DEF Base
    <3>3. CASE n = [m EXCEPT !.yes = m.yes - 1] /\ m.yes >= 1
      BY <3>3 DEF Base
    <3>4. CASE n = [m EXCEPT !.no = m.no - 1] /\ m.no >= 1
      BY <3>4 DEF Base
    <3>5. QED BY <2>1, <3>1, <3>2, <3>3, <3>4
  <2>3. ~Settling /\ script # "pool" /\ Shows(o, n) /\ o \notin Run!Guarded
    BY <1>0, <1>4, OpsAre DEF Shows, Run!Guarded
  <2>4. QED BY <2>2, <2>3 DEF Made, Ahead
<1>5. CASE o \in {"stakeYes", "stakeNo"}
  <2>1. \/ o = "stakeYes" /\ n = [m EXCEPT !.market = m.market - 1, !.yes = m.yes + 1]
        \/ o = "stakeNo" /\ n = [m EXCEPT !.market = m.market - 1, !.no = m.no + 1]
    BY <1>a, <1>5 DEF Run!Effect
  <2>2. m.market >= 1
    BY <1>0, <1>5 DEF Run!Executes
  <2>3. /\ n \in Base /\ n.created = m.created /\ n.active = m.active /\ n.terminal = m.terminal
        /\ n.yes >= m.yes /\ n.no >= m.no
        /\ o = "stakeYes" => n.yes >= 1
        /\ o = "stakeNo" => n.no >= 1
    <3>1. CASE o = "stakeYes" /\ n = [m EXCEPT !.market = m.market - 1, !.yes = m.yes + 1]
      <4>1. m.market - 1 \in Nat /\ m.yes + 1 \in Nat /\ m.yes \in Nat /\ m.no \in Nat
        BY <2>2 DEF Base
      <4>2. /\ n \in Base /\ n.created = m.created /\ n.active = m.active /\ n.terminal = m.terminal
            /\ n.yes = m.yes + 1 /\ n.no = m.no
        BY <3>1, <4>1 DEF Base
      <4>3. QED BY <3>1, <4>1, <4>2
    <3>2. CASE o = "stakeNo" /\ n = [m EXCEPT !.market = m.market - 1, !.no = m.no + 1]
      <4>1. m.market - 1 \in Nat /\ m.no + 1 \in Nat /\ m.yes \in Nat /\ m.no \in Nat
        BY <2>2 DEF Base
      <4>2. /\ n \in Base /\ n.created = m.created /\ n.active = m.active /\ n.terminal = m.terminal
            /\ n.yes = m.yes /\ n.no = m.no + 1
        BY <3>2, <4>1 DEF Base
      <4>3. QED BY <3>2, <4>1, <4>2
    <3>3. QED BY <2>1, <3>1, <3>2
  <2>4. ~Settling /\ script = "pool" /\ o \notin Run!Guarded
    BY <1>0, <1>5, OpsAre DEF Run!Guarded
  <2>5. Shows(o, n)
    BY <1>5, <2>3 DEF Shows
  <2>6. QED BY <2>3, <2>4, <2>5 DEF Made, Ahead, Base
<1>6. CASE o = "settle"
  <2>1. n = [m EXCEPT !.terminal = TRUE] /\ ~m.terminal
    BY <1>a, <1>0, <1>6 DEF Run!Effect, Run!Executes
  <2>2. /\ n \in Base /\ n.created = m.created /\ n.active = m.active /\ n.terminal = TRUE /\ n.shares = m.shares
        /\ n.yes = m.yes /\ n.no = m.no
    BY <2>1 DEF Base
  <2>3. Settling /\ script # "pool" /\ script # "lmsr" /\ Shows(o, n) /\ ~Shows(o, m)
    BY <1>0, <1>6, <2>1, <2>2, OpsAre DEF Shows
  <2>4. QED BY <2>2, <2>3 DEF Made, Ahead, Base
<1>7. CASE o \in {"redeem", "claim"}
  <2>1. n = [m EXCEPT !.yes = 0, !.no = 0] /\ m.yes + m.no > 0
    BY <1>a, <1>0, <1>7 DEF Run!Effect, Run!Executes
  <2>2. /\ n \in Base /\ n.created = m.created /\ n.active = m.active /\ n.terminal = m.terminal /\ n.shares = m.shares
        /\ n.yes = 0 /\ n.no = 0
    BY <2>1 DEF Base
  <2>3. m.yes \in Nat /\ m.no \in Nat /\ ~(m.yes = 0 /\ m.no = 0)
    BY <2>1 DEF Base
  <2>4. Settling /\ script # "pool" /\ script # "lmsr" /\ Shows(o, n) /\ ~Shows(o, m)
    BY <1>0, <1>7, <2>2, <2>3, OpsAre DEF Shows
  <2>5. QED BY <2>2, <2>3, <2>4 DEF Made, Ahead, Base
<1>8. CASE o = "withdraw"
  <2>1. n = [m EXCEPT !.shares = 0] /\ m.shares >= 1
    BY <1>a, <1>0, <1>8 DEF Run!Effect, Run!Executes
  <2>2. /\ n \in Base /\ n.created = m.created /\ n.active = m.active /\ n.terminal = m.terminal /\ n.shares = 0
        /\ n.yes = m.yes /\ n.no = m.no
    BY <2>1 DEF Base
  <2>3. m.shares \in Nat /\ m.shares # 0
    BY <2>1 DEF Base
  <2>4. Settling /\ script # "pool" /\ script # "lmsr" /\ Shows(o, n) /\ ~Shows(o, m)
    BY <1>0, <1>8, <2>2, <2>3, OpsAre DEF Shows
  <2>5. QED BY <2>2, <2>3, <2>4 DEF Made, Ahead, Base
<1>9. QED BY <1>a, <1>0, <1>1, <1>2, <1>3, <1>4, <1>5, <1>6, <1>7, <1>8 DEF Run!Operations

LEMMA RunBegins == Run!Init => RunInv
<1> SUFFICES ASSUME Run!Init PROVE RunInv
  OBVIOUS
<1>1. /\ script \in Scripts /\ txs = << >> /\ lagging = baseChain
      /\ baseChain = IF script \in {"lmsr", "pool"} THEN Run!NewMarket ELSE Run!TradedMarket
      /\ file = [hash |-> [o \in Run!Operations |-> 0], status |-> "none"]
      /\ run = [at |-> 0, phase |-> "off", read |-> Run!NewMarket]
  BY DEF Run!Init, Run!Off
<1>2. Run!NewMarket \in Base /\ Run!TradedMarket \in Base /\ ~Run!NewMarket.active
  BY DEF Run!NewMarket, Run!TradedMarket, Base
<1>3. baseChain \in Base /\ lagging \in Base /\ Ahead(lagging, baseChain)
  BY <1>1, <1>2, AheadOfItself
<1>4. script = "pool" => Ahead(run.read, baseChain)
  BY <1>1, <1>2, AheadOfItself
<1>5. script = "lmsr" => ~baseChain.active
  BY <1>1, <1>2
<1>6. RunTypes
  BY <1>1, <1>2, <1>3, PlansAre DEF RunTypes, Process
<1>7. Run!DoneIsDone
  BY <1>1 DEF Run!DoneIsDone
<1>8. QED BY <1>1, <1>3, <1>4, <1>5, <1>6, <1>7 DEF RunInv

LEMMA SameScript ==
    ASSUME script' = script
    PROVE  /\ Run!Plan' = Run!Plan /\ ScriptOps' = ScriptOps /\ (Settling' <=> Settling)
           /\ \A m, n : Ahead(m, n)' <=> Ahead(m, n)
BY DEF Run!Plan, Run!LMSRRun, Run!PoolRun, Run!LMSRSettle, Run!PoolSettle, ScriptOps, Settling, Ahead

(* The process moves and reads come nearer to the chain, no more.            *)
LEMMA RunMoves ==
    ASSUME RunInv, UNCHANGED <<script, txs, baseChain, file>>,
           lagging' \in Base, Ahead(lagging', baseChain),
           run' \in Process, run'.phase \in {"off", "check"},
           run'.at <= Len(Run!Plan) + 1, run'.phase # "off" => run'.at >= 1,
           unsaved \subseteq unsaved', run.phase # "sent" \/ Settling \/ Len(txs) \in unsaved',
           script = "pool" => Ahead(run'.read, baseChain),
           \A k \in 1 .. Len(Run!Plan) :
             k < run'.at /\ Run!Plan[k] \in Marked => Shows(Run!Plan[k], baseChain)
    PROVE  RunInv'
<1>1. RunTypes'
  BY SameScript DEF RunInv, RunTypes
<1>2. Run!DoneIsDone'
  BY DEF RunInv, Run!DoneIsDone
<1>3. Ahead(lagging, baseChain)' /\ (script' = "pool" => Ahead(run.read, baseChain)')
  BY DEF Ahead, Settling
<1>4. /\ ~Settling => \A i \in 1 .. Len(txs) : i \in unsaved' \/ file.hash[txs[i].op] = i
      /\ \A i, j \in 1 .. Len(txs) : Twice(i, j, txs) => i = j
  BY DEF RunInv
<1>5. QED BY <1>1, <1>2, <1>3, <1>4, SameScript DEF RunInv, Twice

LEMMA ReadsCatchUpStays == RunInv /\ Run!ReadsCatchUp => RunInv'
<1> SUFFICES ASSUME RunInv, Run!ReadsCatchUp PROVE RunInv'
  OBVIOUS
<1>1. UNCHANGED <<script, txs, baseChain, file, run, unsaved>> /\ lagging' = baseChain
  BY DEF Run!ReadsCatchUp
<1>2. /\ lagging' \in Base /\ Ahead(lagging', baseChain) /\ script \in Scripts /\ baseChain \in Base
  BY <1>1, AheadOfItself DEF RunInv, RunTypes
<1>3. RunTypes'
  BY <1>1, <1>2, SameScript DEF RunInv, RunTypes
<1>4. Run!DoneIsDone'
  BY <1>1 DEF RunInv, Run!DoneIsDone
<1>5. Ahead(lagging, baseChain)' /\ (script' = "pool" => Ahead(run.read, baseChain)')
  BY <1>1, <1>2 DEF RunInv, Ahead, Settling
<1>6. Run!Operation' = Run!Operation
  BY <1>1, SameScript DEF Run!Operation
<1>7. QED BY <1>1, <1>3, <1>4, <1>5, <1>6, SameScript DEF RunInv, Twice

LEMMA StopStays ==
    ASSUME RunInv, UNCHANGED <<script, txs, baseChain, lagging, file>>, run' = Run!Off,
           unsaved \subseteq unsaved', run.phase # "sent" \/ Settling \/ Len(txs) \in unsaved'
    PROVE  RunInv'
<1>1. run' = [at |-> 0, phase |-> "off", read |-> Run!NewMarket] /\ Run!NewMarket \in Base
  BY DEF Run!Off, Run!NewMarket, Base
<1>2. run' \in Process /\ run'.phase = "off" /\ run'.at = 0
  BY <1>1 DEF Process
<1>3. baseChain \in Base /\ lagging \in Base /\ Ahead(lagging, baseChain) /\ Len(Run!Plan) \in Nat
  BY PlansAre DEF RunInv, RunTypes
<1>4. script = "pool" => Ahead(run'.read, baseChain)
  BY <1>1, <1>3 DEF Ahead, Settling, Run!NewMarket, Base
<1>5. QED BY <1>2, <1>3, <1>4, RunMoves

LEMMA StartRunStays == RunInv /\ Run!Start => RunInv'
<1> SUFFICES ASSUME RunInv, Run!Start PROVE RunInv'
  OBVIOUS
<1>1. /\ run' = [at |-> 1, phase |-> "check", read |-> Run!NewMarket] /\ Run!NewMarket \in Base
      /\ run.phase = "off" /\ UNCHANGED <<script, txs, baseChain, lagging, file, unsaved>>
  BY DEF Run!Start, Run!Off, Run!NewMarket, Base
<1>2. run' \in Process /\ run'.phase = "check" /\ run'.at = 1
  BY <1>1 DEF Process
<1>3. baseChain \in Base /\ lagging \in Base /\ Ahead(lagging, baseChain) /\ Len(Run!Plan) \in Nat
  BY PlansAre DEF RunInv, RunTypes
<1>4. script = "pool" => Ahead(run'.read, baseChain)
  BY <1>1, <1>3 DEF Ahead, Settling, Run!NewMarket, Base
<1>5. QED BY <1>1, <1>2, <1>3, <1>4, RunMoves

(* The script goes on to the next operation: Base shows the one it passes.   *)
LEMMA ProceedStays ==
    ASSUME RunInv, UNCHANGED <<script, txs, baseChain, lagging, file, unsaved>>,
           run.phase \in {"check", "wait"}, run.at <= Len(Run!Plan), NEW m \in Base,
           run' = [run EXCEPT !.at = run.at + 1, !.phase = "check", !.read = m],
           script = "pool" => Ahead(m, baseChain),
           Run!Operation \in Marked => Shows(Run!Operation, baseChain)
    PROVE  RunInv'
<1>1. /\ script \in Scripts /\ baseChain \in Base /\ lagging \in Base /\ Ahead(lagging, baseChain)
      /\ Len(Run!Plan) \in Nat /\ run \in Process /\ run.at \in Nat
  BY PlansAre DEF RunInv, RunTypes, Process
<1>2. run' \in Process /\ run'.phase = "check" /\ run'.at = run.at + 1 /\ run'.read = m
  <2>1. PICK r, a : r = run /\ a = run.at + 1
    OBVIOUS
  <2>2. r \in Process /\ a \in Nat /\ run' = [r EXCEPT !.at = a, !.phase = "check", !.read = m]
    BY <1>1, <2>1
  <2>3. [r EXCEPT !.at = a, !.phase = "check", !.read = m] \in Process
    BY <2>2 DEF Process
  <2>4. QED BY <2>1, <2>2, <2>3 DEF Process
<1>3. \A k \in 1 .. Len(Run!Plan) :
        k < run'.at /\ Run!Plan[k] \in Marked => Shows(Run!Plan[k], baseChain)
  BY <1>1, <1>2 DEF RunInv, Run!Operation
<1>4. QED BY <1>1, <1>2, <1>3, RunMoves

LEMMA ConfirmStays == RunInv /\ Run!Confirm => RunInv'
<1> SUFFICES ASSUME RunInv, Run!Confirm PROVE RunInv'
  OBVIOUS
<1>1. run.phase = "wait" /\ UNCHANGED <<script, txs, baseChain, lagging, file, unsaved>>
  BY DEF Run!Confirm
<1>2. CASE txs[file.hash[Run!Operation]].status # "success"
  <2>1. run' = Run!Off
    BY <1>2 DEF Run!Confirm, Run!Recorded, Run!Stop
  <2>2. QED BY <1>1, <2>1, StopStays
<1>3. CASE txs[file.hash[Run!Operation]].status = "success"
  <2>1. run' = [run EXCEPT !.at = run.at + 1, !.phase = "check"] /\ run \in Process
    BY <1>3 DEF Run!Confirm, Run!Recorded, RunInv, RunTypes
  <2>2. run' = [run EXCEPT !.at = run.at + 1, !.phase = "check", !.read = run.read] /\ run.read \in Base
    BY <2>1 DEF Process
  <2>3. Run!Operation \in Run!Operations /\ run.at <= Len(Run!Plan)
    BY <1>1, PlansAre DEF RunInv, RunTypes, Run!Operation, Process
  <2>4. Shows(Run!Operation, baseChain)
    BY <1>1, <1>3, <2>3 DEF RunInv
  <2>5. script = "pool" => Ahead(run.read, baseChain)
    BY DEF RunInv
  <2>6. QED BY <1>1, <2>2, <2>3, <2>4, <2>5, ProceedStays
<1>4. QED BY <1>2, <1>3

(* What the record says is done stays done.                                  *)
LEMMA DoneLasts ==
    ASSUME script \in Scripts, UNCHANGED <<script, file>>, baseChain \in Base, baseChain' \in Base,
           Ahead(baseChain, baseChain'), Run!DoneIsDone,
           script = "lmsr" /\ baseChain'.active => baseChain'.shares >= 1
    PROVE  Run!DoneIsDone'
<1>1. PICK n : n = baseChain'
  OBVIOUS
<1> SUFFICES ASSUME file.status = "confirmed"
             PROVE  CASE script = "lmsr" -> n.active /\ n.shares >= 1
                      [] script = "pool" -> n.yes >= 1 /\ n.no >= 1
                      [] script = "settle-lmsr" -> n.terminal /\ n.yes + n.no + n.shares = 0
                      [] script = "settle-pool" -> n.terminal /\ n.yes + n.no = 0
  BY <1>1 DEF Run!DoneIsDone
<1>2. /\ n \in Base /\ Ahead(baseChain, n) /\ (script = "lmsr" /\ n.active => n.shares >= 1)
  BY <1>1
<1>3. CASE script = "lmsr"
  BY <1>2, <1>3 DEF Run!DoneIsDone, Ahead
<1>4. CASE script = "pool"
  BY <1>2, <1>4 DEF Run!DoneIsDone, Ahead, Base
<1>5. CASE script = "settle-lmsr"
  <2>1. /\ n.yes \in Nat /\ n.no \in Nat /\ n.shares \in Nat
        /\ baseChain.yes \in Nat /\ baseChain.no \in Nat /\ baseChain.shares \in Nat
    BY <1>2 DEF Base
  <2>2. baseChain.terminal /\ baseChain.yes + baseChain.no + baseChain.shares = 0
    BY <1>5 DEF Run!DoneIsDone
  <2>3. n.terminal /\ n.yes <= baseChain.yes /\ n.no <= baseChain.no /\ n.shares <= baseChain.shares
    <3>1. Settling
      BY <1>5 DEF Settling
    <3>2. QED BY <1>2, <2>2, <3>1 DEF Ahead
  <2>4. n.yes + n.no + n.shares = 0
    <3>1. \A a, b, c, d, e, f \in Nat :
            a <= d /\ b <= e /\ c <= f /\ d + e + f = 0 => a + b + c = 0
      OBVIOUS
    <3>2. QED BY <2>1, <2>2, <2>3, <3>1
  <2>5. QED BY <1>5, <2>3, <2>4
<1>6. CASE script = "settle-pool"
  <2>1. /\ n.yes \in Nat /\ n.no \in Nat /\ baseChain.yes \in Nat /\ baseChain.no \in Nat
    BY <1>2 DEF Base
  <2>2. baseChain.terminal /\ baseChain.yes + baseChain.no = 0
    BY <1>6 DEF Run!DoneIsDone
  <2>3. n.terminal /\ n.yes <= baseChain.yes /\ n.no <= baseChain.no
    BY <1>2, <1>6, <2>2 DEF Ahead, Settling
  <2>4. n.yes + n.no = 0
    BY <2>1, <2>2, <2>3
  <2>5. QED BY <1>6, <2>3, <2>4
<1>7. QED BY <1>3, <1>4, <1>5, <1>6, ScriptNames

(* Base mines: an executed settlement did not show before, so nothing of it   *)
(* was executed before.                                                      *)
LEMMA MineStays == RunInv /\ Run!Mine => RunInv'
<1> SUFFICES ASSUME RunInv, Run!Mine PROVE RunInv'
  OBVIOUS
<1>1. PICK i \in 1 .. Len(txs) :
        /\ txs[i].status = "pending"
        /\ \/ /\ Run!Executes(txs[i].op, baseChain)
              /\ baseChain' = Run!Effect(txs[i], baseChain)
              /\ txs' = [txs EXCEPT ![i].status = "success"]
           \/ /\ txs' = [txs EXCEPT ![i].status = "reverted"]
              /\ UNCHANGED baseChain
  BY DEF Run!Mine
<1>2. /\ UNCHANGED <<script, file, run, unsaved>> /\ lagging' = baseChain
      /\ script \in Scripts /\ baseChain \in Base /\ Len(txs) \in Nat /\ txs \in Seq(Transaction)
      /\ file' = file /\ run' = run /\ script' = script
  BY DEF Run!Mine, RunInv, RunTypes
<1>3. txs[i] \in Transaction /\ txs[i].op \in ScriptOps
  BY <1>1, <1>2 DEF RunInv
<1>4. PICK v \in {"success", "reverted"} :
        /\ txs' = [txs EXCEPT ![i].status = v]
        /\ v = "success" => Made(txs[i].op, baseChain, baseChain')
        /\ v = "reverted" => UNCHANGED baseChain
  BY <1>1, <1>2, <1>3, EffectsAre
<1>5. /\ Len(txs') = Len(txs) /\ txs' \in Seq(Transaction)
      /\ \A j \in 1 .. Len(txs) : txs'[j].op = txs[j].op
      /\ \A j \in 1 .. Len(txs) : j # i => txs'[j] = txs[j]
      /\ txs'[i].status = v
  <2>1. [txs[i] EXCEPT !.status = v] \in Transaction /\ [txs[i] EXCEPT !.status = v].op = txs[i].op
        /\ [txs[i] EXCEPT !.status = v].status = v
    BY <1>3, <1>4 DEF Transaction
  <2>2. txs' = [txs EXCEPT ![i] = [txs[i] EXCEPT !.status = v]]
    BY <1>4
  <2>3. QED BY <1>1, <1>2, <2>1, <2>2
<1>6. /\ baseChain' \in Base /\ Ahead(baseChain, baseChain')
      /\ script = "lmsr" /\ baseChain'.active => baseChain'.shares >= 1
  BY <1>2, <1>4, AheadOfItself DEF Made, RunInv
<1>7. Run!DoneIsDone'
  BY <1>2, <1>6, DoneLasts DEF RunInv
<1>8. RunTypes'
  BY <1>2, <1>5, <1>6, SameScript DEF RunInv, RunTypes
<1>9. \A j \in 1 .. Len(txs) : txs[j].op \in ScriptOps
        /\ (txs'[j].status = "success" => Shows(txs[j].op, baseChain'))
  <2>1. SUFFICES ASSUME NEW j \in 1 .. Len(txs), txs'[j].status = "success"
                 PROVE  Shows(txs[j].op, baseChain')
    BY DEF RunInv
  <2>2. CASE j = i
    BY <1>4, <1>5, <2>1, <2>2 DEF Made
  <2>3. CASE j # i
    <3>1. txs[j].op \in ScriptOps /\ Shows(txs[j].op, baseChain)
      BY <1>5, <2>1, <2>3 DEF RunInv
    <3>2. QED BY <1>2, <1>6, <3>1, ShowsLasts
  <2>4. QED BY <2>2, <2>3
<1>10. \A j, k \in 1 .. Len(txs) : Twice(j, k, txs') => j = k
  <2>1. SUFFICES ASSUME NEW j \in 1 .. Len(txs), NEW k \in 1 .. Len(txs),
                        Twice(j, k, txs'), j # k
                 PROVE  FALSE
    OBVIOUS
  <2>2. /\ txs'[j].status = "success" /\ txs'[k].status = "success"
        /\ txs[j].op = txs[k].op /\ txs[j].op \in Run!Guarded
    BY <1>5, <2>1 DEF Twice
  <2>3. CASE j # i /\ k # i
    BY <1>5, <2>1, <2>2, <2>3 DEF RunInv, Twice
  <2>4. CASE j = i
    <3>1. txs[k].status = "success" /\ v = "success" /\ ~Shows(txs[i].op, baseChain)
      BY <1>4, <1>5, <2>1, <2>2, <2>4 DEF Made
    <3>2. QED BY <2>2, <2>4, <3>1 DEF RunInv
  <2>5. CASE k = i
    <3>1. txs[j].status = "success" /\ v = "success" /\ ~Shows(txs[i].op, baseChain)
      BY <1>4, <1>5, <2>1, <2>2, <2>5 DEF Made
    <3>2. QED BY <2>2, <2>5, <3>1 DEF RunInv
  <2>6. QED BY <2>3, <2>4, <2>5
<1>11. Ahead(lagging', baseChain') /\ (script = "pool" => Ahead(run.read, baseChain'))
  <2>1. script = "pool" => run.read \in Base /\ Ahead(run.read, baseChain)
    BY DEF RunInv, RunTypes, Process
  <2>2. QED BY <1>2, <1>6, <2>1, AheadOn
<1>12. \A k \in 1 .. Len(Run!Plan) :
         k < run.at /\ Run!Plan[k] \in Marked => Shows(Run!Plan[k], baseChain')
  <2>1. \A k \in 1 .. Len(Run!Plan) : Run!Plan[k] \in ScriptOps
    BY <1>2, PlansAre
  <2>2. QED BY <1>2, <1>6, <2>1, ShowsLasts DEF RunInv
<1>13. Run!Operation' = Run!Operation
  BY <1>2, SameScript DEF Run!Operation
<1>14. /\ \A o \in Run!Operations : file.hash[o] # 0 =>
            file.hash[o] \in 1 .. Len(txs) /\ txs'[file.hash[o]].op = o
       /\ run.phase = "sent" => Len(txs) >= 1 /\ txs'[Len(txs)].op = Run!Operation
       /\ ~Settling => \A j \in 1 .. Len(txs) :
            j \in unsaved \/ file.hash[txs'[j].op] = j \/ (run.phase = "sent" /\ j = Len(txs))
  BY <1>2, <1>5 DEF RunInv
<1>15. Ahead(lagging, baseChain)' /\ (script' = "pool" => Ahead(run.read, baseChain)')
  BY <1>2, <1>11 DEF Ahead, Settling
<1>16. \A j \in 1 .. Len(txs') : txs'[j].op \in ScriptOps'
         /\ (txs'[j].status = "success" => Shows(txs'[j].op, baseChain'))
  BY <1>2, <1>5, <1>9, SameScript
<1>17. \A j, k \in 1 .. Len(txs') : Twice(j, k, txs') => j = k
  BY <1>5, <1>10
<1>18. \A k \in 1 .. Len(Run!Plan') :
         k < run'.at /\ Run!Plan'[k] \in Marked => Shows(Run!Plan'[k], baseChain')
  BY <1>2, <1>12, SameScript
<1>19. /\ \A o \in Run!Operations : file'.hash[o] # 0 =>
            file'.hash[o] \in 1 .. Len(txs') /\ txs'[file'.hash[o]].op = o
       /\ run'.phase = "sent" => Len(txs') >= 1 /\ txs'[Len(txs')].op = Run!Operation'
       /\ run'.phase = "sent" /\ ~Settling' => file'.hash[Run!Operation'] = 0
       /\ run'.phase = "wait" => file'.hash[Run!Operation'] # 0
       /\ ~Settling' => \A j \in 1 .. Len(txs') :
            j \in unsaved' \/ file'.hash[txs'[j].op] = j \/ (run'.phase = "sent" /\ j = Len(txs'))
       /\ script' = "lmsr" /\ baseChain'.active => baseChain'.shares >= 1
  BY <1>2, <1>5, <1>6, <1>13, <1>14, SameScript DEF RunInv
<1>20. QED BY <1>7, <1>8, <1>15, <1>16, <1>17, <1>18, <1>19 DEF RunInv, Twice

(* A script decides on what Base said once, and sends what is not recorded.   *)
LEMMA SendStepStays ==
    ASSUME RunInv, UNCHANGED <<script, baseChain, lagging, file, unsaved>>,
           run.phase = "check", run.at <= Len(Run!Plan), NEW m \in Base,
           script = "pool" => Ahead(m, baseChain),
           Run!Recorded(Run!Operation) = 0 \/ Settling, Run!Send(Run!Operation, m)
    PROVE  RunInv'
<1>1. /\ script \in Scripts /\ run \in Process /\ run.at \in 1 .. Len(Run!Plan)
      /\ txs \in Seq(Transaction) /\ Len(txs) \in Nat /\ Run!Operation \in ScriptOps
      /\ Run!Operation \in Run!Operations
  BY PlansAre DEF RunInv, RunTypes, Process, Run!Operation
<1>2. PICK t : /\ txs' = Append(txs, t) /\ t \in Transaction
               /\ t.op = Run!Operation /\ t.status = "pending"
  <2>1. m.yes \in Nat /\ m.no \in Nat
    BY DEF Base
  <2>2. Run!StakesNeeded(m) \in Nat
    BY <2>1 DEF Run!StakesNeeded, Run!Missing
  <2>3. PICK a \in Nat : txs' = Append(txs, [op |-> Run!Operation, status |-> "pending", amount |-> a])
    BY <2>2 DEF Run!Send
  <2>4. QED BY <1>1, <2>3 DEF Transaction
<1>3. /\ txs' \in Seq(Transaction) /\ Len(txs') = Len(txs) + 1 /\ txs'[Len(txs')] = t
      /\ \A i \in 1 .. Len(txs) : txs'[i] = txs[i]
  BY <1>1, <1>2
<1>4. /\ run' \in Process /\ run'.phase = "sent" /\ run'.at = run.at /\ run'.read = m
  <2>1. run' = [run EXCEPT !.phase = "sent", !.read = m]
    BY DEF Run!Send
  <2>2. QED BY <1>1, <2>1 DEF Process
<1>5. /\ script' = script /\ baseChain' = baseChain /\ lagging' = lagging /\ file' = file
      /\ unsaved' = unsaved
  OBVIOUS
<1>6. Run!Operation' = Run!Operation
  BY <1>4, <1>5, SameScript DEF Run!Operation
<1>7. RunTypes'
  BY <1>1, <1>3, <1>4, <1>5, SameScript DEF RunInv, RunTypes
<1>8. Run!DoneIsDone'
  BY <1>5 DEF RunInv, Run!DoneIsDone
<1>9. Ahead(lagging, baseChain)' /\ (script' = "pool" => Ahead(run.read, baseChain)')
  BY <1>4, <1>5 DEF RunInv, Ahead, Settling
<1>10. \A i \in 1 .. Len(txs') : i \in 1 .. Len(txs) \/ i = Len(txs')
  BY <1>1, <1>3
<1>11. \A i \in 1 .. Len(txs') : txs'[i].op \in ScriptOps
         /\ (txs'[i].status = "success" => Shows(txs'[i].op, baseChain))
  BY <1>1, <1>2, <1>3, <1>10 DEF RunInv
<1>12. \A o \in Run!Operations : file.hash[o] # 0 =>
         file.hash[o] \in 1 .. Len(txs') /\ txs'[file.hash[o]].op = o
  BY <1>1, <1>3 DEF RunInv
<1>13. ~Settling => \A i \in 1 .. Len(txs') :
         i \in unsaved \/ file.hash[txs'[i].op] = i \/ i = Len(txs')
  BY <1>3, <1>10 DEF RunInv
<1>14. \A i, j \in 1 .. Len(txs') : Twice(i, j, txs') => i = j
  BY <1>2, <1>3, <1>10 DEF RunInv, Twice
<1>15. \A k \in 1 .. Len(Run!Plan) :
         k < run'.at /\ Run!Plan[k] \in Marked => Shows(Run!Plan[k], baseChain)
  BY <1>4 DEF RunInv
<1>16. /\ ~Settling => file.hash[Run!Operation] = 0
       /\ script = "lmsr" /\ baseChain.active => baseChain.shares >= 1
  BY DEF RunInv, Run!Recorded
<1>17. Len(txs') >= 1 /\ txs'[Len(txs')].op = Run!Operation
  BY <1>1, <1>2, <1>3
<1>18. QED
  BY <1>4, <1>5, <1>6, <1>7, <1>8, <1>9, <1>11, <1>12, <1>13, <1>14, <1>15, <1>16, <1>17,
     SameScript DEF RunInv, Twice

LEMMA CheckStays == RunInv /\ Run!Check => RunInv'
<1> SUFFICES ASSUME RunInv, Run!Check PROVE RunInv'
  OBVIOUS
<1>1. /\ run.phase = "check" /\ run.at <= Len(Run!Plan)
      /\ UNCHANGED <<script, baseChain, lagging, file, unsaved>>
  BY DEF Run!Check
<1>2. PICK seen, m :
        /\ seen \in {baseChain, lagging}
        /\ m = IF Run!Operation \in Run!ReadsBefore THEN run.read ELSE seen
        /\ IF Run!Refuses(Run!Operation, m) THEN Run!Stop /\ UNCHANGED txs
           ELSE IF Run!Wanted(Run!Operation, m) THEN Run!SubmitOnce(Run!Operation, m)
           ELSE Run!Proceed(m) /\ UNCHANGED txs
  BY DEF Run!Check
<1>3. /\ script \in Scripts /\ baseChain \in Base /\ lagging \in Base /\ run \in Process
      /\ run.read \in Base /\ Ahead(lagging, baseChain) /\ Ahead(baseChain, baseChain)
      /\ (script = "pool" => Ahead(run.read, baseChain)) /\ run.at \in 1 .. Len(Run!Plan)
  BY <1>1, AheadOfItself, PlansAre DEF RunInv, RunTypes, Process
<1>4. Run!Operation \in ScriptOps /\ Run!Operation \in Run!Operations
  BY <1>3, PlansAre DEF Run!Operation
<1>5. /\ m \in Base /\ (script = "pool" => Ahead(m, baseChain))
      /\ Run!Operation \in Marked => Ahead(m, baseChain)
  <2>1. Run!Operation \in {"activate", "settle"} => Run!Operation \notin Run!ReadsBefore
    BY DEF Run!ReadsBefore
  <2>2. Run!Operation \in {"stakeYes", "stakeNo"} => script = "pool"
    BY <1>3, <1>4, OpsAre
  <2>3. QED BY <1>2, <1>3, <2>1, <2>2 DEF Marked
<1>6. CASE Run!Stop /\ UNCHANGED txs
  BY <1>1, <1>6, StopStays DEF Run!Stop
<1>7. ASSUME Run!Proceed(m), UNCHANGED txs,
             Run!Operation \in Marked => Shows(Run!Operation, baseChain)
      PROVE  RunInv'
  <2>1. run' = [run EXCEPT !.at = run.at + 1, !.read = m]
    BY <1>7 DEF Run!Proceed
  <2>2. run' = [run EXCEPT !.at = run.at + 1, !.phase = "check", !.read = m]
    BY <1>1, <1>3, <2>1 DEF Process
  <2>3. QED BY <1>1, <1>5, <1>7, <2>2, ProceedStays
<1>8. CASE ~Run!Wanted(Run!Operation, m) /\ Run!Proceed(m) /\ UNCHANGED txs
  <2>1. Run!Operation \in Marked => Shows(Run!Operation, m)
    <3>1. PICK o : o = Run!Operation
      OBVIOUS
    <3>2. ~Run!Wanted(o, m)
      BY <1>8, <3>1
    <3>3. m.yes \in Nat /\ m.no \in Nat
      BY <1>5 DEF Base
    <3>4. CASE o = "activate"
      BY <3>1, <3>2, <3>4 DEF Run!Wanted, Shows
    <3>5. CASE o = "settle"
      BY <3>1, <3>2, <3>5 DEF Run!Wanted, Shows
    <3>6. CASE o = "stakeYes"
      BY <3>1, <3>2, <3>3, <3>6 DEF Run!Wanted, Shows
    <3>7. CASE o = "stakeNo"
      BY <3>1, <3>2, <3>3, <3>7 DEF Run!Wanted, Shows
    <3>8. QED BY <3>1, <3>4, <3>5, <3>6, <3>7 DEF Marked
  <2>2. Run!Operation \in Marked => Shows(Run!Operation, baseChain)
    BY <1>3, <1>4, <1>5, <2>1, ShowsLasts
  <2>3. QED BY <1>7, <1>8, <2>2
<1>9. CASE Run!SubmitOnce(Run!Operation, m)
  <2>1. CASE Run!Recorded(Run!Operation) # 0 /\ script # "settle-pool"
    <3>1. CASE txs[Run!Recorded(Run!Operation)].status = "success"
      <4>1. Run!Proceed(m) /\ UNCHANGED txs
        BY <1>9, <2>1, <3>1 DEF Run!SubmitOnce
      <4>2. Shows(Run!Operation, baseChain)
        BY <1>4, <2>1, <3>1 DEF RunInv, Run!Recorded
      <4>3. QED BY <1>7, <4>1, <4>2
    <3>2. CASE txs[Run!Recorded(Run!Operation)].status # "success"
      BY <1>6, <1>9, <2>1, <3>2 DEF Run!SubmitOnce
    <3>3. QED BY <3>1, <3>2
  <2>2. CASE ~(Run!Recorded(Run!Operation) # 0 /\ script # "settle-pool")
    <3>1. Run!Send(Run!Operation, m) \/ (Run!Stop /\ UNCHANGED txs)
      BY <1>9, <2>2 DEF Run!SubmitOnce
    <3>2. Run!Recorded(Run!Operation) = 0 \/ Settling
      BY <2>2 DEF Settling
    <3>3. QED BY <1>1, <1>5, <1>6, <3>1, <3>2, SendStepStays
  <2>3. QED BY <2>1, <2>2
<1>10. QED BY <1>2, <1>6, <1>8, <1>9

LEMMA SaveStays == RunInv /\ Run!Save => RunInv'
<1> SUFFICES ASSUME RunInv, Run!Save PROVE RunInv'
  OBVIOUS
<1>1. /\ run.phase = "sent" /\ file' = [file EXCEPT !.hash[Run!Operation] = Len(txs)]
      /\ run' = [run EXCEPT !.phase = "wait"]
      /\ script' = script /\ txs' = txs /\ baseChain' = baseChain /\ lagging' = lagging
      /\ unsaved' = unsaved
  BY DEF Run!Save
<1>2. /\ script \in Scripts /\ run \in Process /\ run.at \in 1 .. Len(Run!Plan)
      /\ txs \in Seq(Transaction) /\ Len(txs) \in Nat /\ Run!Operation \in ScriptOps
      /\ Run!Operation \in Run!Operations /\ Len(txs) >= 1 /\ txs[Len(txs)].op = Run!Operation
  BY <1>1, PlansAre DEF RunInv, RunTypes, Process, Run!Operation
<1>3. /\ file' \in [hash : [Run!Operations -> Nat], status : {"none", "confirmed"}]
      /\ file'.hash[Run!Operation] = Len(txs) /\ file'.status = file.status
      /\ \A o \in Run!Operations : o # Run!Operation => file'.hash[o] = file.hash[o]
  <2>1. file \in [hash : [Run!Operations -> Nat], status : {"none", "confirmed"}]
    BY DEF RunInv, RunTypes
  <2>2. PICK o, n : o = Run!Operation /\ n = Len(txs)
    OBVIOUS
  <2>3. o \in Run!Operations /\ n \in Nat /\ file' = [file EXCEPT !.hash[o] = n]
    BY <1>1, <1>2, <2>2
  <2>4. QED BY <2>1, <2>2, <2>3
<1>4. /\ run' \in Process /\ run'.phase = "wait" /\ run'.at = run.at /\ run'.read = run.read
  BY <1>1, <1>2 DEF Process
<1>5. Run!Operation' = Run!Operation
  BY <1>1, <1>4, SameScript DEF Run!Operation
<1>6. RunTypes'
  BY <1>1, <1>2, <1>3, <1>4, SameScript DEF RunInv, RunTypes
<1>7. Run!DoneIsDone'
  BY <1>1, <1>3 DEF RunInv, Run!DoneIsDone
<1>8. Ahead(lagging, baseChain)' /\ (script' = "pool" => Ahead(run.read, baseChain)')
  BY <1>1, <1>4 DEF RunInv, Ahead, Settling
<1>9. \A o \in Run!Operations : file'.hash[o] # 0 =>
        file'.hash[o] \in 1 .. Len(txs) /\ txs[file'.hash[o]].op = o
  <2>1. SUFFICES ASSUME NEW o \in Run!Operations, file'.hash[o] # 0
                 PROVE  file'.hash[o] \in 1 .. Len(txs) /\ txs[file'.hash[o]].op = o
    OBVIOUS
  <2>2. CASE o = Run!Operation
    BY <1>2, <1>3, <2>2
  <2>3. CASE o # Run!Operation
    BY <1>3, <2>1, <2>3 DEF RunInv
  <2>4. QED BY <2>2, <2>3
<1>10. ASSUME ~Settling, NEW i \in 1 .. Len(txs), i \notin unsaved PROVE file'.hash[txs[i].op] = i
  <2>1. txs[i].op \in Run!Operations
    BY <1>2, PlansAre DEF RunInv
  <2>2. CASE i = Len(txs)
    BY <1>2, <1>3, <2>2
  <2>3. CASE i # Len(txs)
    <3>1. file.hash[txs[i].op] = i /\ file.hash[Run!Operation] = 0
      BY <1>1, <1>10, <2>3 DEF RunInv
    <3>2. QED BY <1>3, <2>1, <3>1
  <2>4. QED BY <2>2, <2>3
<1>11. /\ \A k \in 1 .. Len(Run!Plan) :
            k < run'.at /\ Run!Plan[k] \in Marked => Shows(Run!Plan[k], baseChain)
       /\ script = "lmsr" /\ baseChain.active => baseChain.shares >= 1
       /\ \A i \in 1 .. Len(txs) : txs[i].op \in ScriptOps
            /\ (txs[i].status = "success" => Shows(txs[i].op, baseChain))
       /\ \A i, j \in 1 .. Len(txs) : Twice(i, j, txs) => i = j
  BY <1>4 DEF RunInv
<1>12. file'.hash[Run!Operation] # 0
  BY <1>2, <1>3
<1>13. QED
  BY <1>1, <1>4, <1>5, <1>6, <1>7, <1>8, <1>9, <1>10, <1>11, <1>12, SameScript DEF RunInv, Twice

(* The record says done of what Base showed: it refuses a position or shares  *)
(* that remain.                                                              *)
LEMMA FinishRunStays == RunInv /\ Run!Finish => RunInv'
<1> SUFFICES ASSUME RunInv, Run!Finish PROVE RunInv'
  OBVIOUS
<1>1. PICK seen \in {baseChain, lagging} :
        IF Run!Refuses("finish", seen) THEN Run!Stop /\ UNCHANGED file
        ELSE run' = Run!Off /\ file' = [file EXCEPT !.status = "confirmed"]
  BY DEF Run!Finish
<1>2. /\ run.phase = "check" /\ run.at = Len(Run!Plan) + 1 /\ Len(Run!Plan) \in Nat
      /\ script' = script /\ txs' = txs /\ baseChain' = baseChain /\ lagging' = lagging
      /\ unsaved' = unsaved /\ script \in Scripts /\ baseChain \in Base /\ lagging \in Base
      /\ Ahead(lagging, baseChain) /\ Ahead(baseChain, baseChain)
  BY PlansAre, AheadOfItself DEF RunInv, RunTypes, Run!Finish
<1>3. CASE Run!Stop /\ UNCHANGED file
  BY <1>2, <1>3, StopStays DEF Run!Stop
<1>4. CASE ~Run!Refuses("finish", seen) /\ run' = Run!Off /\ file' = [file EXCEPT !.status = "confirmed"]
  <2>1. seen \in Base /\ Ahead(seen, baseChain)
    BY <1>1, <1>2
  <2>2. \A k \in 1 .. Len(Run!Plan) : Run!Plan[k] \in Marked => Shows(Run!Plan[k], baseChain)
    BY <1>2 DEF RunInv
  <2>3. PICK n : n = baseChain
    OBVIOUS
  <2>4. (CASE script = "lmsr" -> n.active /\ n.shares >= 1
           [] script = "pool" -> n.yes >= 1 /\ n.no >= 1
           [] script = "settle-lmsr" -> n.terminal /\ n.yes + n.no + n.shares = 0
           [] script = "settle-pool" -> n.terminal /\ n.yes + n.no = 0)
    <3>1. CASE script = "lmsr"
      <4>1. Shows("activate", n)
        BY <1>2, <2>2, <2>3, <3>1, PlansAre DEF Marked
      <4>2. n.active /\ n.shares >= 1
        BY <2>3, <3>1, <4>1 DEF Shows, RunInv
      <4>3. QED BY <3>1, <4>2
    <3>2. CASE script = "pool"
      <4>1. Shows("stakeYes", n) /\ Shows("stakeNo", n)
        BY <1>2, <2>2, <2>3, <3>2, PlansAre DEF Marked
      <4>2. n.yes >= 1 /\ n.no >= 1
        BY <4>1 DEF Shows
      <4>3. QED BY <3>2, <4>2
    <3>3. CASE Settling
      <4>1. Shows("settle", n)
        BY <1>2, <2>2, <2>3, <3>3, PlansAre DEF Marked
      <4>2. n.terminal
        BY <4>1 DEF Shows
      <4>3. n.yes <= seen.yes /\ n.no <= seen.no /\ n.shares <= seen.shares
        BY <2>1, <2>3, <3>3 DEF Ahead
      <4>4. /\ n.yes \in Nat /\ n.no \in Nat /\ n.shares \in Nat
            /\ seen.yes \in Nat /\ seen.no \in Nat /\ seen.shares \in Nat
        BY <1>2, <2>1, <2>3 DEF Base
      <4>5. CASE script = "settle-lmsr"
        <5>1. seen.shares = 0 /\ seen.yes + seen.no = 0
          BY <1>4, <4>5 DEF Run!Refuses
        <5>2. n.yes + n.no + n.shares = 0
          BY <4>3, <4>4, <5>1
        <5>3. QED BY <4>2, <4>5, <5>2
      <4>6. CASE script = "settle-pool"
        <5>1. seen.yes + seen.no = 0
          BY <1>4, <4>6 DEF Run!Refuses
        <5>2. n.yes + n.no = 0
          BY <4>3, <4>4, <5>1
        <5>3. QED BY <4>2, <4>6, <5>2
      <4>7. QED BY <3>3, <4>5, <4>6 DEF Settling
    <3>4. QED BY <1>2, <3>1, <3>2, <3>3, ScriptNames DEF Settling
  <2>5. Run!DoneIsDone'
    BY <1>2, <2>3, <2>4 DEF Run!DoneIsDone
  <2>6. /\ file' \in [hash : [Run!Operations -> Nat], status : {"none", "confirmed"}]
        /\ file'.hash = file.hash
    BY <1>4 DEF RunInv, RunTypes
  <2>7. run' = [at |-> 0, phase |-> "off", read |-> Run!NewMarket] /\ Run!NewMarket \in Base
    BY <1>4 DEF Run!Off, Run!NewMarket, Base
  <2>8. run' \in Process /\ run'.phase = "off" /\ run'.at = 0 /\ run'.read = Run!NewMarket
    BY <2>7 DEF Process
  <2>9. RunTypes'
    BY <1>2, <2>6, <2>8, SameScript DEF RunInv, RunTypes
  <2>10. script = "pool" => Ahead(run'.read, baseChain)
    BY <1>2, <2>8 DEF Ahead, Settling, Run!NewMarket, Base
  <2>11. Ahead(lagging, baseChain)' /\ (script' = "pool" => Ahead(run.read, baseChain)')
    BY <1>2, <2>10 DEF Ahead, Settling
  <2>12. ~Settling => \A i \in 1 .. Len(txs) : i \in unsaved \/ file.hash[txs[i].op] = i
    BY <1>2 DEF RunInv
  <2>13. \A k \in 1 .. Len(Run!Plan) :
           k < run'.at /\ Run!Plan[k] \in Marked => Shows(Run!Plan[k], baseChain)
    BY <2>2
  <2>14. /\ \A i \in 1 .. Len(txs) : txs[i].op \in ScriptOps
              /\ (txs[i].status = "success" => Shows(txs[i].op, baseChain))
         /\ \A o \in Run!Operations : file'.hash[o] # 0 =>
              file'.hash[o] \in 1 .. Len(txs) /\ txs[file'.hash[o]].op = o
         /\ \A i, j \in 1 .. Len(txs) : Twice(i, j, txs) => i = j
         /\ script = "lmsr" /\ baseChain.active => baseChain.shares >= 1
    BY <2>6 DEF RunInv
  <2>15. QED
    BY <1>2, <2>5, <2>6, <2>8, <2>9, <2>11, <2>12, <2>13, <2>14, SameScript DEF RunInv, Twice
<1>5. QED BY <1>1, <1>3, <1>4

LEMMA RunRests == RunInv /\ UNCHANGED runVars => RunInv'
<1> SUFFICES ASSUME RunInv, UNCHANGED runVars PROVE RunInv'
  OBVIOUS
<1>1. /\ script' = script /\ txs' = txs /\ baseChain' = baseChain /\ lagging' = lagging
      /\ file' = file /\ run' = run /\ unsaved' = unsaved
  BY DEF runVars
<1>2. Run!Operation' = Run!Operation
  BY <1>1, SameScript DEF Run!Operation
<1>3. RunTypes'
  BY <1>1, SameScript DEF RunInv, RunTypes
<1>4. Run!DoneIsDone'
  BY <1>1 DEF RunInv, Run!DoneIsDone
<1>5. Ahead(lagging, baseChain)' /\ (script' = "pool" => Ahead(run.read, baseChain)')
  BY <1>1 DEF RunInv, Ahead, Settling
<1>6. QED BY <1>1, <1>2, <1>3, <1>4, <1>5, SameScript DEF RunInv, Twice

(* A process that dies between sending and saving adds the hash to the lost.  *)
LEMMA RunStays == RunInv /\ [Run!Next]_runVars => RunInv'
<1> SUFFICES ASSUME RunInv, [Run!Next]_runVars PROVE RunInv'
  OBVIOUS
<1>1. CASE Run!Die
  <2>1. /\ run' = Run!Off /\ UNCHANGED <<script, txs, baseChain, lagging, file>>
        /\ unsaved' = unsaved \cup (IF run.phase = "sent" THEN {Len(txs)} ELSE {})
    BY <1>1 DEF Run!Die
  <2>2. unsaved \subseteq unsaved' /\ (run.phase # "sent" \/ Len(txs) \in unsaved')
    BY <2>1
  <2>3. QED BY <2>1, <2>2, StopStays
<1>2. QED
  BY <1>1, MineStays, ReadsCatchUpStays, StartRunStays, CheckStays, SaveStays, ConfirmStays,
     FinishRunStays, RunRests DEF Run!Next, Run!ScriptStep

(* What is guarded was not executed twice; of what is not, the record has the *)
(* one hash that is neither lost nor about to be saved.                       *)
LEMMA RunIsDoneOnce == RunInv => Run!NothingIsDoneTwice
<1> SUFFICES ASSUME RunInv, NEW o \in Run!Operations
             PROVE  Run!Cardinality(IF o \in Run!Guarded THEN Run!Successes(o)
                                    ELSE Run!Successes(o) \ unsaved) <= 1
  BY DEF Run!NothingIsDoneTwice
<1>1. CASE o \in Run!Guarded
  <2>1. \A i, j \in Run!Successes(o) : i = j
    BY <1>1 DEF Run!Successes, RunInv, Twice
  <2>2. QED BY <1>1, <2>1, AtMostOne DEF Run!Cardinality, Cardinality
<1>2. CASE o \notin Run!Guarded
  <2>1. ASSUME NEW i \in Run!Successes(o) \ unsaved, NEW j \in Run!Successes(o) \ unsaved PROVE i = j
    <3>1. /\ i \in 1 .. Len(txs) /\ txs[i].op = o /\ i \notin unsaved
          /\ j \in 1 .. Len(txs) /\ txs[j].op = o /\ j \notin unsaved
      BY DEF Run!Successes
    <3>2. ~Settling
      BY <1>2, <3>1, OpsAre DEF RunInv, RunTypes
    <3>3. CASE run.phase # "sent"
      BY <3>1, <3>2, <3>3 DEF RunInv
    <3>4. CASE run.phase = "sent"
      <4>1. file.hash[Run!Operation] = 0 /\ txs[Len(txs)].op = Run!Operation
        BY <3>2, <3>4 DEF RunInv
      <4>2. (file.hash[o] = i \/ i = Len(txs)) /\ (file.hash[o] = j \/ j = Len(txs))
        BY <3>1, <3>2 DEF RunInv
      <4>3. QED BY <3>1, <4>1, <4>2
    <3>5. QED BY <3>3, <3>4
  <2>2. QED BY <1>2, <2>1, AtMostOne DEF Run!Cardinality, Cardinality
<1>3. QED BY <1>1, <1>2

----------------------------------------------------------------------------
(* The resolver's script (ConnectedResolver).                                *)

Hashed == [op : {"assess", "deploy", "resolve"}, attempt : {0, 1},
           status : {"pending", "success", "failure", "cancelled"}]
Record == [assess : Nat, deploy : Nat, second : Nat, resolve : Nat, attempt : {0, 1},
           status : {"none", "submitting", "following", "success"}]
ResolverPlaces == {"off", "assess", "assessed", "assessment", "deploy", "deployed", "deployment",
                   "verify", "resolve", "resolved", "resolution", "record"}

Script == [at : ResolverPlaces, prior : Record, attempt : {0, 1}, tx : Nat, child : BOOLEAN]

(* Transaction h resolves attempt a.                                         *)
Resolves(h, a) == h \in 1 .. Len(sent) /\ sent[h].op = "resolve" /\ sent[h].attempt = a

(* It is held for one of a; a run that went back may hold the second's hash   *)
(* for the first's.                                                          *)
HeldFor(h, a) == Resolves(h, a) \/ (back /\ a = 0 /\ Resolves(h, 1))

(* What a record says of attempts is so; the first one's hash gives way to    *)
(* the second's only where the second is the record's, or a run went back.    *)
RecordIsTrue(f) ==
    /\ f.second # 0 => Resolves(f.second, 1) /\ (f.attempt = 1 \/ back)
    /\ f.resolve # 0 => Resolves(f.resolve, 0)
                        \/ (Resolves(f.resolve, 1) /\ (f.attempt = 1 \/ back))

(* The running script is at an attempt that is not behind the record's unless *)
(* a run went back, and where it holds a hash it is held for its attempt.     *)
ProcessIsTrue ==
    process.at # "off" =>
        /\ RecordIsTrue(process.prior) /\ (process.prior.attempt <= process.attempt \/ back)
        /\ recordFile.attempt \in {process.prior.attempt, process.attempt}
        /\ process.at \in {"resolved", "resolution"} =>
             HeldFor(process.tx, process.attempt) /\ (recordFile.attempt = process.attempt \/ back)
        /\ process.at = "record" /\ process.tx # 0 =>
             HeldFor(process.tx, process.attempt) /\ sent[process.tx].status = "success"

ResolverInv ==
    /\ sent \in Seq(Hashed) /\ child \in BOOLEAN /\ recorded \in [{0, 1} -> Nat]
    /\ recordFile \in Record
    /\ process \in Script /\ back \in BOOLEAN
    /\ \A h \in 1 .. Len(sent), a \in {0, 1} :
         Resolves(h, a) /\ sent[h].status = "success" => recorded[a] = h
    /\ RecordIsTrue(recordFile) /\ ProcessIsTrue
    /\ Resolver!RecordNamesItsTransaction

LEMMA ResolverBegins == Resolver!Init => ResolverInv
<1> SUFFICES ASSUME Resolver!Init PROVE ResolverInv
  OBVIOUS
<1>1. /\ sent = << >> /\ child = FALSE /\ recorded = [a \in {0, 1} |-> 0]
      /\ recordFile = [assess |-> 0, deploy |-> 0, second |-> 0, resolve |-> 0,
                       attempt |-> 0, status |-> "none"]
      /\ process = [at |-> "off", prior |-> recordFile, attempt |-> 0, tx |-> 0, child |-> FALSE]
      /\ back = FALSE
  BY DEF Resolver!Init, Resolver!NoFile, Resolver!Off
<1>2. recordFile \in Record
  BY <1>1 DEF Record
<1>3. process \in Script
  BY <1>1, <1>2 DEF ResolverPlaces, Script
<1>4. RecordIsTrue(recordFile) /\ ProcessIsTrue /\ Resolver!RecordNamesItsTransaction
  BY <1>1 DEF RecordIsTrue, ProcessIsTrue, Resolver!RecordNamesItsTransaction
<1>5. QED BY <1>1, <1>2, <1>3, <1>4 DEF ResolverInv, Resolves

(* Transactions that are sent stay, and a new one is pending.                *)
SentGrows ==
    /\ sent' \in Seq(Hashed)
    /\ \A h \in 1 .. Len(sent) : h \in 1 .. Len(sent') /\ sent'[h] = sent[h]
    /\ \A h \in 1 .. Len(sent') : sent'[h].status = "success" => h \in 1 .. Len(sent)

LEMMA AppendGrows ==
    ASSUME ResolverInv, NEW t \in Hashed, t.status = "pending", sent' = Append(sent, t)
    PROVE  SentGrows /\ Len(sent) + 1 \in 1 .. Len(sent') /\ sent'[Len(sent) + 1] = t
<1>1. sent \in Seq(Hashed) /\ Len(sent) \in Nat
  BY DEF ResolverInv
<1>2. /\ sent' \in Seq(Hashed) /\ Len(sent') = Len(sent) + 1 /\ sent'[Len(sent) + 1] = t
      /\ \A h \in 1 .. Len(sent) : sent'[h] = sent[h]
  BY <1>1
<1>3. \A h \in 1 .. Len(sent) + 1 : h \in 1 .. Len(sent) \/ h = Len(sent) + 1
  BY <1>1
<1>4. QED BY <1>1, <1>2, <1>3 DEF SentGrows

LEMMA SameGrows == ResolverInv /\ sent' = sent => SentGrows
BY DEF ResolverInv, SentGrows

LEMMA ResolvesLasts ==
    ASSUME SentGrows, back => back'
    PROVE  /\ \A h, a : Resolves(h, a) => Resolves(h, a)' /\ sent'[h] = sent[h]
           /\ \A h, a : HeldFor(h, a) => HeldFor(h, a)' /\ sent'[h] = sent[h]
           /\ \A f : RecordIsTrue(f) => RecordIsTrue(f)'
BY DEF SentGrows, Resolves, HeldFor, RecordIsTrue

(* What a step of the script or of the operator has to keep.                 *)
LEMMA ResolverKeeps ==
    ASSUME ResolverInv, SentGrows, UNCHANGED <<child, recorded>>, recordFile' \in Record,
           process' \in Script, back' \in BOOLEAN,
           RecordIsTrue(recordFile)', ProcessIsTrue', Resolver!RecordNamesItsTransaction'
    PROVE  ResolverInv'
<1>1. ASSUME NEW h \in 1 .. Len(sent'), NEW a \in {0, 1}, Resolves(h, a)', sent'[h].status = "success"
      PROVE  recorded'[a] = h
  <2>1. h \in 1 .. Len(sent) /\ sent'[h] = sent[h]
    BY <1>1 DEF SentGrows
  <2>2. QED BY <1>1, <2>1 DEF ResolverInv, Resolves
<1>2. sent' \in Seq(Hashed)
  BY DEF SentGrows
<1>3. QED BY <1>1, <1>2 DEF ResolverInv

(* Steps that leave what the record says of attempts alone, to a place where  *)
(* the script holds no hash of an attempt.                                   *)
LEMMA ResolverNear ==
    ASSUME ResolverInv, SentGrows, UNCHANGED <<child, recorded, back>>, recordFile' \in Record,
           process' \in Script,
           recordFile'.second = recordFile.second, recordFile'.resolve = recordFile.resolve,
           recordFile'.attempt = recordFile.attempt, recordFile'.status = recordFile.status,
           process'.at \notin {"resolved", "resolution", "record"},
           process'.at # "off" => /\ process.at # "off" /\ process'.prior = process.prior
                                  /\ process'.attempt = process.attempt
    PROVE  ResolverInv'
<1>1. RecordIsTrue(recordFile)'
  BY ResolvesLasts DEF ResolverInv, RecordIsTrue
<1>2. Resolver!RecordNamesItsTransaction'
  BY DEF ResolverInv, Resolver!RecordNamesItsTransaction
<1>3. ProcessIsTrue'
  BY ResolvesLasts DEF ResolverInv, ProcessIsTrue
<1>4. back' \in BOOLEAN
  BY DEF ResolverInv
<1>5. QED BY <1>1, <1>2, <1>3, <1>4, ResolverKeeps

(* GenLayer settles a transaction that was pending.                          *)
LEMMA SettleStays ==
    ASSUME ResolverInv, NEW h \in 1 .. Len(sent), Resolver!Settle(h)
    PROVE  ResolverInv'
<1>1. sent[h].status = "pending" /\ UNCHANGED <<recordFile, process, back>>
  BY DEF Resolver!Settle
<1>2. PICK status \in {"success", "failure", "cancelled"} :
        /\ sent' = [sent EXCEPT ![h].status = status]
        /\ status = "success" =>
             /\ Resolver!MayExecute(sent[h])
             /\ child' = (child \/ sent[h].op = "deploy")
             /\ recorded' = IF sent[h].op = "resolve"
                            THEN [recorded EXCEPT ![sent[h].attempt] = h] ELSE recorded
        /\ status # "success" => UNCHANGED <<child, recorded>>
  BY DEF Resolver!Settle
<1>3. sent \in Seq(Hashed) /\ sent[h] \in Hashed /\ recorded \in [{0, 1} -> Nat] /\ child \in BOOLEAN
  BY DEF ResolverInv
<1>4. /\ sent' \in Seq(Hashed) /\ Len(sent') = Len(sent)
      /\ \A i \in 1 .. Len(sent) : /\ sent'[i].op = sent[i].op /\ sent'[i].attempt = sent[i].attempt
                                   /\ i # h => sent'[i] = sent[i]
      /\ sent'[h].status = status
  BY <1>2, <1>3 DEF Hashed
<1>5. \A i, a : Resolves(i, a)' <=> Resolves(i, a)
  BY <1>4 DEF Resolves
<1>6. /\ recorded' \in [{0, 1} -> Nat]
      /\ \A a \in {0, 1} : recorded[a] # 0 => recorded'[a] = recorded[a]
      /\ status = "success" /\ sent[h].op = "resolve" => recorded'[sent[h].attempt] = h
  <2>1. CASE status = "success" /\ sent[h].op = "resolve"
    <3>1. recorded[sent[h].attempt] = 0 /\ sent[h].attempt \in {0, 1}
          /\ recorded' = [recorded EXCEPT ![sent[h].attempt] = h]
      BY <1>2, <1>3, <2>1 DEF Resolver!MayExecute, Hashed
    <3>2. QED BY <1>3, <3>1
  <2>2. CASE ~(status = "success" /\ sent[h].op = "resolve")
    BY <1>2, <1>3, <2>2
  <2>3. QED BY <2>1, <2>2
<1>7. child' \in BOOLEAN
  BY <1>2, <1>3
<1>8. ASSUME NEW i \in 1 .. Len(sent'), NEW a \in {0, 1}, Resolves(i, a)', sent'[i].status = "success"
      PROVE  recorded'[a] = i
  <2>1. CASE i = h
    BY <1>4, <1>5, <1>6, <1>8, <2>1 DEF Resolves
  <2>2. CASE i # h
    <3>1. recorded[a] = i /\ i # 0
      BY <1>4, <1>5, <1>8, <2>2 DEF ResolverInv
    <3>2. QED BY <1>6, <3>1
  <2>3. QED BY <2>1, <2>2
<1>9. RecordIsTrue(recordFile)' /\ Resolver!RecordNamesItsTransaction'
  BY <1>1, <1>5, <1>6 DEF ResolverInv, RecordIsTrue, Resolver!RecordNamesItsTransaction, Record
<1>10. ProcessIsTrue'
  BY <1>1, <1>4, <1>5 DEF ResolverInv, ProcessIsTrue, RecordIsTrue, Resolves, HeldFor
<1>11. QED BY <1>1, <1>4, <1>6, <1>7, <1>8, <1>9, <1>10 DEF ResolverInv

LEMMA OffIsScript == Resolver!Off \in Script /\ Resolver!Off.at = "off"
BY DEF Resolver!Off, Resolver!NoFile, Script, Record, ResolverPlaces

(* The places where no hash of an attempt is held.                           *)
LEMMA NearStays ==
    ASSUME ResolverInv,
           \/ Resolver!Assess \/ Resolver!SaveAssess \/ Resolver!FollowAssess \/ Resolver!Deploy
           \/ Resolver!SaveDeploy \/ Resolver!FollowDeploy \/ Resolver!Verify \/ Resolver!Halt
    PROVE  ResolverInv'
<1>1. recordFile \in Record /\ process \in Script /\ Len(sent) \in Nat
  BY DEF ResolverInv
<1>2. process.at # "off" /\ UNCHANGED <<child, recorded, back>>
  BY DEF Resolver!Assess, Resolver!SaveAssess, Resolver!FollowAssess, Resolver!Deploy,
         Resolver!SaveDeploy, Resolver!FollowDeploy, Resolver!Verify, Resolver!Halt, Resolver!Submit
<1>3. SentGrows
  <2>1. CASE UNCHANGED sent
    BY <2>1, SameGrows
  <2>2. CASE ~UNCHANGED sent
    <3>1. PICK op \in {"assess", "deploy"} :
            sent' = Append(sent, [op |-> op, attempt |-> process.attempt, status |-> "pending"])
      BY <2>2 DEF Resolver!Assess, Resolver!SaveAssess, Resolver!FollowAssess, Resolver!Deploy,
         Resolver!SaveDeploy, Resolver!FollowDeploy, Resolver!Verify, Resolver!Halt, Resolver!Submit
    <3>2. [op |-> op, attempt |-> process.attempt, status |-> "pending"] \in Hashed
      BY <1>1 DEF Hashed, Script
    <3>3. QED BY <3>1, <3>2, AppendGrows
  <2>3. QED BY <2>1, <2>2
<1>4. \/ recordFile' = recordFile
      \/ \E n \in Nat : \/ recordFile' = [recordFile EXCEPT !.assess = n]
                       \/ recordFile' = [recordFile EXCEPT !.deploy = n]
  <2>1. process.tx \in Nat /\ 0 \in Nat
    BY <1>1 DEF Script
  <2>2. QED BY <2>1 DEF Resolver!Assess, Resolver!SaveAssess, Resolver!FollowAssess, Resolver!Deploy,
         Resolver!SaveDeploy, Resolver!FollowDeploy, Resolver!Verify, Resolver!Halt, Resolver!Submit,
         Resolver!Persist, Resolver!Throw
<1> DEFINE Same ==
      /\ recordFile' \in Record
      /\ recordFile'.second = recordFile.second /\ recordFile'.resolve = recordFile.resolve
      /\ recordFile'.attempt = recordFile.attempt /\ recordFile'.status = recordFile.status
<1>5. Same
  <2>1. CASE recordFile' = recordFile
    BY <1>1, <2>1
  <2>2. ASSUME NEW n \in Nat, recordFile' = [recordFile EXCEPT !.assess = n]
        PROVE  Same
    BY <1>1, <2>2 DEF Record
  <2>3. ASSUME NEW n \in Nat, recordFile' = [recordFile EXCEPT !.deploy = n]
        PROVE  Same
    BY <1>1, <2>3 DEF Record
  <2>4. QED BY <1>4, <2>1, <2>2, <2>3
<1> DEFINE Off == process' = Resolver!Off
           Near == /\ process' \in Script /\ process'.at \notin {"off", "resolved", "resolution", "record"}
                   /\ process'.prior = process.prior /\ process'.attempt = process.attempt
<1>6. process.prior.assess \in Nat /\ process.prior.deploy \in Nat /\ child \in BOOLEAN
  BY <1>1 DEF Script, Record, ResolverInv
<1>7. ASSUME NEW at \in ResolverPlaces \ {"off", "resolved", "resolution", "record"}, NEW n \in Nat,
             \/ process' = [process EXCEPT !.at = at] \/ process' = [process EXCEPT !.at = at, !.tx = n]
             \/ process' = [process EXCEPT !.at = at, !.child = child]
      PROVE  Near
  <2>1. CASE process' = [process EXCEPT !.at = at]
    BY <1>1, <2>1 DEF Script
  <2>2. CASE process' = [process EXCEPT !.at = at, !.tx = n]
    BY <1>1, <2>2 DEF Script
  <2>3. CASE process' = [process EXCEPT !.at = at, !.child = child]
    BY <1>1, <1>6, <2>3 DEF Script
  <2>4. QED BY <1>7, <2>1, <2>2, <2>3
<1>8. Off \/ Near
  <2>1. CASE Resolver!Assess
    <3>1. process' = [process EXCEPT !.at = "assessed", !.tx = Len(sent) + 1]
          \/ process' = [process EXCEPT !.at = "assessment", !.tx = process.prior.assess]
      BY <2>1 DEF Resolver!Assess, Resolver!Submit
    <3>2. Len(sent) + 1 \in Nat
      BY <1>1
    <3>3. QED BY <1>6, <1>7, <3>1, <3>2 DEF ResolverPlaces
  <2>2. CASE Resolver!SaveAssess \/ Resolver!SaveDeploy \/ Resolver!FollowDeploy \/ Resolver!Verify
    <3>1. process' = Resolver!Off \/ \E at \in {"assessment", "deployment", "verify", "resolve"} :
                                      process' = [process EXCEPT !.at = at]
      BY <2>2 DEF Resolver!SaveAssess, Resolver!SaveDeploy, Resolver!FollowDeploy, Resolver!Verify,
         Resolver!Goto, Resolver!Throw
    <3>2. QED BY <1>7, <3>1 DEF ResolverPlaces
  <2>3. CASE Resolver!FollowAssess
    BY <1>7, <2>3 DEF Resolver!FollowAssess, Resolver!Throw, ResolverPlaces
  <2>4. CASE Resolver!Deploy
    <3>1. \/ process' = Resolver!Off
          \/ process' = [process EXCEPT !.at = "deployed", !.tx = Len(sent) + 1]
          \/ \E at \in {"verify", "deployment"} :
               process' = [process EXCEPT !.at = at, !.tx = process.prior.deploy]
      BY <2>4 DEF Resolver!Deploy, Resolver!Submit, Resolver!Throw
    <3>2. Len(sent) + 1 \in Nat
      BY <1>1
    <3>3. QED BY <1>6, <1>7, <3>1, <3>2 DEF ResolverPlaces
  <2>5. CASE Resolver!Halt
    BY <2>5 DEF Resolver!Halt
  <2>6. QED BY <2>1, <2>2, <2>3, <2>4, <2>5
<1>9. CASE Off
  <2>1. process'.at = "off" /\ process' \in Script
    BY <1>9, OffIsScript
  <2>2. QED BY <1>2, <1>3, <1>5, <2>1, ResolverNear
<1>10. CASE Near
  BY <1>2, <1>3, <1>5, <1>10, ResolverNear
<1>11. QED BY <1>8, <1>9, <1>10

LEMMA StartStays ==
    ASSUME ResolverInv, NEW a \in {0, 1}, Resolver!Start(a)
    PROVE  ResolverInv'
<1>1. /\ UNCHANGED <<sent, child, recorded, recordFile>> /\ back' = (back \/ a < recordFile.attempt)
      /\ process' = [at |-> "assess", prior |-> recordFile, attempt |-> a, tx |-> 0, child |-> FALSE]
  BY DEF Resolver!Start, Resolver!Off
<1>2. recordFile \in Record /\ recordFile.attempt \in {0, 1}
  BY DEF ResolverInv, Record
<1>3. /\ process' \in Script /\ process'.at = "assess" /\ process'.prior = recordFile
      /\ process'.attempt = a
  BY <1>1, <1>2 DEF Script, ResolverPlaces
<1>4. SentGrows /\ back' \in BOOLEAN /\ (back => back') /\ (recordFile.attempt <= a \/ back')
  <2>1. SentGrows /\ back \in BOOLEAN
    BY <1>1, SameGrows DEF ResolverInv
  <2>2. CASE a < recordFile.attempt
    <3>1. back' = TRUE
      BY <1>1, <2>2
    <3>2. QED BY <2>1, <3>1
  <2>3. CASE ~(a < recordFile.attempt)
    <3>1. back' = back /\ recordFile.attempt <= a
      BY <1>1, <1>2, <2>1, <2>3
    <3>2. QED BY <2>1, <3>1
  <2>4. QED BY <2>2, <2>3
<1>5. RecordIsTrue(recordFile)' /\ Resolver!RecordNamesItsTransaction'
  BY <1>1, <1>4, ResolvesLasts DEF ResolverInv, RecordIsTrue, Resolver!RecordNamesItsTransaction
<1>6. ProcessIsTrue'
  BY <1>1, <1>3, <1>4, <1>5 DEF ProcessIsTrue, RecordIsTrue
<1>7. QED BY <1>1, <1>2, <1>3, <1>4, <1>5, <1>6, ResolverKeeps

(* An attempt is sent, or the one that the record names is followed, or it    *)
(* is recorded already.                                                      *)
LEMMA ResolveStays == ResolverInv /\ Resolver!Resolve => ResolverInv'
<1> SUFFICES ASSUME ResolverInv, Resolver!Resolve PROVE ResolverInv'
  OBVIOUS
<1>0. PICK a, h : a = process.attempt /\ h = process.prior[Resolver!Key(a)]
  OBVIOUS
<1>1. /\ a = process.attempt /\ h = process.prior[Resolver!Key(a)] /\ recordFile \in Record /\ process \in Script /\ Len(sent) \in Nat /\ process.at = "resolve"
      /\ a \in {0, 1} /\ process.prior \in Record /\ UNCHANGED <<child, recorded, back>>
      /\ RecordIsTrue(process.prior) /\ (process.prior.attempt <= a \/ back) /\ back \in BOOLEAN
      /\ recordFile.attempt \in {process.prior.attempt, a} /\ process.prior.attempt \in {0, 1}
  BY <1>0 DEF Resolver!Resolve, Resolver!Submit, ResolverInv, ProcessIsTrue, Script, Record
<1>2. h \in Nat /\ (h # 0 => HeldFor(h, a) /\ (recordFile.attempt = a \/ back))
  <2>1. CASE a = 0
    BY <1>1, <2>1 DEF Resolver!Key, Record, RecordIsTrue, HeldFor
  <2>2. CASE a = 1
    BY <1>1, <2>2 DEF Resolver!Key, Record, RecordIsTrue, HeldFor
  <2>3. QED BY <1>1, <2>1, <2>2
<1>3. CASE h = 0 /\ recorded[a] = 0
  <2>0. PICK t, n : t = [op |-> "resolve", attempt |-> a, status |-> "pending"] /\ n = Len(sent) + 1
    OBVIOUS
  <2>1. /\ sent' = Append(sent, t) /\ process' = [process EXCEPT !.at = "resolved", !.tx = n]
        /\ recordFile' = [recordFile EXCEPT !.attempt = a, !.status = "submitting"]
    BY <1>1, <1>3, <2>0 DEF Resolver!Resolve, Resolver!Submit, Resolver!Persist
  <2>2. t \in Hashed /\ t.status = "pending" /\ n \in Nat
    BY <1>1, <2>0 DEF Hashed
  <2>3. SentGrows /\ Resolves(n, a)'
    BY <2>0, <2>1, <2>2, AppendGrows DEF Resolves
  <2>4. /\ recordFile' \in Record /\ recordFile'.attempt = a /\ recordFile'.status = "submitting"
        /\ recordFile'.second = recordFile.second /\ recordFile'.resolve = recordFile.resolve
    BY <1>1, <2>1 DEF Record
  <2>5. /\ process' \in Script /\ process'.at = "resolved" /\ process'.tx = n
        /\ process'.attempt = a /\ process'.prior = process.prior
    BY <1>1, <2>1, <2>2 DEF Script, ResolverPlaces
  <2>6. RecordIsTrue(recordFile)'
    BY <1>1, <2>3, <2>4, ResolvesLasts DEF ResolverInv, RecordIsTrue
  <2>7. ProcessIsTrue'
    BY <1>1, <2>3, <2>4, <2>5, ResolvesLasts DEF ProcessIsTrue, HeldFor
  <2>8. Resolver!RecordNamesItsTransaction'
    BY <2>4 DEF Resolver!RecordNamesItsTransaction
  <2>9. QED BY <1>1, <2>3, <2>4, <2>5, <2>6, <2>7, <2>8, ResolverKeeps
<1>4. CASE h = 0 /\ recorded[a] # 0
  <2>1. /\ process' = [process EXCEPT !.at = "record", !.tx = 0]
        /\ UNCHANGED <<sent, recordFile>>
    BY <1>1, <1>4 DEF Resolver!Resolve
  <2>2. /\ process' \in Script /\ process'.at = "record" /\ process'.tx = 0
        /\ process'.attempt = a /\ process'.prior = process.prior
    BY <1>1, <2>1 DEF Script, ResolverPlaces
  <2>3. SentGrows
    BY <2>1, SameGrows
  <2>4. RecordIsTrue(recordFile)' /\ Resolver!RecordNamesItsTransaction'
    BY <1>1, <2>1 DEF ResolverInv, RecordIsTrue, Resolves, Resolver!RecordNamesItsTransaction
  <2>5. ProcessIsTrue'
    BY <1>1, <2>1, <2>2, <2>3, ResolvesLasts DEF ProcessIsTrue
  <2>6. QED BY <1>1, <2>1, <2>2, <2>3, <2>4, <2>5, ResolverKeeps
<1>5. CASE h # 0
  <2>1. /\ process' = [process EXCEPT !.at = "resolution", !.tx = h] /\ UNCHANGED sent
        /\ recordFile' = [recordFile EXCEPT !.resolve = h, !.status = "following"]
    BY <1>1, <1>5 DEF Resolver!Resolve, Resolver!Persist
  <2>2. SentGrows
    BY <2>1, SameGrows
  <2>3. /\ process' \in Script /\ process'.at = "resolution" /\ process'.tx = h
        /\ process'.attempt = a /\ process'.prior = process.prior
    BY <1>1, <1>2, <2>1 DEF Script, ResolverPlaces
  <2>4. /\ recordFile' \in Record /\ recordFile'.attempt = recordFile.attempt
        /\ recordFile'.status = "following"
        /\ recordFile'.second = recordFile.second /\ recordFile'.resolve = h
    BY <1>1, <1>2, <2>1 DEF Record
  <2>5. HeldFor(h, a)' /\ (recordFile.attempt = a \/ back)
    BY <1>1, <1>2, <1>5, <2>2, ResolvesLasts
  <2>6. RecordIsTrue(recordFile)'
    BY <1>1, <2>2, <2>4, <2>5, ResolvesLasts DEF ResolverInv, RecordIsTrue, HeldFor
  <2>7. ProcessIsTrue'
    BY <1>1, <2>2, <2>3, <2>4, <2>5, ResolvesLasts DEF ProcessIsTrue
  <2>8. Resolver!RecordNamesItsTransaction'
    BY <2>4 DEF Resolver!RecordNamesItsTransaction
  <2>9. QED BY <1>1, <2>2, <2>3, <2>4, <2>6, <2>7, <2>8, ResolverKeeps
<1>6. QED BY <1>3, <1>4, <1>5

LEMMA SaveResolveStays == ResolverInv /\ Resolver!SaveResolve => ResolverInv'
<1> SUFFICES ASSUME ResolverInv, Resolver!SaveResolve PROVE ResolverInv'
  OBVIOUS
<1>0. PICK a, h : a = process.attempt /\ h = process.tx
  OBVIOUS
<1>1. /\ a = process.attempt /\ h = process.tx /\ recordFile \in Record /\ process \in Script /\ process.at = "resolved"
      /\ a \in {0, 1} /\ h \in Nat /\ UNCHANGED <<sent, child, recorded, back>> /\ back \in BOOLEAN
      /\ HeldFor(h, a) /\ (recordFile.attempt = a \/ back)
      /\ recordFile' = [recordFile EXCEPT ![Resolver!Key(a)] = h, !.resolve = h, !.status = "following"]
      /\ process' = [process EXCEPT !.at = "resolution"]
  BY <1>0 DEF Resolver!SaveResolve, Resolver!Persist, Resolver!Goto, ResolverInv, ProcessIsTrue, Script
<1>2. /\ recordFile' \in Record /\ recordFile'.attempt = recordFile.attempt
      /\ recordFile'.status = "following"
      /\ recordFile'.resolve = h /\ recordFile'.second = (IF a = 1 THEN h ELSE recordFile.second)
  <2>1. CASE a = 0
    <3>1. recordFile' = [recordFile EXCEPT !.resolve = h, !.resolve = h, !.status = "following"]
      BY <1>1, <2>1 DEF Resolver!Key
    <3>2. recordFile \in Record /\ h \in Nat
      BY <1>1
    <3>3. /\ recordFile' \in Record /\ recordFile'.attempt = recordFile.attempt
          /\ recordFile'.status = "following" /\ recordFile'.resolve = h
          /\ recordFile'.second = recordFile.second
      BY <3>1, <3>2 DEF Record
    <3>4. QED BY <2>1, <3>3
  <2>2. CASE a = 1
    <3>1. Resolver!Key(a) = "second"
      BY <2>2 DEF Resolver!Key
    <3>2. recordFile' = [recordFile EXCEPT !.second = h, !.resolve = h, !.status = "following"]
      BY <1>1, <3>1
    <3>3. recordFile \in Record /\ h \in Nat
      BY <1>1
    <3>4. /\ recordFile' \in Record /\ recordFile'.attempt = recordFile.attempt
          /\ recordFile'.status = "following" /\ recordFile'.resolve = h
          /\ recordFile'.second = h
      BY <3>2, <3>3 DEF Record
    <3>5. QED BY <1>1, <2>2, <3>4
  <2>3. QED BY <1>1, <2>1, <2>2
<1>3. /\ process' \in Script /\ process'.at = "resolution" /\ process'.tx = h
      /\ process'.attempt = a /\ process'.prior = process.prior
  BY <1>1 DEF Script, ResolverPlaces
<1>4. SentGrows /\ HeldFor(h, a)'
  BY <1>1, SameGrows, ResolvesLasts
<1>5. RecordIsTrue(recordFile)'
  BY <1>1, <1>2, <1>4, ResolvesLasts DEF ResolverInv, RecordIsTrue, HeldFor
<1>6. ProcessIsTrue'
  BY <1>1, <1>2, <1>3, <1>4, ResolvesLasts DEF ResolverInv, ProcessIsTrue
<1>7. Resolver!RecordNamesItsTransaction'
  BY <1>2 DEF Resolver!RecordNamesItsTransaction
<1>8. QED BY <1>1, <1>2, <1>3, <1>4, <1>5, <1>6, <1>7, ResolverKeeps

LEMMA FollowResolveStays == ResolverInv /\ Resolver!FollowResolve => ResolverInv'
<1> SUFFICES ASSUME ResolverInv, Resolver!FollowResolve PROVE ResolverInv'
  OBVIOUS
<1>1. /\ recordFile \in Record /\ process \in Script /\ process.at = "resolution"
      /\ UNCHANGED <<sent, child, recorded, recordFile, back>> /\ back \in BOOLEAN
  BY DEF Resolver!FollowResolve, Resolver!Throw, ResolverInv
<1>2. SentGrows
  BY <1>1, SameGrows
<1>3. CASE Resolver!Succeeded
  <2>1. process' = [process EXCEPT !.at = "record"] /\ sent[process.tx].status = "success"
    BY <1>3 DEF Resolver!FollowResolve, Resolver!Succeeded, Resolver!Goto
  <2>2. /\ process' \in Script /\ process'.at = "record" /\ process'.tx = process.tx
        /\ process'.attempt = process.attempt /\ process'.prior = process.prior
    BY <1>1, <2>1 DEF Script, ResolverPlaces
  <2>3. RecordIsTrue(recordFile)' /\ Resolver!RecordNamesItsTransaction'
    BY <1>1 DEF ResolverInv, RecordIsTrue, Resolves, Resolver!RecordNamesItsTransaction
  <2>4. ProcessIsTrue'
    BY <1>1, <1>2, <2>1, <2>2, ResolvesLasts DEF ResolverInv, ProcessIsTrue
  <2>5. QED BY <1>1, <1>2, <2>2, <2>3, <2>4, ResolverKeeps
<1>4. CASE ~Resolver!Succeeded
  <2>1. process' = Resolver!Off
    BY <1>4 DEF Resolver!FollowResolve, Resolver!Throw
  <2>2. QED BY <1>1, <1>2, <2>1, OffIsScript, ResolverNear
<1>5. QED BY <1>3, <1>4

(* The attempt is recorded, and by the transaction that is held.             *)
LEMMA FinishStays == ResolverInv /\ Resolver!Finish => ResolverInv'
<1> SUFFICES ASSUME ResolverInv, Resolver!Finish PROVE ResolverInv'
  OBVIOUS
<1>0. PICK a, h : a = process.attempt /\ h = process.tx
  OBVIOUS
<1>1. /\ a = process.attempt /\ h = process.tx /\ recordFile \in Record /\ process \in Script /\ process.at = "record"
      /\ a \in {0, 1} /\ h \in Nat /\ UNCHANGED <<sent, child, recorded, back>>
      /\ process' = Resolver!Off /\ back \in BOOLEAN
      /\ h # 0 => /\ HeldFor(h, a)
                  /\ recorded[a] = h \/ (back /\ a = 0 /\ recorded[1] = h)
      /\ recordFile.attempt \in {process.prior.attempt, a}
      /\ process.prior.attempt <= a \/ back
      /\ process.prior.attempt \in {0, 1}
  BY <1>0 DEF Resolver!Finish, Resolver!Throw, ResolverInv, ProcessIsTrue, Script, Resolves,
         HeldFor, Record
<1>2. SentGrows
  BY <1>1, SameGrows
<1>3. CASE recorded[a] = 0
  <2>1. recordFile' = recordFile
    BY <1>1, <1>3 DEF Resolver!Finish, Resolver!Throw
  <2>2. QED BY <1>1, <1>2, <2>1, OffIsScript, ResolverNear
<1>4. CASE recorded[a] # 0
  <2>1. recordFile' = [recordFile EXCEPT ![Resolver!Key(a)] = h, !.resolve = h, !.attempt = a,
                                         !.status = "success"]
    BY <1>1, <1>4 DEF Resolver!Finish, Resolver!Persist
  <2>2. /\ recordFile' \in Record /\ recordFile'.attempt = a
        /\ recordFile'.resolve = h /\ recordFile'.second = (IF a = 1 THEN h ELSE recordFile.second)
    <3>1. CASE a = 0
      <4>1. recordFile' = [recordFile EXCEPT !.resolve = h, !.resolve = h, !.attempt = a,
                                             !.status = "success"]
        BY <2>1, <3>1 DEF Resolver!Key
      <4>2. recordFile \in Record /\ h \in Nat /\ a \in {0, 1}
        BY <1>1
      <4>3. /\ recordFile' \in Record /\ recordFile'.attempt = a /\ recordFile'.resolve = h
            /\ recordFile'.second = recordFile.second
        BY <4>1, <4>2 DEF Record
      <4>4. QED BY <3>1, <4>3
    <3>2. CASE a = 1
      <4>1. Resolver!Key(a) = "second"
        BY <3>2 DEF Resolver!Key
      <4>2. recordFile' = [recordFile EXCEPT !.second = h, !.resolve = h, !.attempt = a,
                                             !.status = "success"]
        BY <2>1, <4>1
      <4>3. recordFile \in Record /\ h \in Nat /\ a \in {0, 1}
        BY <1>1
      <4>4. /\ recordFile' \in Record /\ recordFile'.attempt = a /\ recordFile'.resolve = h
            /\ recordFile'.second = h
        BY <4>2, <4>3 DEF Record
      <4>5. QED BY <3>2, <4>4
    <3>3. QED BY <1>1, <3>1, <3>2
  <2>3. h # 0 => HeldFor(h, a)'
    BY <1>1, <1>2, ResolvesLasts
  <2>4. RecordIsTrue(recordFile)'
    BY <1>1, <1>2, <2>2, <2>3, ResolvesLasts DEF ResolverInv, RecordIsTrue, HeldFor
  <2>5. Resolver!RecordNamesItsTransaction'
    BY <1>1, <2>2 DEF Resolver!RecordNamesItsTransaction
  <2>6. ProcessIsTrue' /\ process' \in Script
    BY <1>1, OffIsScript DEF ProcessIsTrue
  <2>7. QED BY <1>1, <1>2, <2>2, <2>4, <2>5, <2>6, ResolverKeeps
<1>5. QED BY <1>3, <1>4

LEMMA ResolverStays == ResolverInv /\ [Resolver!Next]_resolverVars => ResolverInv'
<1> SUFFICES ASSUME ResolverInv, [Resolver!Next]_resolverVars PROVE ResolverInv'
  OBVIOUS
<1>1. CASE UNCHANGED resolverVars
  <2>1. UNCHANGED <<sent, child, recorded, recordFile, process, back>>
    BY <1>1 DEF resolverVars
  <2>2. QED BY <2>1 DEF ResolverInv, RecordIsTrue, ProcessIsTrue, Resolves, HeldFor,
                       Resolver!RecordNamesItsTransaction
<1>2. QED BY <1>1, SettleStays, StartStays, NearStays, ResolveStays, SaveResolveStays,
             FollowResolveStays, FinishStays DEF Resolver!Next, Resolver!Step

----------------------------------------------------------------------------
(* The verdict on a proposal's terms (MarketAdmissibility).                  *)

(* A verdict the votes agree with: what a majority finds is not less than     *)
(* what a majority is compared with.                                         *)
Agreeing(kept, own) ==
    {v \in Validators : own[v].decision = kept.decision
        /\ Contract!First(own[v].issue_codes) = Contract!First(kept.issue_codes)}
Decisive(kept, own) ==
    /\ kept.decision = "APPROVED" <=> kept.issue_codes = <<>>
    /\ Contract!Majority(Agreeing(kept, own))

ContractInv ==
    /\ assessments \in [Drafts -> SUBSET Contract!Answers]
    /\ asked \in [Drafts -> [Validators -> Contract!Answers \cup {Contract!Garbage}]]
    /\ round.at # "idle" => round.proposal \in Drafts
    /\ \A d \in Drafts : \A kept \in assessments[d] : Decisive(kept, asked[d])

LEMMA ContractCountsAlike == \A S : Contract!Cardinality(S) = Cardinality(S)
BY DEF Contract!Cardinality, Cardinality

LEMMA MajorityGrows ==
    ASSUME NEW S \in SUBSET Validators, NEW T \in SUBSET Validators, S \subseteq T,
           Contract!Majority(S)
    PROVE  Contract!Majority(T) /\ S # {}
<1>1. IsFiniteSet(Validators) /\ IsFiniteSet(S) /\ IsFiniteSet(T)
  BY ContractAssumption, FS_Subset
<1>2. Cardinality(S) \in Nat /\ Cardinality(T) \in Nat /\ Cardinality(Validators) \in Nat
  BY <1>1, FS_CardinalityType
<1>3. Cardinality(S) <= Cardinality(T)
  BY <1>1, FS_Subset
<1>4. Contract!Majority(S) <=> 2 * Cardinality(S) > Cardinality(Validators)
  BY ContractCountsAlike DEF Contract!Majority
<1>5. Contract!Majority(T) <=> 2 * Cardinality(T) > Cardinality(Validators)
  BY ContractCountsAlike DEF Contract!Majority
<1>6. S # {}
  <2>1. Cardinality({}) = 0
    BY FS_EmptySet
  <2>2. QED BY <1>2, <1>4, <2>1
<1>7. QED BY <1>2, <1>3, <1>4, <1>5, <1>6

(* A validator that lets the leader's answer pass has the same decision and   *)
(* the same first issue.                                                     *)
LEMMA VotesAgree ==
    ASSUME NEW leader, NEW own, Contract!Validate(leader, own)
    PROVE  /\ leader \in Contract!Answers
           /\ leader.decision = "APPROVED" <=> leader.issue_codes = <<>>
           /\ own.decision = leader.decision
           /\ Contract!First(own.issue_codes) = Contract!First(leader.issue_codes)
<1>1. leader \in Contract!Answers /\ own \in Contract!Answers /\ own.decision = leader.decision
  BY DEF Contract!Validate
<1>2. CASE leader.decision = "APPROVED"
  BY <1>1, <1>2 DEF Contract!Validate, Contract!First
<1>3. CASE leader.decision # "APPROVED"
  <2>1. leader.issue_codes # <<>> /\ own.issue_codes # <<>>
        /\ own.issue_codes[1] = leader.issue_codes[1]
    BY <1>3 DEF Contract!Validate
  <2>2. Head(own.issue_codes) = own.issue_codes[1] /\ Head(leader.issue_codes) = leader.issue_codes[1]
    BY <1>1, <2>1 DEF Contract!Answers, Contract!Lists
  <2>3. QED BY <1>1, <1>3, <2>1, <2>2 DEF Contract!First
<1>4. QED BY <1>2, <1>3

LEMMA ContractBegins == Contract!Init => ContractInv
BY DEF Contract!Init, Contract!Idle, ContractInv

LEMMA VerdictsAreKept ==
    ASSUME ContractInv, UNCHANGED <<assessments, asked>>,
           round'.at # "idle" => round'.proposal \in Drafts
    PROVE  ContractInv'
BY DEF ContractInv, Decisive, Agreeing

LEMMA VerdictIsDecisive == ASSUME ContractInv, NEW own, Contract!Vote(own),
    own \in [Validators -> Contract!Answers \cup {Contract!Garbage}] PROVE ContractInv'
<1> DEFINE S == {v \in Validators : Contract!Validate(round.leader, own[v])}
<1>1. round.at # "idle" /\ round.proposal \in Drafts
  BY DEF Contract!Vote, ContractInv
<1>2. CASE ~Contract!Majority(S)
  BY <1>1, <1>2, VerdictsAreKept DEF Contract!Vote
<1>3. CASE Contract!Majority(S)
  <2>1. /\ assessments' = [assessments EXCEPT ![round.proposal] = {round.leader}]
        /\ asked' = [asked EXCEPT ![round.proposal] = own]
        /\ round' = [at |-> "idle"]
    BY <1>3 DEF Contract!Vote, Contract!Idle
  <2>2. S \subseteq Agreeing(round.leader, own)
    BY VotesAgree DEF Agreeing
  <2>3. S # {} /\ Contract!Majority(Agreeing(round.leader, own))
    BY <1>3, <2>2, MajorityGrows DEF Agreeing
  <2>4. round.leader \in Contract!Answers /\ Decisive(round.leader, own)
    BY <2>3, VotesAgree DEF Decisive
  <2>5. ASSUME NEW d \in Drafts, NEW kept \in assessments'[d] PROVE Decisive(kept, asked'[d])
    BY <1>1, <2>1, <2>4, <2>5 DEF ContractInv
  <2>6. assessments' \in [Drafts -> SUBSET Contract!Answers]
    BY <1>1, <2>1, <2>4 DEF ContractInv
  <2>7. asked' \in [Drafts -> [Validators -> Contract!Answers \cup {Contract!Garbage}]]
    BY <1>1, <2>1 DEF ContractInv
  <2>8. QED BY <2>1, <2>5, <2>6, <2>7 DEF ContractInv, Decisive, Agreeing, Contract!Majority
<1>4. QED BY <1>2, <1>3

LEMMA ContractStays == ContractInv /\ [Contract!Next]_contractVars => ContractInv'
<1> SUFFICES ASSUME ContractInv, [Contract!Next]_contractVars PROVE ContractInv'
  OBVIOUS
<1>1. ASSUME NEW d \in Drafts, NEW m \in Manifests, Contract!Assess(d, m) PROVE ContractInv'
  BY <1>1, VerdictsAreKept DEF Contract!Assess
<1>2. ASSUME NEW answer, Contract!Lead(answer) PROVE ContractInv'
  BY <1>2, VerdictsAreKept DEF Contract!Lead, ContractInv
<1>3. CASE Contract!GiveUp \/ UNCHANGED contractVars
  <2>1. UNCHANGED <<assessments, asked>> /\ (round'.at = "idle" \/ round' = round)
    BY <1>3 DEF Contract!GiveUp, Contract!Idle, contractVars
  <2>2. QED BY <2>1, VerdictsAreKept DEF ContractInv
<1>4. QED BY <1>1, <1>2, <1>3, VerdictIsDecisive DEF Contract!Next

LEMMA VerdictsAreDecisive == ContractInv => Contract!AssessmentIsDecisive
BY DEF ContractInv, Decisive, Agreeing, Contract!AssessmentIsDecisive

----------------------------------------------------------------------------
(* The admin page (AdminPanels): the rows' buttons and the backfill.         *)

PagePanels == {"review", "dispute", "backfill"} \cup Buttons
Under == [at : {"sent", "ok", "error"}, panel : PagePanels,
          what : Items \cup {"on", "dry", "commit"}, here : BOOLEAN]
Single == Buttons \cup {"backfill"}
Standing(r, requests) == requests[r] # Panels!Off /\ requests[r].here

(* A button or backfill that stands with a request under way is marked, has   *)
(* no second one, and a commit has its dry run's report.                     *)
Kept(requests, marks, said) ==
    \A r \in {q1, q2} : Standing(r, requests) =>
        /\ requests[r].panel \in Single =>
             /\ marks[requests[r].panel] # "none"
             /\ \A q \in {q1, q2} : Standing(q, requests)
                                       /\ requests[q].panel = requests[r].panel => q = r
        /\ requests[r].panel = "backfill" /\ requests[r].what = "commit" => said = "dry"

ButtonsInv ==
    /\ busy \in [PagePanels -> Items \cup {"none", "on", "dry", "commit"}]
    /\ request \in [{q1, q2} -> {Panels!Off} \cup Under]
    /\ Kept(request, busy, report)

LEMMA PanelNames ==
    /\ Panels!Panels = PagePanels /\ Panels!Backfill = "backfill" /\ Panels!None = "none"
    /\ Panels!Lists = {"review", "dispute"} /\ Panels!Off.at = "none"
    /\ Panels!Off \notin Under /\ Single \subseteq PagePanels
    /\ Single \cap {"review", "dispute"} = {}
    /\ \A b \in Buttons : b \notin {"review", "dispute", "backfill"}
BY PanelsAssumption DEF Panels!Panels, PagePanels, Panels!Backfill, Panels!None, Panels!Lists,
   Panels!Off, Under, Single

LEMMA ButtonsBegin == Panels!Init => ButtonsInv
<1> SUFFICES ASSUME Panels!Init PROVE ButtonsInv
  OBVIOUS
<1>1. /\ busy = [p \in PagePanels |-> "none"]
      /\ request = [r \in {q1, q2} |-> Panels!Off]
  BY PanelNames DEF Panels!Init
<1>2. QED BY <1>1 DEF ButtonsInv, Kept, Standing

(* Requests that end, or whose panels go, leave the others as they are.      *)
LEMMA FewerAreKept ==
    ASSUME Kept(request, busy, report), NEW requests, NEW marks, NEW said,
           \A q \in {q1, q2} : Standing(q, requests) =>
             /\ Standing(q, request)
             /\ requests[q].panel = request[q].panel /\ requests[q].what = request[q].what
             /\ request[q].panel \in Single => marks[request[q].panel] = busy[request[q].panel]
             /\ request[q].panel = "backfill" => said = report
    PROVE  Kept(requests, marks, said)
BY DEF Kept

(* A request is sent about a panel that is not busy, or is not a single one. *)
LEMMA SendStays ==
    ASSUME ButtonsInv, NEW r \in {q1, q2}, NEW p \in PagePanels,
           NEW what \in Items \cup {"on", "dry", "commit"}, Panels!Send(r, p, what),
           p \in Single => busy[p] = "none" /\ what \in {"on", "dry", "commit"},
           p = "backfill" /\ what = "commit" => report = "dry"
    PROVE  ButtonsInv'
<1> DEFINE new == [at |-> "sent", panel |-> p, what |-> what, here |-> TRUE]
<1>1. /\ request[r] = Panels!Off /\ request' = [request EXCEPT ![r] = new]
      /\ busy' = [busy EXCEPT ![p] = what] /\ UNCHANGED <<open, listed, report>>
  BY DEF Panels!Send
<1>2. /\ busy \in [PagePanels -> Items \cup {"none", "on", "dry", "commit"}]
      /\ request \in [{q1, q2} -> {Panels!Off} \cup Under]
  BY DEF ButtonsInv
<1>3. /\ new \in Under /\ new # Panels!Off
      /\ new.panel = p /\ new.what = what
  BY <1>2, PanelNames DEF Under
<1> HIDE DEF new
<1>4. /\ busy' \in [PagePanels -> Items \cup {"none", "on", "dry", "commit"}]
      /\ request' \in [{q1, q2} -> {Panels!Off} \cup Under]
      /\ request'[r] = new /\ busy'[p] = what
      /\ \A s \in {q1, q2} : s # r => request'[s] = request[s]
      /\ \A b \in PagePanels : b # p => busy'[b] = busy[b]
  BY <1>1, <1>2, <1>3
<1>5. \A s \in {q1, q2} : s # r /\ Standing(s, request) /\ p \in Single => request[s].panel # p
  BY DEF ButtonsInv, Kept
<1>6. ASSUME NEW q \in {q1, q2}, Standing(q, request')
      PROVE  /\ request'[q].panel \in Single =>
                  /\ busy'[request'[q].panel] # "none"
                  /\ \A s \in {q1, q2} : Standing(s, request')
                                            /\ request'[s].panel = request'[q].panel => s = q
             /\ request'[q].panel = "backfill" /\ request'[q].what = "commit" => report = "dry"
  <2>1. \A s \in {q1, q2} : s # r /\ Standing(s, request') => Standing(s, request)
    BY <1>4 DEF Standing
  <2>2. CASE q = r
    BY <1>3, <1>4, <1>5, <2>1, <2>2
  <2>3. CASE q # r
    <3>1. request'[q] = request[q] /\ Standing(q, request)
      BY <1>4, <1>6, <2>1, <2>3
    <3>2. request[q].panel \in Single => request[q].panel # p
      BY <1>5, <2>3, <3>1
    <3>3. request[q].panel \in Single => busy'[request[q].panel] # "none"
      BY <1>4, <3>1, <3>2, PanelNames DEF ButtonsInv, Kept
    <3>4. request[q].panel \in Single =>
            \A s \in {q1, q2} : Standing(s, request') /\ request'[s].panel = request[q].panel => s = q
      BY <1>3, <1>4, <2>1, <3>1, <3>2 DEF ButtonsInv, Kept
    <3>5. request[q].panel = "backfill" /\ request[q].what = "commit" => report = "dry"
      BY <3>1 DEF ButtonsInv, Kept
    <3>6. QED BY <3>1, <3>3, <3>4, <3>5
  <2>4. QED BY <2>2, <2>3
<1>7. Kept(request', busy', report)
  BY <1>6 DEF Kept
<1>8. QED BY <1>1, <1>4, <1>7 DEF ButtonsInv, Kept, Standing

(* Marks and reports stay while a request is served.                         *)
LEMMA ServeStays ==
    ASSUME ButtonsInv, NEW r \in {q1, q2}, Panels!Serve(r)
    PROVE  ButtonsInv'
<1>1. PICK answer \in {"ok", "error"} : request' = [request EXCEPT ![r].at = answer]
  BY DEF Panels!Serve
<1>2. request[r].at = "sent" /\ busy' = busy /\ report' = report
  BY DEF Panels!Serve
<1>3. request \in [{q1, q2} -> {Panels!Off} \cup Under]
  BY DEF ButtonsInv
<1>4. request[r] \in Under
  BY <1>2, <1>3, PanelNames
<1> DEFINE new == [request[r] EXCEPT !.at = answer]
<1>5. /\ new \in Under /\ new.panel = request[r].panel /\ new.what = request[r].what
      /\ new.here = request[r].here
  BY <1>4 DEF Under
<1>6. request' = [request EXCEPT ![r] = new]
  BY <1>1
<1> HIDE DEF new
<1>7. /\ request' \in [{q1, q2} -> {Panels!Off} \cup Under] /\ request'[r] = new
      /\ \A q \in {q1, q2} : q # r => request'[q] = request[q]
  BY <1>3, <1>5, <1>6
<1>8. request[r] # Panels!Off
  BY <1>4, PanelNames
<1>9. \A q \in {q1, q2} : Standing(q, request') =>
        /\ Standing(q, request)
        /\ request'[q].panel = request[q].panel /\ request'[q].what = request[q].what
  BY <1>5, <1>7, <1>8 DEF Standing
<1>10. Kept(request', busy, report)
  BY <1>9, FewerAreKept DEF ButtonsInv
<1>11. QED BY <1>2, <1>7, <1>10 DEF ButtonsInv, Kept, Standing

(* An answer clears the mark of the panel that stands there with it.         *)
LEMMA AnswerStays ==
    ASSUME ButtonsInv, NEW r \in {q1, q2}, request[r].at \in {"ok", "error"},
           busy' = Panels!Cleared(r), request' = [request EXCEPT ![r] = Panels!Off],
           (request[r].panel = "backfill" /\ request[r].here) \/ report' = report
    PROVE  ButtonsInv'
<1>1. /\ busy \in [PagePanels -> Items \cup {"none", "on", "dry", "commit"}]
      /\ request \in [{q1, q2} -> {Panels!Off} \cup Under]
  BY DEF ButtonsInv
<1>2. request[r] \in Under /\ request[r] # Panels!Off /\ request[r].panel \in PagePanels
  BY <1>1, PanelNames DEF Under
<1>3. /\ busy' = [busy EXCEPT ![request[r].panel] =
                    IF request[r].here THEN "none" ELSE busy[request[r].panel]]
      /\ busy' \in [PagePanels -> Items \cup {"none", "on", "dry", "commit"}]
  BY <1>1, <1>2, PanelNames DEF Panels!Cleared
<1>4. /\ request' \in [{q1, q2} -> {Panels!Off} \cup Under] /\ request'[r] = Panels!Off
      /\ \A q \in {q1, q2} : q # r => request'[q] = request[q]
  BY <1>1
<1>5. ASSUME NEW q \in {q1, q2}, Standing(q, request')
      PROVE  /\ Standing(q, request)
             /\ request'[q].panel = request[q].panel /\ request'[q].what = request[q].what
             /\ request[q].panel \in Single => busy'[request[q].panel] = busy[request[q].panel]
             /\ request[q].panel = "backfill" => report' = report
  <2>1. q # r /\ request'[q] = request[q] /\ Standing(q, request)
    BY <1>4, <1>5 DEF Standing
  <2>2. request[q].panel \in Single /\ request[r].here => request[q].panel # request[r].panel
    BY <1>2, <2>1 DEF ButtonsInv, Kept, Standing
  <2>3. request[q] \in Under
    BY <1>1, <2>1 DEF Standing
  <2>4. busy'[request[q].panel] = busy[request[q].panel] \/ request[q].panel \notin Single
    BY <1>1, <1>2, <1>3, <2>2, <2>3 DEF Under
  <2>5. QED BY <2>1, <2>2, <2>4 DEF Single
<1>6. Kept(request', busy', report')
  BY <1>5, FewerAreKept DEF ButtonsInv
<1>7. QED BY <1>3, <1>4, <1>6 DEF ButtonsInv, Kept, Standing

(* Panels that go take no other's mark with them, and nothing stands of them. *)
LEMMA GoneStays ==
    ASSUME ButtonsInv, NEW S, NEW requests \in [{q1, q2} -> {Panels!Off} \cup Under],
           \A q \in {q1, q2} : requests[q] \in {Panels!Off, request[q]},
           Panels!Gone(S, requests)
    PROVE  ButtonsInv'
<1>1. /\ busy' = [p \in PagePanels |-> IF p \in S THEN "none" ELSE busy[p]]
      /\ report' = IF "backfill" \in S THEN "none" ELSE report
  BY PanelNames DEF Panels!Gone
<1>2. request' = [q \in {q1, q2} |-> IF requests[q] # Panels!Off /\ requests[q].panel \in S
                                     THEN [requests[q] EXCEPT !.here = FALSE] ELSE requests[q]]
  BY DEF Panels!Gone
<1>3. busy \in [PagePanels -> Items \cup {"none", "on", "dry", "commit"}]
  BY DEF ButtonsInv
<1>4. busy' \in [PagePanels -> Items \cup {"none", "on", "dry", "commit"}]
  BY <1>1, <1>3
<1>5. ASSUME NEW q \in {q1, q2}
      PROVE  /\ request'[q] \in {Panels!Off} \cup Under
             /\ Standing(q, request') =>
                  request'[q] = request[q] /\ request'[q].panel \notin S
  <2>1. PICK row : row = requests[q] /\ row \in {Panels!Off} \cup Under
    OBVIOUS
  <2>2. CASE row # Panels!Off /\ row.panel \in S
    <3>1. request'[q] = [row EXCEPT !.here = FALSE] /\ row \in Under
      BY <1>2, <2>1, <2>2
    <3>2. [row EXCEPT !.here = FALSE] \in Under /\ ~[row EXCEPT !.here = FALSE].here
      BY <3>1 DEF Under
    <3>3. QED BY <3>1, <3>2 DEF Standing
  <2>3. CASE ~(row # Panels!Off /\ row.panel \in S)
    <3>1. request'[q] = row
      BY <1>2, <2>1, <2>3
    <3>2. Standing(q, request') => row = request[q]
      BY <2>1, <3>1 DEF Standing
    <3>3. QED BY <2>1, <2>3, <3>1, <3>2 DEF Standing
  <2>4. QED BY <2>2, <2>3
<1>6. request' \in [{q1, q2} -> {Panels!Off} \cup Under]
  BY <1>2, <1>5
<1>7. \A q \in {q1, q2} : Standing(q, request') =>
        /\ Standing(q, request)
        /\ request'[q].panel = request[q].panel /\ request'[q].what = request[q].what
        /\ request[q].panel \in Single => busy'[request[q].panel] = busy[request[q].panel]
        /\ request[q].panel = "backfill" => report' = report
  BY <1>1, <1>5, PanelNames DEF Standing
<1>8. Kept(request', busy', report')
  BY <1>7, FewerAreKept DEF ButtonsInv
<1>9. QED BY <1>4, <1>6, <1>8 DEF ButtonsInv, Kept, Standing

LEMMA ButtonsStay == ButtonsInv /\ [Panels!Next]_panelVars => ButtonsInv'
<1> SUFFICES ASSUME ButtonsInv, [Panels!Next]_panelVars PROVE ButtonsInv'
  OBVIOUS
<1>1. ASSUME NEW r \in {q1, q2}, NEW i \in Items, Panels!Review(r, i) \/ Panels!ResolveDispute(r, i)
      PROVE  ButtonsInv'
  BY <1>1, SendStays, PanelNames DEF Panels!Review, Panels!ResolveDispute, PagePanels
<1>2. ASSUME NEW r \in {q1, q2},
             Panels!Pin(r) \/ Panels!DeployArc(r) \/ Panels!ForceResolve(r)
             \/ Panels!TriggerResolve(r) \/ Panels!Refund(r)
      PROVE  ButtonsInv'
  <2>1. PICK b \in Buttons : busy[b] = "none" /\ Panels!Send(r, b, "on")
    BY <1>2, PanelNames DEF Panels!Pin, Panels!DeployArc, Panels!ForceResolve, Panels!TriggerResolve,
       Panels!Refund, Panels!PressButton
  <2>2. QED BY <2>1, SendStays, PanelNames DEF PagePanels
<1>3. ASSUME NEW r \in {q1, q2}, NEW mode \in {"dry", "commit"}, Panels!RunBackfill(r, mode)
      PROVE  ButtonsInv'
  <2>1. busy["backfill"] = "none" /\ Panels!Send(r, "backfill", mode)
        /\ (mode = "commit" => report = "dry")
    BY <1>3, PanelNames DEF Panels!RunBackfill
  <2>2. "backfill" \in PagePanels /\ mode \in Items \cup {"on", "dry", "commit"}
    BY DEF PagePanels
  <2>3. QED BY <2>1, <2>2, SendStays
<1>4. ASSUME NEW q \in Panels!Lists, Panels!Load(q) \/ \E i \in Items : Panels!OthersDecide(q, i)
      PROVE  ButtonsInv'
  <2>1. busy' = busy /\ report' = report /\ request' = request
    BY <1>4 DEF Panels!Load, Panels!OthersDecide
  <2>2. QED BY <2>1 DEF ButtonsInv, Kept, Standing
<1>5. ASSUME NEW r \in {q1, q2}, Panels!Answer(r)
      PROVE  ButtonsInv'
  <2>1. /\ request[r].at \in {"ok", "error"} /\ request' = [request EXCEPT ![r] = Panels!Off]
        /\ busy' = Panels!Cleared(r)
        /\ (request[r].panel = "backfill" /\ request[r].here) \/ report' = report
    BY <1>5, PanelNames DEF Panels!Answer
  <2>2. QED BY <2>1, AnswerStays
<1>6. ASSUME NEW S, Panels!Unmount(S)
      PROVE  ButtonsInv'
  BY <1>6, GoneStays DEF Panels!Unmount, ButtonsInv
<1>7. ASSUME NEW r \in {q1, q2}, Panels!AnswerPin(r)
      PROVE  ButtonsInv'
  <2>1. CASE Panels!Gone(Panels!MarketRows, [request EXCEPT ![r] = Panels!Off])
    <3>1. request \in [{q1, q2} -> {Panels!Off} \cup Under]
      BY DEF ButtonsInv
    <3>2. PICK requests : requests = [request EXCEPT ![r] = Panels!Off]
      OBVIOUS
    <3>3. /\ requests \in [{q1, q2} -> {Panels!Off} \cup Under]
          /\ \A q \in {q1, q2} : requests[q] \in {Panels!Off, request[q]}
      BY <3>1, <3>2
    <3>4. QED BY <2>1, <3>2, <3>3, GoneStays
  <2>2. CASE busy' = Panels!Cleared(r) /\ request' = [request EXCEPT ![r] = Panels!Off]
             /\ report' = report
    BY <1>7, <2>2, AnswerStays DEF Panels!AnswerPin
  <2>3. QED BY <1>7, <2>1, <2>2 DEF Panels!AnswerPin
<1>8. CASE UNCHANGED panelVars
  BY <1>8 DEF ButtonsInv, Kept, Standing, panelVars
<1>9. QED BY <1>1, <1>2, <1>3, <1>4, <1>5, <1>6, <1>7, <1>8, ServeStays DEF Panels!Next

LEMMA ButtonsAreKeptSingle == ButtonsInv => Panels!ButtonsAreSingle
<1> SUFFICES ASSUME ButtonsInv PROVE
       /\ \A b \in Buttons : Panels!Cardinality(Panels!About(b, "on") \cap Panels!Here) <= 1
       /\ Panels!Cardinality((Panels!About(Panels!Backfill, "dry")
                              \cup Panels!About(Panels!Backfill, "commit")) \cap Panels!Here) <= 1
       /\ Panels!About(Panels!Backfill, "commit") \cap Panels!Here # {} => report = "dry"
  BY DEF Panels!ButtonsAreSingle
<1>1. ASSUME NEW b \in Single, NEW S \in SUBSET {q1, q2},
             \A r \in S : Standing(r, request) /\ request[r].panel = b
      PROVE  Panels!Cardinality(S) <= 1
  <2>1. \A x, y \in S : x = y
    BY <1>1 DEF ButtonsInv, Kept
  <2>2. QED BY <2>1, AtMostOne DEF Panels!Cardinality, Cardinality
<1>2. ASSUME NEW b \in Buttons
      PROVE  Panels!Cardinality(Panels!About(b, "on") \cap Panels!Here) <= 1
  BY <1>1 DEF Panels!About, Panels!Here, Standing, Single
<1>3. Panels!Cardinality((Panels!About(Panels!Backfill, "dry")
                          \cup Panels!About(Panels!Backfill, "commit")) \cap Panels!Here) <= 1
  BY <1>1, PanelNames DEF Panels!About, Panels!Here, Standing, Single
<1>4. Panels!About(Panels!Backfill, "commit") \cap Panels!Here # {} => report = "dry"
  BY PanelNames DEF Panels!About, Panels!Here, Standing, ButtonsInv, Kept
<1>5. QED BY <1>2, <1>3, <1>4

----------------------------------------------------------------------------
(* The treasury tab (AdminPanels).                                           *)

Contract0 == [stage : {"Active", "Finalized", "GraceOver"}, fees : Int, collateral : Int, reserve : Int]

(* Winners' reserve is there, and a row that is ready is of a final market:   *)
(* stages go on.                                                             *)
TreasuryInv ==
    /\ contracts \in [Contracts -> Contract0]
    /\ \A m \in Contracts : contracts[m].collateral >= contracts[m].reserve
    /\ tab = [rows |-> tab.rows, busy |-> tab.busy]
    /\ \A m \in Contracts : tab.rows[m].ready => contracts[m].stage # "Active"
    /\ \A s \in sweeps \cup sweepTxs : s.market \in Contracts

LEMMA TreasuryBegins == Panels!TreasuryInit => TreasuryInv
BY DEF Panels!TreasuryInit, Panels!NoRow, TreasuryInv, Contract0

LEMMA ChainMoveStays ==
    ASSUME TreasuryInv, NEW m \in Contracts, Panels!ChainMoves(m)
    PROVE  TreasuryInv'
<1> DEFINE c == contracts[m]
<1>1. c \in Contract0 /\ c.collateral >= c.reserve
  BY DEF TreasuryInv
<1>2. PICK next : /\ contracts' = [contracts EXCEPT ![m] = next]
                  /\ \/ next = [c EXCEPT !.fees = c.fees + 1]
                     \/ \E w \in 0 .. c.collateral : next = [c EXCEPT !.stage = "Finalized", !.reserve = w]
                     \/ c.reserve > 0 /\ next = [c EXCEPT !.collateral = c.collateral - 1,
                                                          !.reserve = c.reserve - 1]
                     \/ c.stage = "Finalized" /\ next = [c EXCEPT !.stage = "GraceOver"]
  BY DEF Panels!ChainMoves, Panels!Trade, Panels!Finalize, Panels!Redeem, Panels!Grace
<1>3. /\ next \in Contract0 /\ next.collateral >= next.reserve
      /\ c.stage # "Active" => next.stage # "Active"
  <2>1. CASE next = [c EXCEPT !.fees = c.fees + 1]
    BY <1>1, <2>1 DEF Contract0
  <2>2. ASSUME NEW w \in 0 .. c.collateral, next = [c EXCEPT !.stage = "Finalized", !.reserve = w]
        PROVE  /\ next \in Contract0 /\ next.collateral >= next.reserve /\ next.stage # "Active"
    <3>1. next = [stage |-> "Finalized", fees |-> c.fees, collateral |-> c.collateral, reserve |-> w]
      BY <1>1, <2>2 DEF Contract0
    <3>2. c.fees \in Int /\ c.collateral \in Int /\ w \in Int /\ c.collateral >= w
      BY <1>1 DEF Contract0
    <3>3. QED BY <3>1, <3>2 DEF Contract0
  <2>3. CASE next = [c EXCEPT !.collateral = c.collateral - 1, !.reserve = c.reserve - 1]
    <3>1. next = [stage |-> c.stage, fees |-> c.fees, collateral |-> c.collateral - 1,
                  reserve |-> c.reserve - 1]
      BY <1>1, <2>3 DEF Contract0
    <3>2. c.fees \in Int /\ c.collateral \in Int /\ c.reserve \in Int
          /\ c.stage \in {"Active", "Finalized", "GraceOver"}
      BY <1>1 DEF Contract0
    <3>3. c.collateral - 1 \in Int /\ c.reserve - 1 \in Int /\ c.collateral - 1 >= c.reserve - 1
      BY <1>1, <3>2
    <3>4. QED BY <3>1, <3>2, <3>3 DEF Contract0
  <2>4. CASE next = [c EXCEPT !.stage = "GraceOver"]
    BY <1>1, <2>4 DEF Contract0
  <2>5. QED BY <1>2, <2>1, <2>2, <2>3, <2>4
<1>4. UNCHANGED <<tab, sweeps, sweepTxs>>
  BY DEF Panels!ChainMoves
<1>5. QED BY <1>2, <1>3, <1>4 DEF TreasuryInv

LEMMA ExecuteStays ==
    ASSUME TreasuryInv, NEW t \in sweepTxs, Panels!Execute(t)
    PROVE  TreasuryInv'
<1> DEFINE c == contracts[t.market]
<1>1. t.market \in Contracts /\ c \in Contract0 /\ c.collateral >= c.reserve
  BY DEF TreasuryInv
<1>2. /\ \/ contracts' = contracts
         \/ contracts' = [contracts EXCEPT ![t.market].fees = 0]
         \/ contracts' = [contracts EXCEPT ![t.market].collateral = c.reserve]
      /\ sweepTxs' \subseteq sweepTxs /\ UNCHANGED <<tab, sweeps>>
  BY DEF Panels!Execute
<1>3. CASE contracts' = contracts
  BY <1>2, <1>3 DEF TreasuryInv
<1>4. CASE contracts' = [contracts EXCEPT ![t.market].fees = 0]
  <2>1. contracts' \in [Contracts -> Contract0]
        /\ \A m \in Contracts : contracts'[m].collateral = contracts[m].collateral
             /\ contracts'[m].reserve = contracts[m].reserve /\ contracts'[m].stage = contracts[m].stage
    BY <1>1, <1>4 DEF TreasuryInv, Contract0
  <2>2. QED BY <1>2, <2>1 DEF TreasuryInv
<1>5. CASE contracts' = [contracts EXCEPT ![t.market].collateral = c.reserve]
  <2>1. contracts' \in [Contracts -> Contract0]
        /\ \A m \in Contracts : contracts'[m].collateral >= contracts'[m].reserve
             /\ contracts'[m].stage = contracts[m].stage
    BY <1>1, <1>5 DEF TreasuryInv, Contract0
  <2>2. QED BY <1>2, <2>1 DEF TreasuryInv
<1>6. QED BY <1>2, <1>3, <1>4, <1>5

LEMMA OnlyFinalIsReady ==
    ASSUME NEW c, NEW r, NEW dated, NEW graced, Panels!Row(c, r, dated, graced).ready
    PROVE  c.stage # "Active"
BY Zenon DEF Panels!Row

LEMMA TreasuryStays == TreasuryInv /\ [Panels!TreasuryNext]_treasuryVars => TreasuryInv'
<1> SUFFICES ASSUME TreasuryInv, [Panels!TreasuryNext]_treasuryVars PROVE TreasuryInv'
  OBVIOUS
<1>1. CASE Panels!LoadTreasury
  <2>1. PICK failed, undated, unreserved, graceless \in SUBSET Contracts :
          tab' = [tab EXCEPT !.rows = [m \in Contracts |->
                   IF m \in failed THEN Panels!NoRow
                   ELSE Panels!Row(contracts[m], IF m \in unreserved THEN 0 ELSE contracts[m].reserve,
                            m \notin undated, m \notin graceless)]]
    BY <1>1 DEF Panels!LoadTreasury
  <2>2. UNCHANGED <<contracts, sweeps, sweepTxs>>
    BY <1>1 DEF Panels!LoadTreasury
  <2>3. tab' = [rows |-> tab'.rows, busy |-> tab'.busy]
        /\ tab'.rows = [m \in Contracts |->
                   IF m \in failed THEN Panels!NoRow
                   ELSE Panels!Row(contracts[m], IF m \in unreserved THEN 0 ELSE contracts[m].reserve,
                            m \notin undated, m \notin graceless)]
    BY <2>1 DEF TreasuryInv
  <2>4. \A m \in Contracts : tab'.rows[m].ready => contracts[m].stage # "Active"
    BY <2>3, OnlyFinalIsReady DEF Panels!NoRow
  <2>5. QED BY <2>2, <2>3, <2>4 DEF TreasuryInv
<1>2. ASSUME NEW m \in Contracts, NEW kind \in Panels!Kinds, Panels!PressSweep(m, kind)
      PROVE  TreasuryInv'
  BY <1>2 DEF Panels!PressSweep, TreasuryInv
<1>3. ASSUME NEW s \in sweeps, Panels!RouteRefuses(s) \/ Panels!RouteSends(s)
      PROVE  TreasuryInv'
  BY <1>3 DEF Panels!RouteRefuses, Panels!RouteSends, TreasuryInv
<1>4. CASE UNCHANGED treasuryVars
  BY <1>4 DEF TreasuryInv, treasuryVars
<1>5. QED BY <1>1, <1>2, <1>3, <1>4, ChainMoveStays, ExecuteStays DEF Panels!TreasuryNext

LEMMA WinnersAreSpared == TreasuryInv => Panels!SweepsSpareTheWinners
BY DEF TreasuryInv, Panels!SweepsSpareTheWinners

----------------------------------------------------------------------------
(* The quotes (LmsrQuotes).                                                  *)

QuotesInv ==
    /\ qYes \in 0 .. MaxShares /\ qNo \in 0 .. MaxShares /\ collected \in Int
    /\ collected = Quotes!cost(qYes, qNo) - Quotes!cost(0, 0)

LEMMA QuotesBegin == Quotes!Init => QuotesInv
BY QuotesAssumption DEF Quotes!Init, QuotesInv

(* A trade moves what is collected by the difference of two costs.           *)
LEMMA QuotesStay == QuotesInv /\ [Quotes!Next]_quoteVars => QuotesInv'
<1> SUFFICES ASSUME QuotesInv, [Quotes!Next]_quoteVars PROVE QuotesInv'
  OBVIOUS
<1> DEFINE cost(y, n) == Quotes!cost(y, n)
<1>1. /\ qYes \in 0 .. MaxShares /\ qNo \in 0 .. MaxShares /\ collected \in Int
      /\ collected = cost(qYes, qNo) - cost(0, 0)
      /\ \A y, n \in 0 .. MaxShares : cost(y, n) \in Int
      /\ MaxShares \in Nat
  BY QuotesAssumption DEF QuotesInv
<1>2. ASSUME NEW size \in Quotes!Sizes PROVE size[1] \in Nat /\ size[2] \in Nat
  <2>1. \E lot \in Lots : size = <<lot, 0>> \/ size = <<0, lot>>
    BY DEF Quotes!Sizes
  <2>2. QED BY <2>1, QuotesAssumption
<1>3. CASE Quotes!Buy
  <2>1. PICK size \in Quotes!Sizes :
          /\ qYes + size[1] <= MaxShares /\ qNo + size[2] <= MaxShares
          /\ qYes' = qYes + size[1] /\ qNo' = qNo + size[2]
          /\ collected' = collected + (cost(qYes + size[1], qNo + size[2]) - cost(qYes, qNo))
    BY <1>3 DEF Quotes!Buy, Quotes!quoteBuy, Quotes!costToBuy
  <2>2. qYes' \in 0 .. MaxShares /\ qNo' \in 0 .. MaxShares
    BY <1>1, <1>2, <2>1
  <2>3. cost(qYes', qNo') \in Int /\ cost(0, 0) \in Int /\ cost(qYes, qNo) \in Int
    BY <1>1, <2>2
  <2>4. collected' = cost(qYes', qNo') - cost(0, 0)
    BY <1>1, <2>1, <2>3
  <2>5. QED BY <2>2, <2>3, <2>4 DEF QuotesInv
<1>4. CASE Quotes!Sell
  <2>1. PICK size \in Quotes!Sizes :
          /\ size[1] <= qYes /\ size[2] <= qNo
          /\ qYes' = qYes - size[1] /\ qNo' = qNo - size[2]
          /\ collected' = collected - Quotes!returnOnSell(qYes, qNo, size[1], size[2])
    BY <1>4 DEF Quotes!Sell, Quotes!quoteSell
  <2>2. qYes' \in 0 .. MaxShares /\ qNo' \in 0 .. MaxShares
    BY <1>1, <1>2, <2>1
  <2>3. cost(qYes', qNo') \in Int /\ cost(0, 0) \in Int /\ cost(qYes, qNo) \in Int
    BY <1>1, <2>2
  <2>4. ~(size[1] > qYes \/ size[2] > qNo)
    BY <1>1, <1>2, <2>1
  <2>5. Quotes!returnOnSell(qYes, qNo, size[1], size[2]) = cost(qYes, qNo) - cost(qYes', qNo')
    BY <2>1, <2>4 DEF Quotes!returnOnSell
  <2>6. collected' = cost(qYes', qNo') - cost(0, 0)
    BY <1>1, <2>1, <2>3, <2>5
  <2>7. QED BY <2>2, <2>3, <2>6 DEF QuotesInv
<1>5. CASE UNCHANGED quoteVars
  BY <1>5 DEF QuotesInv, quoteVars
<1>6. QED BY <1>3, <1>4, <1>5 DEF Quotes!Next

LEMMA PathsAreKeptTheSame == QuotesInv => Quotes!PathsCostTheSame
BY DEF QuotesInv, Quotes!PathsCostTheSame

(* What a cost function has to have for the provider's loss to be bounded.   *)
CostCovers ==
    /\ Quotes!maxLpLoss \in Int
    /\ \A y, n \in 0 .. MaxShares :
         /\ y - (Quotes!cost(y, n) - Quotes!cost(0, 0)) <= Quotes!maxLpLoss + 1
         /\ n - (Quotes!cost(y, n) - Quotes!cost(0, 0)) <= Quotes!maxLpLoss + 1

LEMMA LossIsCovered == ASSUME CostCovers PROVE QuotesInv => Quotes!LossIsBounded
BY DEF QuotesInv, Quotes!LossIsBounded, CostCovers

----------------------------------------------------------------------------
StepOf(p) ==
    /\ p = "run" => Run!Next
    /\ p = "resolver" => Resolver!Next
    /\ p = "contract" => Contract!Next
    /\ p = "quotes" => Quotes!Next
    /\ p \in SetupParts => Setup!Next
    /\ p \in PanelParts => Panels!Next
    /\ p = "treasury" => Panels!TreasuryNext

(* The parts side by side: each steps by its own next-state relation or rests. *)
LEMMA ServiceParts ==
    ASSUME [ServiceNext]_serviceVars
    PROVE  /\ [Run!Next]_runVars /\ [Resolver!Next]_resolverVars /\ [Contract!Next]_contractVars
           /\ [Quotes!Next]_quoteVars /\ [Setup!Next]_(Setup!vars) /\ [Panels!Next]_panelVars
           /\ [Panels!TreasuryNext]_treasuryVars
<1>1. CASE UNCHANGED serviceVars
  BY <1>1 DEF serviceVars, circleVars, factoryVars, fixtureVars, Setup!vars
<1>2. ASSUME NEW p \in Parts, Works(p) PROVE
        /\ p # "run" => UNCHANGED runVars
        /\ p # "resolver" => UNCHANGED resolverVars
        /\ p # "contract" => UNCHANGED contractVars
        /\ p # "quotes" => UNCHANGED quoteVars
        /\ p \notin SetupParts => UNCHANGED Setup!vars
        /\ p \notin PanelParts => UNCHANGED panelVars
        /\ p # "treasury" => UNCHANGED treasuryVars
  <2>1. p \notin SetupParts => p # "circle" /\ p # "factory" /\ p # "fixtures"
    BY DEF SetupParts
  <2>2. p \notin SetupParts => UNCHANGED <<setup, ends>> /\ UNCHANGED circleVars
                               /\ UNCHANGED factoryVars /\ UNCHANGED fixtureVars
    BY <1>2, <2>1 DEF Works
  <2>3. p \notin SetupParts => UNCHANGED Setup!vars
    BY <2>2 DEF circleVars, factoryVars, fixtureVars, Setup!vars
  <2>4. QED BY <1>2, <2>3 DEF Works
<1>3. ASSUME NEW p \in Parts, Works(p), StepOf(p)
      PROVE  /\ [Run!Next]_runVars /\ [Resolver!Next]_resolverVars /\ [Contract!Next]_contractVars
             /\ [Quotes!Next]_quoteVars /\ [Setup!Next]_(Setup!vars) /\ [Panels!Next]_panelVars
             /\ [Panels!TreasuryNext]_treasuryVars
  BY <1>2, <1>3 DEF StepOf, SetupParts, PanelParts
<1>4. CASE ServiceNext
  <2>1. PICK p \in Parts : Works(p) /\ StepOf(p)
    BY <1>4 DEF ServiceNext, StepOf, Parts, SetupParts, PanelParts
  <2>2. QED BY <1>3, <2>1
<1>5. QED BY <1>1, <1>4

LEMMA PlacesKept == ServiceSpec => [](SetupInv /\ ButtonsInv /\ TreasuryInv)
<1>1. ServiceInit => SetupInv /\ ButtonsInv /\ TreasuryInv
  BY SetupBegins, ButtonsBegin, TreasuryBegins DEF ServiceInit
<1>2. SetupInv /\ ButtonsInv /\ TreasuryInv /\ [ServiceNext]_serviceVars
      => (SetupInv /\ ButtonsInv /\ TreasuryInv)'
  BY ServiceParts, SetupStays, ButtonsStay, TreasuryStays
<1>3. QED BY <1>1, <1>2, PTL DEF ServiceSpec

LEMMA VerdictsKept == ServiceSpec => [](ContractInv /\ QuotesInv)
<1>1. ServiceInit => ContractInv /\ QuotesInv
  BY ContractBegins, QuotesBegin DEF ServiceInit
<1>2. ContractInv /\ QuotesInv /\ [ServiceNext]_serviceVars => (ContractInv /\ QuotesInv)'
  BY ServiceParts, ContractStays, QuotesStay
<1>3. QED BY <1>1, <1>2, PTL DEF ServiceSpec

LEMMA FilesKept == ServiceSpec => [](RunInv /\ ResolverInv)
<1>1. ServiceInit => RunInv /\ ResolverInv
  BY RunBegins, ResolverBegins DEF ServiceInit
<1>2. RunInv /\ ResolverInv /\ [ServiceNext]_serviceVars => (RunInv /\ ResolverInv)'
  BY ServiceParts, RunStays, ResolverStays
<1>3. QED BY <1>1, <1>2, PTL DEF ServiceSpec

----------------------------------------------------------------------------
(* Wherever a script is killed, whatever reads lag and trades revert, and     *)
(* however often it is run again: no market is created, activated, settled or *)
(* paid out twice, and nothing else is done twice but a transaction whose     *)
(* hash was lost between sending and saving it.  No second treasury wallet is *)
(* made, no fixture's identity is shared, no two factories wait unless a hash *)
(* was lost, and a button of the admin page has one request under way of the  *)
(* panel that stands there, whatever tables, tabs and dialogs come anew (the  *)
(* scripts, and frontend's admin/page.tsx).                                   *)
THEOREM DoneOnce == ServiceSpec => []NothingIsDoneTwice
<1>1. RunInv /\ SetupInv /\ ButtonsInv => NothingIsDoneTwice
  BY RunIsDoneOnce, OneOfEachIsKept, ButtonsAreKeptSingle DEF NothingIsDoneTwice
<1>2. QED BY <1>1, FilesKept, PlacesKept, PTL

(* A record that says done finds its market on Base as a run or a settlement  *)
(* leaves it, whichever hashes were lost and also where reads lagged; the     *)
(* resolver's record of an attempt names the transaction that resolved it, or *)
(* that of the second attempt where a run went back to the first; what the    *)
(* manifest says of a factory is what was deployed                            *)
(* (run-connected-genlayer-resolver.mjs, the run, settle and deployment       *)
(* scripts).                                                                  *)
THEOREM FilesAreTrue == ServiceSpec => []FilesAreRight
<1>1. RunInv /\ ResolverInv => Run!DoneIsDone /\ Resolver!RecordNamesItsTransaction
  BY DEF RunInv, ResolverInv
<1>2. SetupInv => Setup!ManifestIsTrue
  BY OneOfEachIsKept
<1>3. QED BY <1>1, <1>2, FilesKept, PlacesKept, PTL DEF FilesAreRight

(* An assessment that is kept is what a majority of the validators found and  *)
(* is decisive, whichever of them led; trades in whatever order and lots have *)
(* paid what the state they led to costs; a treasury sweeps no more of a      *)
(* market than its winners leave (market_admissibility.py, lmsr.ts, the admin *)
(* page's treasury tab).                                                      *)
THEOREM VerdictsAndMoney == ServiceSpec => []VerdictsAndMoneyAreSound
<1>1. ContractInv /\ QuotesInv /\ TreasuryInv => VerdictsAndMoneyAreSound
  BY VerdictsAreDecisive, PathsAreKeptTheSame, WinnersAreSpared DEF VerdictsAndMoneyAreSound
<1>2. QED BY <1>1, VerdictsKept, PlacesKept, PTL

(* Given a cost function that is never less than what a winning side's shares *)
(* pay out, but for b ln 2, no sequence of trades at the quotes loses the     *)
(* provider more (lmsr.ts).                                                   *)
THEOREM LossBounded == ASSUME CostCovers PROVE ServiceSpec => []Quotes!LossIsBounded
BY VerdictsKept, LossIsCovered, PTL

----------------------------------------------------------------------------
(* The indexer of Base: the database has every event below the cursor and     *)
(* none that was replaced.                                                    *)
USE IndexerAssumption DEF NoCursor, Versions, Blocks, Events

(***************************************************************************)
(* The cursor as a job reads it: before there is a row it is the           *)
(* deployment block.                                                       *)
(***************************************************************************)
Cursor == IF nextBlock = NoCursor THEN DEPLOYMENT_BLOCK ELSE nextBlock

Final(b) == b <= latest - CONFIRMATIONS

(* What a job knows by the time it has done each of its steps.             *)
HasFrom(w)   == worker[w].pc \in {"head", "logs", "persist", "block", "advance", "continue"}
HasEnd(w)    == worker[w].pc \in {"logs", "persist", "block", "advance", "continue"}
HasSaved(w)  == worker[w].pc \in {"block", "advance", "continue"}

Reading(w) ==
    /\ HasFrom(w) => worker[w].from \in DEPLOYMENT_BLOCK .. Cursor
    /\ HasEnd(w)  => worker[w].end >= worker[w].from /\ Final(worker[w].end)
    /\ worker[w].pc = "persist" => worker[w].logs = Canonical(worker[w].from, worker[w].end)
    /\ HasSaved(w) => Canonical(worker[w].from, worker[w].end) \subseteq indexed
    /\ worker[w].pc = "advance" => worker[w].hash = chain[worker[w].end]

IInv ==
    /\ TypeOK
    /\ \A e \in indexed : Final(e[1]) /\ e[2] = chain[e[1]]
    /\ \A w \in Workers : Reading(w)
    /\ nextBlock # NoCursor => Final(nextBlock - 1)
    /\ NoGapBelowCursor
    /\ HashMatchesCursor

(* Reorganizations leave final blocks alone.                               *)
LEMMA ReorgKeepsFinal ==
    ASSUME TypeOK, NEW b \in Blocks, Reorg(b), NEW c \in Blocks, Final(c)
    PROVE  chain'[c] = chain[c]
BY DEF TypeOK, Reorg, Final

(* A range of final blocks has the same events after any step.             *)
LEMMA CanonicalIsStable ==
    ASSUME NEW from \in Nat, NEW end \in Nat,
           \A b \in from .. end : chain'[b] = chain[b]
    PROVE  Canonical(from, end)' = Canonical(from, end)
BY DEF Canonical

-----------------------------------------------------------------------------
LEMMA InitEstablishes == Init => IInv
<1> SUFFICES ASSUME Init PROVE IInv
  OBVIOUS
<1>1. TypeOK
  BY DEF Init, TypeOK, Idle, Jobs, Steps, ConfirmedHead
<1>2. \A w \in Workers : Reading(w)
  BY DEF Init, Reading, HasFrom, HasEnd, HasSaved, Idle
<1>3. QED BY <1>1, <1>2 DEF Init, IInv, NoGapBelowCursor, HashMatchesCursor

-----------------------------------------------------------------------------
(* The chain moves.                                                        *)

LEMMA MinePreserves == IInv /\ Mine => IInv'
<1> SUFFICES ASSUME IInv, Mine PROVE IInv'
  OBVIOUS
<1> USE DEF IInv, Mine, chainVars, storeVars, queueVars
<1>1. TypeOK'
  BY DEF TypeOK, ConfirmedHead
<1>2. \A b \in Int : Final(b) => Final(b)'
  BY DEF TypeOK, Final
<1>3. (\A e \in indexed : Final(e[1]) /\ e[2] = chain[e[1]])'
  BY <1>2 DEF TypeOK
<1>4. ASSUME NEW w \in Workers PROVE Reading(w)'
  <2>1. worker[w].end \in Int
    BY DEF TypeOK, Jobs
  <2> QED BY <1>2, <2>1 DEF Reading, HasFrom, HasEnd, HasSaved, Cursor, Canonical
<1>5. NoGapBelowCursor' /\ HashMatchesCursor' /\ (nextBlock # NoCursor => Final(nextBlock - 1))'
  <2>1. UNCHANGED <<chain, nextBlock, lastBlockHash, indexed>>
    OBVIOUS
  <2>2. NoGapBelowCursor'
    BY <2>1 DEF NoGapBelowCursor, Canonical
  <2>3. HashMatchesCursor'
    BY <2>1 DEF HashMatchesCursor
  <2>4. (nextBlock # NoCursor => Final(nextBlock - 1))'
    BY <2>1 DEF TypeOK, Final
  <2>5. QED BY <2>2, <2>3, <2>4
<1>6. QED BY <1>1, <1>3, <1>4, <1>5

LEMMA ReorgPreserves == ASSUME NEW b \in Blocks PROVE IInv /\ Reorg(b) => IInv'
<1> SUFFICES ASSUME IInv, Reorg(b) PROVE IInv'
  OBVIOUS
<1> USE DEF IInv, chainVars, storeVars, queueVars
<1>1. TypeOK'
  <2>1. chain' \in [Blocks -> Nat] /\ reorgs' \in Nat
    BY DEF TypeOK, Reorg
  <2>2. QED BY <2>1 DEF TypeOK, Reorg, ConfirmedHead
<1>2. \A c \in Blocks : Final(c) => chain'[c] = chain[c]
  BY ReorgKeepsFinal
<1>3. (\A e \in indexed : Final(e[1]) /\ e[2] = chain[e[1]])'
  BY <1>2 DEF TypeOK, Reorg, Final
<1>4. ASSUME NEW from \in Nat, NEW end \in Int, Final(end)
      PROVE  Canonical(from, end)' = Canonical(from, end)
  <2>1. \A c \in from .. end : c \in Blocks /\ Final(c)
    BY <1>4 DEF TypeOK, Final
  <2>2. QED BY <1>2, <2>1 DEF Canonical
<1>5. ASSUME NEW w \in Workers PROVE Reading(w)'
  <2>1. worker[w].from \in Nat /\ worker[w].end \in Nat
    BY DEF TypeOK, Jobs
  <2>2. UNCHANGED <<worker, indexed, nextBlock>>
    BY DEF Reorg
  <2>3. HasEnd(w) => Canonical(worker[w].from, worker[w].end)'
                       = Canonical(worker[w].from, worker[w].end)
    <3> SUFFICES ASSUME HasEnd(w)
                 PROVE  Canonical(worker[w].from, worker[w].end)'
                          = Canonical(worker[w].from, worker[w].end)
      OBVIOUS
    <3>1. Final(worker[w].end)
      BY DEF Reading
    <3>2. ASSUME NEW from \in Nat, NEW end \in Int, Final(end),
                 from = worker[w].from, end = worker[w].end
          PROVE  Canonical(from, end)' = Canonical(from, end)
      BY <1>4, <3>2
    <3>3. QED BY <2>1, <2>2, <3>1, <3>2 DEF Canonical
  <2>4. HasEnd(w) => chain'[worker[w].end] = chain[worker[w].end]
    BY <1>2, <2>1 DEF Reading, Final, TypeOK
  <2>5. Final(worker[w].end)' <=> Final(worker[w].end)
    BY DEF Final, Reorg
  <2>6. QED BY <2>3, <2>4, <2>5, <2>2 DEF Reading, HasFrom, HasEnd, HasSaved, Cursor
<1>6. nextBlock # NoCursor => nextBlock - 1 \in Blocks /\ Final(nextBlock - 1)
  BY DEF TypeOK, ConfirmedHead
<1>7. NoGapBelowCursor'
  BY <1>4, <1>6 DEF NoGapBelowCursor, Reorg
<1>8. HashMatchesCursor'
  BY <1>2, <1>6 DEF HashMatchesCursor, Reorg
<1>9. QED BY <1>1, <1>3, <1>5, <1>6, <1>7, <1>8 DEF Reorg, Final

-----------------------------------------------------------------------------
(***************************************************************************)
(* The steps of a job.  What a job knows about the chain and the database  *)
(* survives the steps of others, because final blocks do not change, the   *)
(* database only grows and the cursor only advances.                       *)
(***************************************************************************)
LEMMA OthersKeepReading ==
    ASSUME TypeOK, TypeOK', NEW w \in Workers, Reading(w),
           UNCHANGED <<latest, chain>>, indexed \subseteq indexed', Cursor <= Cursor',
           worker'[w] = worker[w]
    PROVE  Reading(w)'
<1>1. worker[w].from \in Int /\ Cursor \in Int /\ Cursor' \in Int
  BY DEF TypeOK, Jobs, Cursor, ConfirmedHead
<1>2. QED BY <1>1 DEF Reading, HasFrom, HasEnd, HasSaved, Final, Canonical

(* A step that leaves the chain and the store alone only has its own job's *)
(* knowledge to account for.                                               *)
LEMMA LocalStep ==
    ASSUME IInv, NEW w \in Workers, NEW job, worker' = [worker EXCEPT ![w] = job],
           UNCHANGED <<latest, chain, storeVars>>, TypeOK', Reading(w)'
    PROVE  IInv'
<1> USE DEF IInv, storeVars
<1>1. ASSUME NEW v \in Workers PROVE Reading(v)'
  <2>1. CASE v = w
    BY <2>1
  <2>2. CASE v # w
    <3>1. worker'[v] = worker[v]
      BY <2>2 DEF TypeOK
    <3>2. Cursor <= Cursor'
      BY DEF Cursor, TypeOK, ConfirmedHead
    <3>3. QED BY <3>1, <3>2, OthersKeepReading
  <2>3. QED BY <2>1, <2>2
<1>2. QED BY <1>1 DEF NoGapBelowCursor, HashMatchesCursor, Canonical, Final

(* What the updates of a job's record are.                                 *)
LEMMA JobMoves ==
    ASSUME NEW job \in Jobs, NEW step \in Steps
    PROVE  [job EXCEPT !.pc = step] \in Jobs
BY DEF Jobs

LEMMA JobReadsCursor ==
    ASSUME NEW job \in Jobs, NEW from \in Nat
    PROVE  LET new == [job EXCEPT !.pc = "head", !.from = from]
           IN  new \in Jobs /\ new.pc = "head" /\ new.from = from
BY DEF Jobs, Steps

LEMMA JobFetchesLogs ==
    ASSUME NEW job \in Jobs, NEW logs \in SUBSET Events
    PROVE  LET new == [job EXCEPT !.pc = "persist", !.logs = logs]
           IN  /\ new \in Jobs /\ new.pc = "persist" /\ new.logs = logs
               /\ new.from = job.from /\ new.end = job.end
BY DEF Jobs, Steps

LEMMA JobFetchesBlock ==
    ASSUME NEW job \in Jobs, NEW hash \in Nat
    PROVE  LET new == [job EXCEPT !.pc = "advance", !.hash = hash]
           IN  /\ new \in Jobs /\ new.pc = "advance" /\ new.hash = hash
               /\ new.from = job.from /\ new.end = job.end
BY DEF Jobs, Steps

(* What the types say of a job and of the cursor.                          *)
LEMMA Types ==
    ASSUME TypeOK, NEW w \in Workers
    PROVE  /\ worker[w] \in Jobs
           /\ worker[w].from \in Nat /\ worker[w].end \in Nat /\ worker[w].head \in Nat
           /\ worker[w].logs \in SUBSET Events /\ worker[w].hash \in Nat
           /\ ConfirmedHead \in Nat /\ Cursor \in Nat
BY DEF TypeOK, Jobs, ConfirmedHead, Cursor

(* The types survive a job's step that leaves chain and store alone.       *)
LEMMA LocalType ==
    ASSUME TypeOK, NEW w \in Workers, NEW job \in Jobs,
           worker' = [worker EXCEPT ![w] = job],
           UNCHANGED <<chainVars, failures, storeVars, queueVars>>
    PROVE  TypeOK' /\ worker'[w] = job
BY DEF TypeOK, chainVars, storeVars, queueVars, ConfirmedHead

LEMMA TickPreserves == ASSUME NEW w \in Workers PROVE IInv /\ Tick(w) => IInv'
<1> SUFFICES ASSUME IInv, Tick(w) PROVE IInv'
  OBVIOUS
<1> USE DEF IInv, Tick, Goto, chainVars, storeVars, queueVars
<1>1. TypeOK'
  <2>1. [worker[w] EXCEPT !.pc = "cursor"] \in Jobs
    BY JobMoves DEF TypeOK, Steps
  <2>2. QED BY <2>1 DEF TypeOK, ConfirmedHead
<1>2. worker' = [worker EXCEPT ![w] = [worker[w] EXCEPT !.pc = "cursor"]]
  BY DEF TypeOK
<1>3. worker'[w].pc = "cursor"
  BY DEF TypeOK
<1>4. Reading(w)'
  BY <1>3 DEF Reading, HasFrom, HasEnd, HasSaved
<1>5. QED BY <1>1, <1>2, <1>4, LocalStep

LEMMA FailPreserves == ASSUME NEW w \in Workers PROVE IInv /\ Fail(w) => IInv'
<1> SUFFICES ASSUME IInv, Fail(w) PROVE IInv'
  OBVIOUS
<1> USE DEF IInv, Fail, chainVars, storeVars, queueVars
<1>1. TypeOK'
  <2>1. Idle \in Jobs
    BY DEF Idle, Jobs, Steps
  <2>2. QED BY <2>1 DEF TypeOK, ConfirmedHead
<1>2. worker'[w].pc = "idle"
  BY DEF TypeOK, Idle
<1>3. Reading(w)'
  BY <1>2 DEF Reading, HasFrom, HasEnd, HasSaved
<1>4. QED BY <1>1, <1>3, LocalStep

LEMMA DeliverPreserves ==
    ASSUME NEW w \in Workers, NEW n \in queued
    PROVE  IInv /\ DeliverContinuation(w, n) => IInv'
<1> SUFFICES ASSUME IInv, DeliverContinuation(w, n) PROVE IInv'
  OBVIOUS
<1> USE DEF IInv, chainVars, storeVars, queueVars
<1>1. TypeOK'
  <2>1. [worker[w] EXCEPT !.pc = "cursor"] \in Jobs
    BY JobMoves DEF TypeOK, Steps
  <2>2. QED BY <2>1 DEF TypeOK, ConfirmedHead, DeliverContinuation, Goto
<1>2. UNCHANGED <<latest, chain, storeVars>>
  BY DEF DeliverContinuation
<1>3. CASE n \in started
  <2>1. worker' = [worker EXCEPT ![w] = worker[w]]
    BY <1>3 DEF DeliverContinuation, TypeOK
  <2>2. Reading(w)'
    BY <1>2, <1>3 DEF DeliverContinuation, Reading, HasFrom, HasEnd, HasSaved, Cursor, Final,
                      Canonical
  <2>3. QED BY <1>1, <1>2, <2>1, <2>2, LocalStep
<1>4. CASE n \notin started
  <2>1. worker' = [worker EXCEPT ![w] = [worker[w] EXCEPT !.pc = "cursor"]]
    BY <1>4 DEF DeliverContinuation, Goto, TypeOK
  <2>2. worker'[w].pc = "cursor"
    BY <2>1 DEF TypeOK
  <2>3. Reading(w)'
    BY <2>2 DEF Reading, HasFrom, HasEnd, HasSaved
  <2>4. QED BY <1>1, <1>2, <2>1, <2>3, LocalStep
<1>5. QED BY <1>3, <1>4

LEMMA ReadCursorPreserves == ASSUME NEW w \in Workers PROVE IInv /\ ReadCursor(w) => IInv'
<1> SUFFICES ASSUME IInv, ReadCursor(w) PROVE IInv'
  OBVIOUS
<1> DEFINE job == [worker[w] EXCEPT !.pc = "head", !.from = Cursor]
<1>1. TypeOK
  BY DEF IInv
<1>2. worker' = [worker EXCEPT ![w] = job]
  BY DEF ReadCursor, Cursor
<1>3. job \in Jobs /\ job.pc = "head" /\ job.from = Cursor
  BY <1>1, Types, JobReadsCursor
<1> HIDE DEF job
<1>4. UNCHANGED <<chainVars, failures, storeVars, queueVars>>
  BY DEF ReadCursor
<1>5. TypeOK' /\ worker'[w] = job
  BY <1>1, <1>2, <1>3, <1>4, LocalType
<1>6. Cursor \in DEPLOYMENT_BLOCK .. Cursor /\ Cursor' = Cursor
  BY <1>1, <1>4 DEF Cursor, TypeOK, ConfirmedHead, storeVars
<1>7. Reading(w)'
  BY <1>3, <1>5, <1>6 DEF Reading, HasFrom, HasEnd, HasSaved
<1>8. QED BY <1>2, <1>4, <1>5, <1>7, LocalStep DEF chainVars

LEMMA ReadHeadPreserves == ASSUME NEW w \in Workers PROVE IInv /\ ReadHead(w) => IInv'
<1> SUFFICES ASSUME IInv, ReadHead(w) PROVE IInv'
  OBVIOUS
<1> DEFINE from == worker[w].from
           end  == Lesser(from + BATCH_SIZE - 1, ConfirmedHead)
           job  == [worker[w] EXCEPT !.pc = "logs", !.head = ConfirmedHead, !.end = end]
<1>1. TypeOK /\ Reading(w)
  BY DEF IInv
<1>2. from \in Nat /\ ConfirmedHead \in Nat /\ worker[w] \in Jobs
  BY <1>1, Types
<1>3. UNCHANGED <<chainVars, failures, storeVars, queueVars>>
  BY DEF ReadHead
<1>4. CASE from > ConfirmedHead
  <2>1. worker' = [worker EXCEPT ![w] = Idle]
    BY <1>2, <1>4 DEF ReadHead
  <2>2. Idle \in Jobs
    BY DEF Idle, Jobs, Steps
  <2>3. TypeOK' /\ worker'[w] = Idle
    BY <1>1, <1>3, <2>1, <2>2, LocalType
  <2>4. Reading(w)'
    BY <2>3 DEF Reading, HasFrom, HasEnd, HasSaved, Idle
  <2>5. QED BY <1>3, <2>1, <2>3, <2>4, LocalStep DEF chainVars
<1>5. CASE from <= ConfirmedHead
  <2>1. worker' = [worker EXCEPT ![w] = job]
    BY <1>2, <1>5 DEF ReadHead
  <2>2. from \in DEPLOYMENT_BLOCK .. Cursor /\ Cursor' = Cursor
    BY <1>1, <1>3 DEF ReadHead, Reading, HasFrom, Cursor, storeVars
  <2>3. end \in Nat /\ end >= from /\ end <= ConfirmedHead
    BY <1>2, <1>5 DEF Lesser
  <2>4. Final(end)
    BY <1>1, <1>2, <2>2, <2>3 DEF Final, ConfirmedHead, TypeOK
  <2> HIDE DEF end
  <2>5. job \in Jobs /\ job.pc = "logs" /\ job.from = from /\ job.end = end
    BY <1>2, <2>3 DEF Jobs, Steps
  <2> HIDE DEF job
  <2>6. TypeOK' /\ worker'[w] = job
    BY <1>1, <1>3, <2>1, <2>5, LocalType
  <2>7. Reading(w)'
    BY <1>3, <2>2, <2>3, <2>4, <2>5, <2>6
       DEF Reading, HasFrom, HasEnd, HasSaved, Final, chainVars
  <2>8. QED BY <1>3, <2>1, <2>6, <2>7, LocalStep DEF chainVars
<1>6. QED BY <1>2, <1>4, <1>5

LEMMA FetchLogsPreserves == ASSUME NEW w \in Workers PROVE IInv /\ FetchLogs(w) => IInv'
<1> SUFFICES ASSUME IInv, FetchLogs(w) PROVE IInv'
  OBVIOUS
<1> DEFINE logs == Canonical(worker[w].from, worker[w].end)
           job  == [worker[w] EXCEPT !.pc = "persist", !.logs = logs]
<1>1. TypeOK /\ Reading(w) /\ worker[w].pc = "logs"
  BY DEF IInv, FetchLogs
<1>2. worker[w].end \in Nat /\ worker[w].from \in Nat /\ worker[w] \in Jobs
  BY <1>1, Types
<1>3. worker[w].from \in DEPLOYMENT_BLOCK .. Cursor /\ worker[w].end >= worker[w].from
      /\ Final(worker[w].end)
  BY <1>1 DEF Reading, HasFrom, HasEnd
<1>4. logs \in SUBSET Events
  <2>1. \A b \in worker[w].from .. worker[w].end : b \in Blocks
    BY <1>1, <1>2, <1>3 DEF Final, TypeOK
  <2>2. QED BY <1>1, <2>1 DEF Canonical, TypeOK
<1>5. worker' = [worker EXCEPT ![w] = job] /\ UNCHANGED <<chainVars, failures, storeVars, queueVars>>
  BY DEF FetchLogs
<1>6. job \in Jobs /\ job.pc = "persist" /\ job.logs = logs
      /\ job.from = worker[w].from /\ job.end = worker[w].end
  BY <1>2, <1>4, JobFetchesLogs
<1>7. TypeOK' /\ worker'[w] = job
  BY <1>1, <1>5, <1>6, LocalType
<1>8. Reading(w)'
  <2>1. Cursor' = Cursor /\ Final(job.end)
    BY <1>3, <1>5, <1>6 DEF Cursor, storeVars
  <2>2. job.logs = {<<b, chain[b]>> : b \in job.from .. job.end}
    BY <1>6 DEF Canonical
  <2> HIDE DEF job, logs
  <2>3. QED BY <1>3, <1>5, <1>6, <1>7, <2>1, <2>2
               DEF Reading, HasFrom, HasEnd, HasSaved, Final, Canonical, chainVars
<1>9. QED BY <1>5, <1>7, <1>8, LocalStep DEF chainVars

LEMMA FetchBlockPreserves == ASSUME NEW w \in Workers PROVE IInv /\ FetchBlock(w) => IInv'
<1> SUFFICES ASSUME IInv, FetchBlock(w) PROVE IInv'
  OBVIOUS
<1> DEFINE hash == chain[worker[w].end]
           job  == [worker[w] EXCEPT !.pc = "advance", !.hash = hash]
<1>1. TypeOK /\ Reading(w) /\ worker[w].pc = "block"
  BY DEF IInv, FetchBlock
<1>2. worker[w].end \in Nat /\ worker[w] \in Jobs
  BY <1>1, Types
<1>3. /\ worker[w].from \in DEPLOYMENT_BLOCK .. Cursor /\ worker[w].end >= worker[w].from
      /\ Final(worker[w].end)
      /\ Canonical(worker[w].from, worker[w].end) \subseteq indexed
  BY <1>1 DEF Reading, HasFrom, HasEnd, HasSaved
<1>4. hash \in Nat
  BY <1>1, <1>2, <1>3 DEF Final, TypeOK
<1>5. worker' = [worker EXCEPT ![w] = job] /\ UNCHANGED <<chainVars, failures, storeVars, queueVars>>
  BY DEF FetchBlock
<1>6. job \in Jobs /\ job.pc = "advance" /\ job.hash = hash
      /\ job.from = worker[w].from /\ job.end = worker[w].end
  BY <1>2, <1>4, JobFetchesBlock
<1>7. TypeOK' /\ worker'[w] = job
  BY <1>1, <1>5, <1>6, LocalType
<1>8. Reading(w)'
  <2>1. Cursor' = Cursor /\ Final(job.end) /\ job.hash = chain[job.end]
    BY <1>3, <1>5, <1>6 DEF Cursor, storeVars
  <2>2. Canonical(job.from, job.end) \subseteq indexed
    BY <1>3, <1>6
  <2> HIDE DEF job, hash
  <2>3. QED BY <1>3, <1>5, <1>6, <1>7, <2>1, <2>2
               DEF Reading, HasFrom, HasEnd, HasSaved, Final, Canonical, chainVars, storeVars
<1>9. QED BY <1>5, <1>7, <1>8, LocalStep DEF chainVars

LEMMA ContinuePreserves == ASSUME NEW w \in Workers PROVE IInv /\ Continue(w) => IInv'
<1> SUFFICES ASSUME IInv, Continue(w) PROVE IInv'
  OBVIOUS
<1> USE DEF IInv, Continue, chainVars, storeVars, queueVars
<1>1. TypeOK' /\ worker'[w].pc = "idle"
  <2>1. Idle \in Jobs
    BY DEF Idle, Jobs, Steps
  <2>2. worker[w].end + 1 \in Nat
    BY DEF TypeOK, Jobs
  <2>3. QED BY <2>1, <2>2 DEF TypeOK, ConfirmedHead, Idle
<1>2. Reading(w)'
  BY <1>1 DEF Reading, HasFrom, HasEnd, HasSaved
<1>3. QED BY <1>1, <1>2, LocalStep

-----------------------------------------------------------------------------
(* The two steps that write to the store.                                  *)

LEMMA PersistEventsPreserves ==
    ASSUME NEW w \in Workers PROVE IInv /\ PersistEvents(w) => IInv'
<1> SUFFICES ASSUME IInv, PersistEvents(w) PROVE IInv'
  OBVIOUS
<1> DEFINE job == [worker[w] EXCEPT !.pc = "block"]
<1>1. TypeOK /\ Reading(w) /\ worker[w].pc = "persist"
  BY DEF IInv, PersistEvents
<1>2. /\ worker[w] \in Jobs /\ worker[w].from \in Nat /\ worker[w].end \in Nat
      /\ worker[w].logs \in SUBSET Events
  BY <1>1, Types
<1>3. /\ worker[w].from \in DEPLOYMENT_BLOCK .. Cursor /\ worker[w].end >= worker[w].from
      /\ Final(worker[w].end)
      /\ worker[w].logs = Canonical(worker[w].from, worker[w].end)
  BY <1>1 DEF Reading, HasFrom, HasEnd
<1>4. worker' = [worker EXCEPT ![w] = job]
  BY <1>1 DEF PersistEvents, Goto, TypeOK
<1>5. /\ UNCHANGED <<latest, chain, reorgs, failures, nextBlock, lastBlockHash, queued, started>>
      /\ indexed' = indexed \cup worker[w].logs
  BY DEF PersistEvents, chainVars, queueVars
<1>6. /\ job \in Jobs /\ job.pc = "block"
      /\ job.from = worker[w].from /\ job.end = worker[w].end
  BY <1>2 DEF Jobs, Steps
<1> HIDE DEF job
<1>7. TypeOK' /\ worker'[w] = job
  BY <1>1, <1>2, <1>4, <1>5, <1>6 DEF TypeOK, ConfirmedHead
<1>8. (\A e \in indexed : Final(e[1]) /\ e[2] = chain[e[1]])'
  <2>1. \A e \in Canonical(worker[w].from, worker[w].end) :
          Final(e[1]) /\ e[2] = chain[e[1]]
    BY <1>1, <1>2, <1>3 DEF Canonical, Final, TypeOK
  <2>2. \A e \in indexed : Final(e[1]) /\ e[2] = chain[e[1]]
    BY DEF IInv
  <2>3. QED BY <1>3, <1>5, <2>1, <2>2 DEF Final
<1>9. Cursor' = Cursor /\ Cursor \in Nat
  BY <1>1, <1>5, Types DEF Cursor
<1>10. ASSUME NEW v \in Workers PROVE Reading(v)'
  <2>1. CASE v = w
    BY <1>3, <1>5, <1>6, <1>7, <1>9, <2>1
       DEF Reading, HasFrom, HasEnd, HasSaved, Final, Canonical
  <2>2. CASE v # w
    <3>1. worker'[v] = worker[v]
      BY <1>1, <1>4, <2>2 DEF TypeOK
    <3>2. TypeOK /\ TypeOK' /\ Reading(v) /\ Cursor <= Cursor'
      BY <1>1, <1>7, <1>9 DEF IInv
    <3>3. UNCHANGED <<latest, chain>> /\ indexed \subseteq indexed'
      BY <1>5
    <3>4. QED BY <3>1, <3>2, <3>3, OthersKeepReading
  <2>3. QED BY <2>1, <2>2
<1>11. NoGapBelowCursor' /\ HashMatchesCursor' /\ (nextBlock # NoCursor => Final(nextBlock - 1))'
  BY <1>5 DEF IInv, NoGapBelowCursor, HashMatchesCursor, Canonical, Final
<1>12. QED BY <1>7, <1>8, <1>10, <1>11 DEF IInv

(***************************************************************************)
(* The heart of it: the job began at or below the present cursor, so what  *)
(* is below its end was either below the cursor or is in its batch.        *)
(***************************************************************************)
LEMMA AdvanceCursorPreserves ==
    ASSUME NEW w \in Workers PROVE IInv /\ AdvanceCursor(w) => IInv'
<1> SUFFICES ASSUME IInv, AdvanceCursor(w) PROVE IInv'
  OBVIOUS
<1> DEFINE job == [worker[w] EXCEPT !.pc = "continue"]
           end == worker[w].end
<1>1. TypeOK /\ Reading(w) /\ worker[w].pc = "advance"
  BY DEF IInv, AdvanceCursor
<1>2. worker[w] \in Jobs /\ worker[w].from \in Nat /\ end \in Nat /\ Cursor \in Nat
  BY <1>1, Types
<1>3. /\ worker[w].from \in DEPLOYMENT_BLOCK .. Cursor /\ end >= worker[w].from
      /\ Final(end) /\ worker[w].hash = chain[end]
      /\ Canonical(worker[w].from, end) \subseteq indexed
  BY <1>1 DEF Reading, HasFrom, HasEnd, HasSaved
<1>4. worker' = [worker EXCEPT ![w] = job]
  BY <1>1 DEF AdvanceCursor, Goto, TypeOK
<1>5. UNCHANGED <<latest, chain, reorgs, failures, indexed, queued, started>>
  BY DEF AdvanceCursor, chainVars, queueVars
<1>6. /\ job \in Jobs /\ job.pc = "continue"
      /\ job.from = worker[w].from /\ job.end = end
  BY <1>2 DEF Jobs, Steps
<1>7. \/ nextBlock < end + 1 /\ nextBlock' = end + 1 /\ lastBlockHash' = chain[end]
      \/ nextBlock >= end + 1 /\ nextBlock' = nextBlock /\ lastBlockHash' = lastBlockHash
  BY <1>1, <1>2, <1>3 DEF AdvanceCursor, MoveCursor, TypeOK, ConfirmedHead
<1> HIDE DEF job
<1>8. TypeOK' /\ worker'[w] = job
  <2>1. worker' \in [Workers -> Jobs] /\ worker'[w] = job
    BY <1>1, <1>4, <1>6 DEF TypeOK
  <2>2. end + 1 \in DEPLOYMENT_BLOCK .. ConfirmedHead + 1 /\ end \in Blocks
    <3>1. latest \in Blocks /\ end >= DEPLOYMENT_BLOCK /\ end <= latest - CONFIRMATIONS
      BY <1>1, <1>2, <1>3 DEF Final, TypeOK
    <3>2. ConfirmedHead = latest - CONFIRMATIONS
      BY <1>2, <3>1 DEF ConfirmedHead
    <3> HIDE DEF end
    <3>3. QED BY <1>2, <3>1, <3>2
  <2>3. lastBlockHash' \in Versions
    BY <1>1, <1>7, <2>2 DEF TypeOK
  <2>4. nextBlock' \in {NoCursor} \cup DEPLOYMENT_BLOCK .. ConfirmedHead + 1
    BY <1>1, <1>7, <2>2 DEF TypeOK
  <2>5. ConfirmedHead' = ConfirmedHead
    BY <1>5 DEF ConfirmedHead
  <2>6. QED BY <1>1, <1>5, <2>1, <2>3, <2>4, <2>5 DEF TypeOK
<1>9. Cursor <= Cursor' /\ Cursor' \in Nat
  <2>1. CASE nextBlock < end + 1 /\ nextBlock' = end + 1
    <3>1. Cursor' = end + 1
      BY <1>2, <2>1 DEF Cursor
    <3>2. Cursor = DEPLOYMENT_BLOCK \/ Cursor = nextBlock
      BY DEF Cursor
    <3>3. DEPLOYMENT_BLOCK \in Nat /\ DEPLOYMENT_BLOCK <= end
      BY <1>2, <1>3
    <3>4. QED BY <1>2, <2>1, <3>1, <3>2, <3>3
  <2>2. CASE nextBlock' = nextBlock
    <3>1. Cursor' = Cursor
      BY <2>2 DEF Cursor
    <3>2. QED BY <1>2, <3>1
  <2>3. QED BY <1>7, <2>1, <2>2
<1>10. ASSUME NEW v \in Workers PROVE Reading(v)'
  <2>1. CASE v = w
    BY <1>2, <1>3, <1>5, <1>6, <1>8, <1>9, <2>1
       DEF Reading, HasFrom, HasEnd, HasSaved, Final, Canonical
  <2>2. CASE v # w
    <3>1. worker'[v] = worker[v]
      BY <1>1, <1>4, <2>2 DEF TypeOK
    <3>2. TypeOK /\ TypeOK' /\ Reading(v) /\ Cursor <= Cursor'
      BY <1>1, <1>8, <1>9 DEF IInv
    <3>3. UNCHANGED <<latest, chain>> /\ indexed \subseteq indexed'
      BY <1>5
    <3>4. QED BY <3>1, <3>2, <3>3, OthersKeepReading
  <2>3. QED BY <2>1, <2>2
<1>11. Canonical(DEPLOYMENT_BLOCK, end) \subseteq indexed
  <2>1. Canonical(DEPLOYMENT_BLOCK, Cursor - 1) \subseteq indexed
    BY <1>1 DEF IInv, NoGapBelowCursor, Cursor, Canonical
  <2>2. \A b \in DEPLOYMENT_BLOCK .. end :
          b \in DEPLOYMENT_BLOCK .. Cursor - 1 \/ b \in worker[w].from .. end
    BY <1>2, <1>3
  <2>3. QED BY <1>3, <2>1, <2>2 DEF Canonical
<1>12. NoGapBelowCursor'
  BY <1>2, <1>5, <1>7, <1>11 DEF IInv, NoGapBelowCursor, Canonical
<1>13. HashMatchesCursor' /\ (nextBlock # NoCursor => Final(nextBlock - 1))'
  BY <1>2, <1>3, <1>5, <1>7 DEF IInv, HashMatchesCursor, Final
<1>14. (\A e \in indexed : Final(e[1]) /\ e[2] = chain[e[1]])'
  BY <1>5 DEF IInv, Final
<1>15. QED BY <1>8, <1>10, <1>12, <1>13, <1>14 DEF IInv

LEMMA StutterPreserves == IInv /\ UNCHANGED vars => IInv'
BY DEF IInv, vars, chainVars, storeVars, queueVars, TypeOK, ConfirmedHead, Reading, HasFrom, HasEnd,
       HasSaved, Final, Canonical, Cursor, NoGapBelowCursor, HashMatchesCursor

(***************************************************************************)
(* The invariant holds however jobs overlap and fail and whatever the      *)
(* chain does above its final blocks.                                      *)
(***************************************************************************)
THEOREM IndexerInvariant == Spec => []IInv
<1>1. IInv /\ [Next]_vars => IInv'
  <2> SUFFICES ASSUME IInv, [Next]_vars PROVE IInv'
    OBVIOUS
  <2>1. CASE Mine
    BY <2>1, MinePreserves
  <2>2. ASSUME NEW b \in Blocks, Reorg(b) PROVE IInv'
    BY <2>2, ReorgPreserves
  <2>3. ASSUME NEW w \in Workers, Tick(w) \/ Step(w) \/ Fail(w) PROVE IInv'
    BY <2>3, TickPreserves, FailPreserves, ReadCursorPreserves, ReadHeadPreserves,
       FetchLogsPreserves, PersistEventsPreserves, FetchBlockPreserves, AdvanceCursorPreserves,
       ContinuePreserves DEF Step
  <2>4. ASSUME NEW w \in Workers, NEW n \in queued, DeliverContinuation(w, n) PROVE IInv'
    BY <2>4, DeliverPreserves
  <2>5. CASE UNCHANGED vars
    BY <2>5, StutterPreserves
  <2>6. QED BY <2>1, <2>2, <2>3, <2>4, <2>5 DEF Next
<1>2. QED BY <1>1, InitEstablishes, PTL DEF Spec

(* The cursor never runs past an event that is not in the database         *)
(* (persistEvents before advanceCursor, and the guard on the cursor).      *)
THEOREM NothingBelowCursorIsMissing == Spec => []NoGapBelowCursor
<1>1. IInv => NoGapBelowCursor
  BY DEF IInv
<1>2. QED BY <1>1, IndexerInvariant, PTL

(* No event of a replaced block is in the database, given confirmations as *)
(* deep as any reorganization (runOnce's head).                            *)
THEOREM NothingReplacedIsIndexed == Spec => []IndexedIsCanonical
<1>1. IInv => IndexedIsCanonical
  BY DEF IInv, IndexedIsCanonical
<1>2. QED BY <1>1, IndexerInvariant, PTL

(* The cursor's hash is that of the last block below it.                   *)
THEOREM CursorHashIsRight == Spec => []HashMatchesCursor
<1>1. IInv => HashMatchesCursor
  BY DEF IInv
<1>2. QED BY <1>1, IndexerInvariant, PTL

(* The three together: the database is the chain's, up to the cursor,      *)
(* whatever jobs overlap or fail (runOnce and the store's two writes).     *)
THEOREM IndexStaysSound == Spec => []IndexIsSound
BY NothingBelowCursorIsMissing, NothingReplacedIsIndexed, CursorHashIsRight, PTL DEF IndexIsSound

(* Jobs that finish out of order never move the cursor back (the WHERE of  *)
(* advanceCursor).                                                         *)
THEOREM CursorMovesForward == Spec => CursorOnlyAdvances
<1>1. IInv /\ [Next]_vars => [nextBlock' >= nextBlock]_vars
  <2> SUFFICES ASSUME IInv, Next PROVE nextBlock' >= nextBlock
    BY DEF IInv
  <2>1. nextBlock \in Int
    BY DEF IInv, TypeOK, ConfirmedHead
  <2>2. CASE \E w \in Workers : AdvanceCursor(w)
    <3>1. PICK w \in Workers : AdvanceCursor(w)
      BY <2>2
    <3>2. worker[w].end + 1 \in Int
      BY Types DEF IInv
    <3>3. QED BY <2>1, <3>1, <3>2 DEF AdvanceCursor, MoveCursor
  <2>3. CASE ~ \E w \in Workers : AdvanceCursor(w)
    <3>1. CASE Mine \/ \E b \in Blocks : Reorg(b)
      BY <2>1, <3>1 DEF Mine, Reorg, storeVars
    <3>2. CASE \E w \in Workers : Tick(w) \/ Fail(w)
      BY <2>1, <3>2 DEF Tick, Fail, storeVars
    <3>3. CASE \E w \in Workers, n \in queued : DeliverContinuation(w, n)
      BY <2>1, <3>3 DEF DeliverContinuation, storeVars
    <3>4. CASE \E w \in Workers : Step(w)
      <4>1. PICK w \in Workers : Step(w) /\ ~ AdvanceCursor(w)
        BY <2>3, <3>4
      <4>2. UNCHANGED nextBlock
        <5>1. CASE ReadCursor(w)  BY <5>1 DEF ReadCursor, storeVars
        <5>2. CASE ReadHead(w)  BY <5>2 DEF ReadHead, storeVars
        <5>3. CASE FetchLogs(w)  BY <5>3 DEF FetchLogs, storeVars
        <5>4. CASE PersistEvents(w)  BY <5>4 DEF PersistEvents
        <5>5. CASE FetchBlock(w)  BY <5>5 DEF FetchBlock, storeVars
        <5>6. CASE Continue(w)  BY <5>6 DEF Continue, storeVars
        <5>7. QED BY <4>1, <5>1, <5>2, <5>3, <5>4, <5>5, <5>6 DEF Step
      <4>3. QED BY <2>1, <4>2
    <3>5. QED BY <3>1, <3>2, <3>3, <3>4 DEF Next
  <2>4. QED BY <2>2, <2>3
<1>2. QED BY <1>1, IndexerInvariant, PTL DEF Spec, CursorOnlyAdvances
=============================================================================
