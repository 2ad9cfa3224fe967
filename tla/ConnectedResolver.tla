--------------------------- MODULE ConnectedResolver ---------------------------
(* run-connected-genlayer-resolver.mjs: the operator's script that has a       *)
(* manifest assessed, its resolver deployed by the factory and an attempt       *)
(* resolved on GenLayer, in one record file that lets it be run again after it  *)
(* stopped anywhere.  The operator names the attempt of each run, 0 or 1 here.  *)
EXTENDS Naturals, Sequences

CONSTANTS
    MaxStops,  \* bound on the times the script stops half way
    MaxHashes  \* bound on the transactions sent

VARIABLES
    sent,     \* the transactions, as GenLayer has them
    child,    \* whether the factory has the market's resolver
    recorded, \* the resolver's attempts: 0 and 1, and the transaction that recorded each
    file,     \* the record file
    process,  \* the running script: where it is, the file it loaded, its attempt
    stops,
    back      \* history: a run named an earlier attempt than the record

vars == <<sent, child, recorded, file, process, stops, back>>

NoFile == [assess |-> 0, deploy |-> 0, second |-> 0, resolve |-> 0,
           attempt |-> 0, status |-> "none"]
Off == [at |-> "off", prior |-> NoFile, attempt |-> 0, tx |-> 0, child |-> FALSE]

Init ==
    /\ sent = << >> /\ child = FALSE
    /\ recorded = [a \in {0, 1} |-> 0]
    /\ file = NoFile /\ process = Off /\ stops = 0 /\ back = FALSE

----------------------------------------------------------------------------
(* GenLayer: the factory makes one resolver per market; the resolver records  *)
(* attempt 1 after attempt 0, each once; a transaction may also fail, or be   *)
(* cancelled and never become final.                                          *)
MayExecute(t) ==
    CASE t.op = "assess" -> TRUE
      [] t.op = "deploy" -> ~child
      [] t.op = "resolve" -> child /\ recorded[t.attempt] = 0 /\ (t.attempt = 1 => recorded[0] # 0)

Settle(h) ==
    /\ sent[h].status = "pending"
    /\ \/ /\ MayExecute(sent[h])
          /\ sent' = [sent EXCEPT ![h].status = "success"]
          /\ child' = (child \/ sent[h].op = "deploy")
          /\ recorded' = IF sent[h].op = "resolve"
                         THEN [recorded EXCEPT ![sent[h].attempt] = h] ELSE recorded
       \/ /\ \E status \in {"failure", "cancelled"} : sent' = [sent EXCEPT ![h].status = status]
          /\ UNCHANGED <<child, recorded>>
    /\ UNCHANGED <<file, process, stops, back>>

----------------------------------------------------------------------------
(* The record's key for an attempt's transaction.                             *)
Key(a) == IF a = 0 THEN "resolve" ELSE "second"

(* The record is read again, and written whole with what changed.            *)
Persist(changed) == file' = changed
Goto(l) == process' = [process EXCEPT !.at = l]
Throw == process' = Off /\ UNCHANGED file

(* GENETIA_RESOLVE_ATTEMPT is the attempt, 0 where the operator names none.   *)
Start(a) ==
    /\ process.at = "off"
    /\ back' = (back \/ a < file.attempt)
    /\ process' = [Off EXCEPT !.at = "assess", !.prior = file, !.attempt = a]
    /\ UNCHANGED <<sent, child, recorded, file, stops>>

(* What the script does about an operation whose hash it knows, or not.       *)
Submit(op, saves) ==
    /\ Len(sent) < MaxHashes
    /\ sent' = Append(sent, [op |-> op, attempt |-> process.attempt, status |-> "pending"])
    /\ process' = [process EXCEPT !.at = saves, !.tx = Len(sent) + 1]
    /\ UNCHANGED <<child, recorded, stops, back>>

Assess ==
    /\ process.at = "assess"
    /\ IF process.prior.assess = 0 THEN Submit("assess", "assessed") /\ UNCHANGED file
       ELSE /\ process' = [process EXCEPT !.at = "assessment", !.tx = process.prior.assess]
            /\ UNCHANGED <<sent, child, recorded, file, stops, back>>

SaveAssess ==
    /\ process.at = "assessed"
    /\ Persist([file EXCEPT !.assess = process.tx]) /\ Goto("assessment")
    /\ UNCHANGED <<sent, child, recorded, stops, back>>

(* finalSuccess: it returns when the transaction is final and succeeded, and   *)
(* throws when it ended otherwise.                                            *)
Final == sent[process.tx].status # "pending"

\* Mutant: final is taken for successful.
Succeeded_Finalized == sent[process.tx].status # "cancelled"

Succeeded == sent[process.tx].status = "success"

FollowAssess ==
    /\ process.at = "assessment" /\ Final
    /\ IF Succeeded
       THEN process' = [process EXCEPT !.at = "deploy", !.child = child] /\ UNCHANGED file
       ELSE Throw
    /\ UNCHANGED <<sent, child, recorded, stops, back>>

(* A factory transaction that is final and failed is forgotten, unless the    *)
(* resolver exists all the same; one that is on its way is followed.          *)
Forgotten(h) == h # 0 /\ sent[h].status = "failure"

Deploy ==
    /\ process.at = "deploy"
    /\ LET h == process.prior.deploy IN
       IF Forgotten(h) /\ process.child
       THEN Throw /\ UNCHANGED <<sent, child, recorded, stops, back>>
       ELSE IF (h = 0 \/ Forgotten(h)) /\ ~process.child THEN
            Submit("deploy", "deployed") /\ Persist([file EXCEPT !.deploy = 0])
       ELSE /\ process' = [process EXCEPT !.at = IF h = 0 THEN "verify" ELSE "deployment", !.tx = h]
            /\ UNCHANGED <<sent, child, recorded, file, stops, back>>

SaveDeploy ==
    /\ process.at = "deployed"
    /\ Persist([file EXCEPT !.deploy = process.tx]) /\ Goto("deployment")
    /\ UNCHANGED <<sent, child, recorded, stops, back>>

FollowDeploy ==
    /\ process.at = "deployment" /\ Final
    /\ IF Succeeded THEN Goto("verify") /\ UNCHANGED file ELSE Throw
    /\ UNCHANGED <<sent, child, recorded, stops, back>>

(* The resolver's identity is read back before an attempt is made.            *)
Verify ==
    /\ process.at = "verify"
    /\ IF process.child \/ child THEN Goto("resolve") /\ UNCHANGED file ELSE Throw
    /\ UNCHANGED <<sent, child, recorded, stops, back>>

Resolve ==
    /\ process.at = "resolve"
    /\ LET h == process.prior[Key(process.attempt)] IN
       IF h = 0 /\ recorded[process.attempt] = 0 THEN
            /\ Submit("resolve", "resolved")
            /\ Persist([file EXCEPT !.attempt = process.attempt, !.status = "submitting"])
       ELSE /\ process' = [process EXCEPT !.at = IF h = 0 THEN "record" ELSE "resolution", !.tx = h]
            /\ IF h = 0 THEN UNCHANGED file
               ELSE Persist([file EXCEPT !.resolve = h, !.status = "following"])
            /\ UNCHANGED <<sent, child, recorded, stops, back>>

(* The hash is written under the attempt's key and, always, under resolveTx.  *)
SaveResolve ==
    /\ process.at = "resolved"
    /\ Persist([file EXCEPT ![Key(process.attempt)] = process.tx,
                            !.resolve = process.tx, !.status = "following"])
    /\ Goto("resolution")
    /\ UNCHANGED <<sent, child, recorded, stops, back>>

FollowResolve ==
    /\ process.at = "resolution" /\ Final
    /\ IF Succeeded THEN Goto("record") /\ UNCHANGED file ELSE Throw
    /\ UNCHANGED <<sent, child, recorded, stops, back>>

Finish ==
    /\ process.at = "record"
    /\ IF recorded[process.attempt] = 0 THEN Throw
       ELSE /\ Persist([file EXCEPT ![Key(process.attempt)] = process.tx, !.resolve = process.tx,
                                   !.attempt = process.attempt, !.status = "success"])
            /\ process' = Off
    /\ UNCHANGED <<sent, child, recorded, stops, back>>

(* The script stops half way, at the latest before a hash is written; by      *)
(* itself it does where the assessment is no approval, an RPC call throws or  *)
(* the window of the resolution has not come.                                 *)
Halt ==
    /\ process.at # "off" /\ stops < MaxStops
    /\ process' = Off /\ stops' = stops + 1
    /\ UNCHANGED <<sent, child, recorded, file, back>>

Step == Assess \/ SaveAssess \/ FollowAssess \/ Deploy \/ SaveDeploy \/ FollowDeploy
        \/ Verify \/ Resolve \/ SaveResolve \/ FollowResolve \/ Finish

Next ==
    \/ \E h \in 1 .. Len(sent) : Settle(h)
    \/ \E a \in {0, 1} : Start(a)
    \/ Step
    \/ Halt

Spec == Init /\ [][Next]_vars

----------------------------------------------------------------------------
TypeOK ==
    /\ \A k \in {"assess", "deploy", "second", "resolve"} : file[k] \in 0 .. Len(sent)
    /\ process.tx \in 0 .. Len(sent)

(* The transaction that a finished record names is the one that recorded the  *)
(* attempt it names, whichever runs were stopped: the watchers are asked to   *)
(* attest this pair.  Only a run for attempt 0, the script's default, after   *)
(* one for attempt 1 may name that of attempt 1 instead.                      *)
RecordNamesItsTransaction ==
    file.status = "success" /\ file.resolve # 0 =>
        \/ file.resolve = recorded[file.attempt]
        \/ back /\ file.attempt = 0 /\ file.resolve = recorded[1]
=============================================================================
