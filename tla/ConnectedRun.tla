----------------------------- MODULE ConnectedRun -----------------------------
(* The operator's scripts that take a connected market through its life on    *)
(* Base: run-connected-base-lmsr.mjs and run-connected-base-pool.mjs create   *)
(* and trade, settle-connected-base-lmsr.mjs and settle-connected-base-pool   *)
(* .mjs settle and pay out.  A script is a list of transactions.  It is meant *)
(* to be run again after it stopped anywhere: the record file remembers the   *)
(* hashes, the chain is asked for what has happened already.  Reads may lag   *)
(* behind a receipt by a transaction.                                         *)
EXTENDS Naturals, FiniteSets, Sequences

CONSTANTS
    Scripts,    \* the scripts that may be run
    MaxDeaths,  \* bound on deaths
    MaxSends    \* bound on the transactions a behaviour sends

VARIABLES
    script,   \* the script the operator runs
    txs,      \* the account's transactions, in the order of their nonces
    chain,    \* what they made of Base
    lagging,  \* what a read that lags still answers
    file,     \* the record file: operation -> hash (0: none), and its status
    run,      \* the running process: where it is and what it read
    deaths,
    unsaved   \* history: the transactions whose hash was never saved

vars == <<script, txs, chain, lagging, file, run, deaths, unsaved>>

LMSRRun == <<"create", "approveVault", "contribute", "activate",
             "approveYes", "buyYes", "approveNo", "buyNo", "sellYes", "sellNo">>
LMSRSettle == <<"settle", "redeem", "withdraw">>
PoolRun == <<"create", "approveStakes", "stakeYes", "stakeNo">>
PoolSettle == <<"settle", "claim">>

Plan == CASE script = "lmsr" -> LMSRRun
          [] script = "settle-lmsr" -> LMSRSettle
          [] script = "pool" -> PoolRun
          [] script = "settle-pool" -> PoolSettle

Operations == {"create", "approveVault", "contribute", "activate", "approveYes", "buyYes",
               "approveNo", "buyNo", "sellYes", "sellNo", "settle", "redeem", "withdraw",
               "approveStakes", "stakeYes", "stakeNo", "claim"}

(* The market before its run, and the market a settlement finds: "yes" and    *)
(* "no" count positions, "vault" and "market" USDC allowances.                *)
NewMarket == [created |-> FALSE, active |-> FALSE, terminal |-> FALSE, shares |-> 0,
              yes |-> 0, no |-> 0, vault |-> 0, market |-> 0]
TradedMarket == [NewMarket EXCEPT !.created = TRUE, !.active = TRUE,
                                  !.shares = 1, !.yes = 1, !.no = 1]

Off == [at |-> 0, phase |-> "off", read |-> NewMarket]

Init ==
    /\ script \in Scripts
    /\ txs = << >>
    /\ chain = IF script \in {"lmsr", "pool"} THEN NewMarket ELSE TradedMarket
    /\ lagging = chain
    /\ file = [hash |-> [o \in Operations |-> 0], status |-> "none"]
    /\ run = Off
    /\ deaths = 0 /\ unsaved = {}

(* Whether Base executes o on the market as m has it.                         *)
Executes(o, m) ==
    CASE o = "create" -> ~m.created
      [] o = "contribute" -> m.created /\ ~m.active /\ m.vault >= 1
      [] o = "activate" -> ~m.active /\ m.shares >= 1
      [] o \in {"buyYes", "buyNo"} -> m.active /\ m.market >= 1
      [] o = "sellYes" -> m.active /\ m.yes >= 1
      [] o = "sellNo" -> m.active /\ m.no >= 1
      [] o \in {"stakeYes", "stakeNo"} -> m.created /\ m.market >= 1
      [] o = "settle" -> ~m.terminal
      [] o \in {"redeem", "claim"} -> m.terminal /\ m.yes + m.no > 0
      [] o = "withdraw" -> m.terminal /\ m.shares >= 1
      [] OTHER -> TRUE

(* What transaction t does to it; a purchase is twice what a sale sells, and  *)
(* spends the allowance that was given for exactly it.                        *)
Effect(t, m) == LET o == t.op IN
    CASE o = "create" -> [m EXCEPT !.created = TRUE]
      [] o = "approveVault" -> [m EXCEPT !.vault = 1]
      [] o = "contribute" -> [m EXCEPT !.vault = @ - 1, !.shares = @ + 1]
      [] o = "activate" -> [m EXCEPT !.active = TRUE]
      [] o \in {"approveYes", "approveNo"} -> [m EXCEPT !.market = 1]
      [] o = "approveStakes" -> [m EXCEPT !.market = t.amount]
      [] o = "buyYes" -> [m EXCEPT !.market = @ - 1, !.yes = @ + 2]
      [] o = "buyNo" -> [m EXCEPT !.market = @ - 1, !.no = @ + 2]
      [] o = "sellYes" -> [m EXCEPT !.yes = @ - 1]
      [] o = "sellNo" -> [m EXCEPT !.no = @ - 1]
      [] o = "stakeYes" -> [m EXCEPT !.market = @ - 1, !.yes = @ + 1]
      [] o = "stakeNo" -> [m EXCEPT !.market = @ - 1, !.no = @ + 1]
      [] o = "settle" -> [m EXCEPT !.terminal = TRUE]
      [] o \in {"redeem", "claim"} -> [m EXCEPT !.yes = 0, !.no = 0]
      [] o = "withdraw" -> [m EXCEPT !.shares = 0]

----------------------------------------------------------------------------
(* Base mines the account's first pending transaction.  A trade reverts when  *)
(* other traders have moved the price past its exact limit.                   *)
Trades == {"buyYes", "buyNo", "sellYes", "sellNo"}

Mine ==
    /\ \E i \in 1 .. Len(txs) :
         /\ txs[i].status = "pending"
         /\ \A j \in 1 .. i - 1 : txs[j].status # "pending"
         /\ \/ /\ Executes(txs[i].op, chain)
               /\ chain' = Effect(txs[i], chain)
               /\ txs' = [txs EXCEPT ![i].status = "success"]
            \/ /\ ~Executes(txs[i].op, chain) \/ txs[i].op \in Trades
               /\ txs' = [txs EXCEPT ![i].status = "reverted"]
               /\ UNCHANGED chain
    /\ lagging' = chain
    /\ UNCHANGED <<script, file, run, deaths, unsaved>>

(* Reads come to answer what the last receipt said.                           *)
ReadsCatchUp ==
    /\ lagging # chain
    /\ lagging' = chain
    /\ UNCHANGED <<script, txs, chain, file, run, deaths, unsaved>>

----------------------------------------------------------------------------
Operation == Plan[run.at]
Recorded(o) == file.hash[o]

(* The operations that decide on what an earlier operation's reads returned.  *)
ReadsBefore == {"contribute", "buyYes", "buyNo", "stakeYes", "stakeNo"}

Missing(n) == IF n < 1 THEN 1 ELSE 0
StakesNeeded(m) == Missing(m.yes) + Missing(m.no)

(* Whether the script goes on to o, by what it read of the market.            *)
Wanted(o, m) ==
    CASE o = "create" -> ~m.created
      [] o = "approveVault" -> m.shares < 1 /\ m.vault < 1
      [] o = "contribute" -> m.shares < 1
      [] o = "activate" -> ~m.active
      [] o = "approveYes" -> m.yes < 2 /\ Recorded("buyYes") = 0 /\ Recorded(o) = 0
      [] o = "approveNo" -> m.no < 2 /\ Recorded("buyNo") = 0 /\ Recorded(o) = 0
      [] o = "buyYes" -> m.yes < 2 /\ Recorded(o) = 0
      [] o = "buyNo" -> m.no < 2 /\ Recorded(o) = 0
      [] o = "sellYes" -> Recorded(o) = 0 /\ m.yes >= 1
      [] o = "sellNo" -> Recorded(o) = 0 /\ m.no >= 1
      [] o = "approveStakes" -> m.market < StakesNeeded(m)
      [] o = "stakeYes" -> m.yes < 1
      [] o = "stakeNo" -> m.no < 1
      [] o = "settle" -> ~m.terminal
      [] o \in {"redeem", "claim"} -> m.yes + m.no > 0
      [] o = "withdraw" -> Recorded(o) = 0 /\ m.shares > 0

\* Mutant: a provider without shares is refused though it has withdrawn.
Refuses_NoShares(o, m) ==
    \/ o \in {"approveVault", "approveStakes"} /\ ~m.created
    \/ o = "approveYes" /\ ~m.active
    \/ o \in {"redeem", "claim", "withdraw"} /\ ~m.terminal
    \/ o = "withdraw" /\ m.shares = 0
    \/ o = "finish" /\ script = "settle-lmsr" /\ (m.shares # 0 \/ m.yes + m.no # 0)
    \/ o = "finish" /\ script = "settle-pool" /\ m.yes + m.no # 0

(* Where the script refuses to go on: a market, an activation or a settlement *)
(* that the reads do not show, a provider without shares, a position that     *)
(* remains.                                                                   *)
Refuses(o, m) ==
    \/ o \in {"approveVault", "approveStakes"} /\ ~m.created
    \/ o = "approveYes" /\ ~m.active
    \/ o \in {"redeem", "claim", "withdraw"} /\ ~m.terminal
    \/ o = "withdraw" /\ m.shares = 0 /\ Recorded(o) = 0
    \/ o = "finish" /\ script = "settle-lmsr" /\ (m.shares # 0 \/ m.yes + m.no # 0)
    \/ o = "finish" /\ script = "settle-pool" /\ m.yes + m.no # 0

Stop == run' = Off
Proceed(m) == run' = [run EXCEPT !.at = @ + 1, !.read = m]

Start ==
    /\ run.phase = "off" /\ file.status = "none"
    /\ run' = [Off EXCEPT !.at = 1, !.phase = "check"]
    /\ UNCHANGED <<script, txs, chain, lagging, file, deaths, unsaved>>

Send(o, m) ==
    /\ Len(txs) < MaxSends
    /\ txs' = Append(txs, [op |-> o, status |-> "pending",
                           amount |-> IF o = "approveStakes" THEN StakesNeeded(m) ELSE 1])
    /\ run' = [run EXCEPT !.phase = "sent", !.read = m]

\* Mutant: a recorded hash that is not mined yet is sent again.
SubmitOnce_Again(o, m) ==
    IF Recorded(o) # 0 /\ txs[Recorded(o)].status = "success"
    THEN Proceed(m) /\ UNCHANGED txs
    ELSE \E simulated \in {chain, lagging} :
           IF Executes(o, simulated) THEN Send(o, m) ELSE Stop /\ UNCHANGED txs

\* Mutant: a recorded hash counts, whatever its receipt says.
SubmitOnce_Trusting(o, m) ==
    IF Recorded(o) # 0 /\ script # "settle-pool"
    THEN Proceed(m) /\ UNCHANGED txs
    ELSE \E simulated \in {chain, lagging} :
           IF Executes(o, simulated) THEN Send(o, m) ELSE Stop /\ UNCHANGED txs

(* A hash in the record is never sent again: its receipt must say success.    *)
(* The settlement of a pool has no such record to go by.                      *)
SubmitOnce(o, m) ==
    IF Recorded(o) # 0 /\ script # "settle-pool"
    THEN /\ IF txs[Recorded(o)].status = "success" THEN Proceed(m) ELSE Stop
         /\ UNCHANGED txs
    ELSE \E simulated \in {chain, lagging} :
           IF Executes(o, simulated) THEN Send(o, m) ELSE Stop /\ UNCHANGED txs

Check ==
    /\ run.phase = "check" /\ run.at <= Len(Plan)
    /\ \E seen \in {chain, lagging} :
         LET m == IF Operation \in ReadsBefore THEN run.read ELSE seen IN
         IF Refuses(Operation, m) THEN Stop /\ UNCHANGED txs
         ELSE IF Wanted(Operation, m) THEN SubmitOnce(Operation, m)
         ELSE Proceed(m) /\ UNCHANGED txs
    /\ UNCHANGED <<script, chain, lagging, file, deaths, unsaved>>

Save ==
    /\ run.phase = "sent"
    /\ file' = [file EXCEPT !.hash[Operation] = Len(txs)]
    /\ run' = [run EXCEPT !.phase = "wait"]
    /\ UNCHANGED <<script, txs, chain, lagging, deaths, unsaved>>

Confirm ==
    /\ run.phase = "wait" /\ txs[Recorded(Operation)].status # "pending"
    /\ IF txs[Recorded(Operation)].status = "success"
       THEN run' = [run EXCEPT !.at = @ + 1, !.phase = "check"]
       ELSE Stop
    /\ UNCHANGED <<script, txs, chain, lagging, file, deaths, unsaved>>

Finish ==
    /\ run.phase = "check" /\ run.at = Len(Plan) + 1
    /\ \E seen \in {chain, lagging} :
         IF Refuses("finish", seen) THEN Stop /\ UNCHANGED file
         ELSE /\ run' = Off /\ file' = [file EXCEPT !.status = "confirmed"]
    /\ UNCHANGED <<script, txs, chain, lagging, deaths, unsaved>>

(* The process ends: it is killed, an RPC call throws, a watcher refuses.      *)
(* Between sending and saving the hash of what was sent is lost with it.     *)
Die ==
    /\ run.phase # "off" /\ deaths < MaxDeaths
    /\ run' = Off
    /\ deaths' = deaths + 1
    /\ unsaved' = unsaved \cup (IF run.phase = "sent" THEN {Len(txs)} ELSE {})
    /\ UNCHANGED <<script, txs, chain, lagging, file>>

ScriptStep == Check \/ Save \/ Confirm \/ Finish

Next == Mine \/ ReadsCatchUp \/ Start \/ ScriptStep \/ Die

(* The operator runs a script again until its record says it is done.         *)
Spec ==
    /\ Init /\ [][Next]_vars
    /\ WF_vars(Mine) /\ WF_vars(ReadsCatchUp) /\ WF_vars(Start) /\ WF_vars(ScriptStep)

----------------------------------------------------------------------------
TypeOK ==
    /\ script \in Scripts
    /\ \A i \in 1 .. Len(txs) : txs[i].op \in Operations
    /\ \A o \in Operations : file.hash[o] \in 0 .. Len(txs)
    /\ run.at \in 0 .. Len(Plan) + 1
    /\ unsaved \subseteq 1 .. Len(txs)

(* What Base executes once, whatever is sent.                                *)
Guarded == {"create", "activate", "settle", "redeem", "claim", "withdraw"}
Successes(o) == {i \in 1 .. Len(txs) : txs[i].op = o /\ txs[i].status = "success"}

(* However often a script is stopped and run again, no market is created,     *)
(* activated, settled or paid out twice; and an approval, contribution, stake *)
(* or trade is repeated only where the script died between sending it and     *)
(* saving its hash: leaving out what was so lost, it is done once.            *)
NothingIsDoneTwice ==
    \A o \in Operations :
        Cardinality(IF o \in Guarded THEN Successes(o) ELSE Successes(o) \ unsaved) <= 1

(* A record that says done is right about the chain.                          *)
DoneIsDone ==
    file.status = "confirmed" =>
        CASE script = "lmsr" -> chain.active /\ chain.shares >= 1
          [] script = "pool" -> chain.yes >= 1 /\ chain.no >= 1
          [] script = "settle-lmsr" -> chain.terminal /\ chain.yes + chain.no + chain.shares = 0
          [] script = "settle-pool" -> chain.terminal /\ chain.yes + chain.no = 0

(* Run again often enough, a script comes to its end, whichever hashes were   *)
(* lost but these: a withdrawal is refused for ever once no share is left; a  *)
(* stake that is made again spends the allowance of the other one, and a      *)
(* purchase that is to be made again, because it was sold from, has none.    *)
Stranding == {"withdraw", "stakeYes", "stakeNo", "buyYes", "buyNo"}
RunsComplete ==
    <>(file.status = "confirmed" \/ \E i \in unsaved : txs[i].op \in Stranding)

(* What "ACTIVE_TRADES_CONFIRMED" promises and the script does not keep: both *)
(* purchases were made.                                                       *)
TradesAreConfirmed ==
    file.status = "confirmed" /\ script = "lmsr" =>
        Successes("buyYes") # {} /\ Successes("buyNo") # {}

(* What a pool's record promises and the script does not keep: the settlement *)
(* it names is the one that settled.                                          *)
NamedSettlementSettled ==
    file.status = "confirmed" /\ script = "settle-pool" /\ Recorded("settle") # 0 =>
        txs[Recorded("settle")].status = "success"
=============================================================================
