----------------------------- MODULE ArcLedger -----------------------------
(* One user's money as the Arc application's database records it: the        *)
(* deposit watcher (frontend/src/lib/deposit-watcher.ts), the wallet routes, *)
(* the administrator's refund and the history backfill all write             *)
(* WalletBalance and WalletTransaction rows, each from a function of its     *)
(* own.  An action runs from one await to the next.                          *)
EXTENDS Naturals, Integers, Sequences, FiniteSets

CONSTANTS
    Handlers,      \* functions that may run at the same time
    Bets,          \* the user's legacy bets on one market, one unit each
    PageSize,      \* transfers Circle answers with, the newest ones
    MaxTransfers,  \* bound on the wallet's transfers
    MaxCalls       \* bound on the calls that are not balance polls, and on
                   \* the functions that die half way, together

VARIABLES
    circle,    \* the transfers of the wallet as Circle lists them, oldest first
    usdc,      \* what the wallet holds on Arc
    balance,   \* the WalletBalance row: available, locked
    rows,      \* the WalletTransaction rows that have a hash
    releases,  \* units on BET_RELEASE rows, which have none
    market,    \* status of the market
    bets,      \* status of each bet
    history,   \* times the bets of the market were written to the history
    handler,   \* what each function holds in memory
    calls      \* calls and deaths so far

ledger == <<balance, rows, releases, market, bets, history>>
vars == <<circle, usdc, ledger, handler, calls>>

Idle == [pc |-> "idle", todo |-> {}, hash |-> <<>>]

Init ==
    /\ circle = <<>>
    /\ usdc = 0
    /\ balance = [available |-> 0, locked |-> Cardinality(Bets)]
    /\ rows = {}
    /\ releases = 0
    /\ market = "active"
    /\ bets = [b \in Bets |-> "active"]
    /\ history = 0
    /\ handler = [h \in Handlers |-> Idle]
    /\ calls = 0

At(h, pc) == handler[h].pc = pc
Goto(h, pc, todo) == handler' = [handler EXCEPT ![h] = [pc |-> pc, todo |-> todo, hash |-> <<>>]]
GotoHash(h, pc, hash) == handler' = [handler EXCEPT ![h].pc = pc, ![h].hash = hash]
Finish(h) == handler' = [handler EXCEPT ![h] = Idle]
Call(h) == At(h, "idle") /\ calls < MaxCalls /\ calls' = calls + 1

(* A transfer is known by Circle's id and, once it is mined, by its hash on  *)
(* the chain.  A row names one or the other; that of a transfer which never  *)
(* was stands for any other text.  A row is of one unit, as is the rise of   *)
(* the balance that goes with it: in the code both take the same amount.     *)
CircleId(i) == <<"circle", i>>
ChainHash(i) == <<"chain", i>>
Hashes == {"circle", "chain"} \X (1 .. MaxTransfers)
Row(type, hash, by) == [type |-> type, hash |-> hash, by |-> by]   \* by: history
HasRow(hash) == \E r \in rows : r.hash = hash      \* unique (userId, txHash)
Found(i) == \E r \in rows : r.type = "DEPOSIT" /\ r.hash = CircleId(i)

----------------------------------------------------------------------------
(* Circle and the chain.                                                     *)

Inbound(i) == circle[i].kind = "in"
Arrive ==
    /\ Len(circle) < MaxTransfers
    /\ circle' = Append(circle, [kind |-> "in", state |-> "SENT"])
    /\ UNCHANGED <<usdc, ledger, handler, calls>>

(* A transfer is confirmed and later complete, or fails before that.         *)
Progress(i) ==
    /\ \/ circle[i].state = "SENT" /\ Inbound(i) /\ \E s \in {"CONFIRMED", "FAILED"} :
            /\ circle' = [circle EXCEPT ![i].state = s]
            /\ usdc' = IF s = "CONFIRMED" THEN usdc + 1 ELSE usdc
       \/ circle[i].state = "SENT" /\ ~Inbound(i) /\
            IF usdc > 0
            THEN circle' = [circle EXCEPT ![i].state = "CONFIRMED"] /\ usdc' = usdc - 1
            ELSE circle' = [circle EXCEPT ![i].state = "FAILED"] /\ UNCHANGED usdc
       \/ /\ circle[i].state = "CONFIRMED"
          /\ circle' = [circle EXCEPT ![i].state = "COMPLETE"]
          /\ UNCHANGED usdc
    /\ UNCHANGED <<ledger, handler, calls>>

----------------------------------------------------------------------------
(* syncDepositsForUser, which every look at the balance runs.                *)

TERMINAL_SUCCESS == {"CONFIRMED", "COMPLETE"}
Landed(i) == Inbound(i) /\ circle[i].state \in TERMINAL_SUCCESS

(* The page holds outbound transfers too: they are filtered out afterwards.  *)
Page == {i \in DOMAIN circle : i > Len(circle) - PageSize}

ListTransfers(h) ==
    /\ At(h, "idle")
    /\ {i \in Page : Landed(i)} # {}
    /\ Goto(h, "lookup", {i \in Page : Landed(i)})
    /\ UNCHANGED <<circle, usdc, ledger, calls>>

\* Mutant: the rows are looked up by user, not by user and transfer.
FindCredited_AnyRow(h) ==
    /\ At(h, "lookup")
    /\ Goto(h, "credit", {i \in handler[h].todo : ~\E r \in rows : r.type = "DEPOSIT"})
    /\ UNCHANGED <<circle, usdc, ledger, calls>>

FindCredited(h) ==
    /\ At(h, "lookup")
    /\ Goto(h, "credit", {i \in handler[h].todo : ~Found(i)})
    /\ UNCHANGED <<circle, usdc, ledger, calls>>

\* Mutant: the balance is raised whether or not the row is new.
Credit_Always(h) ==
    /\ At(h, "credit")
    /\ handler[h].todo # {}
    /\ \E i \in handler[h].todo :
         /\ rows' = rows \cup {Row("DEPOSIT", CircleId(i), "watcher")}
         /\ balance' = [balance EXCEPT !.available = @ + 1]
         /\ Goto(h, "credit", handler[h].todo \ {i})
    /\ UNCHANGED <<circle, usdc, releases, market, bets, history, calls>>

(* Balance and row in one transaction, which the unique hash refuses when    *)
(* another watcher was first.                                                *)
Credit(h) ==
    /\ At(h, "credit")
    /\ handler[h].todo # {}
    /\ \E i \in handler[h].todo :
         /\ IF HasRow(CircleId(i))
            THEN UNCHANGED <<balance, rows>>
            ELSE /\ rows' = rows \cup {Row("DEPOSIT", CircleId(i), "watcher")}
                 /\ balance' = [balance EXCEPT !.available = @ + 1]
         /\ Goto(h, "credit", handler[h].todo \ {i})
    /\ UNCHANGED <<circle, usdc, releases, market, bets, history, calls>>

Synced(h) ==
    /\ At(h, "credit")
    /\ handler[h].todo = {}
    /\ Finish(h)
    /\ UNCHANGED <<circle, usdc, ledger, calls>>

----------------------------------------------------------------------------
(* POST wallets/transactions: a deposit the client says it saw on the chain. *)
(* Neither the chain nor Circle is asked: the body may name any transfer,    *)
(* landed or not, by either name.  With no hash the row is only pending, and *)
(* no balance changes.                                                       *)

RecordDeposit(h) ==
    /\ Call(h)
    /\ \E hash \in Hashes :
         /\ ~HasRow(hash)                       \* else the insert throws
         /\ rows' = rows \cup {Row("DEPOSIT", hash, "client")}
         /\ GotoHash(h, "increment", hash)
    /\ UNCHANGED <<circle, usdc, balance, releases, market, bets, history>>

Increment(h) ==
    /\ At(h, "increment")
    /\ balance' = [balance EXCEPT !.available = @ + 1]
    /\ Finish(h)
    /\ UNCHANGED <<circle, usdc, rows, releases, market, bets, history, calls>>

(* POST wallets/withdraw.  When the chain cannot be read the database's      *)
(* balance is asked instead; the transfer is Circle's either way.            *)
CheckFunds(h) ==
    /\ Call(h)
    /\ \/ usdc >= 1
       \/ balance.available >= 1                \* the RPC is down
    /\ GotoHash(h, "send", <<>>)
    /\ UNCHANGED <<circle, usdc, ledger>>

Transfer(h) ==
    /\ At(h, "send")
    /\ \/ /\ Len(circle) < MaxTransfers
          /\ circle' = Append(circle, [kind |-> "out", state |-> "SENT"])
          /\ GotoHash(h, "record", CircleId(Len(circle) + 1))
       \/ Finish(h) /\ UNCHANGED circle         \* Circle refuses
    /\ UNCHANGED <<usdc, ledger, calls>>

RecordWithdrawal(h) ==
    /\ At(h, "record")
    /\ rows' = IF HasRow(handler[h].hash) THEN rows   \* the insert throws
               ELSE rows \cup {Row("WITHDRAWAL", handler[h].hash, "withdraw")}
    /\ Finish(h)
    /\ UNCHANGED <<circle, usdc, balance, releases, market, bets, history, calls>>

----------------------------------------------------------------------------
(* The administrator winds a legacy market down (handleRefund).              *)

ReadActiveBets(h) ==
    /\ Call(h)
    /\ market \notin {"resolved", "refunded"}
    /\ Goto(h, "refund", {b \in Bets : bets[b] = "active"})
    /\ UNCHANGED <<circle, usdc, ledger>>

(* The transaction uses the totals read before it began.                     *)
RefundBets(h) ==
    /\ At(h, "refund")
    /\ LET total == Cardinality(handler[h].todo)
       IN  /\ balance' = [available |-> balance.available + total,
                          locked |-> balance.locked - total]
           /\ releases' = releases + total
    /\ market' = "refunded"
    /\ bets' = [b \in Bets |-> "refunded"]
    /\ Finish(h)
    /\ UNCHANGED <<circle, usdc, rows, history, calls>>

(* The indexer mirrors the end of the market.                                *)
Resolve ==
    /\ market = "active"
    /\ calls < MaxCalls /\ calls' = calls + 1
    /\ market' = "resolved"
    /\ UNCHANGED <<circle, usdc, balance, rows, releases, bets, history, handler>>

(* backfill-history with commit: the guard is read, the rows follow in one   *)
(* transaction.                                                              *)
FindHistory(h) ==
    /\ Call(h)
    /\ market = "resolved" /\ history = 0
    /\ Goto(h, "insert", {})
    /\ UNCHANGED <<circle, usdc, ledger>>

InsertHistory(h) ==
    /\ At(h, "insert")
    /\ history' = history + 1
    /\ Finish(h)
    /\ UNCHANGED <<circle, usdc, balance, rows, releases, market, bets, calls>>

Dies(h) ==
    /\ ~At(h, "idle")
    /\ calls < MaxCalls /\ calls' = calls + 1
    /\ Finish(h)
    /\ UNCHANGED <<circle, usdc, ledger>>

----------------------------------------------------------------------------
SyncStep(h) == FindCredited(h) \/ Credit(h) \/ Synced(h)
RouteStep(h) == Increment(h) \/ Transfer(h) \/ RecordWithdrawal(h)
                \/ RefundBets(h) \/ InsertHistory(h)
RouteStart(h) == RecordDeposit(h) \/ CheckFunds(h) \/ ReadActiveBets(h) \/ FindHistory(h)

Next ==
    \/ Arrive \/ (\E i \in DOMAIN circle : Progress(i)) \/ Resolve
    \/ \E h \in Handlers : ListTransfers(h) \/ SyncStep(h)
                           \/ RouteStart(h) \/ RouteStep(h) \/ Dies(h)

(* The user keeps looking at the balance, and functions run on.              *)
Fairness ==
    \A h \in Handlers : WF_vars(ListTransfers(h)) /\ WF_vars(SyncStep(h) \/ RouteStep(h))

Spec == Init /\ [][Next]_vars /\ Fairness

----------------------------------------------------------------------------
(* Balances and rows hold what their columns may.                            *)
TypeOK ==
    /\ balance \in [available : Nat, locked : Int]
    /\ usdc \in Nat /\ releases \in Nat /\ history \in Nat
    /\ market \in {"active", "resolved", "refunded"}
    /\ bets \in [Bets -> {"active", "refunded"}]
    /\ \A r \in rows : r.type \in {"DEPOSIT", "WITHDRAWAL"}

(* Every unit on the balance row stands on a deposit row of its own, and no  *)
(* two rows share a hash, whatever watchers, routes and refunds overlap or   *)
(* die: what a POST has recorded, and not added yet, it owes.  A row the     *)
(* watcher wrote is of a transfer that landed; one a POST wrote is of what   *)
(* the client said.                                                          *)
Deposited == Cardinality({r \in rows : r.type = "DEPOSIT"})
Owed == Cardinality({h \in Handlers : At(h, "increment")})
Total == balance.available + balance.locked
OneRowAHash == \A r, q \in rows : r.hash = q.hash => r = q
WatchedRowsLanded ==
    \A r \in rows : r.by = "watcher" => \E i \in DOMAIN circle : r.hash = CircleId(i) /\ Landed(i)
BalanceStandsOnRows ==
    /\ Total + Owed <= Cardinality(Bets) + Deposited
    /\ OneRowAHash /\ WatchedRowsLanded

(* A deposit that has landed is credited, however late the wallet is looked  *)
(* at, and whichever watcher died on the way, as long as it is on the page   *)
(* and no POST has taken its id: such a row the watcher takes for its own.   *)
DepositsAreCredited ==
    \A i \in 1 .. MaxTransfers :
        (i \in DOMAIN circle /\ Landed(i))
            ~> \/ Row("DEPOSIT", CircleId(i), "watcher") \in rows
               \/ Row("DEPOSIT", CircleId(i), "client") \in rows

(* handleRefund: "Refunds every active bet at full stake (locked ->          *)
(* available + BET_RELEASE row)": what is locked is what the active bets     *)
(* stand for, and what was released is what the others stood for.            *)
LockedIsTheActiveBets ==
    /\ balance.locked = Cardinality({b \in Bets : bets[b] = "active"})
    /\ releases = Cardinality({b \in Bets : bets[b] = "refunded"})

(* schema.prisma: a transfer "can only be credited to a user once".          *)
CreditedOnce ==
    \A i \in DOMAIN circle :
        Landed(i) => ~({CircleId(i), ChainHash(i)} \subseteq {r.hash : r \in rows})

(* backfill-history: "Idempotent ... re-running is a no-op".                 *)
BackfilledOnce == history <= 1
=============================================================================
