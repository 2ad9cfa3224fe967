-------------------------- MODULE ApplicationProofs --------------------------
(***************************************************************************)
(* The parts of the two applications (MCApplications), for any users,      *)
(* bets, markets, requests, trades and bounds, and the settlement pipeline *)
(* of the Arc application (MCArcSettlement), for any resolver ticks and    *)
(* verdicts.  The parts share no state, so each has an inductive invariant *)
(* of its own, and a part at rest keeps it.                                *)
(***************************************************************************)
EXTENDS MCApplications, MCArcSettlement, Integers, Sequences, FiniteSetTheorems,
        WellFoundedInduction, TLAPS

LEMMA LeastExists ==
    ASSUME NEW S \in SUBSET Nat, S # {} PROVE \E b \in S : \A c \in S : b <= c
<1>1. PICK b \in S : \A c \in S : <<c, b>> \notin OpToRel(<, Nat)
  BY NatLessThanWellFounded, WFMin
<1>2. ASSUME NEW c \in S PROVE b <= c
  <2>1. b \in Nat /\ c \in Nat /\ ~(c < b)
    BY <1>1 DEF OpToRel
  <2>2. QED BY <2>1
<1>3. QED BY <1>2

----------------------------------------------------------------------------
(* The ledger: deposits, withdrawals and the balance row (ArcLedger).        *)

TransferRow == [kind : {"in", "out"}, state : {"SENT", "CONFIRMED", "FAILED", "COMPLETE"}]
HandlerPcs == {"idle", "lookup", "credit", "increment", "send", "record", "refund", "insert"}
Texts == ({"circle", "chain"} \X Nat) \cup {<<>>}
Memory == [pc : HandlerPcs, todo : SUBSET (Nat \cup Bets), hash : Texts]

Arrived(i) == i \in DOMAIN transfers /\ Ledger!Landed(i)

(* What a watcher is about to credit has landed; a refund is of bets.        *)
Owes(x) ==
    /\ x.pc \in {"lookup", "credit"} => \A i \in x.todo : Arrived(i)
    /\ x.pc = "refund" => x.todo \subseteq Bets

Deposits == {r \in rows : r.type = "DEPOSIT"}
Owing == {h \in Handlers : handler[h].pc = "increment"}

(* What the watcher wrote a row of had landed; a hash has one row.           *)
Witnessed(r) == r.by = "watcher" => \E i : Arrived(i) /\ r.hash = Ledger!CircleId(i)
RowsStand == (\A r \in rows : Witnessed(r)) /\ \A r, q \in rows : r.hash = q.hash => r = q

LedgerInv ==
    /\ transfers \in Seq(TransferRow)
    /\ balance \in [available : Nat, locked : Int]
    /\ IsFiniteSet(Deposits) /\ IsFiniteSet(Owing)
    /\ RowsStand
    /\ handler \in [Handlers -> Memory]
    /\ \A h \in Handlers : Owes(handler[h])
    /\ balance.available + balance.locked + Cardinality(Owing)
         <= Cardinality(Bets) + Cardinality(Deposits)

LEMMA LedgerCountsAlike == \A S : Ledger!Cardinality(S) = Cardinality(S)
BY DEF Ledger!Cardinality, Cardinality

LEMMA BetsAreCounted ==
    /\ IsFiniteSet(Bets) /\ Cardinality(Bets) \in Nat
    /\ \A S \in SUBSET Bets : Ledger!Cardinality(S) \in Nat
<1>1. IsFiniteSet(Bets)
  BY LedgerAssumption, Zenon
<1>2. ASSUME NEW S \in SUBSET Bets PROVE Ledger!Cardinality(S) \in Nat
  <2>1. IsFiniteSet(S)
    BY <1>1, FS_Subset
  <2>2. Cardinality(S) \in Nat
    BY <2>1, FS_CardinalityType
  <2>3. QED BY <2>2, LedgerCountsAlike
<1>3. Cardinality(Bets) \in Nat
  BY <1>1, FS_CardinalityType
<1>4. QED BY <1>1, <1>2, <1>3

LEMMA IdleIsMemory == Ledger!Idle \in Memory /\ Ledger!Idle.pc = "idle"
BY DEF Ledger!Idle, Memory, HandlerPcs, Texts

LEMMA LedgerBegins == Ledger!Init => LedgerInv
<1> SUFFICES ASSUME Ledger!Init PROVE LedgerInv
  OBVIOUS
<1>1. handler = [h \in Handlers |-> Ledger!Idle] /\ rows = {} /\ transfers = <<>>
       /\ balance = [available |-> 0, locked |-> Ledger!Cardinality(Bets)]
  BY DEF Ledger!Init
<1>2. Owing = {} /\ Deposits = {}
  BY <1>1, IdleIsMemory DEF Owing, Deposits
<1>3. IsFiniteSet({}) /\ Cardinality({}) = 0
  BY FS_EmptySet
<1>4. balance.available = 0 /\ balance.locked = Cardinality(Bets) /\ Cardinality(Bets) \in Nat
  BY <1>1, LedgerCountsAlike, BetsAreCounted
<1>5. balance \in [available : Nat, locked : Int]
  BY <1>1, <1>4
<1>6. balance.available + balance.locked + Cardinality(Owing) <= Cardinality(Bets) + Cardinality(Deposits)
  BY <1>2, <1>3, <1>4
<1>7. handler \in [Handlers -> Memory] /\ \A h \in Handlers : Owes(handler[h])
  BY <1>1, IdleIsMemory DEF Owes
<1>8. QED BY <1>1, <1>2, <1>3, <1>5, <1>6, <1>7 DEF LedgerInv, RowsStand

(* While what has landed stays so, the rows stand, and so does one more of   *)
(* a new hash.                                                               *)
LEMMA RowsStay ==
    ASSUME LedgerInv, \A i : Arrived(i) => Arrived(i)',
           \/ UNCHANGED rows
           \/ \E r : rows' = rows \cup {r} /\ ~Ledger!HasRow(r.hash) /\ Witnessed(r)'
    PROVE  RowsStand'
<1>1. RowsStand
  BY DEF LedgerInv
<1>2. \A r \in rows : Witnessed(r)'
  BY <1>1 DEF RowsStand, Witnessed
<1>3. QED BY <1>1, <1>2 DEF RowsStand, Ledger!HasRow

(* Who owes what it has recorded, and what one handler's move changes in it. *)
LEMMA OwingIsCounted ==
    ASSUME LedgerInv, NEW h \in Handlers, NEW x \in Memory, handler' = [handler EXCEPT ![h] = x]
    PROVE  /\ Cardinality(Owing) \in Nat /\ IsFiniteSet(Owing') /\ Cardinality(Owing') \in Nat
           /\ x.pc # "increment" => Cardinality(Owing') <= Cardinality(Owing)
           /\ x.pc # "increment" /\ handler[h].pc = "increment" =>
                Cardinality(Owing') = Cardinality(Owing) - 1
           /\ x.pc = "increment" => Cardinality(Owing') <= Cardinality(Owing) + 1
<1>1. IsFiniteSet(Owing) /\ handler \in [Handlers -> Memory]
  BY DEF LedgerInv
<1>2. Cardinality(Owing) \in Nat
  BY <1>1, FS_CardinalityType
<1>3. CASE x.pc = "increment"
  <2>1. Owing' = Owing \cup {h}
    BY <1>1, <1>3 DEF Owing
  <2>2. IsFiniteSet(Owing') /\ Cardinality(Owing') \in {Cardinality(Owing), Cardinality(Owing) + 1}
    BY <1>1, <2>1, FS_AddElement
  <2>3. QED BY <1>2, <1>3, <2>2
<1>4. CASE x.pc # "increment"
  <2>1. Owing' = Owing \ {h}
    BY <1>1, <1>4 DEF Owing
  <2>2. /\ IsFiniteSet(Owing')
        /\ Cardinality(Owing') = IF h \in Owing THEN Cardinality(Owing) - 1 ELSE Cardinality(Owing)
    BY <1>1, <2>1, FS_RemoveElement
  <2>3. Cardinality(Owing') \in Nat
    BY <2>2, FS_CardinalityType
  <2>4. handler[h].pc = "increment" => h \in Owing
    BY DEF Owing
  <2>5. QED BY <1>2, <1>4, <2>2, <2>3, <2>4
<1>5. QED BY <1>3, <1>4

LEMMA DepositsAreCounted ==
    ASSUME LedgerInv, NEW r, r.type = "DEPOSIT", r \notin rows, rows' = rows \cup {r}
    PROVE  /\ Deposits' = Deposits \cup {r} /\ IsFiniteSet(Deposits')
           /\ Cardinality(Deposits) \in Nat
           /\ Cardinality(Deposits') = Cardinality(Deposits) + 1
<1>1. Deposits' = Deposits \cup {r} /\ r \notin Deposits
  BY DEF Deposits
<1>2. IsFiniteSet(Deposits)
  BY DEF LedgerInv
<1>3. QED BY <1>1, <1>2, FS_AddElement, FS_CardinalityType

(* A handler that moves on, while what has landed stays so.                  *)
LEMMA HandlerMoves ==
    ASSUME LedgerInv, NEW h \in Handlers, NEW x \in Memory, handler' = [handler EXCEPT ![h] = x],
           \A i : Arrived(i) => Arrived(i)',
           x.pc \in {"lookup", "credit"} => \A i \in x.todo : Arrived(i)',
           x.pc = "refund" => x.todo \subseteq Bets
    PROVE  handler' \in [Handlers -> Memory] /\ \A g \in Handlers : Owes(handler[g])'
<1>1. handler' \in [Handlers -> Memory]
  BY DEF LedgerInv
<1>2. ASSUME NEW g \in Handlers PROVE Owes(handler[g])'
  <2>1. CASE g = h
    <3>1. handler'[g] = x
      BY <2>1 DEF LedgerInv
    <3>2. QED BY <3>1 DEF Owes
  <2>2. CASE g # h
    <3>1. handler'[g] = handler[g] /\ Owes(handler[g])
      BY <2>2 DEF LedgerInv
    <3>2. QED BY <3>1 DEF Owes
  <2>3. QED BY <2>1, <2>2
<1>3. QED BY <1>1, <1>2

(* Steps that change neither what stands on the balance row nor a deposit.   *)
LEMMA LedgerQuiet ==
    ASSUME LedgerInv, NEW h \in Handlers, NEW x \in Memory, handler' = [handler EXCEPT ![h] = x],
           x.pc # "increment",
           transfers' \in Seq(TransferRow), \A i : Arrived(i) => Arrived(i)',
           x.pc \in {"lookup", "credit"} => \A i \in x.todo : Arrived(i),
           x.pc = "refund" => x.todo \subseteq Bets,
           Deposits' = Deposits, RowsStand',
           balance' \in [available : Nat, locked : Int],
           balance'.available + balance'.locked = balance.available + balance.locked
    PROVE  LedgerInv'
<1>1. handler' \in [Handlers -> Memory] /\ \A g \in Handlers : Owes(handler[g])'
  BY HandlerMoves
<1>2. /\ Cardinality(Owing) \in Nat /\ IsFiniteSet(Owing') /\ Cardinality(Owing') \in Nat
      /\ Cardinality(Owing') <= Cardinality(Owing)
  BY OwingIsCounted
<1>3. /\ IsFiniteSet(Deposits) /\ balance \in [available : Nat, locked : Int]
      /\ balance.available + balance.locked + Cardinality(Owing)
           <= Cardinality(Bets) + Cardinality(Deposits)
  BY DEF LedgerInv
<1>4. Cardinality(Deposits) \in Nat
  BY <1>3, FS_CardinalityType
<1>5. balance'.available + balance'.locked + Cardinality(Owing') <= Cardinality(Bets) + Cardinality(Deposits')
  BY <1>2, <1>3, <1>4, BetsAreCounted
<1>6. IsFiniteSet(Deposits')
  BY <1>3
<1>7. QED BY <1>1, <1>2, <1>5, <1>6 DEF LedgerInv

(* Circle and the chain: a transfer that landed has landed.                  *)
LEMMA ChainPreserves ==
    ASSUME LedgerInv, Ledger!Arrive \/ \E i \in DOMAIN transfers : Ledger!Progress(i)
    PROVE  LedgerInv'
<1>1. UNCHANGED <<balance, rows, handler>>
  BY DEF Ledger!Arrive, Ledger!Progress, Ledger!ledger
<1>2. transfers \in Seq(TransferRow)
  BY DEF LedgerInv
<1>3. transfers' \in Seq(TransferRow) /\ \A i : Arrived(i) => Arrived(i)'
  <2>1. CASE Ledger!Arrive
    <3>1. transfers' = Append(transfers, [kind |-> "in", state |-> "SENT"])
      BY <2>1 DEF Ledger!Arrive
    <3>2. [kind |-> "in", state |-> "SENT"] \in TransferRow
      BY DEF TransferRow
    <3>3. QED BY <1>2, <3>1, <3>2 DEF Arrived, Ledger!Landed, Ledger!Inbound, Ledger!TERMINAL_SUCCESS
  <2>2. ASSUME NEW i \in DOMAIN transfers, Ledger!Progress(i)
        PROVE  transfers' \in Seq(TransferRow) /\ \A j : Arrived(j) => Arrived(j)'
    <3>1. PICK s \in {"CONFIRMED", "FAILED", "COMPLETE"} :
            /\ transfers' = [transfers EXCEPT ![i].state = s]
            /\ transfers[i].state = "SENT" \/ (transfers[i].state = "CONFIRMED" /\ s = "COMPLETE")
      BY <2>2 DEF Ledger!Progress
    <3>2. transfers[i] \in TransferRow
      BY <1>2
    <3>3. /\ [transfers[i] EXCEPT !.state = s] \in TransferRow
          /\ [transfers[i] EXCEPT !.state = s].kind = transfers[i].kind
          /\ [transfers[i] EXCEPT !.state = s].state = s
      BY <3>2 DEF TransferRow
    <3>4. /\ transfers' \in Seq(TransferRow) /\ DOMAIN transfers' = DOMAIN transfers
          /\ transfers'[i].kind = transfers[i].kind /\ transfers'[i].state = s
          /\ \A j \in DOMAIN transfers : j # i => transfers'[j] = transfers[j]
      <4> DEFINE t == [transfers[i] EXCEPT !.state = s]
      <4>1. transfers' = [transfers EXCEPT ![i] = t]
        BY <3>1
      <4>2. t \in TransferRow /\ t.kind = transfers[i].kind /\ t.state = s
        BY <3>3
      <4> HIDE DEF t
      <4>3. QED BY <1>2, <4>1, <4>2
    <3>5. QED BY <3>1, <3>4 DEF Arrived, Ledger!Landed, Ledger!Inbound, Ledger!TERMINAL_SUCCESS
  <2>3. QED BY <2>1, <2>2
<1>4. Deposits' = Deposits /\ Owing' = Owing
  BY <1>1 DEF Deposits, Owing
<1>5. RowsStand'
  BY <1>1, <1>3, RowsStay
<1>6. \A h \in Handlers : Owes(handler[h])'
  BY <1>1, <1>3 DEF LedgerInv, Owes
<1>7. QED BY <1>1, <1>3, <1>4, <1>5, <1>6 DEF LedgerInv

(* Handlers that change no row and no balance.                               *)
LEMMA WatcherPreserves ==
    ASSUME LedgerInv, NEW h \in Handlers,
           Ledger!ListTransfers(h) \/ Ledger!FindCredited(h) \/ Ledger!Synced(h)
             \/ Ledger!ReadActiveBets(h) \/ Ledger!FindHistory(h) \/ Ledger!InsertHistory(h)
             \/ Ledger!Dies(h)
    PROVE  LedgerInv'
<1> USE DEF Ledger!Goto, Ledger!Finish, Ledger!At, Ledger!ledger
<1>1. /\ transfers \in Seq(TransferRow) /\ handler[h] \in Memory /\ Owes(handler[h])
      /\ balance \in [available : Nat, locked : Int]
  BY DEF LedgerInv
<1>2. UNCHANGED <<transfers, balance, rows>>
  BY DEF Ledger!ListTransfers, Ledger!FindCredited, Ledger!Synced, Ledger!ReadActiveBets,
         Ledger!FindHistory, Ledger!InsertHistory, Ledger!Dies
<1>3. /\ transfers' \in Seq(TransferRow) /\ Deposits' = Deposits
      /\ balance' \in [available : Nat, locked : Int]
      /\ balance'.available + balance'.locked = balance.available + balance.locked
      /\ \A i : Arrived(i) => Arrived(i)'
      /\ RowsStand'
  <2>1. \A i : Arrived(i) => Arrived(i)'
    BY <1>2 DEF Arrived, Ledger!Landed, Ledger!Inbound
  <2>2. RowsStand'
    BY <1>2, <2>1, RowsStay
  <2>3. QED BY <1>1, <1>2, <2>1, <2>2 DEF Deposits
<1>4. CASE handler' = [handler EXCEPT ![h] = Ledger!Idle]
  BY <1>3, <1>4, IdleIsMemory, LedgerQuiet
<1>5. ASSUME NEW pc \in {"lookup", "credit", "refund", "insert"}, NEW todo,
             handler' = [handler EXCEPT ![h] = [pc |-> pc, todo |-> todo, hash |-> <<>>]],
             pc = "insert" => todo = {},
             pc \in {"lookup", "credit"} => \A i \in todo : Arrived(i),
             pc = "refund" => todo \subseteq Bets
      PROVE  LedgerInv'
  <2> DEFINE x == [pc |-> pc, todo |-> todo, hash |-> <<>>]
  <2>1. todo \in SUBSET (Nat \cup Bets)
    BY <1>1, <1>5 DEF Arrived
  <2>2. x \in Memory /\ x.pc = pc /\ x.todo = todo
    BY <1>5, <2>1 DEF Memory, HandlerPcs, Texts
  <2> HIDE DEF x
  <2>3. QED BY <1>3, <1>5, <2>2, LedgerQuiet DEF x
<1>6. CASE Ledger!ListTransfers(h)
  <2>1. \A i \in Ledger!Page : i \in DOMAIN transfers
    BY DEF Ledger!Page
  <2> DEFINE S == {i \in Ledger!Page : Ledger!Landed(i)}
  <2>2. \A i \in S : Arrived(i)
    BY <2>1 DEF Arrived
  <2>3. handler' = [handler EXCEPT ![h] = [pc |-> "lookup", todo |-> S, hash |-> <<>>]]
    BY <1>6 DEF Ledger!ListTransfers
  <2> HIDE DEF S
  <2>4. QED BY <1>5, <2>2, <2>3
<1>7. CASE Ledger!FindCredited(h)
  <2> DEFINE S == {i \in handler[h].todo : ~Ledger!Found(i)}
  <2>1. \A i \in S : Arrived(i)
    BY <1>1, <1>7 DEF Ledger!FindCredited, Owes
  <2>2. handler' = [handler EXCEPT ![h] = [pc |-> "credit", todo |-> S, hash |-> <<>>]]
    BY <1>7 DEF Ledger!FindCredited
  <2> HIDE DEF S
  <2>3. QED BY <1>5, <2>1, <2>2
<1>8. CASE Ledger!ReadActiveBets(h)
  BY <1>5, <1>8 DEF Ledger!ReadActiveBets
<1>9. CASE Ledger!FindHistory(h)
  BY <1>5, <1>9 DEF Ledger!FindHistory
<1>10. QED
  BY <1>4, <1>6, <1>7, <1>8, <1>9 DEF Ledger!Synced, Ledger!InsertHistory, Ledger!Dies

(* A withdrawal is checked, sent and recorded; no balance changes.           *)
LEMMA WithdrawalPreserves ==
    ASSUME LedgerInv, NEW h \in Handlers,
           Ledger!CheckFunds(h) \/ Ledger!Transfer(h) \/ Ledger!RecordWithdrawal(h)
    PROVE  LedgerInv'
<1> USE DEF Ledger!GotoHash, Ledger!Finish, Ledger!ledger
<1>1. /\ transfers \in Seq(TransferRow) /\ handler[h] \in Memory
      /\ handler \in [Handlers -> Memory] /\ balance \in [available : Nat, locked : Int]
  BY DEF LedgerInv
<1>2. /\ balance' \in [available : Nat, locked : Int]
      /\ balance'.available + balance'.locked = balance.available + balance.locked
  BY <1>1 DEF Ledger!CheckFunds, Ledger!Transfer, Ledger!RecordWithdrawal
<1>3. Deposits' = Deposits
  BY DEF Deposits, Ledger!CheckFunds, Ledger!Transfer, Ledger!RecordWithdrawal, Ledger!Row
<1>4. transfers' \in Seq(TransferRow) /\ \A i : Arrived(i) => Arrived(i)'
  <2>1. CASE UNCHANGED transfers
    BY <1>1, <2>1 DEF Arrived, Ledger!Landed, Ledger!Inbound
  <2>2. CASE transfers' = Append(transfers, [kind |-> "out", state |-> "SENT"])
    <3>1. [kind |-> "out", state |-> "SENT"] \in TransferRow
      BY DEF TransferRow
    <3>2. QED BY <1>1, <2>2, <3>1 DEF Arrived, Ledger!Landed, Ledger!Inbound
  <2>3. QED BY <2>1, <2>2 DEF Ledger!CheckFunds, Ledger!Transfer, Ledger!RecordWithdrawal
<1>5. RowsStand'
  <2>1. UNCHANGED rows \/ \E r : rows' = rows \cup {r} /\ ~Ledger!HasRow(r.hash) /\ Witnessed(r)'
    <3>1. CASE UNCHANGED rows
      BY <3>1
    <3>2. ASSUME NEW r, r = Ledger!Row("WITHDRAWAL", handler[h].hash, "withdraw"),
                 Ledger!RecordWithdrawal(h), ~Ledger!HasRow(handler[h].hash)
          PROVE  rows' = rows \cup {r} /\ ~Ledger!HasRow(r.hash) /\ Witnessed(r)'
      <4>1. rows' = rows \cup {r}
        BY <3>2 DEF Ledger!RecordWithdrawal
      <4>2. r.hash = handler[h].hash /\ r.by = "withdraw"
        BY <3>2 DEF Ledger!Row
      <4>3. Witnessed(r)'
        BY <4>2 DEF Witnessed
      <4>4. QED BY <3>2, <4>1, <4>2, <4>3
    <3>3. QED BY <3>1, <3>2 DEF Ledger!CheckFunds, Ledger!Transfer, Ledger!RecordWithdrawal
  <2>2. QED BY <1>4, <2>1, RowsStay
<1>6. CASE handler' = [handler EXCEPT ![h] = Ledger!Idle]
  BY <1>2, <1>3, <1>4, <1>5, <1>6, IdleIsMemory, LedgerQuiet
<1>7. ASSUME NEW pc \in {"send", "record"}, NEW hash \in Texts,
             handler' = [handler EXCEPT ![h].pc = pc, ![h].hash = hash]
      PROVE  LedgerInv'
  <2> DEFINE x == [handler[h] EXCEPT !.pc = pc, !.hash = hash]
  <2>1. x \in Memory /\ x.pc = pc
    BY <1>1 DEF Memory, HandlerPcs
  <2>2. handler' = [handler EXCEPT ![h] = x]
    BY <1>1, <1>7
  <2> HIDE DEF x
  <2>3. QED BY <1>2, <1>3, <1>4, <1>5, <2>1, <2>2, LedgerQuiet
<1>8. <<>> \in Texts /\ Ledger!CircleId(Len(transfers) + 1) \in Texts
  BY <1>1 DEF Texts, Ledger!CircleId
<1>9. QED BY <1>6, <1>7, <1>8 DEF Ledger!CheckFunds, Ledger!Transfer, Ledger!RecordWithdrawal

LEMMA RefundPreserves == ASSUME LedgerInv, NEW h \in Handlers, Ledger!RefundBets(h) PROVE LedgerInv'
<1> DEFINE total == Ledger!Cardinality(handler[h].todo)
<1>1. /\ transfers \in Seq(TransferRow) /\ balance \in [available : Nat, locked : Int]
      /\ handler[h].todo \subseteq Bets
  BY DEF LedgerInv, Owes, Ledger!RefundBets, Ledger!At
<1>2. total \in Nat
  BY <1>1, BetsAreCounted
<1>3. /\ balance' = [available |-> balance.available + total, locked |-> balance.locked - total]
      /\ handler' = [handler EXCEPT ![h] = Ledger!Idle] /\ UNCHANGED <<transfers, rows>>
  BY DEF Ledger!RefundBets, Ledger!Finish
<1> HIDE DEF total
<1>4. /\ balance' \in [available : Nat, locked : Int]
      /\ balance'.available + balance'.locked = balance.available + balance.locked
  BY <1>1, <1>2, <1>3
<1>5. Deposits' = Deposits /\ \A i : Arrived(i) => Arrived(i)'
  BY <1>3 DEF Deposits, Arrived, Ledger!Landed, Ledger!Inbound
<1>6. RowsStand'
  BY <1>3, <1>5, RowsStay
<1>7. QED BY <1>1, <1>3, <1>4, <1>5, <1>6, IdleIsMemory, LedgerQuiet

(* A deposit's row: a watcher that writes one raises the balance with it, a  *)
(* POST owes the rise until its next step.                                   *)
LEMMA CreditPreserves == ASSUME LedgerInv, NEW h \in Handlers, Ledger!Credit(h) PROVE LedgerInv'
<1>1. /\ transfers \in Seq(TransferRow) /\ balance \in [available : Nat, locked : Int]
      /\ handler[h] \in Memory /\ handler[h].pc = "credit" /\ Owes(handler[h])
  BY DEF LedgerInv, Ledger!Credit, Ledger!At
<1>2. PICK i \in handler[h].todo :
        /\ \/ /\ Ledger!HasRow(Ledger!CircleId(i)) /\ UNCHANGED <<balance, rows>>
           \/ /\ ~Ledger!HasRow(Ledger!CircleId(i))
              /\ rows' = rows \cup {Ledger!Row("DEPOSIT", Ledger!CircleId(i), "watcher")}
              /\ balance' = [balance EXCEPT !.available = @ + 1]
        /\ handler' = [handler EXCEPT ![h] =
             [pc |-> "credit", todo |-> handler[h].todo \ {i}, hash |-> <<>>]]
  BY DEF Ledger!Credit, Ledger!Goto
<1> DEFINE x == [pc |-> "credit", todo |-> handler[h].todo \ {i}, hash |-> <<>>]
<1>3. x \in Memory /\ x.pc = "credit" /\ x.todo \subseteq handler[h].todo
  BY <1>1 DEF Memory, HandlerPcs, Texts
<1>4. (\A j \in x.todo : Arrived(j)) /\ Arrived(i)
  BY <1>1, <1>2, <1>3 DEF Owes
<1>5. handler' = [handler EXCEPT ![h] = x]
  BY <1>2
<1>6. UNCHANGED transfers /\ \A j : Arrived(j) <=> Arrived(j)'
  BY DEF Ledger!Credit, Arrived, Ledger!Landed, Ledger!Inbound
<1> HIDE DEF x
<1>7. CASE UNCHANGED <<balance, rows>>
  <2>1. /\ balance' \in [available : Nat, locked : Int] /\ Deposits' = Deposits
        /\ balance'.available + balance'.locked = balance.available + balance.locked
        /\ transfers' \in Seq(TransferRow)
    BY <1>1, <1>6, <1>7 DEF Deposits
  <2>2. RowsStand'
    BY <1>6, <1>7, RowsStay
  <2>3. QED BY <1>3, <1>4, <1>5, <1>6, <2>1, <2>2, LedgerQuiet
<1>8. CASE /\ ~Ledger!HasRow(Ledger!CircleId(i))
           /\ rows' = rows \cup {Ledger!Row("DEPOSIT", Ledger!CircleId(i), "watcher")}
           /\ balance' = [balance EXCEPT !.available = @ + 1]
  <2> DEFINE r == Ledger!Row("DEPOSIT", Ledger!CircleId(i), "watcher")
  <2>1. r.type = "DEPOSIT" /\ r.hash = Ledger!CircleId(i)
    BY DEF Ledger!Row
  <2>2. r \notin rows
    BY <1>8, <2>1 DEF Ledger!HasRow
  <2> HIDE DEF r
  <2>3. /\ Deposits' = Deposits \cup {r} /\ IsFiniteSet(Deposits')
        /\ Cardinality(Deposits) \in Nat /\ Cardinality(Deposits') = Cardinality(Deposits) + 1
    BY <1>8, <2>1, <2>2, DepositsAreCounted DEF r
  <2>4. /\ Cardinality(Owing) \in Nat /\ IsFiniteSet(Owing') /\ Cardinality(Owing') \in Nat
        /\ Cardinality(Owing') <= Cardinality(Owing)
    BY <1>3, <1>5, OwingIsCounted
  <2>5. handler' \in [Handlers -> Memory] /\ \A g \in Handlers : Owes(handler[g])'
    BY <1>3, <1>4, <1>5, <1>6, HandlerMoves
  <2>6. /\ balance' \in [available : Nat, locked : Int]
        /\ balance'.available + balance'.locked = balance.available + balance.locked + 1
    BY <1>1, <1>8
  <2>7. balance'.available + balance'.locked + Cardinality(Owing')
          <= Cardinality(Bets) + Cardinality(Deposits')
    <3>1. balance.available + balance.locked + Cardinality(Owing)
            <= Cardinality(Bets) + Cardinality(Deposits)
      BY <1>1 DEF LedgerInv
    <3>2. balance.available + balance.locked \in Int
      BY <1>1
    <3>3. QED BY <2>3, <2>4, <2>6, <3>1, <3>2, BetsAreCounted
  <2>8. RowsStand'
    <3>1. Witnessed(r)'
      BY <1>4, <1>6, <2>1 DEF Witnessed, Ledger!CircleId
    <3>2. rows' = rows \cup {r} /\ ~Ledger!HasRow(r.hash)
      BY <1>8, <2>1 DEF r
    <3>3. QED BY <1>6, <3>1, <3>2, RowsStay
  <2>9. QED BY <1>1, <1>6, <2>3, <2>4, <2>5, <2>6, <2>7, <2>8 DEF LedgerInv
<1>9. QED BY <1>2, <1>7, <1>8

LEMMA PostPreserves == ASSUME LedgerInv, NEW h \in Handlers, Ledger!RecordDeposit(h) PROVE LedgerInv'
<1>1. /\ transfers \in Seq(TransferRow) /\ balance \in [available : Nat, locked : Int]
      /\ handler[h] \in Memory /\ handler \in [Handlers -> Memory]
  BY DEF LedgerInv
<1>2. PICK hash \in Ledger!Hashes :
        /\ ~Ledger!HasRow(hash)
        /\ rows' = rows \cup {Ledger!Row("DEPOSIT", hash, "client")}
        /\ handler' = [handler EXCEPT ![h].pc = "increment", ![h].hash = hash]
  BY DEF Ledger!RecordDeposit, Ledger!GotoHash
<1>3. UNCHANGED <<transfers, balance>> /\ \A j : Arrived(j) <=> Arrived(j)'
  BY DEF Ledger!RecordDeposit, Arrived, Ledger!Landed, Ledger!Inbound
<1>4. hash \in Texts
  BY LedgerAssumption DEF Texts, Ledger!Hashes
<1> DEFINE x == [handler[h] EXCEPT !.pc = "increment", !.hash = hash]
           r == Ledger!Row("DEPOSIT", hash, "client")
<1>5. x \in Memory /\ x.pc = "increment"
  BY <1>1, <1>4 DEF Memory, HandlerPcs
<1>6. handler' = [handler EXCEPT ![h] = x]
  BY <1>1, <1>2
<1>7. r.type = "DEPOSIT" /\ r.hash = hash /\ r.by = "client"
  BY DEF Ledger!Row
<1>8. r \notin rows /\ rows' = rows \cup {r}
  BY <1>2, <1>7 DEF Ledger!HasRow
<1> HIDE DEF x, r
<1>9. /\ Deposits' = Deposits \cup {r} /\ IsFiniteSet(Deposits')
      /\ Cardinality(Deposits) \in Nat /\ Cardinality(Deposits') = Cardinality(Deposits) + 1
  BY <1>7, <1>8, DepositsAreCounted
<1>10. /\ Cardinality(Owing) \in Nat /\ IsFiniteSet(Owing') /\ Cardinality(Owing') \in Nat
       /\ Cardinality(Owing') <= Cardinality(Owing) + 1
  BY <1>5, <1>6, OwingIsCounted
<1>11. handler' \in [Handlers -> Memory] /\ \A g \in Handlers : Owes(handler[g])'
  BY <1>3, <1>5, <1>6, HandlerMoves
<1>12. balance'.available + balance'.locked + Cardinality(Owing')
         <= Cardinality(Bets) + Cardinality(Deposits')
  BY <1>1, <1>3, <1>9, <1>10, BetsAreCounted DEF LedgerInv
<1>13. RowsStand'
  <2>1. Witnessed(r)' /\ ~Ledger!HasRow(r.hash)
    BY <1>2, <1>7 DEF Witnessed
  <2>2. QED BY <1>3, <1>8, <2>1, RowsStay
<1>14. QED BY <1>1, <1>3, <1>9, <1>10, <1>11, <1>12, <1>13 DEF LedgerInv

LEMMA IncrementPreserves == ASSUME LedgerInv, NEW h \in Handlers, Ledger!Increment(h) PROVE LedgerInv'
<1>1. /\ transfers \in Seq(TransferRow) /\ balance \in [available : Nat, locked : Int]
      /\ handler[h].pc = "increment"
  BY DEF LedgerInv, Ledger!Increment, Ledger!At
<1>2. /\ handler' = [handler EXCEPT ![h] = Ledger!Idle] /\ UNCHANGED <<transfers, rows>>
      /\ balance' = [balance EXCEPT !.available = @ + 1]
  BY DEF Ledger!Increment, Ledger!Finish
<1>3. Deposits' = Deposits /\ \A i : Arrived(i) <=> Arrived(i)'
  BY <1>2 DEF Deposits, Arrived, Ledger!Landed, Ledger!Inbound
<1>4. handler' \in [Handlers -> Memory] /\ \A g \in Handlers : Owes(handler[g])'
  BY <1>2, <1>3, IdleIsMemory, HandlerMoves
<1>5. /\ Cardinality(Owing) \in Nat /\ IsFiniteSet(Owing') /\ Cardinality(Owing') \in Nat
      /\ Cardinality(Owing') = Cardinality(Owing) - 1
  BY <1>1, <1>2, IdleIsMemory, OwingIsCounted
<1>6. IsFiniteSet(Deposits) /\ Cardinality(Deposits) \in Nat
  BY FS_CardinalityType DEF LedgerInv
<1>7. /\ balance' \in [available : Nat, locked : Int]
      /\ balance'.available + balance'.locked = balance.available + balance.locked + 1
  BY <1>1, <1>2
<1>8. balance'.available + balance'.locked + Cardinality(Owing')
        <= Cardinality(Bets) + Cardinality(Deposits')
  BY <1>1, <1>3, <1>5, <1>6, <1>7, BetsAreCounted DEF LedgerInv
<1>9. RowsStand'
  BY <1>2, <1>3, RowsStay
<1>10. QED BY <1>1, <1>2, <1>3, <1>4, <1>5, <1>6, <1>7, <1>8, <1>9 DEF LedgerInv

LEMMA LedgerStays == LedgerInv /\ [Ledger!Next]_ledgerVars => LedgerInv'
<1> SUFFICES ASSUME LedgerInv, [Ledger!Next]_ledgerVars PROVE LedgerInv'
  OBVIOUS
<1>1. CASE Ledger!Resolve \/ UNCHANGED ledgerVars
  <2>1. UNCHANGED <<transfers, balance, rows, handler>>
    BY <1>1 DEF Ledger!Resolve, ledgerVars
  <2>2. Deposits' = Deposits /\ Owing' = Owing /\ \A i : Arrived(i) <=> Arrived(i)'
    BY <2>1 DEF Deposits, Owing, Arrived, Ledger!Landed, Ledger!Inbound
  <2>3. \A h \in Handlers : Owes(handler[h])'
    BY <2>1, <2>2 DEF LedgerInv, Owes
  <2>4. RowsStand'
    BY <2>1, <2>2, RowsStay
  <2>5. QED BY <2>1, <2>2, <2>3, <2>4 DEF LedgerInv
<1>2. QED
  BY <1>1, ChainPreserves, WatcherPreserves, WithdrawalPreserves, RefundPreserves,
     CreditPreserves, PostPreserves, IncrementPreserves
  DEF Ledger!Next, Ledger!SyncStep, Ledger!RouteStart, Ledger!RouteStep

LEMMA BalanceIsRight == LedgerInv => Ledger!BalanceStandsOnRows
<1> SUFFICES ASSUME LedgerInv PROVE Ledger!BalanceStandsOnRows
  OBVIOUS
<1>1. Ledger!Deposited = Cardinality(Deposits) /\ Ledger!Owed = Cardinality(Owing)
  BY LedgerCountsAlike DEF Ledger!Deposited, Ledger!Owed, Deposits, Owing, Ledger!At
<1>2. Ledger!Total = balance.available + balance.locked
  BY DEF Ledger!Total
<1>3. Ledger!Cardinality(Bets) = Cardinality(Bets)
  BY LedgerCountsAlike
<1>4. Ledger!OneRowAHash /\ Ledger!WatchedRowsLanded
  <2>1. RowsStand
    BY DEF LedgerInv
  <2>2. Ledger!OneRowAHash
    BY <2>1 DEF RowsStand, Ledger!OneRowAHash
  <2>3. Ledger!WatchedRowsLanded
    BY <2>1 DEF RowsStand, Witnessed, Arrived, Ledger!WatchedRowsLanded
  <2>4. QED BY <2>2, <2>3
<1>5. QED BY <1>1, <1>2, <1>3, <1>4 DEF LedgerInv, Ledger!BalanceStandsOnRows

----------------------------------------------------------------------------
(* The trades a user is led through (ArcTrading).                            *)

(* A transaction's key tells its call; approvals and redemptions have one.   *)
KeyedBy(name, key) ==
    IF name \in {"approve", "redeem"} THEN key = <<name>> ELSE \E n \in Nat : key = <<name, n>>

Transaction ==
    [call : Trading!Calls, amount : Nat, state : {"SENT", "COMPLETE", "FAILED"},
     key : {<<c>> : c \in {"approve", "redeem"}} \cup {<<c, n>> : c \in {"buy", "sell"}, n \in Nat}]

RoutePcs == {"idle", "allowance", "approve", "approving", "buy", "sell", "tokens", "redeem", "done"}
Request == [button : {"none", "buy", "sell", "claim"}, awaited : BOOLEAN, pc : RoutePcs,
            tx : Nat, tokens : Nat]

(* A buy's function that goes on after the approval has it.                  *)
RequestKnows(r) ==
    /\ request[r].tx \in 0 .. Len(circle)
    /\ request[r].pc = "approving" =>
         request[r].tx \in DOMAIN circle /\ circle[request[r].tx].call = "approve"
    /\ request[r].pc = "buy" => arc.allowed

TransactionsHold ==
    /\ \A i \in DOMAIN circle :
         /\ KeyedBy(circle[i].call, circle[i].key)
         /\ circle[i].call = "approve" /\ circle[i].state = "COMPLETE" => arc.allowed
         /\ circle[i].call = "buy" => arc.allowed
    /\ \A i, j \in DOMAIN circle :
         circle[i].call = "redeem" /\ circle[j].call = "redeem" => i = j

TradingInv ==
    /\ marketRow \in {"Active", "Finalized"}
    /\ arc \in [status : {"Active", "Finalized"}, allowed : BOOLEAN, tokens : Nat]
    /\ circle \in Seq(Transaction)
    /\ request \in [Requests -> Request]
    /\ \A r \in Requests : RequestKnows(r)
    /\ TransactionsHold

LEMMA KeysTellCalls ==
    ASSUME NEW c \in Trading!Calls, NEW d \in {"approve", "redeem"}, KeyedBy(c, <<d>>)
    PROVE  c = d
BY DEF KeyedBy, Trading!Calls

(* The library's operator, under the name it has in the instance.            *)
LEMMA CountedAlike == \A S : Trading!Cardinality(S) = Cardinality(S)
BY DEF Trading!Cardinality, Cardinality

LEMMA TradingBegins == Trading!Init => TradingInv
<1> SUFFICES ASSUME Trading!Init PROVE TradingInv
  OBVIOUS
<1>1. Trading!Idle \in Request /\ Trading!Idle.pc = "idle" /\ Trading!Idle.tx = 0
  BY DEF Trading!Idle, Request, RoutePcs
<1>2. circle = <<>> /\ Len(circle) = 0 /\ DOMAIN circle = {}
  BY DEF Trading!Init
<1>3. request \in [Requests -> Request] /\ \A r \in Requests : RequestKnows(r)
  BY <1>1, <1>2 DEF Trading!Init, RequestKnows
<1>4. QED BY <1>2, <1>3 DEF Trading!Init, TradingInv, TransactionsHold

(* A request that moves on is a request, and the others keep what they know  *)
(* as long as approvals and transactions stay.                               *)
LEMMA RequestMoves ==
    ASSUME TradingInv, NEW r \in Requests, NEW q \in Request, request' = [request EXCEPT ![r] = q],
           q.tx \in 0 .. Len(circle'),
           q.pc = "approving" => q.tx \in DOMAIN circle' /\ circle'[q.tx].call = "approve",
           q.pc = "buy" => arc'.allowed,
           arc.allowed => arc'.allowed,
           Len(circle) \in Nat, Len(circle') \in Nat, Len(circle) <= Len(circle'),
           \A i \in DOMAIN circle : i \in DOMAIN circle' /\ circle'[i].call = circle[i].call
    PROVE  request' \in [Requests -> Request] /\ \A p \in Requests : RequestKnows(p)'
<1>1. request' \in [Requests -> Request]
  BY DEF TradingInv
<1>2. ASSUME NEW p \in Requests PROVE RequestKnows(p)'
  <2>1. CASE p = r
    BY <2>1 DEF TradingInv, RequestKnows
  <2>2. CASE p # r
    <3>1. request'[p] = request[p] /\ RequestKnows(p)
      BY <2>2 DEF TradingInv
    <3>2. QED BY <3>1 DEF RequestKnows
  <2>3. QED BY <2>1, <2>2
<1>3. QED BY <1>1, <1>2

(* Steps that leave transactions and the contract alone.                     *)
LEMMA QuietStep ==
    ASSUME TradingInv, NEW r \in Requests, NEW q \in Request, request' = [request EXCEPT ![r] = q],
           q.tx = 0 \/ q.tx = request[r].tx,
           q.pc = "approving" => request[r].pc = "approving" /\ q.tx = request[r].tx,
           q.pc = "buy" => request[r].pc = "buy" \/ arc.allowed,
           UNCHANGED <<marketRow, arc, circle>>
    PROVE  TradingInv'
<1>1. Len(circle) \in Nat /\ circle' = circle /\ arc' = arc /\ RequestKnows(r)
  BY DEF TradingInv
<1>3. /\ q.tx \in 0 .. Len(circle')
      /\ q.pc = "approving" => q.tx \in DOMAIN circle' /\ circle'[q.tx].call = "approve"
      /\ q.pc = "buy" => arc'.allowed
      /\ Len(circle') \in Nat /\ Len(circle) <= Len(circle')
      /\ \A i \in DOMAIN circle : i \in DOMAIN circle' /\ circle'[i].call = circle[i].call
  BY <1>1 DEF RequestKnows
<1>2. request' \in [Requests -> Request] /\ \A p \in Requests : RequestKnows(p)'
  BY <1>1, <1>3, RequestMoves
<1>4. QED BY <1>2 DEF TradingInv, TransactionsHold

LEMMA PanelPreserves ==
    ASSUME TradingInv, NEW r \in Requests,
           Trading!PressBuy(r) \/ Trading!PressSell(r) \/ Trading!PressClaim(r)
             \/ Trading!LoseAnswer(r) \/ Trading!ReadAllowance(r) \/ Trading!WaitForApproval(r)
             \/ Trading!ReadTokens(r) \/ Trading!Answer(r)
    PROVE  TradingInv'
<1>1. request[r] \in Request /\ RequestKnows(r) /\ TransactionsHold
  BY DEF TradingInv
<1>2. UNCHANGED <<marketRow, arc, circle>>
  BY DEF Trading!PressBuy, Trading!PressSell, Trading!PressClaim, Trading!LoseAnswer,
         Trading!ReadAllowance, Trading!WaitForApproval, Trading!ReadTokens, Trading!Answer
<1>3. CASE Trading!PressBuy(r) \/ Trading!PressSell(r) \/ Trading!PressClaim(r)
  <2>1. PICK b \in {"buy", "sell", "claim"}, s \in {"allowance", "sell", "tokens"} :
          request' = [request EXCEPT ![r] =
            [Trading!Idle EXCEPT !.button = b, !.awaited = TRUE, !.pc = s]]
    BY <1>3 DEF Trading!PressBuy, Trading!PressSell, Trading!PressClaim, Trading!Begin
  <2> DEFINE q == [Trading!Idle EXCEPT !.button = b, !.awaited = TRUE, !.pc = s]
  <2>2. q \in Request /\ q.tx = 0 /\ q.pc = s
    BY DEF Trading!Idle, RoutePcs, Request
  <2> HIDE DEF q
  <2>3. QED BY <1>2, <2>1, <2>2, QuietStep DEF q
<1>4. CASE Trading!LoseAnswer(r)
  <2> DEFINE q == [request[r] EXCEPT !.awaited = FALSE]
  <2>1. q \in Request /\ q.tx = request[r].tx /\ q.pc = request[r].pc
    BY <1>1 DEF Request
  <2>2. request' = [request EXCEPT ![r] = q]
    BY <1>4 DEF Trading!LoseAnswer, TradingInv
  <2> HIDE DEF q
  <2>3. QED BY <1>2, <2>1, <2>2, QuietStep
<1>5. CASE Trading!ReadAllowance(r)
  <2> DEFINE s == IF arc.allowed THEN "buy" ELSE "approve"
             q == [request[r] EXCEPT !.pc = s]
  <2>1. q \in Request /\ q.tx = request[r].tx /\ q.pc = s
    BY <1>1 DEF Request, RoutePcs
  <2>2. request' = [request EXCEPT ![r] = q]
    BY <1>5 DEF Trading!ReadAllowance, Trading!Goto, TradingInv
  <2> HIDE DEF q
  <2>3. QED BY <1>2, <2>1, <2>2, QuietStep
<1>6. CASE request' = [request EXCEPT ![r] = Trading!Idle]
  <2>1. Trading!Idle \in Request /\ Trading!Idle.pc = "idle" /\ Trading!Idle.tx = 0
    BY DEF Trading!Idle, Request, RoutePcs
  <2>2. QED BY <1>2, <1>6, <2>1, QuietStep
<1>7. CASE Trading!WaitForApproval(r)
  <2>1. CASE circle[request[r].tx].state = "COMPLETE"
    <3> DEFINE q == [request[r] EXCEPT !.pc = "buy"]
    <3>1. q \in Request /\ q.tx = request[r].tx /\ q.pc = "buy"
      BY <1>1 DEF Request, RoutePcs
    <3>2. request' = [request EXCEPT ![r] = q]
      BY <1>7, <2>1 DEF Trading!WaitForApproval, Trading!Goto, TradingInv
    <3>3. arc.allowed
      BY <1>1, <1>7, <2>1 DEF Trading!WaitForApproval, Trading!At, RequestKnows, TransactionsHold
    <3> HIDE DEF q
    <3>4. QED BY <1>2, <3>1, <3>2, <3>3, QuietStep
  <2>2. QED BY <1>6, <1>7, <2>1 DEF Trading!WaitForApproval, Trading!Finish
<1>8. CASE Trading!ReadTokens(r)
  <2>1. CASE arc.tokens # 0
    <3> DEFINE q == [request[r] EXCEPT !.pc = "redeem", !.tokens = arc.tokens]
    <3>1. q \in Request /\ q.tx = request[r].tx /\ q.pc = "redeem"
      BY <1>1 DEF Request, RoutePcs, TradingInv
    <3>2. request' = [request EXCEPT ![r] = q]
      BY <1>8, <2>1 DEF Trading!ReadTokens, TradingInv
    <3> HIDE DEF q
    <3>3. QED BY <1>2, <3>1, <3>2, QuietStep
  <2>2. QED BY <1>6, <1>8, <2>1 DEF Trading!ReadTokens, Trading!Finish
<1>9. QED BY <1>3, <1>4, <1>5, <1>6, <1>7, <1>8 DEF Trading!Answer, Trading!Finish

(* Circle gets a transaction under a new key, or the function an old one.    *)
LEMMA Submits ==
    ASSUME TradingInv, NEW r \in Requests, NEW c \in Trading!Calls, NEW n \in Nat,
           NEW s \in {"approving", "done"}, s = "approving" => c = "approve",
           c = "buy" => arc.allowed,
           Trading!Submit(r, c, n, s), UNCHANGED <<marketRow, arc>>
    PROVE  TradingInv'
<1>1. request[r] \in Request /\ TransactionsHold /\ circle \in Seq(Transaction)
  BY DEF TradingInv
<1>2. Len(circle) \in Nat /\ DOMAIN circle = 1 .. Len(circle)
  BY <1>1
<1> DEFINE k == Trading!KeyOf(c)
           Q(i) == [request[r] EXCEPT !.pc = s, !.tx = i]
<1>3. KeyedBy(c, k)
  BY <1>2 DEF KeyedBy, Trading!KeyOf
<1>4. \A i \in Nat : Q(i) \in Request /\ Q(i).tx = i /\ Q(i).pc = s
  BY <1>1 DEF Request, RoutePcs
<1>5. CASE Trading!Known(k) # {}
  <2> DEFINE i == CHOOSE i \in Trading!Known(k) : TRUE
  <2>1. i \in DOMAIN circle /\ circle[i].key = k
    BY <1>5 DEF Trading!Known
  <2>2. request' = [request EXCEPT ![r] = Q(i)] /\ UNCHANGED circle
    BY <1>5 DEF Trading!Submit, TradingInv
  <2>3. s = "approving" => circle[i].call = "approve"
    <3>1. SUFFICES ASSUME s = "approving" PROVE circle[i].call = "approve"
      OBVIOUS
    <3>2. circle[i].call \in Trading!Calls /\ KeyedBy(circle[i].call, circle[i].key)
      <4> HIDE DEF i
      <4>1. circle[i] \in Transaction
        BY <1>1, <1>2, <2>1
      <4>2. QED BY <1>1, <2>1, <4>1 DEF TransactionsHold, Transaction
    <3>3. k = <<"approve">>
      BY <3>1 DEF Trading!KeyOf
    <3>4. QED BY <2>1, <3>2, <3>3, KeysTellCalls
  <2> HIDE DEF i, k, Q
  <2>4. i \in Nat /\ i \in 0 .. Len(circle)
    BY <1>2, <2>1
  <2>5. request' \in [Requests -> Request] /\ \A p \in Requests : RequestKnows(p)'
    <3>1. /\ Q(i) \in Request /\ Q(i).tx \in 0 .. Len(circle') /\ Q(i).pc \in {"approving", "done"}
          /\ Q(i).pc = "approving" => Q(i).tx \in DOMAIN circle' /\ circle'[Q(i).tx].call = "approve"
          /\ Len(circle') \in Nat /\ Len(circle) <= Len(circle')
      BY <1>2, <1>4, <2>1, <2>2, <2>3, <2>4
    <3>2. QED BY <1>2, <2>2, <3>1, RequestMoves
  <2>6. QED BY <2>2, <2>5 DEF TradingInv, TransactionsHold
<1>6. CASE Trading!Known(k) = {}
  <2> DEFINE t == [call |-> c, key |-> k, amount |-> n, state |-> "SENT"]
             i == Len(circle) + 1
  <2>1. circle' = Append(circle, t) /\ request' = [request EXCEPT ![r] = Q(i)]
    BY <1>6 DEF Trading!Submit, TradingInv
  <2>2. t \in Transaction
    BY <1>2 DEF Transaction, Trading!KeyOf, Trading!Calls
  <2>3. t.call = c /\ t.key = k /\ t.state = "SENT"
    OBVIOUS
  <2>4. \A j \in DOMAIN circle : c = "redeem" => circle[j].call # "redeem"
    <3>1. SUFFICES ASSUME NEW j \in DOMAIN circle, c = "redeem", circle[j].call = "redeem" PROVE FALSE
      OBVIOUS
    <3>2. k = <<"redeem">> /\ circle[j].key = <<"redeem">>
      BY <1>1, <3>1 DEF Trading!KeyOf, TransactionsHold, KeyedBy
    <3>3. QED BY <1>6, <3>1, <3>2 DEF Trading!Known
  <2> HIDE DEF t, k, Q
  <2>5. /\ circle' \in Seq(Transaction) /\ Len(circle') = Len(circle) + 1
        /\ DOMAIN circle' = 1 .. Len(circle) + 1
        /\ circle'[i] = t
        /\ \A j \in DOMAIN circle : circle'[j] = circle[j]
    BY <1>1, <1>2, <2>1, <2>2
  <2>6. \A j \in DOMAIN circle' : j = i \/ j \in DOMAIN circle
    BY <1>2, <2>5
  <2>7. i \in Nat /\ i \in 0 .. Len(circle') /\ i \in DOMAIN circle'
    BY <1>2, <2>5
  <2>8. request' \in [Requests -> Request] /\ \A p \in Requests : RequestKnows(p)'
    <3>1. \A j \in DOMAIN circle : j \in DOMAIN circle' /\ circle'[j].call = circle[j].call
      BY <1>2, <2>5
    <3>2. Len(circle) <= Len(circle') /\ Len(circle') \in Nat
      BY <1>2, <2>5
    <3> HIDE DEF i
    <3>3. /\ Q(i) \in Request /\ Q(i).tx \in 0 .. Len(circle') /\ Q(i).pc \in {"approving", "done"}
          /\ Q(i).pc = "approving" => Q(i).tx \in DOMAIN circle' /\ circle'[Q(i).tx].call = "approve"
      BY <1>4, <2>3, <2>5, <2>7
    <3>4. QED BY <1>2, <2>1, <3>1, <3>2, <3>3, RequestMoves
  <2>9. TransactionsHold'
    <3> HIDE DEF i
    <3>1. \A j \in DOMAIN circle' :
            /\ KeyedBy(circle'[j].call, circle'[j].key)
            /\ circle'[j].call = "approve" /\ circle'[j].state = "COMPLETE" => arc'.allowed
            /\ circle'[j].call = "buy" => arc'.allowed
      BY <1>1, <1>3, <2>3, <2>5, <2>6 DEF TransactionsHold
    <3>2. \A j, l \in DOMAIN circle' :
            circle'[j].call = "redeem" /\ circle'[l].call = "redeem" => j = l
      BY <1>1, <2>3, <2>4, <2>5, <2>6 DEF TransactionsHold
    <3>3. QED BY <3>1, <3>2 DEF TransactionsHold
  <2>10. QED BY <2>5, <2>8, <2>9 DEF TradingInv
<1>7. QED BY <1>5, <1>6

LEMMA SubmissionsPreserve ==
    ASSUME TradingInv, NEW r \in Requests,
           Trading!Approve(r) \/ Trading!Buy(r) \/ Trading!Sell(r) \/ Trading!Redeem(r)
    PROVE  TradingInv'
<1>1. RequestKnows(r) /\ request[r].tokens \in Nat
  BY DEF TradingInv, Request
<1>2. CASE Trading!Approve(r)
  BY <1>2, Submits DEF Trading!Approve, Trading!Calls
<1>3. CASE Trading!Buy(r)
  BY <1>1, <1>3, Submits DEF Trading!Buy, Trading!Calls, Trading!At, RequestKnows
<1>4. CASE Trading!Sell(r)
  BY <1>4, Submits DEF Trading!Sell, Trading!Calls
<1>5. CASE Trading!Redeem(r)
  BY <1>1, <1>5, Submits DEF Trading!Redeem, Trading!Calls
<1>6. QED BY <1>2, <1>3, <1>4, <1>5

(* A transaction that is mined keeps its call and key.                       *)
LEMMA MinePreserves == ASSUME TradingInv, NEW i \in DOMAIN circle, Trading!Mine(i) PROVE TradingInv'
<1> DEFINE t == circle[i]
<1>1. t \in Transaction /\ TransactionsHold /\ Len(circle) \in Nat /\ DOMAIN circle = 1 .. Len(circle)
  BY DEF TradingInv
<1>2. PICK s \in {"COMPLETE", "FAILED"} : circle' = [circle EXCEPT ![i].state = s]
  BY DEF Trading!Mine
<1>3. circle' \in Seq(Transaction) /\ Len(circle') = Len(circle) /\ DOMAIN circle' = DOMAIN circle
  <2>1. [t EXCEPT !.state = s] \in Transaction
    BY <1>1 DEF Transaction
  <2>2. circle' = [circle EXCEPT ![i] = [t EXCEPT !.state = s]]
    BY <1>2
  <2>3. circle \in Seq(Transaction)
    BY DEF TradingInv
  <2> HIDE DEF t
  <2>4. QED BY <1>1, <2>1, <2>2, <2>3
<1>4. \A j \in DOMAIN circle : circle'[j].call = circle[j].call /\ circle'[j].key = circle[j].key
  BY <1>1, <1>2 DEF TradingInv, Transaction
<1>5. /\ arc' \in [status : {"Active", "Finalized"}, allowed : BOOLEAN, tokens : Nat]
      /\ arc.allowed => arc'.allowed
      /\ t.call = "approve" /\ circle'[i].state = "COMPLETE" => arc'.allowed
  <2>1. CASE Trading!Allows(t) /\ arc' = Trading!Effect(t)
    <3>1. t.amount \in Nat /\ t.call \in Trading!Calls
      BY <1>1 DEF Transaction
    <3>2. CASE t.call = "approve"
      BY <2>1, <3>2 DEF Trading!Effect, TradingInv
    <3>3. CASE t.call = "buy"
      BY <2>1, <3>1, <3>3 DEF Trading!Effect, TradingInv
    <3>4. CASE t.call \in {"sell", "redeem"}
      <4>1. arc.tokens >= t.amount
        BY <2>1, <3>4 DEF Trading!Allows
      <4>2. arc' = [arc EXCEPT !.tokens = @ - t.amount]
        BY <2>1, <3>4 DEF Trading!Effect
      <4>3. arc \in [status : {"Active", "Finalized"}, allowed : BOOLEAN, tokens : Nat]
        BY DEF TradingInv
      <4>4. arc.tokens - t.amount \in Nat
        BY <3>1, <4>1, <4>3
      <4>5. PICK n \in Nat : arc' = [arc EXCEPT !.tokens = n]
        BY <4>2, <4>4
      <4>6. t.call # "approve"
        BY <3>4
      <4> HIDE DEF t
      <4>7. QED BY <4>3, <4>5, <4>6
    <3>5. QED BY <3>1, <3>2, <3>3, <3>4 DEF Trading!Calls
  <2>2. CASE circle' = [circle EXCEPT ![i].state = "FAILED"] /\ UNCHANGED arc
    <3>1. circle'[i].state = "FAILED"
      BY <1>1, <2>2 DEF Transaction, TradingInv
    <3>2. QED BY <2>2, <3>1 DEF TradingInv
  <2>3. QED BY <2>1, <2>2 DEF Trading!Mine
<1>6. \A j \in DOMAIN circle : j # i => circle'[j] = circle[j]
  BY <1>1, <1>2 DEF TradingInv
<1>7. TransactionsHold'
  BY <1>1, <1>3, <1>4, <1>5, <1>6 DEF TransactionsHold
<1>8. \A r \in Requests : RequestKnows(r)'
  BY <1>3, <1>4, <1>5 DEF TradingInv, RequestKnows, Trading!Mine
<1>9. QED BY <1>3, <1>5, <1>7, <1>8 DEF TradingInv, Trading!Mine

LEMMA TradingStays == TradingInv /\ [Trading!Next]_tradingVars => TradingInv'
<1> SUFFICES ASSUME TradingInv, [Trading!Next]_tradingVars PROVE TradingInv'
  OBVIOUS
<1>1. CASE Trading!Finalize
  BY <1>1 DEF Trading!Finalize, TradingInv, RequestKnows, TransactionsHold
<1>2. CASE Trading!Mirror
  BY <1>2 DEF Trading!Mirror, TradingInv, RequestKnows, TransactionsHold
<1>3. CASE UNCHANGED tradingVars
  BY <1>3 DEF tradingVars, TradingInv, RequestKnows, TransactionsHold
<1>4. QED
  BY <1>1, <1>2, <1>3, PanelPreserves, SubmissionsPreserve, MinePreserves
  DEF Trading!Next, Trading!RouteStep

LEMMA TradesAreRight == TradingInv => TradesAreSentRight
<1> SUFFICES ASSUME TradingInv PROVE TradesAreSentRight
  OBVIOUS
<1>1. Trading!BuysFindTheirAllowance
  BY DEF TradingInv, TransactionsHold, Trading!BuysFindTheirAllowance
<1> DEFINE S == {i \in DOMAIN circle : circle[i].call = "redeem"}
<1>2. \A i, j \in S : i = j
  BY DEF TradingInv, TransactionsHold
<1>3. S = {} \/ \E i \in S : S = {i}
  BY <1>2
<1>4. Cardinality(S) <= 1
  <2> HIDE DEF S
  <2>1. CASE S = {}
    BY <2>1, FS_EmptySet
  <2>2. ASSUME NEW i \in S, S = {i} PROVE Cardinality(S) <= 1
    <3>1. Cardinality({i}) = 1
      BY FS_Singleton, Zenon
    <3>2. QED BY <2>2, <3>1
  <2>3. QED BY <1>3, <2>1, <2>2
<1>5. Trading!RedeemedOnce
  BY <1>4, CountedAlike DEF Trading!RedeemedOnce
<1>6. QED BY <1>1, <1>5 DEF TradesAreSentRight

----------------------------------------------------------------------------
(* Sessions and the wallets made for them (ArcSession).                      *)

(* The wallet Circle makes under the key of a user.                          *)
WalletOf(u) == <<"wallet-provision", u>>

FetchPcs == {"idle", "sent", "make", "save", "answer"}
Call == [route : {"none", "sync", "balance"}, pc : FetchPcs, by : Users \cup {Session!Nobody},
         wallet : {WalletOf(u) : u \in Users} \cup {Session!NoWallet}, cancelled : BOOLEAN]

(* What a call under way may rely on: the user it is for, and the wallet it  *)
(* has in memory.                                                            *)
CallTold(f) ==
    /\ fetch[f].pc # "idle" => fetch[f].by \in Users
    /\ fetch[f].pc = "save" => fetch[f].wallet = WalletOf(fetch[f].by)
    /\ fetch[f].pc = "answer" =>
         walletRow[fetch[f].by] = WalletOf(fetch[f].by) /\ fetch[f].wallet = WalletOf(fetch[f].by)

SessionInv ==
    /\ account \in Users \cup {Session!Nobody}
    /\ walletRow \in [Users -> {WalletOf(u) : u \in Users} \cup {Session!NoWallet}]
    /\ \A u \in Users : walletRow[u] \in {WalletOf(u), Session!NoWallet}
    /\ fetch \in [Fetches -> Call]
    /\ \A f \in Fetches : CallTold(f)
    /\ \A m \in made : \E u \in Users : m = <<u, WalletOf(u)>>
    /\ \A t \in told : \E u \in Users : t = <<u, WalletOf(u)>> /\ walletRow[u] = WalletOf(u)

LEMMA WalletsDiffer ==
    /\ \A u : WalletOf(u) # Session!NoWallet
    /\ \A u, v : WalletOf(u) = WalletOf(v) => u = v
BY DEF WalletOf, Session!NoWallet

LEMMA NobodyIsNoUser == Session!Nobody \notin Users
BY SessionAssumption DEF Session!Nobody

LEMMA SessionBegins == Session!Init => SessionInv
<1> SUFFICES ASSUME Session!Init PROVE SessionInv
  OBVIOUS
<1>1. Session!Idle \in Call
  BY DEF Session!Idle, Call, FetchPcs
<1>2. fetch \in [Fetches -> Call]
  BY <1>1 DEF Session!Init
<1>3. \A f \in Fetches : CallTold(f)
  BY DEF Session!Init, Session!Idle, CallTold
<1>4. QED BY <1>2, <1>3 DEF Session!Init, SessionInv

(* A call that moves on is a call, and the others keep what they know.       *)
LEMMA CallMoves ==
    ASSUME SessionInv, NEW f \in Fetches, NEW c \in Call, fetch' = [fetch EXCEPT ![f] = c],
           c.pc # "idle" => c.by \in Users,
           c.pc = "save" => c.wallet = WalletOf(c.by),
           c.pc = "answer" => walletRow'[c.by] = WalletOf(c.by) /\ c.wallet = WalletOf(c.by),
           \A u \in Users : walletRow[u] = WalletOf(u) => walletRow'[u] = WalletOf(u)
    PROVE  fetch' \in [Fetches -> Call] /\ \A g \in Fetches : CallTold(g)'
<1>1. fetch' \in [Fetches -> Call]
  BY DEF SessionInv
<1>2. ASSUME NEW g \in Fetches PROVE CallTold(g)'
  <2>1. CASE g = f
    BY <2>1 DEF SessionInv, CallTold
  <2>2. CASE g # f
    <3>1. fetch'[g] = fetch[g] /\ CallTold(g)
      BY <2>2 DEF SessionInv
    <3>2. QED BY <3>1 DEF CallTold
  <2>3. QED BY <2>1, <2>2
<1>3. QED BY <1>1, <1>2

CallOf(r, a) == [Session!Idle EXCEPT !.route = r, !.pc = "sent", !.by = a]

LEMMA NewCalls ==
    /\ Session!Idle \in Call /\ Session!Idle.pc = "idle"
    /\ \A a \in Users, r \in {"sync", "balance"} :
         CallOf(r, a) \in Call /\ CallOf(r, a).pc = "sent" /\ CallOf(r, a).by = a
BY DEF CallOf, Session!Idle, Session!Nobody, Call, FetchPcs

(* Sign-ins and sign-outs.                                                   *)
LEMMA PagePreserves ==
    ASSUME SessionInv,
           (\E u \in Users : Session!Login(u)) \/ Session!Logout \/ Session!Poll
    PROVE  SessionInv'
<1>1. UNCHANGED <<walletRow, made, told>>
  BY DEF Session!Login, Session!Logout, Session!Poll, Session!server
<1>2. account' \in Users \cup {Session!Nobody}
  BY DEF SessionInv, Session!Login, Session!Logout, Session!Poll
<1>3. fetch' \in [Fetches -> Call] /\ \A f \in Fetches : CallTold(f)'
  <2>1. ASSUME NEW u \in Users, Session!Login(u)
        PROVE  fetch' \in [Fetches -> Call] /\ \A f \in Fetches : CallTold(f)'
    <3>1. PICK f \in Fetches : fetch' = [fetch EXCEPT ![f] =
                CallOf("sync", u)]
      BY <2>1 DEF Session!Login, CallOf
    <3>2. QED BY <1>1, <3>1, CallMoves, NewCalls
  <2>2. CASE Session!Logout
    <3>1. ASSUME NEW f \in Fetches PROVE fetch'[f] \in Call /\ CallTold(f)'
      <4>1. fetch'[f] = IF fetch[f].route = "sync"
                        THEN [fetch[f] EXCEPT !.cancelled = TRUE] ELSE fetch[f]
        BY <2>2 DEF Session!Logout
      <4>2. fetch[f] \in Call /\ CallTold(f)
        BY DEF SessionInv
      <4>3. /\ fetch'[f] \in Call
            /\ fetch'[f].pc = fetch[f].pc /\ fetch'[f].by = fetch[f].by
            /\ fetch'[f].wallet = fetch[f].wallet
        BY <4>1, <4>2 DEF Call
      <4>4. QED BY <1>1, <4>2, <4>3 DEF CallTold
    <3>2. fetch' = [f \in Fetches |-> fetch'[f]]
      BY <2>2 DEF Session!Logout
    <3>3. QED BY <3>1, <3>2
  <2>3. CASE Session!Poll
    <3>1. account \in Users
      BY <2>3 DEF Session!Poll, SessionInv
    <3>2. PICK f \in Fetches : fetch' = [fetch EXCEPT ![f] = CallOf("balance", account)]
      BY <2>3 DEF Session!Poll, Session!Send, CallOf
    <3>3. QED BY <1>1, <3>1, <3>2, CallMoves, NewCalls
  <2>4. QED BY <2>1, <2>2, <2>3
<1>4. QED BY <1>1, <1>2, <1>3 DEF SessionInv

(* The routes, one step of a call at a time.                                 *)
LEMMA FindPreserves == ASSUME SessionInv, NEW f \in Fetches, Session!FindWallet(f) PROVE SessionInv'
<1> DEFINE w == walletRow[fetch[f].by]
           c == [fetch[f] EXCEPT !.pc = IF w = Session!NoWallet THEN "make" ELSE "answer", !.wallet = w]
<1>1. fetch[f] \in Call /\ fetch[f].by \in Users
  BY DEF SessionInv, CallTold, Session!FindWallet, Session!At
<1>2. w \in {WalletOf(fetch[f].by), Session!NoWallet}
  BY <1>1 DEF SessionInv
<1>3. c \in Call /\ c.by = fetch[f].by /\ c.wallet = w
       /\ c.pc = IF w = Session!NoWallet THEN "make" ELSE "answer"
  BY <1>1, <1>2 DEF Call, FetchPcs
<1>4. fetch' = [fetch EXCEPT ![f] = c] /\ UNCHANGED <<account, walletRow, made, told>>
  BY DEF Session!FindWallet, Session!server, SessionInv
<1> HIDE DEF c
<1>5. fetch' \in [Fetches -> Call] /\ \A g \in Fetches : CallTold(g)'
  BY <1>1, <1>2, <1>3, <1>4, CallMoves
<1>6. QED BY <1>4, <1>5 DEF SessionInv

LEMMA MakePreserves == ASSUME SessionInv, NEW f \in Fetches, Session!MakeWallet(f) PROVE SessionInv'
<1> DEFINE c == [fetch[f] EXCEPT !.pc = "save", !.wallet = WalletOf(fetch[f].by)]
<1>1. fetch[f] \in Call /\ fetch[f].by \in Users
  BY DEF SessionInv, CallTold, Session!MakeWallet, Session!At
<1>2. c \in Call /\ c.by = fetch[f].by /\ c.wallet = WalletOf(fetch[f].by) /\ c.pc = "save"
  BY <1>1 DEF Call, FetchPcs
<1>3. fetch' = [fetch EXCEPT ![f] = c] /\ UNCHANGED <<account, walletRow, told>>
       /\ made' = made \cup {<<fetch[f].by, WalletOf(fetch[f].by)>>}
  BY DEF Session!MakeWallet, Session!KeyOf, WalletOf, SessionInv
<1> HIDE DEF c
<1>4. fetch' \in [Fetches -> Call] /\ \A g \in Fetches : CallTold(g)'
  BY <1>1, <1>2, <1>3, CallMoves
<1>5. QED BY <1>1, <1>3, <1>4 DEF SessionInv

LEMMA SavePreserves == ASSUME SessionInv, NEW f \in Fetches, Session!SaveWallet(f) PROVE SessionInv'
<1> DEFINE u == fetch[f].by
           c == [fetch[f] EXCEPT !.pc = "answer", !.wallet = WalletOf(u)]
<1>1. fetch[f] \in Call /\ u \in Users /\ fetch[f].wallet = WalletOf(u)
  BY DEF SessionInv, CallTold, Session!SaveWallet, Session!At
<1>2. c \in Call /\ c.by = u /\ c.wallet = WalletOf(u) /\ c.pc = "answer"
  BY <1>1 DEF Call, FetchPcs
<1>3. walletRow' = [walletRow EXCEPT ![u] = WalletOf(u)]
  BY <1>1 DEF Session!SaveWallet, SessionInv
<1>4. fetch' = [fetch EXCEPT ![f] = c] /\ UNCHANGED <<account, made, told>>
  BY <1>1, <1>3 DEF Session!SaveWallet, SessionInv
<1> HIDE DEF u, c
<1>5. \A v \in Users : walletRow'[v] = IF v = u THEN WalletOf(u) ELSE walletRow[v]
  BY <1>3 DEF SessionInv
<1>6. fetch' \in [Fetches -> Call] /\ \A g \in Fetches : CallTold(g)'
  BY <1>1, <1>2, <1>4, <1>5, CallMoves
<1>7. walletRow' \in [Users -> {WalletOf(v) : v \in Users} \cup {Session!NoWallet}]
  BY <1>1, <1>3 DEF SessionInv
<1>8. QED BY <1>4, <1>5, <1>6, <1>7 DEF SessionInv

LEMMA AnswerPreserves ==
    ASSUME SessionInv, NEW f \in Fetches, Session!AnswerSync(f) \/ Session!AnswerBalance(f)
    PROVE  SessionInv'
<1> DEFINE u == fetch[f].by
<1>1. fetch[f] \in Call /\ u \in Users
  BY DEF SessionInv, CallTold, Session!AnswerSync, Session!AnswerBalance, Session!At
<1>2. UNCHANGED <<account, walletRow, made>>
  BY DEF Session!AnswerSync, Session!AnswerBalance, Session!server
<1>3. told' = told \/ (walletRow[u] = WalletOf(u) /\ told' = told \cup {<<u, WalletOf(u)>>})
  <2>1. CASE Session!AnswerSync(f)
    BY <2>1 DEF Session!AnswerSync, Session!At, SessionInv, CallTold
  <2>2. CASE Session!AnswerBalance(f)
    BY <1>1, <2>2 DEF Session!AnswerBalance, SessionInv
  <2>3. QED BY <2>1, <2>2
<1>4. \A t \in told' : \E v \in Users : t = <<v, WalletOf(v)>> /\ walletRow'[v] = WalletOf(v)
  BY <1>1, <1>2, <1>3 DEF SessionInv
<1>5. \/ fetch' = [fetch EXCEPT ![f] = Session!Idle]
      \/ /\ account \in Users
         /\ fetch' = [fetch EXCEPT ![f] =
              CallOf("balance", account)]
  BY DEF Session!AnswerSync, Session!AnswerBalance, SessionInv, CallOf
<1>6. fetch' \in [Fetches -> Call] /\ \A g \in Fetches : CallTold(g)'
  BY <1>2, <1>5, CallMoves, NewCalls
<1>7. QED BY <1>2, <1>4, <1>6 DEF SessionInv

LEMMA SessionStays == SessionInv /\ [Session!Next]_sessionVars => SessionInv'
<1> SUFFICES ASSUME SessionInv, [Session!Next]_sessionVars PROVE SessionInv'
  OBVIOUS
<1>1. ASSUME NEW f \in Fetches, Session!Fails(f) PROVE SessionInv'
  <2>1. fetch' = [fetch EXCEPT ![f] = Session!Idle] /\ UNCHANGED <<account, walletRow, made, told>>
    BY <1>1 DEF Session!Fails, Session!server
  <2>2. fetch' \in [Fetches -> Call] /\ \A g \in Fetches : CallTold(g)'
    BY <2>1, CallMoves, NewCalls
  <2>3. QED BY <2>1, <2>2 DEF SessionInv
<1>2. CASE UNCHANGED sessionVars
  BY <1>2 DEF sessionVars, SessionInv, CallTold
<1>3. QED
  BY <1>1, <1>2, PagePreserves, FindPreserves, MakePreserves, SavePreserves, AnswerPreserves
  DEF Session!Next, Session!Step

LEMMA OneWallet == SessionInv => Session!OneWalletPerUser
BY DEF SessionInv, Session!OneWalletPerUser

----------------------------------------------------------------------------
(* The indexer (ArcIndexer).                                                 *)

MarketEvents == {"trade", "finalized"}
InDatabase(b) ==
    /\ blocks[b] = "trade" => b \in trades
    /\ blocks[b] = "finalized" => indexedRow.status = "resolved"

(* All that happened in the blocks up to this one is in the database.        *)
Safe(n) == \A b \in 1 .. Len(blocks) : b <= n => InDatabase(b)

PassPcs == {"idle", "factory", "factory_cursor", "market", "write", "reconcile"}
Pass == [pc : PassPcs, tip : Nat, to : Nat, found : SUBSET Nat, seen : {"Active", "Finalized"}]

(* What a pass knows of the range it has scanned.                            *)
Scanned(q) ==
    /\ q.tip <= Len(blocks) /\ q.to <= Len(blocks)
    /\ q.found \subseteq 1 .. Len(blocks)
    /\ q.pc = "write" =>
         \A b \in 1 .. Len(blocks) : b <= q.to => b \in q.found \/ InDatabase(b)
    /\ q.pc = "reconcile" => Safe(q.to)

(* A market is created once, and nothing happens on it before.               *)
ChainIsSound ==
    /\ blocks \in Seq(Indexer!Events)
    /\ \A b, c \in 1 .. Len(blocks) :
         /\ blocks[b] = "created" /\ blocks[c] = "created" => b = c
         /\ blocks[c] \in MarketEvents => \E d \in 1 .. c : blocks[d] = "created"

(* Where a scan jumps to, nothing before is missing: the cursor has been     *)
(* beyond, wherever slower passes have set it back to since.                 *)
IndexerInv ==
    /\ ChainIsSound
    /\ indexedRow \in [stamped : BOOLEAN, lms : {"Active", "Finalized"},
                       status : {"active", "resolved"}, cursor : Nat]
    /\ indexedRow.cursor <= Len(blocks)
    /\ factory \in Nat /\ factory <= Len(blocks)
    /\ trades \subseteq 1 .. Len(blocks)
    /\ pass \in [IndexerPasses -> Pass]
    /\ \A p \in IndexerPasses : Scanned(pass[p])
    /\ Safe(indexedRow.cursor)
    /\ Safe(Len(blocks) - MaxRange)

LEMMA IndexerBegins == Indexer!Init => IndexerInv
<1> SUFFICES ASSUME Indexer!Init PROVE IndexerInv
  OBVIOUS
<1>1. Indexer!Idle \in Pass /\ Indexer!Idle.pc = "idle" /\ Indexer!Idle.tip = 0
       /\ Indexer!Idle.to = 0 /\ Indexer!Idle.found = {}
  BY DEF Indexer!Idle, Pass, PassPcs
<1>2. blocks = <<>> /\ Len(blocks) = 0 /\ blocks \in Seq(Indexer!Events)
  BY DEF Indexer!Init
<1>3. pass \in [IndexerPasses -> Pass] /\ \A p \in IndexerPasses : Scanned(pass[p])
  BY <1>1, <1>2 DEF Indexer!Init, Scanned
<1>4. QED BY <1>2, <1>3 DEF Indexer!Init, IndexerInv, ChainIsSound, Safe

(* What is in the database stays there, and blocks stay what they are.       *)
Grows ==
    /\ Len(blocks) \in Nat /\ Len(blocks') \in Nat /\ Len(blocks) <= Len(blocks')
    /\ \A b \in 1 .. Len(blocks) : blocks'[b] = blocks[b] /\ (InDatabase(b) => InDatabase(b)')

LEMMA PassMoves ==
    ASSUME IndexerInv, Grows, NEW p \in IndexerPasses, NEW q \in Pass, pass' = [pass EXCEPT ![p] = q],
           Len(blocks') = Len(blocks),
           q.tip <= Len(blocks) /\ q.to <= Len(blocks),
           q.found \subseteq 1 .. Len(blocks),
           q.pc = "write" =>
             \A b \in 1 .. Len(blocks) : b <= q.to => b \in q.found \/ InDatabase(b)',
           q.pc = "reconcile" => Safe(q.to)
    PROVE  pass' \in [IndexerPasses -> Pass] /\ \A r \in IndexerPasses : Scanned(pass[r])'
<1>1. pass' \in [IndexerPasses -> Pass]
  BY DEF IndexerInv
<1>2. \A n : Safe(n) => Safe(n)'
  BY DEF Safe, Grows
<1>3. ASSUME NEW r \in IndexerPasses PROVE Scanned(pass[r])'
  <2>1. CASE r = p
    <3>1. pass'[r] = q
      BY <2>1 DEF IndexerInv
    <3>2. QED BY <1>2, <3>1 DEF Scanned, Safe
  <2>2. CASE r # p
    <3>1. pass'[r] = pass[r] /\ Scanned(pass[r])
      BY <2>2 DEF IndexerInv
    <3>2. QED BY <1>2, <3>1 DEF Scanned, Grows, Safe
  <2>3. QED BY <2>1, <2>2
<1>4. QED BY <1>1, <1>3

(* Steps of a pass that leave the rows alone.                                *)
LEMMA ReadingPreserves ==
    ASSUME IndexerInv, NEW p \in IndexerPasses, NEW q \in Pass, pass' = [pass EXCEPT ![p] = q],
           UNCHANGED <<blocks, trades, indexedRow>>, factory' \in Nat, factory' <= Len(blocks),
           Scanned(q)
    PROVE  IndexerInv'
<1>1. Len(blocks) \in Nat /\ Len(blocks') = Len(blocks) /\ \A b : InDatabase(b)' <=> InDatabase(b)
  BY DEF IndexerInv, ChainIsSound, InDatabase
<1>2. Grows
  BY <1>1 DEF Grows
<1>3. pass' \in [IndexerPasses -> Pass] /\ \A r \in IndexerPasses : Scanned(pass[r])'
  BY <1>1, <1>2, PassMoves DEF Scanned
<1>4. \A n : Safe(n) => Safe(n)'
  BY <1>1 DEF Safe
<1>5. ChainIsSound'
  BY DEF IndexerInv, ChainIsSound
<1>6. Safe(indexedRow.cursor)' /\ Safe(Len(blocks) - MaxRange)'
  BY <1>1 DEF IndexerInv, Safe
<1>7. QED BY <1>3, <1>5, <1>6 DEF IndexerInv

(* The range of a scan ends at or before the tip.                            *)
LEMMA RangeEnds ==
    ASSUME NEW c \in Nat, NEW tip \in Nat
    PROVE  /\ Indexer!From(c, tip) \in Nat
           /\ Indexer!To(Indexer!From(c, tip), tip) \in Nat
           /\ Indexer!To(Indexer!From(c, tip), tip) <= tip
           /\ \/ Indexer!From(c, tip) = c + 1 \/ Indexer!From(c, tip) = 1
              \/ Indexer!From(c, tip) = tip - MaxRange
BY IndexerAssumption DEF Indexer!From, Indexer!To

LEMMA PassStepsPreserve ==
    ASSUME IndexerInv, NEW p \in IndexerPasses,
           Indexer!ReadTip(p) \/ Indexer!ScanMarket(p) \/ Indexer!SetFactoryCursor(p)
             \/ Indexer!ReadState(p) \/ Indexer!Breaks(p)
    PROVE  IndexerInv'
<1> DEFINE k == pass[p]
<1>1. /\ k \in Pass /\ Scanned(pass[p]) /\ Len(blocks) \in Nat
      /\ blocks \in Seq(Indexer!Events) /\ factory \in Nat /\ factory <= Len(blocks)
      /\ indexedRow.cursor \in Nat
  BY DEF IndexerInv, ChainIsSound
<1>2. UNCHANGED <<blocks, trades, indexedRow>>
  BY DEF Indexer!ReadTip, Indexer!ScanMarket, Indexer!SetFactoryCursor, Indexer!ReadState,
         Indexer!Breaks
<1>3. CASE pass' = [pass EXCEPT ![p] = Indexer!Idle] /\ factory' = factory
  <2>1. Indexer!Idle \in Pass /\ Indexer!Idle.pc = "idle" /\ Indexer!Idle.tip = 0
         /\ Indexer!Idle.to = 0 /\ Indexer!Idle.found = {}
    BY DEF Indexer!Idle, Pass, PassPcs
  <2>2. Scanned(Indexer!Idle)
    BY <1>1, <2>1 DEF Scanned
  <2>3. QED BY <1>1, <1>2, <1>3, <2>1, <2>2, ReadingPreserves
<1>4. CASE Indexer!ReadTip(p)
  <2> DEFINE q == [Indexer!Idle EXCEPT !.pc = "factory", !.tip = Len(blocks)]
  <2>1. q \in Pass /\ q.pc = "factory" /\ q.tip = Len(blocks) /\ q.to = 0 /\ q.found = {}
    BY <1>1 DEF Indexer!Idle, Pass, PassPcs
  <2>2. pass' = [pass EXCEPT ![p] = q] /\ factory' = factory
    BY <1>4 DEF Indexer!ReadTip, Indexer!Tip
  <2> HIDE DEF q
  <2>3. Scanned(q)
    BY <1>1, <2>1 DEF Scanned
  <2>4. QED BY <1>1, <1>2, <2>1, <2>2, <2>3, ReadingPreserves
<1>5. CASE Indexer!SetFactoryCursor(p)
  <2> DEFINE q == [k EXCEPT !.pc = "market", !.to = 0]
  <2>1. q \in Pass /\ q.pc = "market" /\ q.tip = k.tip /\ q.to = 0 /\ q.found = k.found
    BY <1>1 DEF Pass, PassPcs
  <2>2. pass' = [pass EXCEPT ![p] = q] /\ factory' = k.to
    BY <1>5 DEF Indexer!SetFactoryCursor, IndexerInv
  <2>3. k.to \in Nat /\ k.to <= Len(blocks) /\ k.tip <= Len(blocks) /\ k.found \subseteq 1 .. Len(blocks)
    BY <1>1 DEF Pass, Scanned
  <2> HIDE DEF q, k
  <2>4. Scanned(q)
    BY <1>1, <2>1, <2>3 DEF Scanned
  <2>5. QED BY <1>1, <1>2, <2>1, <2>2, <2>3, <2>4, ReadingPreserves
<1>6. CASE Indexer!ReadState(p)
  <2> DEFINE q == [k EXCEPT !.pc = "reconcile", !.seen = Indexer!ChainStatus]
  <2>1. q \in Pass /\ q.pc = "reconcile" /\ q.tip = k.tip /\ q.to = k.to /\ q.found = k.found
    BY <1>1 DEF Pass, PassPcs, Indexer!ChainStatus
  <2>2. pass' = [pass EXCEPT ![p] = q] /\ factory' = factory
    BY <1>6 DEF Indexer!ReadState, IndexerInv
  <2>3. k.to <= Len(blocks) /\ k.tip <= Len(blocks) /\ k.found \subseteq 1 .. Len(blocks)
    BY <1>1 DEF Scanned
  <2>4. Safe(k.to)
    BY <1>1, <1>6 DEF Scanned, Safe, Indexer!ReadState, Indexer!At
  <2> HIDE DEF q, k
  <2>5. Scanned(q)
    BY <1>1, <2>1, <2>3, <2>4 DEF Scanned
  <2>6. QED BY <1>1, <1>2, <2>1, <2>2, <2>5, ReadingPreserves
<1>7. CASE Indexer!ScanMarket(p) /\ pass' # [pass EXCEPT ![p] = Indexer!Idle]
  <2> DEFINE from == Indexer!From(indexedRow.cursor, k.tip)
             to == Indexer!To(from, k.tip)
             found == {b \in from .. to : blocks[b] \in {"trade", "finalized"}}
             q == [Indexer!Idle EXCEPT !.pc = "write", !.to = to, !.found = found]
  <2>1. k.tip \in Nat /\ k.tip <= Len(blocks)
    BY <1>1 DEF Pass, Scanned
  <2>2. /\ from \in Nat /\ to \in Nat /\ to <= Len(blocks)
        /\ from = indexedRow.cursor + 1 \/ from = 1 \/ from = k.tip - MaxRange
    <3> HIDE DEF k
    <3>1. /\ from \in Nat /\ to \in Nat /\ to <= k.tip
          /\ from = indexedRow.cursor + 1 \/ from = 1 \/ from = k.tip - MaxRange
      BY <1>1, <2>1, RangeEnds
    <3> HIDE DEF from, to
    <3>2. QED BY <1>1, <2>1, <3>1
  <2>3. pass' = [pass EXCEPT ![p] = q] /\ factory' = factory
    BY <1>7 DEF Indexer!ScanMarket
  <2> HIDE DEF from, to, k
  <2>4. from >= 1
    BY <1>1, <2>1, <2>2, IndexerAssumption DEF from, Indexer!From
  <2>5. found \in SUBSET Nat /\ found \subseteq 1 .. Len(blocks)
    BY <1>1, <2>2, <2>4
  <2>6. \A b \in 1 .. Len(blocks) : b < from => InDatabase(b)
    BY <1>1, <2>1, <2>2, IndexerAssumption DEF IndexerInv, Safe
  <2>7. \A b \in 1 .. Len(blocks) : b <= to => b \in found \/ InDatabase(b)
    BY <1>1, <2>2, <2>6 DEF InDatabase
  <2> HIDE DEF found
  <2>8. q \in Pass /\ q.pc = "write" /\ q.tip = 0 /\ q.to = to /\ q.found = found
    BY <2>2, <2>5 DEF Indexer!Idle, Pass, PassPcs
  <2> HIDE DEF q
  <2>9. Scanned(q)
    BY <1>1, <2>2, <2>5, <2>7, <2>8 DEF Scanned
  <2>10. QED BY <1>1, <1>2, <2>3, <2>8, <2>9, ReadingPreserves
<1>8. QED BY <1>3, <1>4, <1>5, <1>6, <1>7 DEF Indexer!ScanMarket, Indexer!Breaks

(* Steps of a pass that write the rows.                                      *)
LEMMA WritingPreserves ==
    ASSUME IndexerInv, NEW p \in IndexerPasses, NEW q \in Pass, pass' = [pass EXCEPT ![p] = q],
           UNCHANGED <<blocks, factory>>,
           trades \subseteq trades', trades' \subseteq 1 .. Len(blocks),
           indexedRow' \in [stamped : BOOLEAN, lms : {"Active", "Finalized"},
                            status : {"active", "resolved"}, cursor : Nat],
           indexedRow.status = "resolved" => indexedRow'.status = "resolved",
           indexedRow'.cursor <= Len(blocks), Safe(indexedRow'.cursor),
           q.tip <= Len(blocks) /\ q.to <= Len(blocks),
           q.found \subseteq 1 .. Len(blocks),
           q.pc = "write" =>
             \A b \in 1 .. Len(blocks) : b <= q.to => b \in q.found \/ InDatabase(b)',
           q.pc = "reconcile" => Safe(q.to)
    PROVE  IndexerInv'
<1>1. Len(blocks) \in Nat /\ blocks' = blocks /\ Len(blocks') = Len(blocks)
       /\ \A b : InDatabase(b) => InDatabase(b)'
  <2>1. \A b : InDatabase(b) => InDatabase(b)'
    BY DEF InDatabase
  <2>2. QED BY <2>1 DEF IndexerInv, ChainIsSound
<1>2. Grows
  BY <1>1 DEF Grows
<1>3. pass' \in [IndexerPasses -> Pass] /\ \A r \in IndexerPasses : Scanned(pass[r])'
  BY <1>1, <1>2, PassMoves
<1>4. ChainIsSound'
  BY DEF IndexerInv, ChainIsSound
<1>5. Safe(indexedRow.cursor)' /\ Safe(Len(blocks) - MaxRange)'
  BY <1>1 DEF IndexerInv, Safe
<1>6. QED BY <1>3, <1>4, <1>5 DEF IndexerInv

LEMMA FactoryPreserves == ASSUME IndexerInv, NEW p \in IndexerPasses, Indexer!ScanFactory(p) PROVE IndexerInv'
<1> DEFINE k == pass[p]
           from == Indexer!From(factory, k.tip)
           to == Indexer!To(from, k.tip)
           s == IF to >= from THEN "factory_cursor" ELSE "market"
           q == [k EXCEPT !.to = to, !.pc = s]
<1>1. /\ k \in Pass /\ Scanned(pass[p]) /\ Len(blocks) \in Nat /\ factory \in Nat
      /\ trades \subseteq 1 .. Len(blocks)
  BY DEF IndexerInv, ChainIsSound
<1>2. k.tip \in Nat /\ k.tip <= Len(blocks) /\ k.found \subseteq 1 .. Len(blocks)
  BY <1>1 DEF Pass, Scanned
<1>3. to \in Nat /\ to <= Len(blocks)
  <2> HIDE DEF k
  <2>1. from \in Nat /\ to \in Nat /\ to <= k.tip
    BY <1>1, <1>2, RangeEnds
  <2> HIDE DEF to
  <2>2. QED BY <1>1, <1>2, <2>1
<1>4. pass' = [pass EXCEPT ![p] = q] /\ UNCHANGED <<blocks, factory, trades>>
  BY DEF Indexer!ScanFactory, IndexerInv
<1>5. indexedRow' = indexedRow \/ indexedRow' = [indexedRow EXCEPT !.lms = "Active"]
  BY DEF Indexer!ScanFactory
<1>6. /\ indexedRow' \in [stamped : BOOLEAN, lms : {"Active", "Finalized"},
                            status : {"active", "resolved"}, cursor : Nat]
      /\ indexedRow'.status = indexedRow.status /\ indexedRow'.cursor = indexedRow.cursor
  BY <1>5 DEF IndexerInv
<1>7. indexedRow.cursor <= Len(blocks) /\ Safe(indexedRow.cursor)
  BY DEF IndexerInv
<1> HIDE DEF from, to
<1>8. q \in Pass /\ q.pc = s /\ q.tip = k.tip /\ q.to = to /\ q.found = k.found
  BY <1>1, <1>3 DEF Pass, PassPcs
<1> HIDE DEF q, k
<1>9. QED BY <1>1, <1>2, <1>3, <1>4, <1>6, <1>7, <1>8, WritingPreserves

(* The first of what was found is one of the market's events.                *)
LEMMA FirstFound ==
    ASSUME NEW p \in IndexerPasses, pass[p].found \in SUBSET Nat, pass[p].found # {}
    PROVE  Indexer!Next1(p) \in pass[p].found
<1>1. \E b \in pass[p].found : \A c \in pass[p].found : b <= c
  BY LeastExists
<1>2. QED BY <1>1 DEF Indexer!Next1

LEMMA EntriesPreserve ==
    ASSUME IndexerInv, ~DbFails, NEW p \in IndexerPasses,
           Indexer!InsertTrade(p) \/ Indexer!ApplyStatusUpdate(p)
    PROVE  IndexerInv'
<1> DEFINE k == pass[p]
           q(n) == [k EXCEPT !.found = @ \ {n}]
<1>1. /\ k \in Pass /\ Scanned(pass[p]) /\ Len(blocks) \in Nat /\ k.pc = "write"
      /\ trades \subseteq 1 .. Len(blocks) /\ k.found # {}
  BY DEF IndexerInv, ChainIsSound, Indexer!InsertTrade, Indexer!ApplyStatusUpdate, Indexer!At
<1>2. k.tip <= Len(blocks) /\ k.to <= Len(blocks) /\ k.found \subseteq 1 .. Len(blocks)
  BY <1>1 DEF Scanned
<1>3. PICK n \in k.found : n = Indexer!Next1(p)
  BY <1>1, FirstFound DEF Pass
<1>4. pass' = [pass EXCEPT ![p] = q(n)] /\ UNCHANGED <<blocks, factory>>
  BY <1>3 DEF Indexer!InsertTrade, Indexer!ApplyStatusUpdate, Indexer!Drop, IndexerInv
<1>5. q(n) \in Pass /\ q(n).pc = "write" /\ q(n).tip = k.tip /\ q(n).to = k.to /\ q(n).found = k.found \ {n}
  BY <1>1 DEF Pass
<1>6. /\ trades \subseteq trades' /\ trades' \subseteq 1 .. Len(blocks)
      /\ indexedRow' \in [stamped : BOOLEAN, lms : {"Active", "Finalized"},
                            status : {"active", "resolved"}, cursor : Nat]
      /\ indexedRow.status = "resolved" => indexedRow'.status = "resolved"
      /\ indexedRow'.cursor = indexedRow.cursor
      /\ InDatabase(n)'
  <2>1. CASE Indexer!InsertTrade(p)
    BY <1>1, <1>2, <1>3, <1>4, <2>1 DEF Indexer!InsertTrade, InDatabase, IndexerInv
  <2>2. CASE Indexer!ApplyStatusUpdate(p)
    <3>1. blocks[n] = "finalized" /\ trades' = trades
           /\ indexedRow' = [indexedRow EXCEPT !.lms = "Finalized", !.status = "resolved"]
      BY <1>3, <2>2 DEF Indexer!ApplyStatusUpdate
    <3> HIDE DEF k
    <3>2. /\ indexedRow' \in [stamped : BOOLEAN, lms : {"Active", "Finalized"},
                               status : {"active", "resolved"}, cursor : Nat]
          /\ indexedRow'.status = "resolved" /\ indexedRow'.cursor = indexedRow.cursor
      BY <3>1 DEF IndexerInv
    <3>3. InDatabase(n)'
      BY <1>4, <3>1, <3>2 DEF InDatabase
    <3>4. QED BY <1>1, <3>1, <3>2, <3>3
  <2>3. QED BY <2>1, <2>2
<1>7. \A b : InDatabase(b) => InDatabase(b)'
  BY <1>4, <1>6 DEF InDatabase
<1>8. \A b \in 1 .. Len(blocks) : b <= q(n).to => b \in q(n).found \/ InDatabase(b)'
  BY <1>1, <1>5, <1>6, <1>7 DEF Scanned
<1>9. indexedRow.cursor <= Len(blocks) /\ Safe(indexedRow.cursor)
  BY DEF IndexerInv
<1> HIDE DEF q, k
<1>10. QED BY <1>1, <1>2, <1>4, <1>5, <1>6, <1>8, <1>9, WritingPreserves

LEMMA ReconcilePreserves == ASSUME IndexerInv, NEW p \in IndexerPasses, Indexer!Reconcile(p) PROVE IndexerInv'
<1>1. /\ pass[p] \in Pass /\ Scanned(pass[p]) /\ pass[p].pc = "reconcile" /\ Len(blocks) \in Nat
      /\ trades \subseteq 1 .. Len(blocks)
  BY DEF IndexerInv, ChainIsSound, Indexer!Reconcile, Indexer!At
<1>2. /\ Indexer!Idle \in Pass /\ Indexer!Idle.pc = "idle" /\ Indexer!Idle.tip = 0
      /\ Indexer!Idle.to = 0 /\ Indexer!Idle.found = {}
  BY DEF Indexer!Idle, Pass, PassPcs
<1>3. pass[p].to \in Nat /\ pass[p].to <= Len(blocks) /\ Safe(pass[p].to)
      /\ pass[p].seen \in {"Active", "Finalized"}
  BY <1>1 DEF Scanned, Pass
<1>4. /\ indexedRow' \in [stamped : BOOLEAN, lms : {"Active", "Finalized"},
                            status : {"active", "resolved"}, cursor : Nat]
      /\ indexedRow'.status = indexedRow.status /\ indexedRow'.cursor = pass[p].to
  BY <1>3 DEF Indexer!Reconcile, IndexerInv
<1> DEFINE q == Indexer!Idle
<1>5. pass' = [pass EXCEPT ![p] = q] /\ UNCHANGED <<blocks, factory, trades>>
  BY DEF Indexer!Reconcile
<1>6. /\ q \in Pass /\ q.pc = "idle" /\ q.tip <= Len(blocks) /\ q.to <= Len(blocks)
      /\ q.found \subseteq 1 .. Len(blocks)
  BY <1>1, <1>2
<1> HIDE DEF q
<1>7. indexedRow'.cursor <= Len(blocks) /\ Safe(pass[p].to)
  BY <1>3, <1>4
<1>8. indexedRow.status = "resolved" => indexedRow'.status = "resolved"
  BY <1>4
<1>9. Safe(indexedRow'.cursor)
  BY <1>4, <1>7
<1>10. QED BY <1>1, <1>4, <1>5, <1>6, <1>7, <1>8, <1>9, WritingPreserves

(* A block is mined while the indexer is in reach: the block that a scan     *)
(* may no longer reach has nothing that is missing.                          *)
LEMMA MiningPreserves == ASSUME IndexerInv, ~Outage, NEW e, Indexer!MineBlock(e), e \in Indexer!Events PROVE IndexerInv'
<1> DEFINE N == Len(blocks)
           c == indexedRow.cursor
<1>1. /\ N \in Nat /\ blocks \in Seq(Indexer!Events) /\ c \in Nat
      /\ MaxRange \in Nat \ {0}
  BY IndexerAssumption DEF IndexerInv, ChainIsSound
<1>2. /\ blocks' = Append(blocks, e) /\ UNCHANGED <<indexedRow, factory, trades, pass>>
      /\ Indexer!InReach
      /\ e = "created" => ~Indexer!Happened("created")
      /\ e \in MarketEvents => Indexer!Happened("created")
  BY DEF Indexer!MineBlock, MarketEvents
<1>3. /\ blocks' \in Seq(Indexer!Events) /\ Len(blocks') = N + 1
      /\ blocks'[N + 1] = e /\ \A b \in 1 .. N : blocks'[b] = blocks[b]
  BY <1>1, <1>2
<1>4. \A b \in 1 .. N : InDatabase(b)' <=> InDatabase(b)
  BY <1>2, <1>3 DEF InDatabase
<1>5. Indexer!Happened("created") <=> \E b \in 1 .. N : blocks[b] = "created"
  BY DEF Indexer!Happened, Indexer!Tip
<1>6. ChainIsSound'
  <2>1. \A b, d \in 1 .. N + 1 : blocks'[b] = "created" /\ blocks'[d] = "created" => b = d
    BY <1>1, <1>2, <1>3, <1>5 DEF IndexerInv, ChainIsSound
  <2>2. ASSUME NEW d \in 1 .. N + 1, blocks'[d] \in MarketEvents
        PROVE  \E b \in 1 .. d : blocks'[b] = "created"
    <3>1. CASE d = N + 1
      BY <1>1, <1>2, <1>3, <1>5, <2>2, <3>1
    <3>2. CASE d \in 1 .. N
      <4>1. PICK b \in 1 .. d : blocks[b] = "created"
        BY <1>3, <2>2, <3>2 DEF IndexerInv, ChainIsSound
      <4>2. b \in 1 .. N
        BY <1>1, <3>2, <4>1
      <4>3. QED BY <1>3, <4>1, <4>2
    <3>3. QED BY <1>1, <3>1, <3>2
  <2>3. QED BY <1>3, <2>1, <2>2 DEF ChainIsSound
<1>7. ASSUME NEW b \in 1 .. N, b <= N + 1 - MaxRange PROVE InDatabase(b)
  <2>1. CASE ~Indexer!Happened("created")
    <3>1. blocks[b] \notin MarketEvents
      BY <1>1, <1>5, <2>1 DEF IndexerInv, ChainIsSound
    <3>2. QED BY <3>1 DEF MarketEvents, InDatabase
  <2>2. CASE Indexer!Happened("created") /\ c # 0
    <3>1. N + 1 - c <= MaxRange
      BY <1>2, <2>2 DEF Indexer!InReach, Indexer!Tip
    <3>2. b <= c
      BY <1>1, <1>7, <3>1
    <3>3. QED BY <3>2 DEF IndexerInv, Safe
  <2>3. CASE Indexer!Happened("created") /\ c = 0
    <3> DEFINE m == Indexer!Created
    <3>1. m \in 1 .. N /\ blocks[m] = "created"
      BY <1>5, <2>3 DEF Indexer!Created, Indexer!Tip
    <3>2. N + 1 - m <= MaxRange
      BY <1>2, <2>3 DEF Indexer!InReach, Indexer!Tip
    <3> HIDE DEF m
    <3>3. b <= m
      BY <1>1, <1>7, <3>1, <3>2
    <3>4. blocks[b] \notin MarketEvents
      <4>1. SUFFICES ASSUME blocks[b] \in MarketEvents PROVE FALSE
        OBVIOUS
      <4>2. PICK d \in 1 .. b : blocks[d] = "created"
        BY <4>1 DEF IndexerInv, ChainIsSound
      <4>3. d \in 1 .. N /\ d = m
        BY <1>1, <3>1, <4>2 DEF IndexerInv, ChainIsSound
      <4>4. b = m
        BY <3>1, <3>3, <4>2, <4>3
      <4>5. QED BY <3>1, <4>1, <4>4 DEF MarketEvents
    <3>5. QED BY <3>4 DEF MarketEvents, InDatabase
  <2>4. QED BY <2>1, <2>2, <2>3
<1>8. Safe(Len(blocks) - MaxRange)'
  BY <1>1, <1>3, <1>4, <1>7 DEF Safe
<1>9. Safe(indexedRow.cursor)'
  <2>1. Safe(c) /\ c <= N
    BY DEF IndexerInv
  <2>2. QED BY <1>1, <1>2, <1>3, <1>4, <2>1 DEF Safe
<1>10. \A p \in IndexerPasses : Scanned(pass[p])'
  <2>1. SUFFICES ASSUME NEW p \in IndexerPasses PROVE Scanned(pass[p])'
    OBVIOUS
  <2>2. Scanned(pass[p]) /\ pass[p] \in Pass
    BY DEF IndexerInv
  <2>3. pass[p].to \in Nat /\ pass[p].tip \in Nat
    BY <2>2 DEF Pass
  <2> HIDE DEF N
  <2>4. QED BY <1>1, <1>2, <1>3, <1>4, <2>2, <2>3 DEF Scanned, Safe, N
<1>11. QED BY <1>1, <1>2, <1>3, <1>6, <1>8, <1>9, <1>10 DEF IndexerInv

LEMMA IndexerStays ==
    ASSUME ~Outage, ~DbFails
    PROVE  IndexerInv /\ [Indexer!Next]_indexerVars => IndexerInv'
<1> SUFFICES ASSUME IndexerInv, [Indexer!Next]_indexerVars PROVE IndexerInv'
  OBVIOUS
<1>1. CASE Indexer!StampRow
  <2>1. indexedRow' = [indexedRow EXCEPT !.stamped = TRUE] /\ UNCHANGED <<blocks, factory, trades, pass>>
    BY <1>1 DEF Indexer!StampRow
  <2>2. /\ indexedRow' \in [stamped : BOOLEAN, lms : {"Active", "Finalized"},
                              status : {"active", "resolved"}, cursor : Nat]
        /\ indexedRow'.status = indexedRow.status /\ indexedRow'.cursor = indexedRow.cursor
    BY <2>1 DEF IndexerInv
  <2>3. QED BY <2>1, <2>2 DEF IndexerInv, ChainIsSound, Scanned, Safe, InDatabase
<1>2. CASE UNCHANGED indexerVars
  BY <1>2 DEF indexerVars, IndexerInv, ChainIsSound, Scanned, Safe, InDatabase
<1>3. QED
  BY <1>1, <1>2, MiningPreserves, PassStepsPreserve, FactoryPreserves, EntriesPreserve,
     ReconcilePreserves
  DEF Indexer!Next, Indexer!PassStep

LEMMA CursorIsRight == IndexerInv => Indexer!NothingBelowTheCursorIsLost
BY DEF IndexerInv, Indexer!NothingBelowTheCursorIsLost, Safe, InDatabase, ChainIsSound

----------------------------------------------------------------------------
(* The administrators' desk (ArcDesk).                                       *)

DeskPcs == {"idle", "approve", "reject", "simulate", "receipt", "stamp", "pin"}
Task == [pc : DeskPcs, market : Markets \cup {Desk!None}, contract : Nat]
MarketRow == [origin : {Desk!None, "suggestion", "admin"}, contract : Nat, featured : BOOLEAN,
              told : Nat]

(* A contract that was made for this market.                                 *)
MadeFor(cs, c, m) == c \in DOMAIN cs /\ cs[c] = m

(* A function that deals with a market holds it, and its own contract.       *)
DeskKnows(d) ==
    /\ desk[d].pc \in {"simulate", "receipt", "stamp", "pin"} => desk[d].market \in Markets
    /\ desk[d].pc \in {"receipt", "stamp"} => MadeFor(contracts, desk[d].contract, desk[d].market)

(* A row has a contract of its own, which was made for it unless the row was *)
(* told of it.                                                               *)
RowsAreOwn ==
    /\ \A m \in Markets : marketRows[m].contract \notin {0, marketRows[m].told} =>
         MadeFor(contracts, marketRows[m].contract, m)
    /\ \A m, n \in Markets : marketRows[m].contract = marketRows[n].contract /\ m # n =>
         marketRows[m].contract = 0

DeskInv ==
    /\ suggestion \in [status : {Desk!None, "pending", "approved", "rejected"},
                       market : Markets \cup {Desk!None}]
    /\ suggestion.status = "approved" =>
         suggestion.market \in Markets /\ marketRows[suggestion.market].origin = "suggestion"
    /\ marketRows \in [Markets -> MarketRow]
    /\ RowsAreOwn
    /\ contracts \in Seq(Markets)
    /\ desk \in [Desks -> Task]
    /\ \A d \in Desks : DeskKnows(d)

LEMMA DeskBegins == Desk!Init => DeskInv
<1> SUFFICES ASSUME Desk!Init PROVE DeskInv
  OBVIOUS
<1>1. Desk!Idle \in Task /\ Desk!Idle.pc = "idle"
  BY DEF Desk!Idle, Task, DeskPcs
<1>2. desk \in [Desks -> Task] /\ \A d \in Desks : DeskKnows(d)
  BY <1>1 DEF Desk!Init, DeskKnows
<1>3. marketRows \in [Markets -> MarketRow] /\ \A m \in Markets : marketRows[m].contract = 0
  BY DEF Desk!Init, MarketRow
<1>4. QED BY <1>2, <1>3 DEF Desk!Init, DeskInv, RowsAreOwn, Desk!None

(* A function that moves on, while contracts are only added.                 *)
LEMMA TaskMoves ==
    ASSUME DeskInv, NEW d \in Desks, NEW t \in Task, desk' = [desk EXCEPT ![d] = t],
           \A c \in Nat, m \in Markets : MadeFor(contracts, c, m) => MadeFor(contracts', c, m),
           t.pc \in {"simulate", "receipt", "stamp", "pin"} => t.market \in Markets,
           t.pc \in {"receipt", "stamp"} => MadeFor(contracts', t.contract, t.market)
    PROVE  desk' \in [Desks -> Task] /\ \A e \in Desks : DeskKnows(e)'
<1>1. desk' \in [Desks -> Task]
  BY DEF DeskInv
<1>2. ASSUME NEW e \in Desks PROVE DeskKnows(e)'
  <2>1. CASE e = d
    BY <2>1 DEF DeskInv, DeskKnows, MadeFor
  <2>2. CASE e # d
    <3>1. desk'[e] = desk[e] /\ DeskKnows(e) /\ desk[e] \in Task
      BY <2>2 DEF DeskInv
    <3>2. desk[e].pc \in {"receipt", "stamp"} => MadeFor(contracts', desk[e].contract, desk[e].market)
      BY <3>1 DEF DeskKnows, Task
    <3>3. QED BY <3>1, <3>2 DEF DeskKnows, MadeFor
  <2>3. QED BY <2>1, <2>2
<1>3. QED BY <1>1, <1>2

(* Steps that change no market's origin or contract.                         *)
LEMMA DeskKeepsRows ==
    ASSUME DeskInv, UNCHANGED contracts,
           marketRows' \in [Markets -> MarketRow],
           \A m \in Markets : /\ marketRows'[m].contract = marketRows[m].contract
                              /\ marketRows'[m].told = marketRows[m].told
                              /\ marketRows'[m].origin = marketRows[m].origin,
           suggestion' = suggestion \/ \E s \in {"pending", "rejected"} :
             suggestion' = [suggestion EXCEPT !.status = s],
           NEW d \in Desks, NEW t \in Task, desk' = [desk EXCEPT ![d] = t],
           t.pc \in {"simulate", "receipt", "stamp", "pin"} => t.market \in Markets,
           t.pc \in {"receipt", "stamp"} => MadeFor(contracts, t.contract, t.market)
    PROVE  DeskInv'
<1>1. \A c, m : MadeFor(contracts', c, m) <=> MadeFor(contracts, c, m)
  BY DEF MadeFor
<1>2. desk' \in [Desks -> Task] /\ \A e \in Desks : DeskKnows(e)'
  BY <1>1, TaskMoves
<1>3. /\ suggestion' \in [status : {Desk!None, "pending", "approved", "rejected"},
                          market : Markets \cup {Desk!None}]
      /\ suggestion'.status = "approved" =>
           suggestion'.market \in Markets /\ marketRows'[suggestion'.market].origin = "suggestion"
  BY DEF DeskInv, Desk!None
<1>4. RowsAreOwn'
  BY <1>1 DEF DeskInv, RowsAreOwn
<1>5. QED BY <1>2, <1>3, <1>4 DEF DeskInv

LEMMA VerdictsPreserve ==
    ASSUME DeskInv, NEW d \in Desks,
           Desk!ReadSuggestion(d, "approve") \/ Desk!ReadSuggestion(d, "reject") \/ Desk!Reject(d)
             \/ Desk!ReadReceipt(d) \/ Desk!Dies(d)
    PROVE  DeskInv'
<1> USE DEF Desk!Goto, Desk!Finish, Desk!At
<1>1. desk[d] \in Task /\ DeskKnows(d) /\ marketRows \in [Markets -> MarketRow]
  BY DEF DeskInv
<1>2. UNCHANGED <<marketRows, contracts>>
  BY DEF Desk!ReadSuggestion, Desk!Reject, Desk!ReadReceipt, Desk!Dies
<1>3. suggestion' = suggestion \/ suggestion' = [suggestion EXCEPT !.status = "rejected"]
  BY DEF Desk!ReadSuggestion, Desk!Reject, Desk!ReadReceipt, Desk!Dies
<1>4. CASE desk' = [desk EXCEPT ![d] = Desk!Idle]
  <2>1. Desk!Idle \in Task /\ Desk!Idle.pc = "idle"
    BY DEF Desk!Idle, Task, DeskPcs
  <2>2. QED BY <1>1, <1>2, <1>3, <1>4, <2>1, DeskKeepsRows
<1>5. ASSUME NEW s \in {"approve", "reject", "stamp"}, desk' = [desk EXCEPT ![d].pc = s],
             s = "stamp" => desk[d].pc = "receipt"
      PROVE  DeskInv'
  <2> DEFINE t == [desk[d] EXCEPT !.pc = s]
  <2>1. t \in Task /\ t.pc = s /\ t.market = desk[d].market /\ t.contract = desk[d].contract
    BY <1>1 DEF Task, DeskPcs
  <2>2. desk' = [desk EXCEPT ![d] = t]
    BY <1>5 DEF DeskInv
  <2> HIDE DEF t
  <2>3. t.pc \in {"simulate", "receipt", "stamp", "pin"} =>
          t.market \in Markets /\ MadeFor(contracts, t.contract, t.market)
    BY <1>1, <1>5, <2>1 DEF DeskKnows
  <2>4. QED BY <1>1, <1>2, <1>3, <2>1, <2>2, <2>3, DeskKeepsRows
<1>6. QED BY <1>4, <1>5 DEF Desk!ReadSuggestion, Desk!Reject, Desk!ReadReceipt, Desk!Dies

(* A market that has been made stays what it was made for.                   *)
LEMMA MakingPreserves ==
    ASSUME DeskInv, NEW d \in Desks, Desk!Approve(d) \/ Desk!CreateMarket(d)
    PROVE  DeskInv'
<1>0. /\ contracts \in Seq(Markets) /\ marketRows \in [Markets -> MarketRow]
      /\ \A c \in 0 .. Len(contracts) + 1 : c \in Nat
  BY DEF DeskInv
<1>1. PICK m \in Markets, row \in MarketRow :
        /\ marketRows[m].origin = Desk!None
        /\ marketRows' = [marketRows EXCEPT ![m] = row]
        /\ row.origin \in {"suggestion", "admin"}
        /\ \/ row.contract = marketRows[m].contract /\ row.told = marketRows[m].told
           \/ row.contract = 0
           \/ row.told = row.contract /\ \A n \in Markets : marketRows[n].contract # row.contract
        /\ desk' = [desk EXCEPT ![d].pc = "simulate", ![d].market = m]
        /\ \/ row.origin = "suggestion" /\ suggestion' = [status |-> "approved", market |-> m]
           \/ UNCHANGED suggestion
  <2>1. CASE Desk!Approve(d)
    <3>1. PICK m \in Markets :
            /\ marketRows[m].origin = Desk!None
            /\ marketRows' = [marketRows EXCEPT ![m].origin = "suggestion"]
            /\ desk' = [desk EXCEPT ![d].pc = "simulate", ![d].market = m]
            /\ suggestion' = [status |-> "approved", market |-> m]
      BY <2>1 DEF Desk!Approve, Desk!GotoMarket, Desk!Made
    <3> DEFINE row == [marketRows[m] EXCEPT !.origin = "suggestion"]
    <3>2. marketRows[m] \in MarketRow
      BY <1>0
    <3>3. /\ row \in MarketRow /\ row.origin = "suggestion"
          /\ row.contract = marketRows[m].contract /\ row.told = marketRows[m].told
      BY <3>2 DEF MarketRow
    <3>4. marketRows' = [marketRows EXCEPT ![m] = row]
      BY <1>0, <3>1
    <3> HIDE DEF row
    <3>5. QED BY <3>1, <3>3, <3>4
  <2>2. CASE Desk!CreateMarket(d)
    <3>1. PICK m \in Markets, c \in 0 .. Len(contracts) + 1 :
            /\ ~Desk!Made(m)
            /\ c # 0 => Desk!Free(c)
            /\ marketRows' = [marketRows EXCEPT ![m].origin = "admin", ![m].contract = c,
                                                ![m].told = c]
            /\ Desk!GotoMarket(d, "simulate", m)
            /\ UNCHANGED suggestion
      BY <2>2, Zenon DEF Desk!CreateMarket
    <3> DEFINE row == [marketRows[m] EXCEPT !.origin = "admin", !.contract = c, !.told = c]
    <3>2. marketRows[m] \in MarketRow /\ c \in Nat
      BY <1>0
    <3>3. row \in MarketRow /\ row.origin = "admin" /\ row.contract = c /\ row.told = c
      BY <3>2 DEF MarketRow
    <3>4. marketRows' = [marketRows EXCEPT ![m] = row]
      BY <1>0, <3>1
    <3> HIDE DEF row
    <3>5. marketRows[m].origin = Desk!None
      BY <3>1 DEF Desk!Made
    <3>6. \/ row.contract = 0
          \/ row.told = row.contract /\ \A n \in Markets : marketRows[n].contract # row.contract
      BY <3>1, <3>3 DEF Desk!Free
    <3>7. desk' = [desk EXCEPT ![d].pc = "simulate", ![d].market = m]
      BY <3>1 DEF Desk!GotoMarket
    <3>8. UNCHANGED suggestion
      BY <3>1
    <3>9. QED BY <3>3, <3>4, <3>5, <3>6, <3>7, <3>8
  <2>3. QED BY <2>1, <2>2
<1>2. UNCHANGED contracts
  BY DEF Desk!Approve, Desk!CreateMarket
<1>3. /\ marketRows' \in [Markets -> MarketRow]
      /\ \A n \in Markets : marketRows'[n] = IF n = m THEN row ELSE marketRows[n]
  BY <1>0, <1>1
<1> DEFINE t == [desk[d] EXCEPT !.pc = "simulate", !.market = m]
<1>4. t \in Task /\ t.pc = "simulate" /\ t.market = m
  BY DEF DeskInv, Task, DeskPcs
<1>5. desk' = [desk EXCEPT ![d] = t]
  BY <1>1 DEF DeskInv
<1>6. \A c, n : MadeFor(contracts', c, n) <=> MadeFor(contracts, c, n)
  BY <1>2 DEF MadeFor
<1> HIDE DEF t
<1>7. desk' \in [Desks -> Task] /\ \A e \in Desks : DeskKnows(e)'
  BY <1>4, <1>5, <1>6, TaskMoves
<1>8. /\ suggestion' \in [status : {Desk!None, "pending", "approved", "rejected"},
                          market : Markets \cup {Desk!None}]
      /\ suggestion'.status = "approved" =>
           suggestion'.market \in Markets /\ marketRows'[suggestion'.market].origin = "suggestion"
  BY <1>1, <1>3 DEF DeskInv, Desk!None
<1>9. RowsAreOwn'
  BY <1>1, <1>3, <1>6 DEF DeskInv, RowsAreOwn
<1>10. QED BY <1>2, <1>3, <1>7, <1>8, <1>9 DEF DeskInv

LEMMA ContractPreserves == ASSUME DeskInv, NEW d \in Desks, Desk!WriteContract(d) PROVE DeskInv'
<1>1. /\ desk[d] \in Task /\ desk[d].market \in Markets /\ marketRows \in [Markets -> MarketRow]
      /\ contracts \in Seq(Markets)
  BY DEF DeskInv, DeskKnows, Desk!WriteContract, Desk!At
<1>2. UNCHANGED <<marketRows, suggestion>>
  BY DEF Desk!WriteContract
<1>3. CASE Desk!Finish(d) /\ UNCHANGED contracts
  <2>1. Desk!Idle \in Task /\ Desk!Idle.pc = "idle"
    BY DEF Desk!Idle, Task, DeskPcs
  <2>2. QED BY <1>1, <1>2, <1>3, <2>1, DeskKeepsRows DEF Desk!Finish
<1>4. CASE /\ contracts' = Append(contracts, desk[d].market)
           /\ desk' = [desk EXCEPT ![d].pc = "receipt", ![d].contract = Len(contracts) + 1]
  <2> DEFINE t == [desk[d] EXCEPT !.pc = "receipt", !.contract = Len(contracts) + 1]
  <2>8. Len(contracts) + 1 \in Nat
    BY <1>1
  <2>1. t \in Task /\ t.pc = "receipt" /\ t.market = desk[d].market /\ t.contract = Len(contracts) + 1
    BY <1>1, <2>8 DEF Task, DeskPcs
  <2>2. desk' = [desk EXCEPT ![d] = t]
    BY <1>4 DEF DeskInv
  <2> HIDE DEF t
  <2>3. \A c, m : MadeFor(contracts, c, m) => MadeFor(contracts', c, m)
    BY <1>1, <1>4 DEF MadeFor
  <2>4. contracts' \in Seq(Markets) /\ MadeFor(contracts', Len(contracts) + 1, desk[d].market)
    BY <1>1, <1>4 DEF MadeFor
  <2>5. MadeFor(contracts', t.contract, t.market)
    BY <2>1, <2>4 DEF MadeFor
  <2>6. desk' \in [Desks -> Task] /\ \A e \in Desks : DeskKnows(e)'
    BY <1>1, <2>1, <2>2, <2>3, <2>5, TaskMoves
  <2>7. RowsAreOwn'
    <3>1. \A m \in Markets : marketRows[m].contract \in Nat
      BY <1>1 DEF MarketRow
    <3>2. QED BY <1>2, <2>3, <3>1 DEF DeskInv, RowsAreOwn
  <2>9. QED BY <1>2, <2>4, <2>6, <2>7 DEF DeskInv
<1>5. QED BY <1>3, <1>4 DEF Desk!WriteContract

LEMMA StampPreserves == ASSUME DeskInv, NEW d \in Desks, Desk!Stamp(d) PROVE DeskInv'
<1> DEFINE m == desk[d].market
           c == desk[d].contract
<1>1. m \in Markets /\ MadeFor(contracts, c, m) /\ c \in Nat
  BY DEF DeskInv, DeskKnows, Desk!Stamp, Desk!At, Task
<1>2. /\ marketRows' \in [Markets -> MarketRow]
      /\ \A n \in Markets : marketRows'[n].origin = marketRows[n].origin
      /\ \/ marketRows' = marketRows
         \/ /\ \A n \in Markets \ {m} : marketRows[n].contract # c
            /\ \A n \in Markets :
                 /\ marketRows'[n].contract = IF n = m THEN c ELSE marketRows[n].contract
                 /\ marketRows'[n].told = IF n = m THEN 0 ELSE marketRows[n].told
  <2> DEFINE row == [marketRows[m] EXCEPT !.contract = c, !.told = 0]
  <2>1. marketRows \in [Markets -> MarketRow]
    BY DEF DeskInv
  <2>2. /\ row \in MarketRow /\ row.contract = c /\ row.told = 0
        /\ row.origin = marketRows[m].origin
    BY <1>1, <2>1 DEF MarketRow
  <2>3. CASE marketRows' = marketRows
    BY <2>1, <2>3
  <2>4. CASE /\ \A n \in Markets \ {m} : marketRows[n].contract # c
             /\ marketRows' = [marketRows EXCEPT ![m].contract = c, ![m].told = 0]
    <3>1. marketRows' = [marketRows EXCEPT ![m] = row]
      BY <1>1, <2>1, <2>4
    <3> HIDE DEF row
    <3>2. marketRows' \in [Markets -> MarketRow]
          /\ \A n \in Markets : marketRows'[n] = IF n = m THEN row ELSE marketRows[n]
      BY <1>1, <2>1, <2>2, <3>1
    <3>3. QED BY <2>2, <2>4, <3>2
  <2>5. QED BY <2>3, <2>4 DEF Desk!Stamp
<1>3. UNCHANGED <<suggestion, contracts>> /\ desk' = [desk EXCEPT ![d] = Desk!Idle]
  BY DEF Desk!Stamp, Desk!Finish
<1>4. Desk!Idle \in Task /\ Desk!Idle.pc = "idle"
  BY DEF Desk!Idle, Task, DeskPcs
<1>5. \A e, n : MadeFor(contracts', e, n) <=> MadeFor(contracts, e, n)
  BY <1>3 DEF MadeFor
<1>6. desk' \in [Desks -> Task] /\ \A e \in Desks : DeskKnows(e)'
  BY <1>3, <1>4, <1>5, TaskMoves
<1>7. RowsAreOwn'
  <2>1. CASE marketRows' = marketRows
    BY <1>5, <2>1 DEF DeskInv, RowsAreOwn
  <2>2. CASE marketRows' # marketRows
    <3> HIDE DEF m, c
    <3>1. ASSUME NEW n \in Markets, marketRows'[n].contract \notin {0, marketRows'[n].told}
          PROVE  MadeFor(contracts, marketRows'[n].contract, n)
      BY <1>1, <1>2, <2>2, <3>1 DEF DeskInv, RowsAreOwn
    <3>2. ASSUME NEW n \in Markets, NEW o \in Markets, n # o,
                 marketRows'[n].contract = marketRows'[o].contract
          PROVE  marketRows'[n].contract = 0
      BY <1>1, <1>2, <2>2, <3>2 DEF DeskInv, RowsAreOwn
    <3>3. QED BY <1>5, <3>1, <3>2 DEF RowsAreOwn
  <2>3. QED BY <2>1, <2>2
<1>8. QED BY <1>2, <1>3, <1>6, <1>7 DEF DeskInv

LEMMA MarketStepsPreserve ==
    ASSUME DeskInv, NEW d \in Desks, NEW m \in Markets,
           Desk!DeployArc(d, m) \/ Desk!Unpin(d, m) \/ Desk!TakeDown(d, m) \/ Desk!Pin(d)
    PROVE  DeskInv'
<1>1. /\ desk \in [Desks -> Task] /\ desk[d] \in Task /\ DeskKnows(d)
      /\ marketRows \in [Markets -> MarketRow]
  BY DEF DeskInv
<1>2. UNCHANGED <<suggestion, contracts>>
  BY DEF Desk!DeployArc, Desk!Unpin, Desk!TakeDown, Desk!Pin
<1>3. /\ marketRows' \in [Markets -> MarketRow]
      /\ \A n \in Markets : /\ marketRows'[n].contract = marketRows[n].contract
                            /\ marketRows'[n].told = marketRows[n].told
                            /\ marketRows'[n].origin = marketRows[n].origin
  <2>1. CASE Desk!DeployArc(d, m)
    BY <1>1, <2>1 DEF Desk!DeployArc
  <2>2. CASE Desk!Unpin(d, m)
    BY <1>1, <2>2 DEF Desk!Unpin, MarketRow
  <2>3. CASE Desk!TakeDown(d, m)
    BY <1>1, <2>3 DEF Desk!TakeDown, MarketRow
  <2>4. CASE Desk!Pin(d)
    <3>1. marketRows' = [marketRows EXCEPT ![desk[d].market].featured = TRUE]
      BY <2>4 DEF Desk!Pin
    <3>2. QED BY <1>1, <3>1 DEF MarketRow
  <2>5. QED BY <2>1, <2>2, <2>3, <2>4
<1>4. CASE Desk!DeployArc(d, m) \/ Desk!Unpin(d, m)
  <2>1. PICK s \in {"simulate", "pin"} : desk' = [desk EXCEPT ![d].pc = s, ![d].market = m]
    BY <1>4 DEF Desk!DeployArc, Desk!Unpin, Desk!GotoMarket
  <2> DEFINE t == [desk[d] EXCEPT !.pc = s, !.market = m]
  <2>2. t \in Task /\ t.pc = s /\ t.market = m
    BY <1>1 DEF Task, DeskPcs
  <2>3. desk' = [desk EXCEPT ![d] = t]
    BY <1>1, <2>1
  <2> HIDE DEF t
  <2>4. QED BY <1>2, <1>3, <2>2, <2>3, DeskKeepsRows
<1>5. CASE Desk!TakeDown(d, m)
  <2>1. desk' = [desk EXCEPT ![d] = desk[d]]
    BY <1>1, <1>5 DEF Desk!TakeDown
  <2>2. QED BY <1>1, <1>2, <1>3, <2>1, DeskKeepsRows DEF DeskKnows
<1>6. CASE Desk!Pin(d)
  <2>1. Desk!Idle \in Task /\ Desk!Idle.pc = "idle" /\ desk' = [desk EXCEPT ![d] = Desk!Idle]
    BY <1>6 DEF Desk!Idle, Task, DeskPcs, Desk!Pin, Desk!Finish
  <2>2. QED BY <1>2, <1>3, <2>1, DeskKeepsRows
<1>7. QED BY <1>4, <1>5, <1>6

LEMMA PinPreserves == ASSUME DeskInv, NEW d \in Desks, Desk!Pin(d) PROVE DeskInv'
<1>1. desk[d].market \in Markets
  BY DEF DeskInv, DeskKnows, Desk!Pin, Desk!At
<1>2. QED BY <1>1, MarketStepsPreserve

LEMMA DeskStays == DeskInv /\ [Desk!Next]_deskVars => DeskInv'
<1> SUFFICES ASSUME DeskInv, [Desk!Next]_deskVars PROVE DeskInv'
  OBVIOUS
<1>1. CASE Desk!Suggest
  <2>1. /\ suggestion' = [suggestion EXCEPT !.status = "pending"]
        /\ UNCHANGED <<marketRows, contracts, desk>>
    BY <1>1 DEF Desk!Suggest
  <2>2. \A c, m : MadeFor(contracts', c, m) <=> MadeFor(contracts, c, m)
    BY <2>1 DEF MadeFor
  <2>3. \A d \in Desks : DeskKnows(d)'
    BY <2>1, <2>2 DEF DeskInv, DeskKnows
  <2>4. suggestion' \in [status : {Desk!None, "pending", "approved", "rejected"},
                         market : Markets \cup {Desk!None}] /\ suggestion'.status = "pending"
    BY <2>1 DEF DeskInv
  <2>5. RowsAreOwn'
    BY <2>1, <2>2 DEF DeskInv, RowsAreOwn
  <2>6. QED BY <2>1, <2>3, <2>4, <2>5 DEF DeskInv
<1>2. CASE UNCHANGED deskVars
  BY <1>2 DEF deskVars, DeskInv, RowsAreOwn, DeskKnows, MadeFor
<1>3. QED
  BY <1>1, <1>2, VerdictsPreserve, MakingPreserves, ContractPreserves, StampPreserves,
     MarketStepsPreserve, PinPreserves
  DEF Desk!Next

LEMMA RowsAreRight == DeskInv => Desk!RowsPointBack
<1> SUFFICES ASSUME DeskInv PROVE Desk!RowsPointBack
  OBVIOUS
<1>1. Desk!None \notin Markets
  BY DeskAssumption DEF Desk!None
<1>2. QED BY <1>1 DEF DeskInv, RowsAreOwn, Desk!RowsPointBack, MadeFor

----------------------------------------------------------------------------
(* Whose a wallet is (WalletIdentity).                                       *)

CallRow ==
    [step : {"idle"}] \cup [step : {"authenticated", "synced"}, wallet : Wallets]
    \cup [step : {"read"}, wallet : Wallets, has : SUBSET Wallets]
Held(u) == {w \in Wallets : linkedRow[w] = u}

(* What a request of a user's read, and what its transaction left in the      *)
(* table, is no older than the user's requests.                              *)
IdentityInv ==
    /\ linked \in [Wallets -> Users \cup {NoOne}] /\ linkedRow \in [Wallets -> Users \cup {NoOne}]
    /\ call \in [ApiCalls -> CallRow] /\ fresh \in [Users -> SUBSET Wallets]
    /\ \A u \in Users : Identity!Open(u) => Identity!LinkedTo(u) \subseteq fresh[u]
    /\ \A c \in ApiCalls : call[c].step = "read" => call[c].has \subseteq fresh[Caller[c]]
    /\ \A c \in ApiCalls : call[c].step = "synced" => Held(Caller[c]) \subseteq fresh[Caller[c]]

LEMMA IdentityBegins == Identity!Init => IdentityInv
<1> SUFFICES ASSUME Identity!Init PROVE IdentityInv
  OBVIOUS
<1>1. /\ linked = [w \in Wallets |-> NoOne] /\ linkedRow = [w \in Wallets |-> NoOne]
      /\ call = [c \in ApiCalls |-> [step |-> "idle"]] /\ fresh = [u \in Users |-> {}]
  BY DEF Identity!Init, Identity!Idle
<1>2. [step |-> "idle"] \in CallRow
  BY DEF CallRow
<1>3. \A u \in Users : ~Identity!Open(u)
  BY <1>1 DEF Identity!Open
<1>4. QED BY <1>1, <1>2, <1>3 DEF IdentityInv

(* A request that goes back or on, with what it holds still true.            *)
LEMMA IdentityMoves ==
    ASSUME IdentityInv, NEW c \in ApiCalls, NEW x \in CallRow, call[c].step # "idle",
           call' = [call EXCEPT ![c] = x], UNCHANGED <<linked, linkedRow, fresh>>,
           x.step = "read" => x.has \subseteq fresh[Caller[c]],
           x.step = "synced" => Held(Caller[c]) \subseteq fresh[Caller[c]]
    PROVE  IdentityInv'
<1>1. call' \in [ApiCalls -> CallRow] /\ \A d \in ApiCalls : call'[d] = IF d = c THEN x ELSE call[d]
  BY DEF IdentityInv
<1>2. ASSUME NEW u \in Users, Identity!Open(u)' PROVE Identity!LinkedTo(u)' \subseteq fresh'[u]
  <2>1. Identity!Open(u)
    BY <1>1, <1>2 DEF Identity!Open
  <2>2. QED BY <2>1 DEF IdentityInv, Identity!LinkedTo
<1>3. QED BY <1>1, <1>2 DEF IdentityInv, Held

LEMMA IdentityStays == IdentityInv /\ [Identity!Next]_identityVars => IdentityInv'
<1> SUFFICES ASSUME IdentityInv, [Identity!Next]_identityVars PROVE IdentityInv'
  OBVIOUS
<1> USE IdentityAssumption
<1>0. call \in [ApiCalls -> CallRow] /\ fresh \in [Users -> SUBSET Wallets]
  BY DEF IdentityInv
<1>1. ASSUME NEW w \in Wallets, NEW v \in Users \cup {NoOne}, Identity!Link(w, v)
      PROVE  IdentityInv'
  <2>1. /\ linked' = [linked EXCEPT ![w] = v] /\ UNCHANGED <<linkedRow, call>>
        /\ fresh' = IF v = NoOne THEN fresh ELSE [fresh EXCEPT ![v] = @ \cup {w}]
    BY <1>1 DEF Identity!Link
  <2>2. /\ linked' \in [Wallets -> Users \cup {NoOne}] /\ fresh' \in [Users -> SUBSET Wallets]
        /\ \A u \in Users : fresh[u] \subseteq fresh'[u]
    BY <2>1 DEF IdentityInv
  <2>3. ASSUME NEW u \in Users PROVE Identity!LinkedTo(u)' \subseteq Identity!LinkedTo(u) \cup fresh'[u]
    BY <2>1 DEF IdentityInv, Identity!LinkedTo
  <2>4. ASSUME NEW u \in Users, Identity!Open(u)' PROVE Identity!LinkedTo(u)' \subseteq fresh'[u]
    <3>1. Identity!Open(u)
      BY <2>1, <2>4 DEF Identity!Open
    <3>2. QED BY <2>2, <2>3, <3>1 DEF IdentityInv
  <2>5. \A c \in ApiCalls : Caller[c] \in Users
    OBVIOUS
  <2>6. QED BY <2>1, <2>2, <2>4, <2>5 DEF IdentityInv, Held
<1>2. ASSUME NEW c \in ApiCalls, NEW w \in Wallets, Identity!Authenticate(c, w) PROVE IdentityInv'
  <2> DEFINE x == [step |-> "authenticated", wallet |-> w]
  <2>1. /\ call[c].step = "idle" /\ call' = [call EXCEPT ![c] = x] /\ UNCHANGED <<linked, linkedRow>>
        /\ fresh' = [fresh EXCEPT ![Caller[c]] =
                        IF Identity!Open(Caller[c]) THEN @ ELSE Identity!LinkedTo(Caller[c])]
    BY <1>2 DEF Identity!Authenticate
  <2>2. x \in CallRow /\ x.step = "authenticated"
    BY DEF CallRow
  <2>3. call' \in [ApiCalls -> CallRow] /\ \A d \in ApiCalls : call'[d] = IF d = c THEN x ELSE call[d]
    BY <1>0, <2>1, <2>2
  <2>4. Caller[c] \in Users /\ Identity!LinkedTo(Caller[c]) \in SUBSET Wallets
    BY DEF Identity!LinkedTo
  <2>5. /\ fresh' \in [Users -> SUBSET Wallets]
        /\ \A u \in Users : Identity!Open(u) \/ u # Caller[c] => fresh'[u] = fresh[u]
        /\ ~Identity!Open(Caller[c]) => fresh'[Caller[c]] = Identity!LinkedTo(Caller[c])
    BY <1>0, <2>1, <2>4
  <2>6. ASSUME NEW u \in Users, Identity!Open(u)' PROVE Identity!LinkedTo(u)' \subseteq fresh'[u]
    <3>1. Identity!LinkedTo(u)' = Identity!LinkedTo(u)
      BY <2>1 DEF Identity!LinkedTo
    <3>2. CASE Identity!Open(u)
      BY <2>5, <3>1, <3>2 DEF IdentityInv
    <3>3. CASE ~Identity!Open(u)
      <4>1. u = Caller[c]
        BY <2>3, <2>6, <3>3 DEF Identity!Open
      <4>2. QED BY <2>5, <3>1, <3>3, <4>1
    <3>4. QED BY <3>2, <3>3
  <2>7. \A d \in ApiCalls : call[d].step # "idle" => fresh'[Caller[d]] = fresh[Caller[d]]
    BY <2>5 DEF Identity!Open
  <2>8. QED BY <1>0, <2>1, <2>2, <2>3, <2>5, <2>6, <2>7 DEF IdentityInv, Held
<1>3. ASSUME NEW c \in ApiCalls, Identity!ReadPrivy(c) PROVE IdentityInv'
  <2> DEFINE x == [step |-> "read", wallet |-> call[c].wallet, has |-> Identity!LinkedTo(Caller[c])]
  <2>1. call[c].step = "authenticated" /\ call' = [call EXCEPT ![c] = x]
         /\ UNCHANGED <<linked, linkedRow, fresh>>
    BY <1>3 DEF Identity!ReadPrivy
  <2>2. call[c].wallet \in Wallets
    BY <1>0, <2>1 DEF CallRow
  <2>3. x \in CallRow /\ x.step = "read" /\ x.has = Identity!LinkedTo(Caller[c])
    BY <2>2 DEF CallRow, Identity!LinkedTo
  <2>4. Caller[c] \in Users /\ Identity!Open(Caller[c])
    BY <2>1 DEF Identity!Open
  <2>5. x.has \subseteq fresh[Caller[c]]
    BY <2>3, <2>4 DEF IdentityInv
  <2>6. call[c].step # "idle" /\ x.step # "synced"
    BY <2>1, <2>3
  <2>7. QED BY <2>1, <2>3, <2>5, <2>6, IdentityMoves
<1>4. ASSUME NEW c \in ApiCalls, call[c].step # "idle", Identity!Refused(c),
             UNCHANGED <<linked, linkedRow, fresh>>
      PROVE  IdentityInv'
  <2>1. call' = [call EXCEPT ![c] = [step |-> "idle"]] /\ [step |-> "idle"] \in CallRow
    BY <1>4 DEF Identity!Refused, Identity!Idle, CallRow
  <2>2. QED BY <1>4, <2>1, IdentityMoves
<1>5. ASSUME NEW c \in ApiCalls, Identity!PersistPrivyWalletIdentity(c) PROVE IdentityInv'
  <2> DEFINE u == Caller[c]
             x == [step |-> "synced", wallet |-> call[c].wallet]
  <2>1. call[c].step = "read" /\ UNCHANGED <<linked, fresh>>
    BY <1>5 DEF Identity!PersistPrivyWalletIdentity
  <2>2. CASE Identity!Refused(c) /\ UNCHANGED linkedRow
    BY <1>4, <2>1, <2>2
  <2>3. CASE /\ linkedRow' = [w \in Wallets |-> CASE w \in call[c].has -> u
                                           [] linkedRow[w] = u /\ w \notin call[c].has -> NoOne
                                           [] OTHER -> linkedRow[w]]
             /\ call' = [call EXCEPT ![c] = x]
    <3>1. u \in Users /\ u # NoOne /\ call[c].wallet \in Wallets /\ call[c].has \in SUBSET Wallets
      BY <1>0, <2>1 DEF CallRow
    <3>2. x \in CallRow /\ x.step = "synced"
      BY <3>1 DEF CallRow
    <3>3. call' \in [ApiCalls -> CallRow] /\ \A d \in ApiCalls : call'[d] = IF d = c THEN x ELSE call[d]
      BY <1>0, <2>3, <3>2
    <3>4. linkedRow' \in [Wallets -> Users \cup {NoOne}]
      BY <2>3, <3>1 DEF IdentityInv
    <3>5. Held(u)' \subseteq call[c].has
      BY <2>3, <3>1 DEF Held
    <3>6. \A v \in Users : v # u => Held(v)' \subseteq Held(v)
      BY <2>3, <3>1 DEF Held
    <3>7. call[c].has \subseteq fresh[u]
      BY <2>1 DEF IdentityInv
    <3>8. ASSUME NEW v \in Users, Identity!Open(v)' PROVE Identity!LinkedTo(v)' \subseteq fresh'[v]
      <4>1. Identity!Open(v)
        BY <2>1, <3>3, <3>8 DEF Identity!Open
      <4>2. QED BY <2>1, <4>1 DEF IdentityInv, Identity!LinkedTo
    <3>9. ASSUME NEW d \in ApiCalls, call'[d].step = "synced" PROVE Held(Caller[d])' \subseteq fresh'[Caller[d]]
      <4>1. CASE Caller[d] = u
        BY <2>1, <3>5, <3>7, <4>1
      <4>2. CASE Caller[d] # u
        <5>1. d # c /\ call[d].step = "synced" /\ Caller[d] \in Users
          BY <3>3, <3>9, <4>2
        <5>2. Held(Caller[d]) \subseteq fresh[Caller[d]]
          BY <5>1 DEF IdentityInv
        <5>3. QED BY <2>1, <3>6, <4>2, <5>1, <5>2
      <4>3. QED BY <4>1, <4>2
    <3>10. \A d \in ApiCalls : call'[d].step = "read" => call'[d].has \subseteq fresh'[Caller[d]]
      BY <2>1, <3>2, <3>3 DEF IdentityInv
    <3>11. linked' \in [Wallets -> Users \cup {NoOne}] /\ fresh' \in [Users -> SUBSET Wallets]
      BY <1>0, <2>1 DEF IdentityInv
    <3>12. QED BY <3>3, <3>4, <3>8, <3>9, <3>10, <3>11 DEF IdentityInv, Held
  <2>4. QED BY <1>5, <2>2, <2>3 DEF Identity!PersistPrivyWalletIdentity
<1>6. ASSUME NEW c \in ApiCalls, Identity!AskTable(c) \/ Identity!Fail(c) PROVE IdentityInv'
  BY <1>4, <1>6 DEF Identity!AskTable, Identity!Fail
<1>7. CASE UNCHANGED identityVars
  BY <1>7 DEF identityVars, IdentityInv, Held, Identity!Open, Identity!LinkedTo
<1>8. QED BY <1>1, <1>2, <1>3, <1>5, <1>6, <1>7 DEF Identity!Next

LEMMA GrantsAreFresh == IdentityInv => Identity!GrantIsFresh
<1> SUFFICES ASSUME IdentityInv, NEW c \in ApiCalls, Identity!Granted(c)
    PROVE  call[c].wallet \in fresh[Caller[c]]
  BY DEF Identity!GrantIsFresh
<1>1. call[c].step = "synced" /\ linkedRow[call[c].wallet] = Caller[c]
  BY DEF Identity!Granted
<1>2. call[c].wallet \in Wallets
  BY <1>1 DEF IdentityInv, CallRow
<1>3. QED BY <1>1, <1>2 DEF IdentityInv, Held

----------------------------------------------------------------------------
(* Proposals and their bonds (ProposalSubmission).                           *)

PressStates == {"form", "preparing", "reading", "approving", "approved", "ready",
                "waiting", "submitting", "recorded", "failed"}
PostRow ==
    [at : {"none"}] \cup [at : {"verify"}, tx : Presses]
    \cup [at : {"persist", "send"}, tx : Presses, id : Presses]
ProposalRow == [id : Presses, key : Presses, tx : Presses, by : Users]
Recorded == {r.id : r \in proposals}
Stands(t, id, u) == tx[t] = "locked" /\ id = t /\ Owner[t] = u

(* A lock is sent once and stays what it became; a submission that was       *)
(* verified stands on its bond, and one that was written has its row.        *)
SubmissionInv ==
    /\ press \in [Presses -> PressStates] /\ tx \in [Presses -> {"none", "pending", "locked", "reverted"}]
    /\ \A p \in Presses : tx[p] # "none" => press[p] \in {"waiting", "submitting", "recorded", "failed"}
    /\ post \in [Presses -> PostRow]
    /\ \A p \in Presses : post[p].at = "persist" => Stands(post[p].tx, post[p].id, Owner[p])
    /\ \A p \in Presses : post[p].at = "send" => post[p].id \in Recorded
    /\ proposals \subseteq ProposalRow
    /\ \A r \in proposals : Stands(r.tx, r.id, r.by)
    /\ \A r, other \in proposals : r.tx = other.tx => r = other
    /\ pending \subseteq Recorded /\ jobs \subseteq Recorded

LEMMA SubmissionBegins == Submission!Init => SubmissionInv
<1> SUFFICES ASSUME Submission!Init PROVE SubmissionInv
  OBVIOUS
<1>1. /\ press = [p \in Presses |-> "form"] /\ tx = [p \in Presses |-> "none"]
      /\ post = [p \in Presses |-> [at |-> "none"]]
      /\ proposals = {} /\ pending = {} /\ jobs = {}
  BY DEF Submission!Init, Submission!Quiet, Submission!None
<1>2. [at |-> "none"] \in PostRow
  BY DEF PostRow
<1>3. QED BY <1>1, <1>2 DEF SubmissionInv, PressStates

(* Nothing is sent again while locks only become what they will be.          *)
LEMMA PagesMove ==
    ASSUME SubmissionInv, NEW p \in Presses, NEW s \in PressStates,
           press' = [press EXCEPT ![p] = s],
           tx[p] # "none" => s \in {"waiting", "submitting", "recorded", "failed"},
           UNCHANGED <<tx, post, proposals, pending, jobs>>
    PROVE  SubmissionInv'
BY DEF SubmissionInv, Stands, Recorded

LEMMA LocksMove ==
    ASSUME SubmissionInv, NEW p \in Presses, NEW s \in {"pending", "locked", "reverted"},
           tx[p] # "locked", tx' = [tx EXCEPT ![p] = s], press' \in [Presses -> PressStates],
           \A q \in Presses : press'[q] = press[q] \/ (q = p /\ press'[q] = "waiting"),
           press'[p] \in {"waiting", "submitting", "recorded", "failed"},
           UNCHANGED <<post, proposals, pending, jobs>>
    PROVE  SubmissionInv'
<1>1. /\ tx' \in [Presses -> {"none", "pending", "locked", "reverted"}]
      /\ \A q \in Presses : tx'[q] = IF q = p THEN s ELSE tx[q]
  BY DEF SubmissionInv
<1>2. ASSUME NEW q \in Presses, tx'[q] # "none"
      PROVE  press'[q] \in {"waiting", "submitting", "recorded", "failed"}
  BY <1>1, <1>2 DEF SubmissionInv
<1>3. \A t \in Presses : \A id, u : Stands(t, id, u) => Stands(t, id, u)'
  BY <1>1 DEF Stands
<1>4. ASSUME NEW q \in Presses, post'[q].at = "persist"
      PROVE  Stands(post[q].tx, post[q].id, Owner[q])'
  <2>1. post[q].tx \in Presses /\ Stands(post[q].tx, post[q].id, Owner[q])
    BY <1>4 DEF SubmissionInv, PostRow
  <2>2. QED BY <1>3, <2>1
<1>5. ASSUME NEW r \in proposals PROVE Stands(r.tx, r.id, r.by)'
  <2>1. r.tx \in Presses /\ Stands(r.tx, r.id, r.by)
    BY DEF SubmissionInv, ProposalRow
  <2>2. QED BY <1>3, <2>1
<1>6. Recorded' = Recorded
  BY DEF Recorded
<1>7. QED BY <1>1, <1>2, <1>4, <1>5, <1>6 DEF SubmissionInv, Stands

(* A submission that begins, is verified or is over.                         *)
LEMMA PostsMove ==
    ASSUME SubmissionInv, NEW p \in Presses, NEW x \in PostRow,
           post' = [post EXCEPT ![p] = x],
           x.at = "persist" => Stands(x.tx, x.id, Owner[p]), x.at # "send",
           NEW s \in PressStates, press' = [press EXCEPT ![p] = s],
           s = press[p] \/ s \in {"recorded", "failed"}, jobs' \subseteq Recorded,
           UNCHANGED <<tx, proposals, pending>>
    PROVE  SubmissionInv'
<1>1. post' \in [Presses -> PostRow] /\ \A q \in Presses : post'[q] = IF q = p THEN x ELSE post[q]
  BY DEF SubmissionInv
<1>2. press' \in [Presses -> PressStates] /\ \A q \in Presses : press'[q] = IF q = p THEN s ELSE press[q]
  BY DEF SubmissionInv
<1>3. \A q \in Presses : tx'[q] # "none" => press'[q] \in {"waiting", "submitting", "recorded", "failed"}
  BY <1>2 DEF SubmissionInv
<1>4. ASSUME NEW q \in Presses, post'[q].at = "persist"
      PROVE  Stands(post[q].tx, post[q].id, Owner[q])'
  BY <1>1, <1>4 DEF SubmissionInv, Stands
<1>5. \A q \in Presses : post'[q].at = "send" => post'[q].id \in Recorded
  BY <1>1 DEF SubmissionInv
<1>6. Recorded' = Recorded
  BY DEF Recorded
<1>7. QED BY <1>1, <1>2, <1>3, <1>4, <1>5, <1>6 DEF SubmissionInv, Stands

LEMMA SubmissionStays == SubmissionInv /\ [Submission!Next]_submissionVars => SubmissionInv'
<1> SUFFICES ASSUME SubmissionInv, [Submission!Next]_submissionVars PROVE SubmissionInv'
  OBVIOUS
<1>0. /\ press \in [Presses -> PressStates] /\ post \in [Presses -> PostRow]
      /\ tx \in [Presses -> {"none", "pending", "locked", "reverted"}]
      /\ \A p \in Presses : tx[p] # "none" =>
             press[p] \in {"waiting", "submitting", "recorded", "failed"}
  BY DEF SubmissionInv
<1>1. ASSUME NEW p \in Presses,
             \/ Submission!Press(p) \/ Submission!PrepareBond(p) \/ Submission!ReadAllowance(p)
             \/ Submission!Approve(p) \/ Submission!WaitForApproval(p)
      PROVE  SubmissionInv'
  <2>1. /\ press[p] \in {"form", "preparing", "reading", "approving", "approved"}
        /\ \E s \in PressStates : press' = [press EXCEPT ![p] = s]
        /\ UNCHANGED <<tx, post, proposals, pending, jobs>>
    BY <1>1 DEF Submission!Press, Submission!PrepareBond, Submission!ReadAllowance,
         Submission!Approve, Submission!WaitForApproval, Submission!Moves,
         Submission!chainAndApi, PressStates
  <2>2. tx[p] = "none"
    BY <1>0, <2>1
  <2>3. QED BY <2>1, <2>2, PagesMove
<1>2. ASSUME NEW p \in Presses, Submission!WaitForLock(p) \/ Submission!Fail(p) PROVE SubmissionInv'
  <2>1. /\ \E s \in {"submitting", "failed"} : press' = [press EXCEPT ![p] = s]
        /\ UNCHANGED <<tx, post, proposals, pending, jobs>>
    BY <1>2 DEF Submission!WaitForLock, Submission!Fail, Submission!Moves, Submission!chainAndApi
  <2>2. QED BY <2>1, PagesMove DEF PressStates
<1>3. ASSUME NEW p \in Presses, Submission!SendLock(p) PROVE SubmissionInv'
  <2>1. /\ press[p] = "ready" /\ press' = [press EXCEPT ![p] = "waiting"]
        /\ tx' = [tx EXCEPT ![p] = "pending"] /\ UNCHANGED <<post, proposals, pending, jobs>>
    BY <1>3 DEF Submission!SendLock, Submission!Moves
  <2>2. tx[p] # "locked"
    BY <1>0, <2>1
  <2>3. /\ press' \in [Presses -> PressStates] /\ press'[p] = "waiting"
        /\ \A q \in Presses : press'[q] = press[q] \/ (q = p /\ press'[q] = "waiting")
    BY <1>0, <2>1 DEF PressStates
  <2>4. QED BY <2>1, <2>2, <2>3, LocksMove
<1>4. ASSUME NEW p \in Presses, Submission!Mine(p) PROVE SubmissionInv'
  <2>1. /\ tx[p] = "pending" /\ \E s \in {"locked", "reverted"} : tx' = [tx EXCEPT ![p] = s]
        /\ UNCHANGED <<press, post, proposals, pending, jobs>>
    BY <1>4 DEF Submission!Mine
  <2>2. press[p] \in {"waiting", "submitting", "recorded", "failed"}
    BY <1>0, <2>1
  <2>3. QED BY <1>0, <2>1, <2>2, LocksMove
<1>5. ASSUME NEW p \in Presses, NEW t \in Presses, Submission!Submitted(p, t) PROVE SubmissionInv'
  <2>1. /\ post' = [post EXCEPT ![p] = [at |-> "verify", tx |-> t]]
        /\ UNCHANGED <<press, tx, proposals, pending, jobs>>
    BY <1>5 DEF Submission!Submitted
  <2>2. [at |-> "verify", tx |-> t] \in PostRow
    BY DEF PostRow
  <2>3. press' = [press EXCEPT ![p] = press[p]] /\ press[p] \in PressStates
    BY <1>0, <2>1
  <2>4. jobs' \subseteq Recorded
    BY <2>1 DEF SubmissionInv
  <2>5. QED BY <2>1, <2>2, <2>3, <2>4, PostsMove
<1>6. ASSUME NEW p \in Presses, Submission!VerifyBondReceipt(p) PROVE SubmissionInv'
  <2> DEFINE id == Submission!ProposalId(p, post[p].tx)
             x == [at |-> "persist", tx |-> post[p].tx, id |-> id]
  <2>1. /\ post[p].at = "verify" /\ tx[post[p].tx] = "locked" /\ post[p].tx = id
        /\ Owner[post[p].tx] = Owner[p] /\ post' = [post EXCEPT ![p] = x]
        /\ UNCHANGED <<press, tx, proposals, pending, jobs>>
    BY <1>6 DEF Submission!VerifyBondReceipt, Submission!Locks
  <2>2. post[p].tx \in Presses
    BY <1>0, <2>1 DEF PostRow
  <2>3. x \in PostRow /\ x.at = "persist" /\ x.tx = post[p].tx /\ x.id = id
    BY <2>1, <2>2 DEF PostRow
  <2>4. Stands(x.tx, x.id, Owner[p])
    BY <2>1, <2>3 DEF Stands
  <2>5. press' = [press EXCEPT ![p] = press[p]] /\ press[p] \in PressStates
    BY <1>0, <2>1
  <2>6. jobs' \subseteq Recorded
    BY <2>1 DEF SubmissionInv
  <2>7. x.at # "send"
    BY <2>3
  <2>8. QED BY <2>1, <2>3, <2>4, <2>5, <2>6, <2>7, PostsMove
<1>7. ASSUME NEW p \in Presses, Submission!PersistVerifiedProposal(p) PROVE SubmissionInv'
  <2> DEFINE row == [id |-> post[p].id, key |-> p, tx |-> post[p].tx, by |-> Owner[p]]
             x == [post[p] EXCEPT !.at = "send"]
  <2>1. /\ post[p].at = "persist" /\ \A other \in proposals \ {row} : other.tx # row.tx
        /\ proposals' = proposals \cup {row} /\ pending' \subseteq pending \cup {row.id}
        /\ post' = [post EXCEPT ![p] = x] /\ UNCHANGED <<press, tx, jobs>>
    BY <1>7 DEF Submission!PersistVerifiedProposal
  <2>2. post[p].tx \in Presses /\ post[p].id \in Presses /\ Stands(post[p].tx, post[p].id, Owner[p])
    BY <1>0, <2>1 DEF PostRow, SubmissionInv
  <2>3. row \in ProposalRow /\ Stands(row.tx, row.id, row.by)
    BY <2>2, SubmissionAssumption DEF ProposalRow
  <2>4. x \in PostRow /\ x.at = "send" /\ x.id = row.id
    BY <1>0, <2>1, <2>2 DEF PostRow
  <2>5. post' \in [Presses -> PostRow] /\ \A q \in Presses : post'[q] = IF q = p THEN x ELSE post[q]
    BY <1>0, <2>1, <2>4
  <2>6. Recorded' = Recorded \cup {row.id}
    BY <2>1 DEF Recorded
  <2>7. ASSUME NEW q \in Presses, post'[q].at = "persist"
        PROVE  Stands(post[q].tx, post[q].id, Owner[q])'
    BY <2>7, <2>1, <2>4, <2>5 DEF SubmissionInv, Stands
  <2>8. \A q \in Presses : post'[q].at = "send" => post'[q].id \in Recorded'
    BY <2>4, <2>5, <2>6 DEF SubmissionInv
  <2>9. \A r \in proposals' : Stands(r.tx, r.id, r.by)'
    BY <2>1, <2>3 DEF SubmissionInv, Stands
  <2>10. \A r, other \in proposals' : r.tx = other.tx => r = other
    BY <2>1 DEF SubmissionInv
  <2>11. /\ proposals' \subseteq ProposalRow /\ pending' \subseteq Recorded' /\ jobs' \subseteq Recorded'
    BY <2>1, <2>3, <2>6 DEF SubmissionInv
  <2>12. QED BY <1>0, <2>1, <2>5, <2>7, <2>8, <2>9, <2>10, <2>11 DEF SubmissionInv
<1>8. ASSUME NEW p \in Presses, Submission!QueueJob(p) \/ Submission!RefuseSubmission(p)
      PROVE  SubmissionInv'
  <2>1. /\ \E s \in {"recorded", "failed"} : press' = [press EXCEPT ![p] = s]
        /\ post' = [post EXCEPT ![p] = [at |-> "none"]]
        /\ jobs' = jobs \/ (post[p].at = "send" /\ jobs' = jobs \cup {post[p].id})
        /\ UNCHANGED <<tx, proposals, pending>>
    BY <1>8 DEF Submission!QueueJob, Submission!RefuseSubmission, Submission!Quiet, Submission!None
  <2>2. jobs' \subseteq Recorded
    BY <2>1 DEF SubmissionInv
  <2>3. [at |-> "none"] \in PostRow
    BY DEF PostRow
  <2>4. {"recorded", "failed"} \subseteq PressStates
    BY DEF PressStates
  <2>5. QED BY <2>1, <2>2, <2>3, <2>4, PostsMove
<1>9. ASSUME Submission!Reconcile \/ UNCHANGED submissionVars
             \/ \E t \in Presses : Submission!NameRecovery(t)
      PROVE  SubmissionInv'
  <2>1. UNCHANGED <<press, tx, post, proposals, pending>> /\ jobs' \subseteq jobs \cup pending
    BY <1>9 DEF Submission!Reconcile, Submission!NameRecovery, submissionVars
  <2>2. jobs' \subseteq Recorded
    BY <2>1 DEF SubmissionInv
  <2>3. QED BY <2>1, <2>2 DEF SubmissionInv, Stands, Recorded
<1>10. ASSUME NEW p \in Presses, Submission!SubmitProposal(p) \/ Submission!SubmitAgain(p)
                \/ \E t \in Presses : Submission!RecoverTx(p, t)
       PROVE  SubmissionInv'
  BY <1>5, <1>10 DEF Submission!SubmitProposal, Submission!SubmitAgain, Submission!RecoverTx
<1>11. QED BY <1>1, <1>2, <1>3, <1>4, <1>6, <1>7, <1>8, <1>9, <1>10 DEF Submission!Next

LEMMA RowsAreBonded == SubmissionInv => Submission!RowsStandOnBonds
BY DEF SubmissionInv, Submission!RowsStandOnBonds, Stands, Recorded

----------------------------------------------------------------------------
(* Trades and the totals they were quoted (BaseTrading).                     *)

TradeRow ==
    [step : {"idle", "failed"}] \cup [step : {"quoted"}, total : Nat]
    \cup [step : {"prepared", "sent"}, total : Nat, limit : Nat]
    \cup [step : {"confirmed"}, total : Nat, paid : Nat]

Within(t, total, paid) ==
    /\ Side[t] # "SELL" => (paid - total) * 10000 < total * Slippage[t] + 10000
    /\ Side[t] = "SELL" => (total - paid) * 10000 <= total * Slippage[t] + 9999

(* What a trade is sent with is the bound that its quote and slippage give.  *)
OrdersInv ==
    /\ price \in Nat /\ trade \in [Orders -> TradeRow]
    /\ \A t \in Orders : trade[t].step \in {"prepared", "sent"} =>
           trade[t].limit = BaseOrders!Limit(t, trade[t].total)
    /\ \A t \in Orders : trade[t].step = "confirmed" => Within(t, trade[t].total, trade[t].paid)

LEMMA Division ==
    ASSUME NEW x \in Nat
    PROVE  /\ x \div 10000 \in Nat /\ (x \div 10000) * 10000 <= x
           /\ x < (x \div 10000) * 10000 + 10000
OBVIOUS

LEMMA Product == ASSUME NEW a \in Nat, NEW b \in Nat PROVE a * b \in Nat
OBVIOUS

LEMMA SlippageIsBounded ==
    ASSUME NEW t \in Orders PROVE Slippage[t] \in Nat /\ Slippage[t] <= 10000
BY OrdersAssumption

LEMMA LimitIsNatural ==
    ASSUME NEW t \in Orders, NEW total \in Nat PROVE BaseOrders!Limit(t, total) \in Nat
<1>1. Side[t] \in {"BUY", "SELL", "STAKE"}
  BY OrdersAssumption
<1>3. 10000 + Slippage[t] \in Nat /\ 10000 - Slippage[t] \in Nat
  BY SlippageIsBounded
<1>4. total * (10000 + Slippage[t]) \in Nat /\ total * (10000 - Slippage[t]) \in Nat
  BY <1>3, Product
<1>5. /\ (total * (10000 + Slippage[t]) + 9999) \div 10000 \in Nat
      /\ (total * (10000 - Slippage[t])) \div 10000 \in Nat
  BY <1>4, Division
<1>6. QED BY <1>1, <1>5 DEF BaseOrders!Limit

(* Bounds are rounded for the user, by less than one unit.                   *)
LEMMA LimitIsNear ==
    ASSUME NEW t \in Orders, NEW total \in Nat, NEW paid \in Nat,
           Side[t] = "BUY" => paid <= BaseOrders!Limit(t, total),
           Side[t] = "SELL" => paid >= BaseOrders!Limit(t, total),
           Side[t] = "STAKE" => paid = total
    PROVE  Within(t, total, paid)
<1> DEFINE s == Slippage[t]
<1>1. s \in Nat /\ s <= 10000 /\ Side[t] \in {"BUY", "SELL", "STAKE"}
  BY SlippageIsBounded, OrdersAssumption
<1>2. 10000 - s \in Nat
  BY <1>1
<1>3. total * s \in Nat
  BY <1>1, Product
<1>4. CASE Side[t] = "BUY"
  <2> DEFINE x == total * (10000 + s) + 9999
  <2>1. x = total * 10000 + total * s + 9999 /\ x \in Nat
    BY <1>1, <1>3
  <2>2. paid <= x \div 10000
    BY <1>4 DEF BaseOrders!Limit
  <2>3. x \div 10000 \in Nat /\ (x \div 10000) * 10000 <= x
    BY <2>1, Division
  <2> HIDE DEF x, s
  <2>4. paid * 10000 <= x
    BY <2>2, <2>3, <2>1
  <2>5. (paid - total) * 10000 < total * s + 10000
    BY <1>3, <2>1, <2>4
  <2>6. QED BY <1>4, <2>5 DEF Within, s
<1>5. CASE Side[t] = "SELL"
  <2> DEFINE x == total * (10000 - s)
  <2>1. x = total * 10000 - total * s
    BY <1>1, <1>3
  <2>2. x \in Nat
    BY <1>2, Product
  <2>3. paid >= x \div 10000
    BY <1>5 DEF BaseOrders!Limit
  <2>4. x \div 10000 \in Nat /\ x < (x \div 10000) * 10000 + 10000
    BY <2>2, Division
  <2> HIDE DEF x, s
  <2>5. x < paid * 10000 + 10000
    BY <2>2, <2>3, <2>4
  <2>6. (total - paid) * 10000 <= total * s + 9999
    BY <1>3, <2>1, <2>5
  <2>7. QED BY <1>5, <2>6 DEF Within, s
<1>6. CASE Side[t] = "STAKE"
  BY <1>3, <1>6 DEF Within
<1>7. QED BY <1>1, <1>4, <1>5, <1>6

LEMMA OrdersBegin == BaseOrders!Init => OrdersInv
<1> SUFFICES ASSUME BaseOrders!Init PROVE OrdersInv
  OBVIOUS
<1>1. price \in Nat /\ trade = [t \in Orders |-> [step |-> "idle"]]
  BY OrdersAssumption DEF BaseOrders!Init
<1>2. [step |-> "idle"] \in TradeRow
  BY DEF TradeRow
<1>3. QED BY <1>1, <1>2 DEF OrdersInv

LEMMA OrderMoves ==
    ASSUME OrdersInv, NEW t \in Orders, NEW x \in TradeRow, BaseOrders!Becomes(t, x),
           UNCHANGED price,
           x.step \in {"prepared", "sent"} => x.limit = BaseOrders!Limit(t, x.total),
           x.step = "confirmed" => Within(t, x.total, x.paid)
    PROVE  OrdersInv'
<1>1. trade' = [trade EXCEPT ![t] = x]
  BY DEF BaseOrders!Becomes
<1>2. trade' \in [Orders -> TradeRow] /\ \A o \in Orders : trade'[o] = IF o = t THEN x ELSE trade[o]
  BY <1>1 DEF OrdersInv
<1>3. ASSUME NEW o \in Orders, trade'[o].step \in {"prepared", "sent"}
      PROVE  trade'[o].limit = BaseOrders!Limit(o, trade[o].total)'
  BY <1>2, <1>3, OrdersAssumption DEF OrdersInv, BaseOrders!Limit
<1>4. ASSUME NEW o \in Orders, trade'[o].step = "confirmed"
      PROVE  Within(o, trade[o].total, trade[o].paid)'
  BY <1>2, <1>4 DEF OrdersInv, Within
<1>5. QED BY <1>2, <1>3, <1>4 DEF OrdersInv

LEMMA OrdersStay == OrdersInv /\ [BaseOrders!Next]_orderVars => OrdersInv'
<1> SUFFICES ASSUME OrdersInv, [BaseOrders!Next]_orderVars PROVE OrdersInv'
  OBVIOUS
<1>0. price \in Nat /\ \A t \in Orders : trade[t] \in TradeRow
  BY DEF OrdersInv
<1>1. ASSUME NEW t \in Orders, BaseOrders!LiveQuote(t) PROVE OrdersInv'
  <2>1. \E total \in Nat : BaseOrders!Becomes(t, [step |-> "quoted", total |-> total])
    BY <1>0, <1>1 DEF BaseOrders!LiveQuote
  <2>2. PICK total \in Nat : BaseOrders!Becomes(t, [step |-> "quoted", total |-> total])
    BY <2>1
  <2>3. [step |-> "quoted", total |-> total] \in TradeRow
    BY DEF TradeRow
  <2>4. UNCHANGED price
    BY <1>1 DEF BaseOrders!LiveQuote
  <2>5. QED BY <2>2, <2>3, <2>4, OrderMoves
<1>2. ASSUME NEW t \in Orders, BaseOrders!PrepareTrade(t) PROVE OrdersInv'
  <2> DEFINE x == [step |-> "prepared", total |-> trade[t].total,
                   limit |-> BaseOrders!Limit(t, trade[t].total)]
  <2>1. trade[t].step = "quoted" /\ BaseOrders!Becomes(t, x) /\ UNCHANGED price
    BY <1>2 DEF BaseOrders!PrepareTrade
  <2>2. trade[t].total \in Nat
    BY <1>0, <2>1 DEF TradeRow
  <2>3. BaseOrders!Limit(t, trade[t].total) \in Nat
    BY <2>2, LimitIsNatural
  <2>4. x \in TradeRow /\ x.step = "prepared" /\ x.limit = BaseOrders!Limit(t, x.total)
    BY <2>2, <2>3 DEF TradeRow
  <2> HIDE DEF x
  <2>5. x.step # "confirmed"
    BY <2>4
  <2>6. QED BY <2>1, <2>4, <2>5, OrderMoves
<1>3. ASSUME NEW t \in Orders, BaseOrders!SendTrade(t) PROVE OrdersInv'
  <2> DEFINE x == [trade[t] EXCEPT !.step = "sent"]
  <2>1. trade[t].step = "prepared" /\ BaseOrders!Becomes(t, x) /\ UNCHANGED price
    BY <1>3 DEF BaseOrders!SendTrade
  <2>2. trade[t] \in [step : {"prepared", "sent"}, total : Nat, limit : Nat]
    BY <1>0, <2>1 DEF TradeRow
  <2>3. x \in TradeRow /\ x.step = "sent" /\ x.limit = trade[t].limit /\ x.total = trade[t].total
    BY <2>2 DEF TradeRow
  <2>4. trade[t].limit = BaseOrders!Limit(t, trade[t].total)
    BY <2>1 DEF OrdersInv
  <2> HIDE DEF x
  <2>5. x.step # "confirmed" /\ x.limit = BaseOrders!Limit(t, x.total)
    BY <2>3, <2>4
  <2>6. QED BY <2>1, <2>3, <2>5, OrderMoves
<1>4. ASSUME NEW t \in Orders, BaseOrders!Becomes(t, [step |-> "failed"]), UNCHANGED price
      PROVE  OrdersInv'
  <2>1. [step |-> "failed"] \in TradeRow
    BY DEF TradeRow
  <2>2. QED BY <1>4, <2>1, OrderMoves
<1>5. ASSUME NEW t \in Orders, BaseOrders!Confirm(t) PROVE OrdersInv'
  <2> DEFINE paid == IF Side[t] = "STAKE" THEN trade[t].limit ELSE price
             x == [step |-> "confirmed", total |-> trade[t].total, paid |-> paid]
  <2>1. trade[t].step = "sent" /\ UNCHANGED price
    BY <1>5 DEF BaseOrders!Confirm
  <2>2. trade[t].total \in Nat /\ trade[t].limit \in Nat
         /\ trade[t].limit = BaseOrders!Limit(t, trade[t].total)
    BY <1>0, <2>1 DEF TradeRow, OrdersInv
  <2>3. CASE BaseOrders!Passes(t) /\ BaseOrders!Becomes(t, x)
    <3>1. paid \in Nat /\ x \in TradeRow /\ x.step = "confirmed"
           /\ x.total = trade[t].total /\ x.paid = paid
      BY <1>0, <2>2 DEF TradeRow
    <3>2. /\ Side[t] = "BUY" => paid <= trade[t].limit
          /\ Side[t] = "SELL" => paid >= trade[t].limit
      BY <2>3 DEF BaseOrders!Passes
    <3>3. Side[t] = "STAKE" => paid = trade[t].total
      BY <2>2 DEF BaseOrders!Limit
    <3> HIDE DEF paid
    <3>4. Within(t, trade[t].total, paid)
      BY <2>2, <3>1, <3>2, <3>3, LimitIsNear
    <3> HIDE DEF x
    <3>5. x.step \notin {"prepared", "sent"} /\ Within(t, x.total, x.paid)
      BY <3>1, <3>4
    <3>6. QED BY <2>1, <2>3, <3>1, <3>5, OrderMoves
  <2>4. CASE BaseOrders!Becomes(t, [step |-> "failed"])
    BY <1>4, <2>1, <2>4
  <2>5. QED BY <1>5, <2>3, <2>4 DEF BaseOrders!Confirm
<1>6. ASSUME NEW t \in Orders, BaseOrders!Refuse(t) PROVE OrdersInv'
  BY <1>4, <1>6 DEF BaseOrders!Refuse
<1>7. CASE BaseOrders!OthersTrade \/ BaseOrders!MarketMovesOn \/ BaseOrders!IndexerCatchesUp
           \/ UNCHANGED orderVars
  <2>1. price' \in Nat /\ UNCHANGED trade
    BY <1>0, <1>7, OrdersAssumption
       DEF BaseOrders!OthersTrade, BaseOrders!MarketMovesOn, BaseOrders!IndexerCatchesUp, orderVars
  <2>2. QED BY <2>1, OrdersAssumption DEF OrdersInv, BaseOrders!Limit, Within
<1>8. QED BY <1>1, <1>2, <1>3, <1>5, <1>6, <1>7 DEF BaseOrders!Next

LEMMA TradesAreNear == OrdersInv => BaseOrders!TradesStayNearTheirQuote
BY DEF OrdersInv, BaseOrders!TradesStayNearTheirQuote, BaseOrders!Buying, Within

----------------------------------------------------------------------------
(* The list of markets (Discovery).                                          *)

PageRow == [loaded : BOOLEAN, items : SUBSET Listed, next : Listed \cup {0}]
MoreRow == [at : {"none"}] \cup [at : {"asked"}, filter : Filters, cursor : Listed, run : Nat]

Shown(items) == items \subseteq {m \in 1 .. created : Class[m] = filter}
SameSecond(o, m) == o > m /\ CreatedAt[o] \div SECOND = CreatedAt[m] \div SECOND
Unbroken(items) ==
    \A m \in 1 .. created : Class[m] = filter /\ (\E o \in items : o > m) /\ (\E o \in items : o < m)
        => m \in items \/ \E o \in items : SameSecond(o, m)

PagesInv ==
    /\ created \in Listed \cup {0} /\ filter \in Filters /\ first \in {"none", filter}
    /\ page \in PageRow /\ more \in [Mores -> MoreRow] /\ changes \in Nat
    /\ first = "none" => Shown(page.items)

(* A request made since the filter was last chosen is of the filter of now,  *)
(* and its cursor is a row that is shown.                                    *)
PlaceInv ==
    /\ \A m \in Mores : more[m].at = "asked" => more[m].run <= changes
    /\ \A m \in Mores : more[m].at = "asked" /\ more[m].run = changes =>
           first = "none" /\ more[m].filter = filter /\ more[m].cursor \in page.items
    /\ first = "none" => page.next \in page.items \cup {0}
    /\ first = "none" /\ ~stray => Unbroken(page.items)

LEMMA PagesCountAlike == \A S : Pages!Cardinality(S) = Cardinality(S)
BY DEF Pages!Cardinality, Cardinality

(* A page holds the newest of its rows, and one of them if there are any.    *)
LEMMA NewestRows ==
    ASSUME NEW n \in Nat, NEW R \in SUBSET (1 .. n)
    PROVE  /\ Pages!Newest(R) \subseteq R
           /\ \A m \in Pages!Newest(R), o \in R : o > m => o \in Pages!Newest(R)
           /\ R # Pages!Newest(R) => Pages!Min(Pages!Newest(R)) \in Pages!Newest(R)
<1> DEFINE Above(m) == {o \in R : o > m}
<1>0. R \subseteq Nat
  OBVIOUS
<1>1. IsFiniteSet(R)
  <2>1. IsFiniteSet(1 .. n)
    BY FS_Interval
  <2>2. QED BY <2>1, FS_Subset
<1>2. \A m : IsFiniteSet(Above(m)) /\ Cardinality(Above(m)) \in Nat
  BY <1>1, FS_Subset, FS_CardinalityType
<1>3. Pages!Newest(R) = {m \in R : Cardinality(Above(m)) < ListLimit}
  BY PagesCountAlike DEF Pages!Newest
<1>4. ASSUME NEW m \in Pages!Newest(R), NEW o \in R, o > m PROVE o \in Pages!Newest(R)
  <2>1. m \in R /\ Cardinality(Above(m)) < ListLimit
    BY <1>3, <1>4
  <2>2. Above(o) \subseteq Above(m)
    <3>1. m \in Nat /\ o \in Nat /\ o > m
      BY <1>0, <1>4, <2>1
    <3>2. \A x \in R : x \in Nat /\ (x > o => x > m)
      BY <1>0, <3>1
    <3>3. QED BY <3>2
  <2>3. Cardinality(Above(o)) <= Cardinality(Above(m))
    BY <1>2, <2>2, FS_Subset
  <2> HIDE DEF Above
  <2>4. Cardinality(Above(o)) < ListLimit
    BY <1>2, <2>1, <2>3, PagesAssumption
  <2>5. QED BY <1>3, <2>4
<1>5. ASSUME R # Pages!Newest(R) PROVE Pages!Min(Pages!Newest(R)) \in Pages!Newest(R)
  <2> DEFINE Gaps == {n - m : m \in R}
  <2>1. Gaps # {} /\ Gaps \in SUBSET Nat
    <3>1. R # {}
      BY <1>3, <1>5
    <3>2. \A m \in R : n - m \in Nat
      OBVIOUS
    <3>3. QED BY <3>1, <3>2
  <2>2. PICK b \in Gaps : \A c \in Gaps : b <= c
    BY <2>1, LeastExists
  <2>3. PICK top \in R : b = n - top
    BY <2>2
  <2>4. ASSUME NEW o \in R PROVE ~(o > top)
    <3>1. b <= n - o /\ b = n - top /\ n \in Nat /\ o \in Nat /\ top \in Nat
      BY <1>0, <2>2, <2>3
    <3>2. QED BY <3>1
  <2>5. Above(top) = {}
    BY <2>4
  <2>6. Cardinality(Above(top)) = 0
    BY <2>5, FS_EmptySet
  <2>7. top \in Pages!Newest(R)
    BY <1>3, <2>6, PagesAssumption
  <2>8. Pages!Newest(R) \in SUBSET Nat
    BY <1>0, <1>3
  <2>9. \E x \in Pages!Newest(R) : \A y \in Pages!Newest(R) : x <= y
    BY <2>7, <2>8, LeastExists
  <2>10. QED BY <2>9 DEF Pages!Min
<1>6. QED BY <1>3, <1>4, <1>5

(* What the API answers is of the filter and before the cursor, the newest   *)
(* first, and its cursor is the last of it.                                  *)
LEMMA ListedPage ==
    ASSUME PagesInv, NEW f \in Filters, NEW k \in Listed \cup {0}
    PROVE  LET R == Pages!Matching(f, k) A == Pages!ListMarkets(f, k) IN
           /\ R = {m \in 1 .. created : Class[m] = f /\ Pages!BeforeCursor(m, k)}
           /\ R \subseteq 1 .. created
           /\ A \in PageRow /\ A.items \subseteq R /\ A.next \in A.items \cup {0}
           /\ \A m \in A.items, o \in R : o > m => o \in A.items
<1> DEFINE R == Pages!Matching(f, k)
           A == Pages!ListMarkets(f, k)
           N == Pages!Newest(R)
<1>1. R = {m \in 1 .. created : Class[m] = f /\ Pages!BeforeCursor(m, k)}
  BY DEF Pages!Matching
<1>2. created \in Nat /\ 1 .. created \subseteq Listed
  BY PagesAssumption DEF PagesInv, Listed
<1>3. R \in SUBSET (1 .. created)
  BY <1>1
<1> HIDE DEF R
<1>4. /\ N \subseteq R /\ \A m \in N, o \in R : o > m => o \in N
      /\ R # N => Pages!Min(N) \in N
  BY <1>2, <1>3, NewestRows
<1> HIDE DEF N
<1>5. A = [loaded |-> TRUE, items |-> N, next |-> IF R = N THEN 0 ELSE Pages!Min(N)]
  BY DEF Pages!ListMarkets, N, R, Pages!Start
<1> HIDE DEF A
<1>6. N \subseteq Listed /\ (IF R = N THEN 0 ELSE Pages!Min(N)) \in N \cup {0}
  BY <1>2, <1>3, <1>4
<1>7. A.items = N /\ A.next \in N \cup {0} /\ A \in PageRow
  BY <1>5, <1>6 DEF PageRow
<1>8. QED BY <1>1, <1>3, <1>4, <1>7 DEF R, A

LEMMA PagesBegin == Pages!Init => PagesInv /\ PlaceInv
<1> SUFFICES ASSUME Pages!Init PROVE PagesInv /\ PlaceInv
  OBVIOUS
<1>1. /\ created \in Listed \cup {0} /\ filter \in Filters /\ first = filter /\ changes = 0
      /\ page = [loaded |-> FALSE, items |-> {}, next |-> 0]
      /\ more = [m \in Mores |-> [at |-> "none"]] /\ stray = FALSE
  BY DEF Pages!Init, Pages!Absent, Pages!Start, Pages!Off, Pages!None
<1>2. page \in PageRow /\ [at |-> "none"] \in MoreRow
  BY <1>1 DEF PageRow, MoreRow
<1>3. first # "none"
  BY <1>1, PagesAssumption
<1>4. QED BY <1>1, <1>2, <1>3 DEF PagesInv, PlaceInv

(* A request for more that is made, answered or fails.                       *)
LEMMA MoreMoves ==
    ASSUME PagesInv, NEW m \in Mores, NEW x \in MoreRow, more' = [more EXCEPT ![m] = x]
    PROVE  more' \in [Mores -> MoreRow] /\ \A o \in Mores : more'[o] = IF o = m THEN x ELSE more[o]
BY DEF PagesInv

LEMMA PagesStay == PagesInv /\ [Pages!Next]_pageVars => PagesInv'
<1> SUFFICES ASSUME PagesInv, [Pages!Next]_pageVars PROVE PagesInv'
  OBVIOUS
<1>0. /\ created \in Listed \cup {0} /\ filter \in Filters /\ first \in {"none", filter}
      /\ page \in PageRow /\ more \in [Mores -> MoreRow] /\ "none" \notin Filters
      /\ changes \in Nat
  BY PagesAssumption DEF PagesInv
<1>1. CASE Pages!CreateMarket
  <2>1. created' \in Listed /\ created' = created + 1 /\ UNCHANGED <<filter, first, page, more, changes>>
    BY <1>1 DEF Pages!CreateMarket
  <2>2. 1 .. created \subseteq 1 .. created'
    BY <1>0, <2>1 DEF Listed
  <2>3. QED BY <2>1, <2>2 DEF PagesInv, Shown
<1>2. ASSUME NEW f \in Filters, Pages!ChangeFilter(f) PROVE PagesInv'
  <2>1. filter' = f /\ first' = f /\ changes' = changes + 1 /\ UNCHANGED <<created, page, more>>
    BY <1>2 DEF Pages!ChangeFilter
  <2>2. QED BY <1>0, <2>1 DEF PagesInv
<1>3. CASE Pages!FirstPage
  <2>1. /\ first = filter /\ first' = "none" /\ UNCHANGED <<created, filter, more, changes>>
        /\ page' = Pages!ListMarkets(filter, 0) \/ page' = [loaded |-> FALSE, items |-> {}, next |-> 0]
    BY <1>0, <1>3 DEF Pages!FirstPage, Pages!Start, Pages!None, Pages!Absent
  <2>2. CASE page' = Pages!ListMarkets(filter, 0)
    BY <1>0, <2>1, <2>2, ListedPage DEF PagesInv, Shown
  <2>3. CASE page' = [loaded |-> FALSE, items |-> {}, next |-> 0]
    BY <1>0, <2>1, <2>3 DEF PagesInv, Shown, PageRow
  <2>4. QED BY <2>1, <2>2, <2>3
<1>4. ASSUME NEW m \in Mores, Pages!LoadMore(m) PROVE PagesInv'
  <2> DEFINE x == [at |-> "asked", filter |-> filter, cursor |-> page.next, run |-> changes]
  <2>1. /\ page.next # 0 /\ more' = [more EXCEPT ![m] = x]
        /\ UNCHANGED <<created, filter, first, page, changes>>
    BY <1>4 DEF Pages!LoadMore, Pages!Start
  <2>2. x \in MoreRow
    BY <1>0, <2>1 DEF MoreRow, PageRow
  <2>3. more' \in [Mores -> MoreRow]
    BY <2>1, <2>2, MoreMoves
  <2>4. QED BY <1>0, <2>1, <2>3 DEF PagesInv, Shown
<1>5. ASSUME NEW m \in Mores, Pages!AnswerMore(m) PROVE PagesInv'
  <2> DEFINE A == Pages!ListMarkets(more[m].filter, more[m].cursor)
  <2>1. /\ more[m].at = "asked" /\ more' = [more EXCEPT ![m] = [at |-> "none"]]
        /\ page' = IF more[m].filter = filter THEN [A EXCEPT !.items = @ \cup page.items] ELSE page
        /\ UNCHANGED <<created, filter, first, changes>>
    BY <1>5 DEF Pages!AnswerMore, Pages!Append, Pages!Off, Pages!None
  <2>2. more' \in [Mores -> MoreRow]
    BY <2>1, MoreMoves DEF MoreRow
  <2>3. more[m].filter \in Filters /\ more[m].cursor \in Listed \cup {0}
    BY <1>0, <2>1 DEF MoreRow
  <2>4. /\ A \in PageRow
        /\ A.items \subseteq {n \in 1 .. created : Class[n] = more[m].filter}
    BY <2>3, ListedPage
  <2> HIDE DEF A
  <2>5. page' \in PageRow
    BY <1>0, <2>1, <2>4 DEF PageRow
  <2>6. ASSUME first' = "none" PROVE Shown(page.items)'
    <3>1. Shown(page.items)
      BY <2>1, <2>6 DEF PagesInv
    <3>2. page'.items \subseteq page.items \cup {n \in 1 .. created : Class[n] = filter}
      BY <2>1, <2>4 DEF PageRow
    <3>3. QED BY <2>1, <3>1, <3>2 DEF Shown
  <2>7. QED BY <1>0, <2>1, <2>2, <2>5, <2>6 DEF PagesInv
<1>6. ASSUME NEW m \in Mores, Pages!FailMore(m) PROVE PagesInv'
  <2>1. more' = [more EXCEPT ![m] = [at |-> "none"]] /\ UNCHANGED <<created, filter, first, page, changes>>
    BY <1>6 DEF Pages!FailMore, Pages!Off, Pages!None
  <2>2. more' \in [Mores -> MoreRow]
    BY <2>1, MoreMoves DEF MoreRow
  <2>3. QED BY <1>0, <2>1, <2>2 DEF PagesInv, Shown
<1>7. CASE UNCHANGED pageVars \/ \E f \in Filters : Pages!CancelledPage(f)
  BY <1>7 DEF pageVars, Pages!CancelledPage, PagesInv, Shown
<1>8. QED BY <1>1, <1>2, <1>3, <1>4, <1>5, <1>6, <1>7 DEF Pages!Next

LEMMA ShownIsOfTheFilter == PagesInv => Pages!ShownMatchesTheFilter
BY DEF PagesInv, Pages!ShownMatchesTheFilter, Shown, Pages!None

(* Times from the start of a second to one in it are of that second.         *)
LEMMA SameSecondBelow ==
    ASSUME NEW d \in Nat \ {0}, NEW a \in Nat, NEW b \in Nat, d * (a \div d) <= b, b <= a
    PROVE  a \div d = b \div d
<1>1. \A x \in Nat : x \div d \in Nat /\ d * (x \div d) <= x /\ x < d * (x \div d) + d
  OBVIOUS
<1> DEFINE q == a \div d
           r == b \div d
<1>2. /\ q \in Nat /\ r \in Nat /\ d * q <= b /\ b <= a /\ a < d * q + d
      /\ d * r <= b /\ b < d * r + d
  BY <1>1
<1> HIDE DEF q, r
<1>3. \A x \in Nat, y \in Nat : x < y => d * x + d <= d * y
  <2> TAKE x \in Nat, y \in Nat
  <2>1. ASSUME x < y PROVE d * x + d <= d * y
    <3>1. PICK z \in Nat : y = x + 1 + z
      BY <2>1
    <3>2. d * y = d * x + d + d * z /\ d * z >= 0
      BY <3>1
    <3>3. QED BY <3>2
  <2>2. QED BY <2>1
<1>4. ~(q < r)
  <2>1. d * q \in Nat /\ d * r \in Nat
    BY <1>2
  <2>2. q < r => d * q + d <= d * r
    BY <1>2, <1>3
  <2>3. QED BY <1>2, <2>1, <2>2
<1>5. ~(r < q)
  <2>1. d * q \in Nat /\ d * r \in Nat
    BY <1>2
  <2>2. r < q => d * r + d <= d * q
    BY <1>2, <1>3
  <2>3. QED BY <1>2, <2>1, <2>2
<1>6. QED BY <1>2, <1>4, <1>5 DEF q, r

(* The rows before a row's cursor are older than it; of the older ones, only *)
(* rows of its second are not before it.                                     *)
LEMMA CursorIsNear ==
    ASSUME NEW m \in Listed, NEW k \in Listed
    PROVE  /\ Pages!BeforeCursor(m, k) => m < k
           /\ m < k /\ ~Pages!BeforeCursor(m, k) => SameSecond(k, m)
<1> DEFINE sec == CreatedAt[k] \div SECOND
<1>1. /\ m \in Nat /\ k \in Nat /\ k # 0 /\ CreatedAt[m] \in Nat /\ CreatedAt[k] \in Nat
      /\ Id[m] \in Nat /\ Id[k] \in Nat /\ SECOND \in Nat \ {0}
      /\ m < k => CreatedAt[m] < CreatedAt[k] \/ (CreatedAt[m] = CreatedAt[k] /\ Id[m] < Id[k])
      /\ k < m => CreatedAt[k] < CreatedAt[m] \/ (CreatedAt[k] = CreatedAt[m] /\ Id[k] < Id[m])
  BY PagesAssumption DEF Listed
<1>2. Pages!BeforeCursor(m, k) <=>
        CreatedAt[m] < SECOND * sec \/ (CreatedAt[m] = SECOND * sec /\ Id[m] < Id[k])
  BY <1>1 DEF Pages!BeforeCursor, Pages!SecondOf, Pages!Start
<1>3. sec \in Nat /\ SECOND * sec <= CreatedAt[k]
  BY <1>1
<1> HIDE DEF sec
<1>4. SECOND * sec \in Nat
  BY <1>1, <1>3
<1>5. Pages!BeforeCursor(m, k) => m < k
  BY <1>1, <1>2, <1>3, <1>4
<1>6. ASSUME m < k, ~Pages!BeforeCursor(m, k) PROVE SameSecond(k, m)
  <2>1. SECOND * sec <= CreatedAt[m] /\ CreatedAt[m] <= CreatedAt[k]
    BY <1>1, <1>2, <1>4, <1>6
  <2>2. CreatedAt[k] \div SECOND = CreatedAt[m] \div SECOND
    BY <1>1, <2>1, SameSecondBelow DEF sec
  <2>3. QED BY <1>1, <1>6, <2>2 DEF SameSecond
<1>7. QED BY <1>5, <1>6

(* What comes after a row that is shown leaves no gap but in its second.     *)
LEMMA PagesJoin ==
    ASSUME PagesInv, NEW k \in Listed, k \in page.items, Shown(page.items),
           Unbroken(page.items)
    PROVE  Unbroken(page.items \cup Pages!ListMarkets(filter, k).items)
<1> DEFINE A == Pages!ListMarkets(filter, k)
           R == Pages!Matching(filter, k)
<1>1. filter \in Filters /\ k \in Listed \cup {0}
  BY DEF PagesInv
<1>2. /\ R = {m \in 1 .. created : Class[m] = filter /\ Pages!BeforeCursor(m, k)}
      /\ A.items \subseteq R /\ \A m \in A.items, o \in R : o > m => o \in A.items
  BY <1>1, ListedPage
<1> HIDE DEF A, R
<1>3. created \in Nat /\ 1 .. created \subseteq Listed /\ 1 .. created \subseteq Nat /\ k \in Nat /\ k # 0
  BY PagesAssumption DEF PagesInv, Listed
<1>5. \A m \in R : m \in Nat /\ m < k
  BY <1>2, <1>3, CursorIsNear
<1>7. SUFFICES ASSUME NEW m \in 1 .. created, Class[m] = filter,
                      NEW hi \in page.items \cup A.items, hi > m,
                      NEW lo \in page.items \cup A.items, lo < m
               PROVE  \/ m \in page.items \cup A.items
                      \/ \E o \in page.items \cup A.items : SameSecond(o, m)
  BY DEF Unbroken, A
<1>8. page.items \subseteq 1 .. created /\ A.items \subseteq 1 .. created
  BY <1>2 DEF Shown
<1>9. m \in Nat /\ hi \in Nat /\ lo \in Nat
  BY <1>3, <1>7, <1>8
<1>10. CASE m = k
  BY <1>10
<1>11. CASE m > k
  <2>1. hi \notin A.items
    BY <1>2, <1>3, <1>5, <1>7, <1>9, <1>11
  <2>2. hi \in page.items
    BY <1>7, <2>1
  <2>3. QED BY <1>7, <1>11, <2>2 DEF Unbroken
<1>12. CASE m < k
  <2>1. CASE m \notin R
    <3>1. ~Pages!BeforeCursor(m, k) /\ m \in Listed
      BY <1>2, <1>3, <1>7, <2>1
    <3>2. SameSecond(k, m)
      BY <1>12, <3>1, CursorIsNear
    <3>3. QED BY <3>2
  <2>2. CASE m \in R /\ lo \in A.items
    BY <1>2, <1>7, <1>9, <2>2
  <2>3. CASE lo \in page.items
    BY <1>3, <1>7, <1>9, <1>12, <2>3 DEF Unbroken
  <2>4. QED BY <1>7, <2>1, <2>2, <2>3
<1>13. QED BY <1>3, <1>9, <1>10, <1>11, <1>12

LEMMA PlaceStays == PagesInv /\ PlaceInv /\ [Pages!Next]_pageVars => PlaceInv'
<1> SUFFICES ASSUME PagesInv, PlaceInv, [Pages!Next]_pageVars PROVE PlaceInv'
  OBVIOUS
<1>0. /\ created \in Listed \cup {0} /\ filter \in Filters /\ first \in {"none", filter}
      /\ page \in PageRow /\ more \in [Mores -> MoreRow] /\ "none" \notin Filters
      /\ changes \in Nat
  BY PagesAssumption DEF PagesInv, PlaceInv
<1>1. CASE Pages!CreateMarket
  <2>1. created' \in Listed /\ created' = created + 1
        /\ UNCHANGED <<filter, changes, first, page, more, stray>>
    BY <1>1 DEF Pages!CreateMarket
  <2>2. ASSUME first = "none", ~stray PROVE Unbroken(page.items)'
    <3>1. Shown(page.items) /\ Unbroken(page.items)
      BY <2>2 DEF PagesInv, PlaceInv
    <3>2. SUFFICES ASSUME NEW m \in 1 .. created', Class[m] = filter,
                          \E o \in page.items : o > m, \E o \in page.items : o < m
                   PROVE  m \in page.items \/ \E o \in page.items : SameSecond(o, m)
      BY <2>1 DEF Unbroken, SameSecond
    <3>3. created \in Nat /\ m \in Nat /\ page.items \subseteq 1 .. created
      BY <1>0, <2>1, <3>1, <3>2 DEF Shown, Listed
    <3>4. PICK o \in page.items : o > m
      BY <3>2
    <3>5. m \in 1 .. created
      BY <3>2, <3>3, <3>4
    <3>6. QED BY <3>1, <3>2, <3>5 DEF Unbroken
  <2>3. QED BY <2>1, <2>2 DEF PlaceInv
<1>2. ASSUME NEW f \in Filters, Pages!ChangeFilter(f) PROVE PlaceInv'
  <2>1. filter' = f /\ changes' = changes + 1 /\ first' = f /\ UNCHANGED more
    BY <1>2 DEF Pages!ChangeFilter
  <2>2. first' # "none"
    BY <1>0, <2>1
  <2>3. \A m \in Mores : more'[m].at = "asked" => more'[m].run \in Nat /\ more'[m].run <= changes
    BY <1>0, <2>1 DEF PlaceInv, MoreRow
  <2>4. QED BY <1>0, <2>1, <2>2, <2>3 DEF PlaceInv
<1>3. CASE Pages!FirstPage
  <2>1. /\ first # "none" /\ first = filter /\ first' = "none"
        /\ UNCHANGED <<created, filter, changes, more>>
        /\ page' = Pages!ListMarkets(filter, 0) \/ page' = [loaded |-> FALSE, items |-> {}, next |-> 0]
    BY <1>0, <1>3 DEF Pages!FirstPage, Pages!Start, Pages!None, Pages!Absent
  <2>2. \A m \in Mores : more[m].at = "asked" => more[m].run # changes
    BY <2>1 DEF PlaceInv
  <2>3. page'.next \in page'.items \cup {0} /\ Unbroken(page.items)'
    <3>1. CASE page' = [loaded |-> FALSE, items |-> {}, next |-> 0]
      BY <3>1 DEF Unbroken
    <3>2. CASE page' = Pages!ListMarkets(filter, 0)
      <4> DEFINE A == Pages!ListMarkets(filter, 0)
                 R == Pages!Matching(filter, 0)
      <4>1. /\ R = {m \in 1 .. created : Class[m] = filter} /\ A.items \subseteq R
            /\ A.next \in A.items \cup {0} /\ \A m \in A.items, o \in R : o > m => o \in A.items
        <5>1. /\ R = {m \in 1 .. created : Class[m] = filter /\ Pages!BeforeCursor(m, 0)}
              /\ A.items \subseteq R /\ A.next \in A.items \cup {0}
              /\ \A m \in A.items, o \in R : o > m => o \in A.items
          BY <1>0, ListedPage
        <5>2. \A m : Pages!BeforeCursor(m, 0)
          BY DEF Pages!BeforeCursor, Pages!Start
        <5>3. QED BY <5>1, <5>2
      <4> HIDE DEF A, R
      <4>2. page' = A
        BY <3>2 DEF A
      <4>3. SUFFICES ASSUME NEW m \in 1 .. created, Class[m] = filter,
                            NEW lo \in A.items, lo < m
                     PROVE  m \in A.items
        BY <2>1, <4>1, <4>2 DEF Unbroken
      <4>4. m \in R /\ m \in Nat /\ lo \in Nat
        BY <1>0, <4>1, <4>3 DEF Listed
      <4>5. QED BY <4>1, <4>3, <4>4
    <3>3. QED BY <2>1, <3>1, <3>2
  <2>4. QED BY <1>0, <2>1, <2>2, <2>3 DEF PlaceInv
<1>4. ASSUME NEW m \in Mores, Pages!LoadMore(m) PROVE PlaceInv'
  <2> DEFINE x == [at |-> "asked", filter |-> filter, cursor |-> page.next, run |-> changes]
  <2>1. /\ first = "none" /\ page.next # 0 /\ more' = [more EXCEPT ![m] = x]
        /\ UNCHANGED <<created, filter, changes, first, page, stray>>
    BY <1>4 DEF Pages!LoadMore, Pages!Start, Pages!None
  <2>2. page.next \in page.items
    BY <2>1 DEF PlaceInv
  <2>3. x \in MoreRow
    BY <1>0, <2>1 DEF MoreRow, PageRow
  <2>4. \A o \in Mores : more'[o] = IF o = m THEN x ELSE more[o]
    BY <2>1, <2>3, MoreMoves
  <2>5. x.filter = filter /\ x.cursor \in page.items /\ x.run = changes
    BY <2>2
  <2> HIDE DEF x
  <2>6. x.run <= changes
    BY <1>0, <2>5
  <2>7. Unbroken(page.items)' <=> Unbroken(page.items)
    BY <2>1 DEF Unbroken, SameSecond
  <2>8. QED BY <2>1, <2>4, <2>5, <2>6, <2>7 DEF PlaceInv
<1>5. ASSUME NEW m \in Mores, Pages!AnswerMore(m) PROVE PlaceInv'
  <2> DEFINE A == Pages!ListMarkets(more[m].filter, more[m].cursor)
  <2>1. /\ more[m].at = "asked" /\ more' = [more EXCEPT ![m] = [at |-> "none"]]
        /\ page' = IF more[m].filter = filter THEN [A EXCEPT !.items = @ \cup page.items] ELSE page
        /\ stray' = (stray \/ (more[m].filter = filter /\ more[m].run # changes))
        /\ UNCHANGED <<created, filter, changes, first>>
    BY <1>5 DEF Pages!AnswerMore, Pages!Append, Pages!Off, Pages!None
  <2>2. \A o \in Mores : more'[o] = IF o = m THEN [at |-> "none"] ELSE more[o]
    BY <2>1, MoreMoves DEF MoreRow
  <2>3. \A o \in Mores : more'[o].at = "asked" => more'[o] = more[o]
    BY <2>2
  <2>4. CASE more[m].filter # filter
    <3>1. page' = page
      BY <2>1, <2>4
    <3>2. QED BY <2>1, <2>3, <3>1 DEF PlaceInv, Unbroken
  <2>5. CASE more[m].filter = filter
    <3> DEFINE k == more[m].cursor
    <3>1. k \in Listed
      BY <1>0, <2>1 DEF MoreRow
    <3>2. A \in PageRow /\ A.next \in A.items \cup {0}
      BY <1>0, <2>5, <3>1, ListedPage
    <3>3. ASSUME first = "none", ~stray' PROVE Unbroken(page.items \cup A.items)
      <4>1. ~stray /\ more[m].run = changes
        BY <2>1, <2>5, <3>3
      <4>2. k \in page.items /\ Shown(page.items) /\ Unbroken(page.items)
        BY <2>1, <3>3, <4>1 DEF PagesInv, PlaceInv
      <4>3. QED BY <2>5, <3>1, <4>2, PagesJoin
    <3> HIDE DEF A, k
    <3>4. page'.items = page.items \cup A.items /\ page'.next = A.next
      BY <2>1, <2>5, <3>2 DEF PageRow
    <3>5. ASSUME first' = "none", ~stray' PROVE Unbroken(page.items)'
      BY <2>1, <3>3, <3>4, <3>5 DEF Unbroken, SameSecond
    <3>6. page.items \subseteq page'.items /\ page'.next \in page'.items \cup {0}
      BY <3>2, <3>4
    <3>7. QED BY <2>1, <2>3, <3>5, <3>6 DEF PlaceInv
  <2>6. QED BY <2>4, <2>5
<1>6. ASSUME NEW m \in Mores, Pages!FailMore(m) PROVE PlaceInv'
  <2>1. /\ more' = [more EXCEPT ![m] = [at |-> "none"]]
        /\ UNCHANGED <<created, filter, changes, first, page, stray>>
    BY <1>6 DEF Pages!FailMore, Pages!Off, Pages!None
  <2>2. \A o \in Mores : more'[o] = IF o = m THEN [at |-> "none"] ELSE more[o]
    BY <2>1, MoreMoves DEF MoreRow
  <2>3. QED BY <2>1, <2>2 DEF PlaceInv, Unbroken
<1>7. CASE UNCHANGED pageVars \/ \E f \in Filters : Pages!CancelledPage(f)
  BY <1>7 DEF pageVars, Pages!CancelledPage, PlaceInv, Unbroken
<1>8. QED BY <1>1, <1>2, <1>3, <1>4, <1>5, <1>6, <1>7 DEF Pages!Next

LEMMA PagesAreWhole == PlaceInv => Pages!NothingIsSkipped
BY DEF PlaceInv, Pages!NothingIsSkipped, Unbroken, SameSecond, Pages!SecondOf, Pages!None

----------------------------------------------------------------------------
(* From its initial states and by every step, the application keeps each     *)
(* part's invariant: the part at work by its own lemma, the others at rest.  *)
LEMMA PartsAreApart ==
    [Next]_vars =>
        /\ [Ledger!Next]_ledgerVars /\ [Trading!Next]_tradingVars /\ [Session!Next]_sessionVars
        /\ [Indexer!Next]_indexerVars /\ [Desk!Next]_deskVars /\ [Identity!Next]_identityVars
        /\ [Submission!Next]_submissionVars /\ [BaseOrders!Next]_orderVars
        /\ [Pages!Next]_pageVars
BY DEF Next, vars, arcVars, webVars, LedgerWorks, TradingWorks, SessionWorks, IndexerWorks,
       DeskWorks, IdentityWorks, SubmissionWorks, OrdersWork, PagesWork

(* However the deposit watchers and the wallet routes overlap, die and       *)
(* repeat a credit, every unit a balance row holds beyond its bets stands on *)
(* a deposit row of its own, no hash has two rows, and the rows the watcher  *)
(* wrote are of transfers that landed; the POST's are of what it was told.   *)
THEOREM BalancesAreBacked == Spec => []BalanceStandsOnRows
<1>1. Init => LedgerInv
  BY LedgerBegins DEF Init
<1>2. LedgerInv /\ [Next]_vars => LedgerInv'
  BY PartsAreApart, LedgerStays
<1>3. LedgerInv => BalanceStandsOnRows
  BY BalanceIsRight DEF BalanceStandsOnRows
<1>4. QED BY <1>1, <1>2, <1>3, PTL DEF Spec

(* bets/place sends no buy before its allowance is in force, and however     *)
(* presses and requests of a claim overlap, one redemption is sent.          *)
THEOREM TradesAreInOrder == Spec => []TradesAreSentRight
<1>1. Init => TradingInv
  BY TradingBegins DEF Init
<1>2. TradingInv /\ [Next]_vars => TradingInv'
  BY PartsAreApart, TradingStays
<1>3. QED BY <1>1, <1>2, TradesAreRight, PTL DEF Spec

(* However the two routes that make wallets overlap and fail, a user has one *)
(* wallet; and however an administrator's calls overlap and die, suggestions *)
(* and markets point at one another, and a row trades on a contract made for *)
(* it, and for it alone, unless the request that made the row named one.     *)
THEOREM RowsAreOfOnePiece == Spec => []RowsBelongTogether
<1>1. Init => SessionInv /\ DeskInv
  BY SessionBegins, DeskBegins DEF Init
<1>2. SessionInv /\ [Next]_vars => SessionInv'
  BY PartsAreApart, SessionStays
<1>3. DeskInv /\ [Next]_vars => DeskInv'
  BY PartsAreApart, DeskStays
<1>4. SessionInv /\ DeskInv => RowsBelongTogether
  BY OneWallet, RowsAreRight DEF RowsBelongTogether
<1>5. QED BY <1>1, <1>2, <1>3, <1>4, PTL DEF Spec

(* While the database and the node answer (a pass that misses either steps   *)
(* over what it did not see: the indexer's findings), what lies below the    *)
(* cursor is in the database, however passes overlap and die.                *)
THEOREM CursorLeavesNothing ==
    ASSUME ~Outage, ~DbFails
    PROVE  Spec => []NothingBelowTheCursorIsLost
<1>1. Init => IndexerInv
  BY IndexerBegins DEF Init
<1>2. IndexerInv /\ [Next]_vars => IndexerInv'
  BY PartsAreApart, IndexerStays
<1>3. IndexerInv => NothingBelowTheCursorIsLost
  BY CursorIsRight DEF NothingBelowTheCursorIsLost
<1>4. QED BY <1>1, <1>2, <1>3, PTL DEF Spec

(* However links change while a user's requests overlap, none is granted a   *)
(* wallet on a link older than they are (persistPrivyWalletIdentity,         *)
(* requireWalletOwnership); and whatever is pressed, lost, repeated and      *)
(* recovered, a recorded proposal stands on the bond its proposer locked for *)
(* it, and on no other's (verifyBondReceipt, persistVerifiedProposal).       *)
THEOREM ProofIsAskedFor == Spec => []ApiTrustsOnlyProof
<1>1. Init => IdentityInv /\ SubmissionInv
  BY IdentityBegins, SubmissionBegins DEF Init
<1>2. IdentityInv /\ [Next]_vars => IdentityInv'
  BY PartsAreApart, IdentityStays
<1>3. SubmissionInv /\ [Next]_vars => SubmissionInv'
  BY PartsAreApart, SubmissionStays
<1>4. IdentityInv /\ SubmissionInv => ApiTrustsOnlyProof
  BY GrantsAreFresh, RowsAreBonded DEF ApiTrustsOnlyProof
<1>5. QED BY <1>1, <1>2, <1>3, <1>4, PTL DEF Spec

(* Whatever the price does between quote and transaction, a trade that goes  *)
(* through is within the user's slippage of its quote, the rounding being    *)
(* less than a unit (trade-panel.tsx); and whatever answers overtake one     *)
(* another, the list shows its filter's markets.  Between two that are shown *)
(* only rows of the second of a newer one are missing, as long as the page   *)
(* has no answer to a request of before the filter was last chosen.          *)
THEOREM PagesAreTrue == Spec => []PagesKeepTheirWord
<1>1. Init => OrdersInv /\ PagesInv /\ PlaceInv
  BY OrdersBegin, PagesBegin DEF Init
<1>2. OrdersInv /\ [Next]_vars => OrdersInv'
  BY PartsAreApart, OrdersStay
<1>3. PagesInv /\ [Next]_vars => PagesInv'
  BY PartsAreApart, PagesStay
<1>4. PagesInv /\ PlaceInv /\ [Next]_vars => PlaceInv'
  BY PartsAreApart, PlaceStays
<1>5. OrdersInv /\ PagesInv /\ PlaceInv => PagesKeepTheirWord
  BY TradesAreNear, ShownIsOfTheFilter, PagesAreWhole DEF PagesKeepTheirWord
<1>6. QED BY <1>1, <1>2, <1>3, <1>4, <1>5, PTL DEF Spec

----------------------------------------------------------------------------
(* The settlement pipeline (ArcSettlement).                                  *)

(* What the settlement's module assumes of its constants.                    *)
USE SettlementAssumption

(* A verdict that will stay: GenLayer has decided it, under the manifest of  *)
(* the market's contract.                                                    *)
Committed(o) ==
    /\ o \in P!Decided
    /\ genlayer.verdict = o
    /\ genlayer.manifest = "with_address"

(* The invariant is not inductive alone: between ResolveAnswered and Propose *)
(* the verdict is in a tick's memory only.                                   *)
SettlementInv ==
    /\ P!TypeOK
    /\ \A t \in Ticks : P!At(t, "propose") => Committed(worker[t].verdict)
    /\ \A o \in P!Proposals : Committed(o)

(* Types.                                                                    *)

(* A tick that goes on stays a tick: what its moves do to its memory.        *)
LEMMA WorkerTypes ==
    ASSUME P!TypeOK, NEW t \in Ticks
    PROVE  /\ \A s \in P!Steps : [worker EXCEPT ![t].pc = s] \in [Ticks -> P!Memory]
           /\ \A a \in P!Answers : [worker EXCEPT ![t].tx = a] \in [Ticks -> P!Memory]
           /\ \A s \in P!Steps, a \in P!Answers :
                [worker EXCEPT ![t].pc = s, ![t].tx = a] \in [Ticks -> P!Memory]
           /\ \A s \in P!Steps, o \in P!MaybeOutcome :
                [worker EXCEPT ![t].pc = s, ![t].verdict = o] \in [Ticks -> P!Memory]
           /\ \A s \in P!Steps, c \in P!Snaps :
                [worker EXCEPT ![t].pc = s, ![t].snap = c] \in [Ticks -> P!Memory]
           /\ [worker EXCEPT ![t] = P!Idle] \in [Ticks -> P!Memory]
<1>1. P!Idle \in P!Memory
  BY DEF P!Idle, P!Memory, P!Steps, P!Answers, P!MaybeOutcome, P!Snaps
<1>2. worker \in [Ticks -> P!Memory]
  BY DEF P!TypeOK
<1>3. QED BY <1>1, <1>2 DEF P!Memory

LEMMA InitTypes == ASSUME P!Init PROVE P!TypeOK
<1>1. worker \in [Ticks -> P!Memory]
  BY DEF P!Init, P!Idle, P!Memory, P!Steps, P!Answers, P!MaybeOutcome, P!Snaps
<1>2. settledArc \in [status: P!Lms, outcome: P!MaybeOutcome, events: Seq(P!Logged),
                      pool: SUBSET P!Sent]
  BY DEF P!Init, P!Lms, P!MaybeOutcome
<1>3. settledMarket \in [status: P!Rowstatus, lms: P!Lms, deployed: BOOLEAN]
  BY DEF P!Init, P!Rowstatus, P!Lms
<1>4. QED
  BY <1>1, <1>2, <1>3
  DEF P!Init, P!TypeOK, P!Lms, P!Statuses, P!MaybeOutcome, P!Manifests

(* What a tick saves, and what it goes on with.                              *)
LEMMA TickTypes ==
    ASSUME P!TypeOK, NEW t \in Ticks, P!TickStep(t)
    PROVE  P!TypeOK'
<1> USE DEF P!Goto, P!Finish, P!Send, P!Fail, P!Save, P!SaveOutcome, P!rows, P!chains
<1>1. genlayer.verdict \in P!MaybeOutcome /\ worker[t].verdict \in P!MaybeOutcome
  BY DEF P!TypeOK, P!Memory
<1>2. /\ {"idle", "advance", "lookup", "registering", "resolving", "propose", "proposed"} \subseteq P!Steps
      /\ {"none", "sent", "SUCCESS", "FAILED", "UNDETERMINED"} \subseteq P!Answers
      /\ {"resolving", "failed", "manifest_mismatch", "retry_later", "blocked", "proposed_on_arc"}
           \subseteq P!Statuses
      /\ \A s : P!ManifestOf(s) \in P!Manifests
  BY DEF P!Steps, P!Answers, P!Statuses, P!ManifestOf, P!Manifests
<1>3. CASE P!Skip(t)
  BY <1>3, WorkerTypes DEF P!Skip, P!TypeOK
<1>4. CASE P!Begin(t)
  <2>1. worker' \in [Ticks -> P!Memory]
    BY <1>2, <1>4, WorkerTypes DEF P!Begin
  <2>2. settlement' \in [status: P!Statuses, resolution: P!MaybeOutcome, arcTx: BOOLEAN]
    BY <1>2, <1>4 DEF P!Begin, P!TypeOK
  <2>3. QED BY <1>4, <2>1, <2>2 DEF P!Begin, P!TypeOK
<1>5. CASE P!LookupManifest(t)
  <2>1. worker' \in [Ticks -> P!Memory]
    BY <1>2, <1>5, WorkerTypes DEF P!LookupManifest
  <2>2. settlement' \in [status: P!Statuses, resolution: P!MaybeOutcome, arcTx: BOOLEAN]
    <3>1. \/ UNCHANGED settlement
          \/ \E s \in P!Statuses : settlement' = [settlement EXCEPT !.status = s]
      BY <1>2, <1>5 DEF P!LookupManifest
    <3>2. QED BY <3>1 DEF P!TypeOK
  <2>3. QED BY <1>5, <2>1, <2>2 DEF P!LookupManifest, P!TypeOK
<1>6. CASE P!RegisterAnswered(t)
  <2>1. worker' \in [Ticks -> P!Memory]
    BY <1>2, <1>6, WorkerTypes DEF P!RegisterAnswered
  <2>2. settlement' \in [status: P!Statuses, resolution: P!MaybeOutcome, arcTx: BOOLEAN]
    BY <1>2, <1>6 DEF P!RegisterAnswered, P!TypeOK
  <2>3. QED BY <1>6, <2>1, <2>2 DEF P!RegisterAnswered, P!TypeOK
<1>7. ASSUME NEW txn \in P!Manifests \cup {"resolve"}, P!GiveUp(t, txn),
             UNCHANGED <<settledMarket, stamp, indexer, settledArc>>
      PROVE  P!TypeOK'
  <2>1. worker' \in [Ticks -> P!Memory]
    BY <1>2, <1>7, WorkerTypes DEF P!GiveUp
  <2>2. settlement' \in [status: P!Statuses, resolution: P!MaybeOutcome, arcTx: BOOLEAN]
    BY <1>2, <1>7 DEF P!GiveUp, P!TypeOK
  <2>3. genlayer' \in [manifest: P!Manifests \cup {"none"}, verdict: P!MaybeOutcome,
                      late: SUBSET (P!Manifests \cup {"resolve"})]
    BY <1>7 DEF P!GiveUp, P!TypeOK
  <2>4. upsets' \in 0 .. MaxUpsets
    BY <1>7 DEF P!GiveUp, P!Upset, P!TypeOK
  <2>5. QED BY <1>7, <2>1, <2>2, <2>3, <2>4 DEF P!TypeOK
<1>8. CASE P!RegisterTimesOut(t)
  BY <1>2, <1>7, <1>8 DEF P!RegisterTimesOut
<1>9. CASE P!ResolveTimesOut(t)
  BY <1>7, <1>9 DEF P!ResolveTimesOut
<1>10. CASE P!ResolveAnswered(t)
  <2>1. P!Decided \subseteq P!MaybeOutcome
    BY DEF P!Decided, P!MaybeOutcome, P!Outcomes
  <2>2. worker' \in [Ticks -> P!Memory]
    BY <1>1, <1>2, <1>10, WorkerTypes DEF P!ResolveAnswered
  <2>3. \A s, v : P!Refusal(s) \in P!Statuses /\ P!StatusFor(v) \in P!Statuses
    BY DEF P!Refusal, P!StatusFor, P!Statuses
  <2>4. settlement' \in [status: P!Statuses, resolution: P!MaybeOutcome, arcTx: BOOLEAN]
    <3>1. PICK st \in P!Statuses :
            \/ settlement' = [settlement EXCEPT !.status = st]
            \/ settlement' = [settlement EXCEPT !.status = st, !.resolution = genlayer.verdict]
      BY <1>2, <1>10, <2>3 DEF P!ResolveAnswered
    <3>2. QED BY <1>1, <3>1 DEF P!TypeOK
  <2>5. QED BY <1>10, <2>2, <2>4 DEF P!ResolveAnswered, P!TypeOK
<1>11. CASE P!Propose(t)
  <2>1. worker' \in [Ticks -> P!Memory]
    BY <1>2, <1>11, WorkerTypes DEF P!Propose
  <2>2. settlement' \in [status: P!Statuses, resolution: P!MaybeOutcome, arcTx: BOOLEAN]
    BY <1>2, <1>11 DEF P!Propose, P!TypeOK
  <2>3. /\ settledArc' \in [status: P!Lms, outcome: P!MaybeOutcome, events: Seq(P!Logged),
                            pool: SUBSET P!Sent]
        /\ settledArc'.events = settledArc.events
    BY <1>1, <1>11 DEF P!Propose, P!TypeOK, P!Sent
  <2>4. QED BY <1>11, <2>1, <2>2, <2>3 DEF P!Propose, P!TypeOK
<1>12. CASE P!SaveProposal(t)
  <2>1. worker' \in [Ticks -> P!Memory]
    BY <1>2, <1>12, WorkerTypes DEF P!SaveProposal
  <2>2. settlement' \in [status: P!Statuses, resolution: P!MaybeOutcome, arcTx: BOOLEAN]
    BY <1>1, <1>2, <1>12 DEF P!SaveProposal, P!TypeOK
  <2>3. QED BY <1>12, <2>1, <2>2 DEF P!SaveProposal, P!TypeOK
<1>13. QED
  BY <1>3, <1>4, <1>5, <1>6, <1>8, <1>9, <1>10, <1>11, <1>12 DEF P!TickStep

(* The chains' own moves.                                                    *)
LEMMA GenLayerTypes ==
    ASSUME P!TypeOK,
           P!GenLayerRunsLate \/ \E t \in Ticks : P!GenLayerRegisters(t) \/ P!GenLayerResolves(t)
    PROVE  P!TypeOK'
<1> USE DEF P!AnswerTo, P!rows
<1>1. {"SUCCESS", "FAILED", "UNDETERMINED"} \subseteq P!Answers /\ Verdicts \subseteq P!MaybeOutcome
  BY DEF P!Answers, P!MaybeOutcome, P!Outcomes
<1>2. \A s : P!ManifestOf(s) \in P!Manifests
  BY DEF P!ManifestOf, P!Manifests
<1>3. ASSUME NEW t \in Ticks, P!GenLayerRegisters(t) PROVE P!TypeOK'
  <2>1. worker' \in [Ticks -> P!Memory]
    BY <1>1, <1>3, WorkerTypes DEF P!GenLayerRegisters
  <2>2. genlayer' \in [manifest: P!Manifests \cup {"none"}, verdict: P!MaybeOutcome,
                      late: SUBSET (P!Manifests \cup {"resolve"})]
    BY <1>2, <1>3 DEF P!GenLayerRegisters, P!TypeOK
  <2>3. QED BY <1>3, <2>1, <2>2 DEF P!GenLayerRegisters, P!TypeOK
<1>4. ASSUME NEW t \in Ticks, P!GenLayerResolves(t) PROVE P!TypeOK'
  <2>1. worker' \in [Ticks -> P!Memory]
    BY <1>1, <1>4, WorkerTypes DEF P!GenLayerResolves
  <2>2. genlayer' \in [manifest: P!Manifests \cup {"none"}, verdict: P!MaybeOutcome,
                      late: SUBSET (P!Manifests \cup {"resolve"})]
    BY <1>1, <1>4 DEF P!GenLayerResolves, P!TypeOK
  <2>3. QED BY <1>4, <2>1, <2>2 DEF P!GenLayerResolves, P!TypeOK
<1>5. CASE P!GenLayerRunsLate
  <2>1. genlayer' \in [manifest: P!Manifests \cup {"none"}, verdict: P!MaybeOutcome,
                      late: SUBSET (P!Manifests \cup {"resolve"})]
    <3>1. PICK txn \in genlayer.late :
            \/ \E v \in Verdicts : genlayer' = [genlayer EXCEPT !.late = @ \ {txn}, !.verdict = v]
            \/ genlayer' = [genlayer EXCEPT !.late = @ \ {txn}]
            \/ txn # "resolve" /\ genlayer' = [genlayer EXCEPT !.late = @ \ {txn}, !.manifest = txn]
      BY <1>5 DEF P!GenLayerRunsLate
    <3>2. /\ genlayer \in [manifest: P!Manifests \cup {"none"}, verdict: P!MaybeOutcome,
                          late: SUBSET (P!Manifests \cup {"resolve"})]
          /\ genlayer.late \ {txn} \in SUBSET (P!Manifests \cup {"resolve"})
          /\ txn \in P!Manifests \cup {"resolve"}
      BY DEF P!TypeOK
    <3>3. QED BY <1>1, <3>1, <3>2
  <2>2. QED BY <1>5, <2>1 DEF P!GenLayerRunsLate, P!TypeOK
<1>6. QED BY <1>3, <1>4, <1>5

LEMMA RunTypes ==
    ASSUME P!TypeOK, NEW fn, NEW o \in P!MaybeOutcome,
           NEW pool \in SUBSET settledArc.pool, P!Run(fn, o, pool)
    PROVE  /\ settledArc' \in [status: P!Lms, outcome: P!MaybeOutcome, events: Seq(P!Logged),
                               pool: SUBSET P!Sent]
           /\ Len(settledArc'.events) \in {Len(settledArc.events), Len(settledArc.events) + 1}
<1>1. CASE P!Moves(fn) = "reverted"
  BY <1>1 DEF P!Run, P!TypeOK
<1>2. CASE P!Moves(fn) # "reverted"
  <2>1. P!Moves(fn) \in P!Lms
    BY <1>2 DEF P!Moves, P!Lms
  <2>2. [status |-> P!Moves(fn), outcome |-> o] \in P!Logged
    BY <2>1 DEF P!Logged
  <2>3. settledArc.events \in Seq(P!Logged)
    BY DEF P!TypeOK
  <2>4. /\ settledArc'.events = Append(settledArc.events, [status |-> P!Moves(fn), outcome |-> o])
        /\ settledArc' = [status |-> P!Moves(fn), outcome |-> o, pool |-> pool,
                          events |-> settledArc'.events]
    BY <1>2 DEF P!Run
  <2>5. /\ settledArc'.events \in Seq(P!Logged)
        /\ Len(settledArc'.events) = Len(settledArc.events) + 1
    BY <2>2, <2>3, <2>4
  <2>6. pool \in SUBSET P!Sent
    BY DEF P!TypeOK
  <2>7. QED BY <2>1, <2>4, <2>5, <2>6
<1>3. QED BY <1>1, <1>2

LEMMA ArcTypes ==
    ASSUME P!TypeOK, P!ArcMines \/ P!ArcMoves("dispute") \/ P!ArcMoves("finalize")
    PROVE  P!TypeOK'
<1>1. UNCHANGED <<P!rows, worker, stamp, indexer, genlayer, upsets>>
  BY DEF P!ArcMines, P!ArcMoves
<1>2. ASSUME NEW fn, NEW o \in P!MaybeOutcome, NEW pool \in SUBSET settledArc.pool,
             P!Run(fn, o, pool)
      PROVE  P!TypeOK'
  <2>1. /\ Len(settledArc.events) \in Nat
        /\ Len(settledArc'.events) \in {Len(settledArc.events), Len(settledArc.events) + 1}
    <3>1. Len(settledArc.events) \in Nat
      BY DEF P!TypeOK
    <3>2. Len(settledArc'.events) \in {Len(settledArc.events), Len(settledArc.events) + 1}
      BY <1>2, RunTypes
    <3>3. QED BY <3>1, <3>2
  <2>2. settledArc' \in [status: P!Lms, outcome: P!MaybeOutcome, events: Seq(P!Logged),
                         pool: SUBSET P!Sent]
    BY <1>2, RunTypes
  <2>3. QED BY <1>1, <2>1, <2>2 DEF P!TypeOK, P!rows
<1>3. CASE P!ArcMines
  <2>1. PICK txn \in settledArc.pool : P!Run(txn.fn, txn.outcome, settledArc.pool \ {txn})
    BY <1>3 DEF P!ArcMines
  <2>2. txn.outcome \in P!MaybeOutcome
    BY DEF P!TypeOK, P!Sent
  <2>3. QED BY <1>2, <2>1, <2>2
<1>4. CASE P!ArcMoves("dispute") \/ P!ArcMoves("finalize")
  <2>1. settledArc.outcome \in P!MaybeOutcome
    BY DEF P!TypeOK
  <2>2. QED BY <1>2, <1>4, <2>1 DEF P!ArcMoves
<1>5. QED BY <1>3, <1>4

(* The administrator's routes.                                               *)
LEMMA AdministratorTypes ==
    ASSUME P!TypeOK, P!Administrator \/ P!Stamp
    PROVE  P!TypeOK'
<1> USE DEF P!Save, P!Upset, P!rows, P!chains
<1>1. CASE P!Requeue
  BY <1>1 DEF P!Requeue, P!TypeOK, P!Statuses
<1>2. CASE P!Refund
  <2>1. settledMarket' \in [status: P!Rowstatus, lms: P!Lms, deployed: BOOLEAN]
    BY <1>2 DEF P!Refund, P!TypeOK, P!Rowstatus
  <2>2. settlement' \in [status: P!Statuses, resolution: P!MaybeOutcome, arcTx: BOOLEAN]
    BY <1>2 DEF P!Refund, P!TypeOK, P!Statuses
  <2>3. QED BY <1>2, <2>1, <2>2 DEF P!Refund, P!TypeOK
<1>3. CASE P!Deploy
  <2>1. settledMarket' \in [status: P!Rowstatus, lms: P!Lms, deployed: BOOLEAN]
    BY <1>3 DEF P!Deploy, P!TypeOK, P!Lms
  <2>2. QED BY <1>3, <2>1 DEF P!Deploy, P!TypeOK
<1>4. CASE \E on \in BOOLEAN : P!Pause(on)
  <2>1. settledMarket' \in [status: P!Rowstatus, lms: P!Lms, deployed: BOOLEAN]
    BY <1>4 DEF P!Pause, P!TypeOK, P!Rowstatus
  <2>2. QED BY <1>4, <2>1 DEF P!Pause, P!TypeOK
<1>5. ASSUME NEW o \in {"YES", "NO", "INVALID"}, P!AdminResolve(o) PROVE P!TypeOK'
  <2>1. o \in P!MaybeOutcome /\ "none" \in P!MaybeOutcome
    BY DEF P!MaybeOutcome, P!Outcomes
  <2>2. settledArc' \in [status: P!Lms, outcome: P!MaybeOutcome, events: Seq(P!Logged),
                         pool: SUBSET P!Sent]
    BY <1>5, <2>1 DEF P!AdminResolve, P!TypeOK, P!Sent
  <2>3. settledArc'.events = settledArc.events
    BY <1>5 DEF P!AdminResolve, P!TypeOK
  <2>4. QED BY <1>5, <2>1, <2>2, <2>3 DEF P!AdminResolve, P!TypeOK
<1>6. CASE P!Stamp
  <2>1. P!ResolutionOf(stamp) \in P!MaybeOutcome
    BY DEF P!ResolutionOf, P!TypeOK, P!MaybeOutcome
  <2>2. QED BY <1>6, <2>1 DEF P!Stamp, P!TypeOK, P!Statuses, P!MaybeOutcome
<1>7. QED BY <1>1, <1>2, <1>3, <1>4, <1>5, <1>6 DEF P!Administrator

LEMMA IndexerTypes ==
    ASSUME P!TypeOK, P!IndexerStep \/ P!IndexerDies \/ P!FallBehind
    PROVE  P!TypeOK'
<1> USE DEF P!Upset, P!rows, P!chains
<1>0. /\ Len(settledArc.events) \in Nat /\ indexer.cursor \in Nat
      /\ P!Start \in Nat /\ P!Start <= Len(settledArc.events)
  BY DEF P!TypeOK, P!Start
<1>1. CASE P!IndexStart
  <2>1. PICK upto \in P!Start .. Len(settledArc.events) :
          indexer' = [indexer EXCEPT !.pc = "apply", !.next = P!Start, !.upto = upto]
    BY <1>1 DEF P!IndexStart
  <2>2. upto \in 0 .. Len(settledArc.events) /\ upto \in Nat
    BY <1>0
  <2>3. indexer' \in [pc: {"idle", "apply", "mark", "reconcile"}, cursor: Nat, next: Nat,
                     upto: Nat, passed: Nat, seen: P!Lms]
    BY <1>0, <2>1, <2>2 DEF P!TypeOK
  <2>4. {indexer'.cursor, indexer'.upto, indexer'.passed} \subseteq 0 .. Len(settledArc.events)
    BY <2>1, <2>2 DEF P!TypeOK
  <2>5. upsets' \in 0 .. MaxUpsets
    BY <1>1 DEF P!IndexStart, P!TypeOK
  <2>6. QED BY <1>1, <2>3, <2>4, <2>5 DEF P!IndexStart, P!TypeOK
<1>2. ASSUME P!Applying
      PROVE  P!Event.status \in P!Lms /\ P!Event.outcome \in P!MaybeOutcome
  <2>1. indexer.next + 1 \in 1 .. Len(settledArc.events) /\ settledArc.events \in Seq(P!Logged)
    BY <1>2 DEF P!Applying, P!TypeOK
  <2>2. P!Event \in P!Logged
    BY <2>1 DEF P!Event
  <2>3. QED BY <2>2 DEF P!Logged
<1>3. CASE P!MirrorSettlement
  <2>1. P!ResolutionOf(P!Event.outcome) \in P!MaybeOutcome
    BY <1>2, <1>3 DEF P!MirrorSettlement, P!ResolutionOf, P!MaybeOutcome
  <2>2. settlement' \in [status: P!Statuses, resolution: P!MaybeOutcome, arcTx: BOOLEAN]
    BY <1>3, <2>1 DEF P!MirrorSettlement, P!TypeOK, P!Statuses
  <2>3. QED BY <1>3, <2>2 DEF P!MirrorSettlement, P!TypeOK
<1>4. CASE P!MirrorMarket
  <2>1. settledMarket' \in [status: P!Rowstatus, lms: P!Lms, deployed: BOOLEAN]
    BY <1>2, <1>4 DEF P!MirrorMarket, P!TypeOK, P!Rowstatus
  <2>2. indexer' = [indexer EXCEPT !.pc = "apply", !.next = @ + 1]
    BY <1>4 DEF P!MirrorMarket
  <2>3. indexer' \in [pc: {"idle", "apply", "mark", "reconcile"}, cursor: Nat, next: Nat,
                     upto: Nat, passed: Nat, seen: P!Lms]
    <3>1. indexer \in [pc: {"idle", "apply", "mark", "reconcile"}, cursor: Nat, next: Nat,
                      upto: Nat, passed: Nat, seen: P!Lms]
      BY DEF P!TypeOK
    <3>2. indexer.next + 1 \in Nat
      BY <3>1
    <3>3. PICK n \in Nat : indexer' = [indexer EXCEPT !.pc = "apply", !.next = n]
      BY <2>2, <3>1, <3>2
    <3>4. QED BY <3>1, <3>3
  <2>4. {indexer'.cursor, indexer'.upto, indexer'.passed} \subseteq 0 .. Len(settledArc.events)
    BY <2>2 DEF P!TypeOK
  <2>5. QED BY <1>4, <2>1, <2>3, <2>4 DEF P!MirrorMarket, P!TypeOK
<1>5. CASE P!ReadStatus
  BY <1>5 DEF P!ReadStatus, P!TypeOK
<1>6. CASE P!Reconcile
  BY <1>6 DEF P!Reconcile, P!TypeOK
<1>7. CASE P!IndexerDies
  <2>1. indexer' \in [pc: {"idle", "apply", "mark", "reconcile"}, cursor: Nat, next: Nat,
                     upto: Nat, passed: Nat, seen: P!Lms]
    BY <1>7 DEF P!IndexerDies, P!TypeOK
  <2>2. {indexer'.cursor, indexer'.upto, indexer'.passed} \subseteq 0 .. Len(settledArc.events)
    BY <1>7 DEF P!IndexerDies, P!TypeOK
  <2>3. upsets' \in 0 .. MaxUpsets
    BY <1>7 DEF P!IndexerDies, P!TypeOK
  <2>4. QED BY <1>7, <2>1, <2>2, <2>3 DEF P!IndexerDies, P!TypeOK
<1>8. CASE P!FallBehind
  <2>1. PICK n \in P!Start + 1 .. Len(settledArc.events) : indexer' = [indexer EXCEPT !.passed = n]
    BY <1>8 DEF P!FallBehind
  <2>2. n \in 0 .. Len(settledArc.events) /\ n \in Nat
    BY <1>0
  <2>3. indexer' \in [pc: {"idle", "apply", "mark", "reconcile"}, cursor: Nat, next: Nat,
                     upto: Nat, passed: Nat, seen: P!Lms]
    BY <2>1, <2>2 DEF P!TypeOK
  <2>4. {indexer'.cursor, indexer'.upto, indexer'.passed} \subseteq 0 .. Len(settledArc.events)
    BY <2>1, <2>2 DEF P!TypeOK
  <2>5. upsets' \in 0 .. MaxUpsets
    BY <1>8 DEF P!FallBehind, P!TypeOK
  <2>6. UNCHANGED <<settledMarket, settlement, worker, stamp, settledArc, genlayer>>
    BY <1>8 DEF P!FallBehind
  <2>7. QED BY <2>3, <2>4, <2>5, <2>6 DEF P!TypeOK
<1>9. QED BY <1>1, <1>3, <1>4, <1>5, <1>6, <1>7, <1>8 DEF P!IndexerStep

(* The rest: settlements that are seeded, ticks that begin and that die.     *)
LEMMA OtherTypes ==
    ASSUME P!TypeOK, P!Seed \/ \E t \in Ticks : P!Load(t) \/ P!TickDies(t)
    PROVE  P!TypeOK'
<1> USE DEF P!Save, P!Finish, P!Upset, P!rows, P!chains
<1>1. CASE P!Seed
  BY <1>1 DEF P!Seed, P!TypeOK, P!Statuses
<1>2. ASSUME NEW t \in Ticks, P!Load(t) PROVE P!TypeOK'
  <2>1. PICK c \in P!Copies : worker' = [worker EXCEPT ![t].pc = "advance", ![t].snap = <<c>>]
    <3>1. [status |-> settledMarket.status, lms |-> settledMarket.lms, deployed |-> settledMarket.deployed,
           arcTx |-> settlement.arcTx] \in P!Copies
      BY DEF P!TypeOK, P!Copies
    <3>2. QED BY <1>2, <3>1 DEF P!Load
  <2>2. <<c>> \in P!Snaps /\ "advance" \in P!Steps
    BY DEF P!Snaps, P!Steps
  <2>3. worker' \in [Ticks -> P!Memory]
    BY <2>1, <2>2, WorkerTypes
  <2>4. QED BY <1>2, <2>3 DEF P!Load, P!TypeOK
<1>3. ASSUME NEW t \in Ticks, P!TickDies(t) PROVE P!TypeOK'
  <2>1. worker' \in [Ticks -> P!Memory]
    BY <1>3, WorkerTypes DEF P!TickDies
  <2>2. genlayer' \in [manifest: P!Manifests \cup {"none"}, verdict: P!MaybeOutcome,
                      late: SUBSET (P!Manifests \cup {"resolve"})]
    BY <1>3 DEF P!TickDies, P!TypeOK, P!ManifestOf, P!Manifests
  <2>3. QED BY <1>3, <2>1, <2>2 DEF P!TickDies, P!TypeOK
<1>4. QED BY <1>1, <1>2, <1>3

LEMMA NextTypes ==
    ASSUME P!TypeOK, [P!Next]_(P!vars)
    PROVE  P!TypeOK'
<1>1. P!TypeOK /\ UNCHANGED P!vars => P!TypeOK'
  BY DEF P!TypeOK, P!vars
<1>2. QED
  BY <1>1, TickTypes, GenLayerTypes, ArcTypes, AdministratorTypes, IndexerTypes, OtherTypes
  DEF P!Next

(* The rows keep values of their columns, and the indexer stays within the   *)
(* log, whatever functions overlap, die or time out.                         *)
THEOREM SettlementTypes == SettlementSpec => []P!TypeOK
<1>1. P!Init => P!TypeOK
  BY InitTypes
<1>2. P!TypeOK /\ [P!Next]_(P!vars) => P!TypeOK'
  BY NextTypes
<1>3. QED BY <1>1, <1>2, PTL DEF SettlementSpec, P!Spec

----------------------------------------------------------------------------
(* Verdicts.                                                                 *)

(* What GenLayer has decided stays decided, and a market is registered once. *)
LEMMA CommittedStays ==
    ASSUME P!TypeOK, [P!Next]_(P!vars), NEW o, Committed(o)
    PROVE  Committed(o)'
<1> USE DEF Committed
<1>1. CASE UNCHANGED genlayer
  BY <1>1
<1>2. ASSUME NEW queue, genlayer' = [genlayer EXCEPT !.late = queue] PROVE Committed(o)'
  BY <1>2 DEF P!TypeOK
<1>3. P!Settled /\ genlayer.manifest # "none"
  BY DEF P!Settled
<1>4. CASE \E t \in Ticks : P!TickStep(t) \/ P!TickDies(t)
  BY <1>1, <1>2, <1>4
  DEF P!TickStep, P!Skip, P!Begin, P!LookupManifest, P!RegisterAnswered, P!RegisterTimesOut,
      P!ResolveAnswered, P!ResolveTimesOut, P!GiveUp, P!Propose, P!SaveProposal, P!TickDies,
      P!chains
<1>5. CASE \E t \in Ticks : P!GenLayerRegisters(t) \/ P!GenLayerResolves(t)
  BY <1>1, <1>3, <1>5 DEF P!GenLayerRegisters, P!GenLayerResolves
<1>6. CASE P!GenLayerRunsLate
  BY <1>2, <1>3, <1>6 DEF P!GenLayerRunsLate
<1>7. CASE P!Seed \/ (\E t \in Ticks : P!Load(t)) \/ P!ArcMines
            \/ P!ArcMoves("dispute") \/ P!ArcMoves("finalize")
  BY <1>1, <1>7 DEF P!Seed, P!Load, P!ArcMines, P!ArcMoves, P!chains
<1>8. CASE P!Administrator \/ P!Stamp
  BY <1>1, <1>8
  DEF P!Administrator, P!Requeue, P!Refund, P!Deploy, P!Pause, P!AdminResolve, P!Stamp,
      P!chains
<1>9. CASE P!IndexerStep \/ P!IndexerDies \/ P!FallBehind
  BY <1>1, <1>9
  DEF P!FallBehind, P!IndexerStep, P!IndexStart, P!MirrorSettlement, P!MirrorMarket, P!ReadStatus,
      P!Reconcile, P!IndexerDies, P!chains
<1>10. CASE UNCHANGED P!vars
  BY <1>1, <1>10 DEF P!vars
<1>11. QED BY <1>4, <1>5, <1>6, <1>7, <1>8, <1>9, <1>10 DEF P!Next

(* validateResolution lets pass what GenLayer decided for this contract.     *)
LEMMA ValidatedIsCommitted ==
    ASSUME P!TypeOK, NEW t \in Ticks, P!ResolveAnswered(t), P!At(t, "propose")'
    PROVE  Committed(worker'[t].verdict)
<1>1. worker \in [Ticks -> P!Memory] /\ P!Idle.pc = "idle"
  BY DEF P!TypeOK, P!Idle
<1>2. /\ P!Refusal(P!Snap(t)) = "none" /\ genlayer.verdict \in P!Decided
      /\ worker' = [worker EXCEPT ![t].pc = "propose", ![t].verdict = genlayer.verdict]
  BY <1>1 DEF P!ResolveAnswered, P!At, P!Fail, P!Finish
<1>3. genlayer.manifest = "with_address"
  BY <1>2 DEF P!Refusal, P!ManifestOf
<1>4. worker'[t].verdict = genlayer.verdict
  BY <1>1, <1>2 DEF P!Memory
<1>5. QED BY <1>2, <1>3, <1>4 DEF Committed

(* A tick comes to propose in no other way.                                  *)
LEMMA ProposersAreValidated ==
    ASSUME P!TypeOK, [P!Next]_(P!vars), NEW t \in Ticks, P!At(t, "propose")'
    PROVE  \/ P!ResolveAnswered(t)
           \/ P!At(t, "propose") /\ worker'[t].verdict = worker[t].verdict
<1>1. worker \in [Ticks -> P!Memory] /\ P!Idle.pc = "idle"
  BY DEF P!TypeOK, P!Idle
<1>2. CASE worker'[t] = worker[t]
  BY <1>2 DEF P!At
<1>3. ASSUME NEW u \in Ticks, P!TickStep(u) \/ P!Load(u) \/ P!TickDies(u)
      PROVE  u = t => P!ResolveAnswered(t)
  <2>1. ASSUME u = t, ~P!ResolveAnswered(u) PROVE FALSE
    <3>1. worker'[t].pc = "propose"
      BY DEF P!At
    <3>2. worker'[t].pc \in {"advance", "idle", "lookup", "registering", "resolving", "proposed"}
      BY <1>1, <1>3, <2>1
      DEF P!TickStep, P!Skip, P!Begin, P!LookupManifest, P!RegisterAnswered,
          P!RegisterTimesOut, P!ResolveTimesOut, P!GiveUp, P!Propose, P!SaveProposal,
          P!TickDies, P!Load, P!Goto, P!Finish, P!Send, P!Fail, P!Memory
    <3>3. QED BY <3>1, <3>2
  <2>2. QED BY <2>1
<1>4. ASSUME NEW u \in Ticks, u # t, P!TickStep(u) \/ P!Load(u) \/ P!TickDies(u)
      PROVE  worker'[t] = worker[t]
  BY <1>1, <1>4
  DEF P!TickStep, P!Skip, P!Begin, P!LookupManifest, P!RegisterAnswered, P!RegisterTimesOut,
      P!ResolveAnswered, P!ResolveTimesOut, P!GiveUp, P!Propose, P!SaveProposal, P!TickDies,
      P!Load, P!Goto, P!Finish, P!Send, P!Fail
<1>5. ASSUME NEW u \in Ticks, P!GenLayerRegisters(u) \/ P!GenLayerResolves(u)
      PROVE  worker'[t].pc = worker[t].pc /\ worker'[t].verdict = worker[t].verdict
  BY <1>1, <1>5 DEF P!GenLayerRegisters, P!GenLayerResolves, P!AnswerTo, P!Memory
<1>6. CASE UNCHANGED worker
  BY <1>2, <1>6
<1>7. CASE \/ P!Seed \/ P!GenLayerRunsLate \/ P!ArcMines
            \/ P!ArcMoves("dispute") \/ P!ArcMoves("finalize")
           \/ P!Administrator \/ P!Stamp \/ P!IndexerStep \/ P!IndexerDies
           \/ P!FallBehind \/ UNCHANGED P!vars
  BY <1>6, <1>7
  DEF P!Seed, P!GenLayerRunsLate, P!ArcMines, P!ArcMoves, P!Administrator, P!Requeue,
      P!Refund, P!Deploy, P!Pause, P!AdminResolve, P!Stamp, P!IndexerStep, P!IndexStart,
      P!MirrorSettlement, P!MirrorMarket, P!ReadStatus, P!Reconcile, P!IndexerDies,
      P!FallBehind, P!vars
<1>8. QED BY <1>2, <1>3, <1>4, <1>5, <1>7 DEF P!Next, P!At

(* Nor does an outcome come to Arc as a proposal.                            *)
LEMMA ProposalsAreTheTicks ==
    ASSUME P!TypeOK, [P!Next]_(P!vars), NEW o \in P!Proposals'
    PROVE  o \in P!Proposals \/ (\E t \in Ticks : P!At(t, "propose") /\ o = worker[t].verdict)
<1>1. settledArc' = settledArc => o \in P!Proposals
  BY DEF P!Proposals
<1>2. ASSUME NEW t \in Ticks, P!Propose(t)
      PROVE  o \in P!Proposals \/ o = worker[t].verdict
  <2>1. CASE settledArc' = settledArc
    BY <1>1, <2>1
  <2>2. CASE /\ settledArc'.pool = settledArc.pool \cup
                   {[fn |-> "propose", outcome |-> worker[t].verdict]}
             /\ settledArc'.events = settledArc.events
    BY <2>2 DEF P!Proposals
  <2>3. QED BY <1>2, <2>1, <2>2 DEF P!Propose, P!TypeOK
<1>3. ASSUME NEW outcome, P!AdminResolve(outcome) PROVE o \in P!Proposals
  <2>1. /\ settledArc'.pool = settledArc.pool \cup {[fn |-> "admin", outcome |-> outcome]}
        /\ settledArc'.events = settledArc.events
    BY <1>3 DEF P!AdminResolve, P!TypeOK
  <2>2. QED BY <2>1 DEF P!Proposals
<1>4. ASSUME NEW fn, NEW outcome, NEW pool \in SUBSET settledArc.pool, P!Run(fn, outcome, pool),
             fn = "propose" => outcome \in P!Proposals
      PROVE  o \in P!Proposals
  <2>1. CASE P!Moves(fn) = "reverted"
    BY <1>4, <2>1 DEF P!Run, P!TypeOK, P!Proposals
  <2>2. CASE P!Moves(fn) # "reverted"
    <3>1. /\ settledArc'.pool = pool
          /\ settledArc'.events =
               Append(settledArc.events, [status |-> P!Moves(fn), outcome |-> outcome])
      BY <1>4, <2>2 DEF P!Run
    <3>2. P!Moves(fn) = "Pending" => fn = "propose"
      BY DEF P!Moves
    <3>3. settledArc.events \in Seq(P!Logged)
      BY DEF P!TypeOK
    <3>4. CASE \E txn \in settledArc'.pool : txn.fn = "propose" /\ txn.outcome = o
      BY <1>4, <3>1, <3>4 DEF P!Proposals
    <3>5. ASSUME NEW i \in 1 .. Len(settledArc'.events), settledArc'.events[i].status = "Pending",
                 settledArc'.events[i].outcome = o
          PROVE  o \in P!Proposals
      <4>1. /\ Len(settledArc'.events) = Len(settledArc.events) + 1
            /\ i \in 1 .. Len(settledArc.events) => settledArc'.events[i] = settledArc.events[i]
            /\ i = Len(settledArc.events) + 1 =>
                  settledArc'.events[i] = [status |-> P!Moves(fn), outcome |-> outcome]
        BY <3>1, <3>3
      <4>2. Len(settledArc.events) \in Nat
        BY <3>3
      <4>3. CASE i \in 1 .. Len(settledArc.events)
        BY <3>5, <4>1, <4>3 DEF P!Proposals
      <4>4. CASE i = Len(settledArc.events) + 1
        BY <1>4, <3>2, <3>5, <4>1, <4>4
      <4>5. QED BY <4>1, <4>2, <4>3, <4>4
    <3>6. QED BY <3>4, <3>5 DEF P!Proposals
  <2>3. QED BY <2>1, <2>2
<1>5. CASE P!ArcMines
  <2>1. PICK txn \in settledArc.pool : P!Run(txn.fn, txn.outcome, settledArc.pool \ {txn})
    BY <1>5 DEF P!ArcMines
  <2>2. txn.fn = "propose" => txn.outcome \in P!Proposals
    BY DEF P!Proposals
  <2>3. QED BY <1>4, <2>1, <2>2
<1>6. CASE P!ArcMoves("dispute") \/ P!ArcMoves("finalize")
  BY <1>4, <1>6 DEF P!ArcMoves
<1>7. ASSUME NEW t \in Ticks, P!TickStep(t)
      PROVE  o \in P!Proposals \/ (P!At(t, "propose") /\ o = worker[t].verdict)
  <2>1. UNCHANGED settledArc \/ P!Propose(t)
    BY <1>7
    DEF P!TickStep, P!Skip, P!Begin, P!LookupManifest, P!RegisterAnswered,
        P!RegisterTimesOut, P!ResolveAnswered, P!ResolveTimesOut, P!SaveProposal, P!chains
  <2>2. P!Propose(t) => P!At(t, "propose")
    BY DEF P!Propose
  <2>3. P!Propose(t) => o \in P!Proposals \/ o = worker[t].verdict
    BY <1>2
  <2>4. QED BY <1>1, <2>1, <2>2, <2>3
<1>8. CASE P!Administrator \/ P!Stamp
  BY <1>1, <1>3, <1>8
  DEF P!Administrator, P!Requeue, P!Refund, P!Deploy, P!Pause, P!Stamp, P!chains
<1>9. CASE \/ P!Seed \/ (\E t \in Ticks : P!Load(t) \/ P!TickDies(t))
           \/ (\E t \in Ticks : P!GenLayerRegisters(t) \/ P!GenLayerResolves(t))
           \/ P!GenLayerRunsLate \/ P!IndexerStep \/ P!IndexerDies \/ P!FallBehind
           \/ UNCHANGED P!vars
  BY <1>1, <1>9
  DEF P!Seed, P!Load, P!TickDies, P!GenLayerRegisters, P!GenLayerResolves,
      P!GenLayerRunsLate, P!IndexerStep, P!IndexStart, P!MirrorSettlement, P!MirrorMarket,
      P!ReadStatus, P!Reconcile, P!IndexerDies, P!FallBehind, P!chains, P!vars
<1>10. QED BY <1>5, <1>6, <1>7, <1>8, <1>9 DEF P!Next

LEMMA SettlementBegins == P!Init => SettlementInv
BY InitTypes DEF P!Init, SettlementInv, P!Proposals, P!At, P!Idle

LEMMA SettlementStays == SettlementInv /\ [P!Next]_(P!vars) => SettlementInv'
<1> SUFFICES ASSUME SettlementInv, [P!Next]_(P!vars) PROVE SettlementInv'
  OBVIOUS
<1>1. P!TypeOK /\ P!TypeOK'
  BY NextTypes DEF SettlementInv
<1>2. ASSUME NEW t \in Ticks, P!At(t, "propose")' PROVE Committed(worker[t].verdict)'
  <2>1. PICK v : v = worker'[t].verdict
    OBVIOUS
  <2>2. Committed(v)
    BY <1>1, <1>2, <2>1, ValidatedIsCommitted, ProposersAreValidated DEF SettlementInv
  <2>3. Committed(v)'
    BY <1>1, <2>2, CommittedStays
  <2>4. QED BY <2>1, <2>3 DEF Committed
<1>3. ASSUME NEW o \in P!Proposals' PROVE Committed(o)'
  <2>1. Committed(o)
    BY <1>1, <1>3, ProposalsAreTheTicks DEF SettlementInv
  <2>2. QED BY <1>1, <2>1, CommittedStays
<1>4. QED BY <1>1, <1>2, <1>3 DEF SettlementInv

(* However ticks overlap, die and are repeated, and whatever late            *)
(* transactions and administrators do, a proposal on Arc is GenLayer's       *)
(* verdict for this very contract (validateResolution and what it rests on). *)
THEOREM ProposalsAreVerdicts == SettlementSpec => []ProposalsCarryTheVerdict
<1>1. SettlementInv => ProposalsCarryTheVerdict
  BY DEF SettlementInv, Committed, ProposalsCarryTheVerdict, P!ProposalsCarryTheVerdict
<1>2. P!Init => SettlementInv
  BY SettlementBegins
<1>3. SettlementInv /\ [P!Next]_(P!vars) => SettlementInv'
  BY SettlementStays
<1>4. QED BY <1>1, <1>2, <1>3, PTL DEF SettlementSpec, P!Spec

=============================================================================
