------------------------- MODULE OrchestrationProofs -------------------------
(* The orchestration worker's parts, proved for any number of proposals,     *)
(* callers, dispatchers, workers, intents and markets, and for every instant *)
(* of the schedule.  Each part has its inductive invariant; what one part    *)
(* does leaves the invariants of the others alone.                           *)
EXTENDS MCOrchestration, FiniteSetTheorems, TLAPS

Known(p) == Proposal!Known(p)
Ended == {"REFUNDED", "DISPOSED"}
InCustody == {p \in Proposals : Proposal!Locked(p)}

LEMMA HalfOfEven ==
    ASSUME NEW b \in Nat \ {0}, b % 2 = 0
    PROVE  b \div 2 \in Nat \ {0} /\ b \div 2 + b \div 2 = b
OBVIOUS

LEMMA EscrowNumbers ==
    /\ BOND \in Nat \ {0} /\ BOND \div 2 \in Nat \ {0} /\ BOND \div 2 + BOND \div 2 = BOND
    /\ MAX_REVISIONS \in Nat /\ TIMEOUT \in Nat \ {0} /\ MAX_TIME \in Nat
<1>1. BOND \in Nat \ {0} /\ BOND % 2 = 0
  BY EscrowAssumption, Zenon
<1>2. BOND \div 2 \in Nat \ {0} /\ BOND \div 2 + BOND \div 2 = BOND
  BY <1>1, HalfOfEven, Zenon
<1>3. MAX_REVISIONS \in Nat /\ TIMEOUT \in Nat \ {0} /\ MAX_TIME \in Nat
  BY EscrowAssumption, Zenon
<1>4. QED BY <1>1, <1>2, <1>3

(* How a bond that is at rest was paid out.                                  *)
PaidOut(p) ==
    /\ bonds[p].state = "REFUNDED" => returned[p] = BOND /\ reserve[p] = 0
    /\ bonds[p].state = "DISPOSED" =>
         returned[p] + reserve[p] = BOND /\ returned[p] \in {0, BOND \div 2}
    /\ bonds[p].state \notin Ended => returned[p] = 0 /\ reserve[p] = 0

(* The library's operator, under the name it has in the instance.            *)
LEMMA CountedAlike == \A S : Proposal!Cardinality(S) = Cardinality(S)
BY DEF Proposal!Cardinality, Cardinality

LEMMA EscrowIsExactIs ==
    Proposal!EscrowIsExact <=> held = BOND * Cardinality(InCustody) /\ \A p \in Proposals : PaidOut(p)
<1>1. Proposal!EscrowIsExact <=>
        held = BOND * Proposal!Cardinality(InCustody) /\ \A p \in Proposals : PaidOut(p)
  BY DEF Proposal!EscrowIsExact, PaidOut, InCustody, Ended
<1>2. QED BY <1>1, CountedAlike

LEMMA EscrowIsExactIsPrimed ==
    Proposal!EscrowIsExact' <=>
        held' = BOND * Cardinality(InCustody') /\ \A p \in Proposals : PaidOut(p)'
<1>1. Proposal!EscrowIsExact' <=>
        held' = BOND * Proposal!Cardinality(InCustody') /\ \A p \in Proposals : PaidOut(p)'
  BY DEF Proposal!EscrowIsExact, PaidOut, InCustody, Ended
<1>2. QED BY <1>1, CountedAlike

LEMMA CustodyIsCounted ==
    /\ IsFiniteSet(InCustody) /\ Cardinality(InCustody) \in Nat
    /\ \A p \in Proposals \ InCustody :
         Cardinality(InCustody \cup {p}) = Cardinality(InCustody) + 1
    /\ \A p \in InCustody :
         Cardinality(InCustody \ {p}) = Cardinality(InCustody) - 1 /\ Cardinality(InCustody) > 0
<1>1. IsFiniteSet(Proposals)
  BY EscrowAssumption, Zenon
<1>2. IsFiniteSet(InCustody)
  <2>1. InCustody \subseteq Proposals
    BY DEF InCustody
  <2>2. QED BY <1>1, <2>1, FS_Subset
<1>3. Cardinality(InCustody) \in Nat
  BY <1>2, FS_CardinalityType
<1>4. \A p \in Proposals \ InCustody :
        Cardinality(InCustody \cup {p}) = Cardinality(InCustody) + 1
  BY <1>2, FS_AddElement
<1>5. ASSUME NEW p \in InCustody
      PROVE  Cardinality(InCustody \ {p}) = Cardinality(InCustody) - 1 /\ Cardinality(InCustody) > 0
  <2>1. Cardinality(InCustody \ {p}) = Cardinality(InCustody) - 1
    BY <1>2, <1>5, FS_RemoveElement
  <2>2. Cardinality(InCustody \ {p}) \in Nat
    BY <1>2, FS_RemoveElement, FS_CardinalityType
  <2>3. QED BY <1>3, <2>1, <2>2
<1>6. QED BY <1>2, <1>3, <1>4, <1>5

----------------------------------------------------------------------------
(* Calls of the bond contract, whoever makes them.                           *)
Pays(p, proposerAmount, reserveAmount) ==
    /\ Proposal!Locked(p) /\ Proposal!Pay(p, proposerAmount, reserveAmount)
    /\ <<proposerAmount, reserveAmount>> \in
         {<<BOND, 0>>, <<0, BOND>>, <<BOND \div 2, BOND \div 2>>}

BondCall(p) ==
    \/ Proposal!BoundedLock(p) \/ Proposal!RecordRevision(p)
    \/ \E b \in BaseMarkets \cup {Proposal!NoMarket} : Proposal!BindMarket(p, b)
    \/ Proposal!Approve(p) \/ Proposal!RejectOrdinary(p)
    \/ Proposal!RetainForAbuse(p) \/ Proposal!TimeoutRefund(p)

(* A handler approves only behind a finalized resolver (once a bond has      *)
(* expired, an approval and a refund are the same to it).                    *)
CallIsBacked(p) ==
    Proposal!Approve(p) => Proposal!Expired(p) \/ (Known(p) /\ record[p].resolverTxId)

LEMMA CallsPay ==
    ASSUME NEW p \in Proposals
    PROVE  /\ Proposal!Approve(p) \/ Proposal!TimeoutRefund(p) => Pays(p, BOND, 0)
           /\ Proposal!RejectOrdinary(p) => Pays(p, BOND \div 2, BOND \div 2)
           /\ Proposal!RetainForAbuse(p) => Pays(p, 0, BOND)
BY DEF Proposal!Approve, Proposal!TimeoutRefund, Proposal!RejectOrdinary,
       Proposal!RetainForAbuse, Pays

(* What a payment does to the bond.                                          *)
LEMMA PaymentEndsTheBond ==
    ASSUME Proposal!EscrowTypeOK, NEW p \in Proposals, NEW a, NEW r, Pays(p, a, r)
    PROVE  /\ bonds' = [bonds EXCEPT ![p].state = IF r = 0 THEN "REFUNDED" ELSE "DISPOSED"]
           /\ returned' = [returned EXCEPT ![p] = @ + a]
           /\ reserve' = [reserve EXCEPT ![p] = @ + r]
           /\ a + r = BOND /\ BOND <= held /\ held' = held - BOND
           /\ a \in Nat /\ r \in Nat
           /\ r = 0 => a = BOND
           /\ r # 0 => a \in {0, BOND \div 2}
<1>1. a + r = BOND /\ a \in Nat /\ r \in Nat /\ (r = 0 => a = BOND)
       /\ (r # 0 => a \in {0, BOND \div 2})
  BY EscrowNumbers DEF Pays
<1>2. QED BY <1>1 DEF Pays, Proposal!Pay

LEMMA PaymentIsExact ==
    ASSUME Proposal!EscrowTypeOK, Proposal!EscrowIsExact, blockTime' = blockTime,
           NEW p \in Proposals, NEW a, NEW r, Pays(p, a, r)
    PROVE  (Proposal!EscrowTypeOK)' /\ (Proposal!EscrowIsExact)'
<1>1. /\ bonds' = [bonds EXCEPT ![p].state = IF r = 0 THEN "REFUNDED" ELSE "DISPOSED"]
      /\ returned' = [returned EXCEPT ![p] = @ + a]
      /\ reserve' = [reserve EXCEPT ![p] = @ + r]
      /\ a + r = BOND /\ BOND <= held /\ held' = held - BOND
      /\ a \in Nat /\ r \in Nat
      /\ r = 0 => a = BOND
      /\ r # 0 => a \in {0, BOND \div 2}
  BY PaymentEndsTheBond
<1>2. p \in InCustody /\ bonds[p].state = "LOCKED"
  BY DEF Pays, InCustody, Proposal!Locked
<1>3. bonds' \in [Proposals -> Proposal!Bond]
  BY <1>1 DEF Proposal!EscrowTypeOK, Proposal!Bond, Proposal!BondStates
<1>4. (Proposal!EscrowTypeOK)'
  <2>1. held' \in Nat
    <3>1. held \in Nat /\ BOND \in Nat
      BY EscrowNumbers DEF Proposal!EscrowTypeOK
    <3>2. BOND <= held /\ held' = held - BOND
      BY <1>1
    <3>3. QED BY <3>1, <3>2
  <2>2. returned' \in [Proposals -> Nat] /\ reserve' \in [Proposals -> Nat]
    BY <1>1 DEF Proposal!EscrowTypeOK
  <2>3. QED BY <1>3, <2>1, <2>2 DEF Proposal!EscrowTypeOK
<1>5. InCustody' = InCustody \ {p}
  <2>1. \A q \in Proposals : Proposal!Locked(q)' <=> Proposal!Locked(q) /\ q # p
    BY <1>1, <1>2 DEF Proposal!EscrowTypeOK, Proposal!Locked, Proposal!Bond
  <2>2. QED BY <2>1 DEF InCustody
<1>6. held' = BOND * Cardinality(InCustody')
  <2>1. held = BOND * Cardinality(InCustody)
    BY EscrowIsExactIs
  <2>2. Cardinality(InCustody') = Cardinality(InCustody) - 1 /\ Cardinality(InCustody) \in Nat
    BY <1>2, <1>5, CustodyIsCounted
  <2>3. QED BY <1>1, <2>1, <2>2, EscrowNumbers
<1>7. \A q \in Proposals : PaidOut(q)'
  <2> SUFFICES ASSUME NEW q \in Proposals PROVE PaidOut(q)'
    OBVIOUS
  <2>1. PaidOut(q)
    BY EscrowIsExactIs
  <2>2. CASE q # p
    BY <1>1, <2>1, <2>2 DEF Proposal!EscrowTypeOK, PaidOut
  <2>3. CASE q = p
    <3>1. returned[p] = 0 /\ reserve[p] = 0
      BY <1>2, <2>1, <2>3 DEF PaidOut, Ended
    <3>2. returned'[p] = a /\ reserve'[p] = r
      BY <1>1, <3>1 DEF Proposal!EscrowTypeOK
    <3>3. bonds'[p].state = IF r = 0 THEN "REFUNDED" ELSE "DISPOSED"
      BY <1>1 DEF Proposal!EscrowTypeOK, Proposal!Bond
    <3>4. QED BY <1>1, <2>3, <3>2, <3>3 DEF PaidOut, Ended
  <2>4. QED BY <2>2, <2>3
<1>8. QED BY <1>4, <1>6, <1>7, EscrowIsExactIsPrimed

LEMMA LockIsExact ==
    ASSUME Proposal!EscrowTypeOK, Proposal!EscrowIsExact, blockTime' = blockTime,
           NEW p \in Proposals, Proposal!Lock(p)
    PROVE  (Proposal!EscrowTypeOK)' /\ (Proposal!EscrowIsExact)'
<1>1. /\ bonds[p].state = "ABSENT" /\ held' = held + BOND
      /\ bonds' = [bonds EXCEPT ![p] = [Proposal!NoBond EXCEPT !.createdAt = blockTime,
                                                               !.state = "LOCKED"]]
      /\ returned' = returned /\ reserve' = reserve
  BY DEF Proposal!Lock
<1>2. bonds' \in [Proposals -> Proposal!Bond] /\ bonds'[p].state = "LOCKED"
  <2>1. blockTime \in Nat /\ 0 \in 0 .. MAX_REVISIONS
    BY EscrowNumbers DEF Proposal!EscrowTypeOK
  <2> DEFINE locked == [Proposal!NoBond EXCEPT !.createdAt = blockTime, !.state = "LOCKED"]
  <2>2. locked \in Proposal!Bond
    BY <2>1 DEF Proposal!Bond, Proposal!BondStates, Proposal!NoBond
  <2>3. locked.state = "LOCKED"
    BY DEF Proposal!NoBond
  <2>4. QED
    BY <1>1, <2>2, <2>3 DEF Proposal!EscrowTypeOK
<1>3. (Proposal!EscrowTypeOK)'
  BY <1>1, <1>2, EscrowNumbers DEF Proposal!EscrowTypeOK
<1>4. \A q \in Proposals : q # p => bonds'[q] = bonds[q]
  BY <1>1 DEF Proposal!EscrowTypeOK
<1>5. p \notin InCustody /\ InCustody' = InCustody \cup {p}
  BY <1>1, <1>2, <1>4 DEF InCustody, Proposal!Locked
<1>6. held' = BOND * Cardinality(InCustody')
  <2>1. held = BOND * Cardinality(InCustody)
    BY EscrowIsExactIs
  <2>2. Cardinality(InCustody') = Cardinality(InCustody) + 1 /\ Cardinality(InCustody) \in Nat
    BY <1>5, CustodyIsCounted
  <2>3. QED BY <1>1, <2>1, <2>2, EscrowNumbers
<1>7. \A q \in Proposals : PaidOut(q)'
  <2>1. \A q \in Proposals : PaidOut(q)
    BY EscrowIsExactIs
  <2>2. QED BY <1>1, <1>2, <1>4, <2>1 DEF PaidOut, Ended
<1>8. QED BY <1>3, <1>6, <1>7, EscrowIsExactIsPrimed

(* A revision and a binding change no money.                                 *)
LEMMA NotingIsExact ==
    ASSUME Proposal!EscrowTypeOK, Proposal!EscrowIsExact, blockTime' = blockTime,
           NEW p \in Proposals,
           \/ Proposal!RecordRevision(p)
           \/ \E b \in BaseMarkets \cup {Proposal!NoMarket} : Proposal!BindMarket(p, b)
    PROVE  (Proposal!EscrowTypeOK)' /\ (Proposal!EscrowIsExact)'
<1>1. held' = held /\ returned' = returned /\ reserve' = reserve
  BY DEF Proposal!RecordRevision, Proposal!BindMarket
<1>2. bonds' \in [Proposals -> Proposal!Bond]
  <2>1. CASE Proposal!RecordRevision(p)
    BY <2>1, EscrowNumbers DEF Proposal!RecordRevision, Proposal!EscrowTypeOK, Proposal!Bond
  <2>2. CASE \E b \in BaseMarkets \cup {Proposal!NoMarket} : Proposal!BindMarket(p, b)
    BY <2>2 DEF Proposal!BindMarket, Proposal!EscrowTypeOK, Proposal!Bond
  <2>3. QED BY <2>1, <2>2
<1>3. (Proposal!EscrowTypeOK)'
  BY <1>1, <1>2 DEF Proposal!EscrowTypeOK
<1>4. \A q \in Proposals : bonds'[q].state = bonds[q].state
  BY DEF Proposal!RecordRevision, Proposal!BindMarket, Proposal!EscrowTypeOK, Proposal!Bond
<1>5. InCustody' = InCustody
  BY <1>4 DEF InCustody, Proposal!Locked
<1>6. \A q \in Proposals : PaidOut(q)'
  <2>1. \A q \in Proposals : PaidOut(q)
    BY EscrowIsExactIs
  <2>2. QED BY <1>1, <1>4, <2>1 DEF PaidOut
<1>7. held' = BOND * Cardinality(InCustody')
  BY <1>1, <1>5, EscrowIsExactIs
<1>8. QED BY <1>3, <1>6, <1>7, EscrowIsExactIsPrimed

LEMMA BondCallIsExact ==
    ASSUME Proposal!EscrowTypeOK, Proposal!EscrowIsExact, blockTime' = blockTime,
           NEW p \in Proposals, BondCall(p)
    PROVE  (Proposal!EscrowTypeOK)' /\ (Proposal!EscrowIsExact)'
<1>1. CASE Proposal!BoundedLock(p)
  BY <1>1, LockIsExact DEF Proposal!BoundedLock
<1>2. CASE \/ Proposal!RecordRevision(p)
           \/ \E b \in BaseMarkets \cup {Proposal!NoMarket} : Proposal!BindMarket(p, b)
  BY <1>2, NotingIsExact
<1>3. CASE \E a, r : Pays(p, a, r)
  BY <1>3, PaymentIsExact
<1>4. QED BY <1>1, <1>2, <1>3, CallsPay DEF BondCall

----------------------------------------------------------------------------
(* What the record says of the bond, and the bond of the record.             *)
BondTold(p) ==
    /\ bonds[p].state = "ABSENT" => bonds[p].revisions = 0
    /\ bonds[p].state = "REFUNDED" /\ ~Proposal!Expired(p) =>
         Known(p) /\ record[p].resolverTxId /\ bonds[p].baseMarket # Proposal!NoMarket
    /\ Known(p) =>
         /\ record[p].state \in {"BOND_REFUNDED", "TIMED_OUT"} => bonds[p].state = "REFUNDED"
         /\ record[p].state = "REJECTED" => bonds[p].state = "DISPOSED"
         /\ record[p].revisions <= bonds[p].revisions
         /\ record[p].state = "RESOLVER_FINALIZED" => record[p].resolverTxId

(* A bond's revisions only grow, and one that has ended changes no more.     *)
BondsGrow ==
    \A p \in Proposals :
        /\ bonds[p].revisions <= bonds'[p].revisions
        /\ bonds[p].state \in Ended => bonds'[p] = bonds[p]

LEMMA BondCallOnBonds ==
    ASSUME Proposal!EscrowTypeOK, NEW p \in Proposals, BondCall(p), BondTold(p),
           Known(p) => record[p].revisions \in Nat,
           blockTime' = blockTime, record' = record, CallIsBacked(p)
    PROVE  /\ \A q \in Proposals : q # p => bonds'[q] = bonds[q]
           /\ bonds[p].state \notin Ended
           /\ bonds[p].revisions <= bonds'[p].revisions
           /\ BondTold(p)'
<1> USE DEF Proposal!NoBond, Proposal!Bond, Proposal!EscrowTypeOK, Ended
<1>1. CASE Proposal!BoundedLock(p)
  <2>1. /\ bonds[p].state = "ABSENT"
        /\ bonds' = [bonds EXCEPT ![p] = [Proposal!NoBond EXCEPT !.createdAt = blockTime,
                                                                 !.state = "LOCKED"]]
    BY <1>1 DEF Proposal!BoundedLock, Proposal!Lock
  <2>2. bonds'[p].state = "LOCKED" /\ bonds'[p].revisions = 0 /\ bonds[p].revisions = 0
    BY <2>1 DEF BondTold
  <2>3. BondTold(p)'
    <3>1. CASE Known(p)
      BY <2>1, <2>2, <3>1 DEF BondTold, Known, Proposal!Known
    <3>2. CASE ~Known(p)
      BY <2>2, <3>2 DEF BondTold, Known, Proposal!Known
    <3>3. QED BY <3>1, <3>2
  <2>4. \A q \in Proposals : q # p => bonds'[q] = bonds[q]
    BY <2>1
  <2>5. bonds[p].state \notin Ended /\ bonds[p].revisions <= bonds'[p].revisions
    BY <2>1, <2>2
  <2>6. QED BY <2>3, <2>4, <2>5
<1>2. CASE Proposal!RecordRevision(p)
  <2>1. bonds[p].state = "LOCKED" /\ bonds' = [bonds EXCEPT ![p].revisions = @ + 1]
    BY <1>2 DEF Proposal!RecordRevision, Proposal!Locked
  <2>2. bonds'[p].state = "LOCKED" /\ bonds'[p].revisions = bonds[p].revisions + 1
    BY <2>1
  <2>3. CASE Known(p)
    BY <2>1, <2>2, <2>3 DEF BondTold, Known, Proposal!Known
  <2>4. CASE ~Known(p)
    BY <2>1, <2>2, <2>4 DEF BondTold, Known, Proposal!Known
  <2>5. QED BY <2>3, <2>4
<1>3. CASE \E b \in BaseMarkets \cup {Proposal!NoMarket} : Proposal!BindMarket(p, b)
  <2>1. PICK b \in BaseMarkets \cup {Proposal!NoMarket} :
          bonds[p].state = "LOCKED" /\ bonds' = [bonds EXCEPT ![p].baseMarket = b]
    BY <1>3 DEF Proposal!BindMarket, Proposal!Locked
  <2>2. bonds'[p].state = "LOCKED" /\ bonds'[p].revisions = bonds[p].revisions
    BY <2>1
  <2>3. QED BY <2>1, <2>2 DEF BondTold, Known, Proposal!Known
<1>4. CASE \/ Proposal!Approve(p) \/ Proposal!RejectOrdinary(p)
           \/ Proposal!RetainForAbuse(p) \/ Proposal!TimeoutRefund(p)
  <2>1. PICK a, r : Pays(p, a, r)
    BY <1>4, CallsPay
  <2>2. /\ bonds[p].state = "LOCKED"
        /\ bonds' = [bonds EXCEPT ![p].state = IF r = 0 THEN "REFUNDED" ELSE "DISPOSED"]
    BY <2>1, PaymentEndsTheBond DEF Pays, Proposal!Locked
  <2>3. /\ bonds'[p].state = IF r = 0 THEN "REFUNDED" ELSE "DISPOSED"
        /\ bonds'[p].revisions = bonds[p].revisions
        /\ bonds'[p].createdAt = bonds[p].createdAt
        /\ bonds'[p].baseMarket = bonds[p].baseMarket
    BY <2>2
  <2>4. bonds'[p].state = "REFUNDED" /\ ~Proposal!Expired(p)' =>
          Known(p) /\ record[p].resolverTxId /\ bonds[p].baseMarket # Proposal!NoMarket
    <3>1. Proposal!Approve(p) => bonds[p].baseMarket # Proposal!NoMarket
      BY DEF Proposal!Approve
    <3>2. Proposal!TimeoutRefund(p) => Proposal!Expired(p)'
      BY <2>3 DEF Proposal!TimeoutRefund, Proposal!Expired
    <3>. Proposal!Expired(p) => Proposal!Expired(p)'
      BY <2>3 DEF Proposal!Expired
    <3>3. bonds'[p].state = "REFUNDED" => Proposal!Approve(p) \/ Proposal!TimeoutRefund(p)
      <4>1. Proposal!RejectOrdinary(p) \/ Proposal!RetainForAbuse(p) => bonds'[p].state = "DISPOSED"
        BY CallsPay, PaymentEndsTheBond, EscrowNumbers
      <4>2. QED BY <1>4, <4>1
    <3>4. QED BY <3>1, <3>2, <3>3 DEF CallIsBacked
  <2>5. QED BY <2>2, <2>3, <2>4 DEF BondTold, Known, Proposal!Known
<1>5. QED BY <1>1, <1>2, <1>3, <1>4 DEF BondCall

----------------------------------------------------------------------------
(* What a handler that waits in the middle of its work may rely on, though   *)
(* others went on meanwhile: j is its job, b the bonds, r the records.       *)
Backed(j, b, r) ==
    /\ j.step \in Proposal!Steps \ {"lock", "create"} => r[j.p] # Proposal!NoRecord
    /\ j.step \in {"saveBound", "bind", "approve"} => r[j.p].resolverTxId
    /\ j.step = "revise" => j.revisions < MAX_REVISIONS /\ j.revisions <= b[j.p].revisions
    /\ j.step = "saveRevision" => j.revisions < b[j.p].revisions
    /\ j.step = "saveRejected" => b[j.p].state = "DISPOSED"
    /\ j.step \in {"saveRefunded", "saveTimedOut"} => b[j.p].state = "REFUNDED"

RecordsGrow ==
    \A p \in Proposals : record[p] # Proposal!NoRecord =>
        /\ record'[p] # Proposal!NoRecord
        /\ record[p].resolverTxId => record'[p].resolverTxId

LEMMA BackedStaysBacked ==
    ASSUME Proposal!EscrowTypeOK, (Proposal!EscrowTypeOK)', BondsGrow, RecordsGrow,
           NEW j \in Proposal!Job, Backed(j, bonds, record)
    PROVE  Backed(j, bonds', record')
<1>1. j.p \in Proposals /\ j.revisions \in Nat
  BY EscrowNumbers DEF Proposal!Job
<1>2. bonds[j.p].revisions \in Nat /\ bonds'[j.p].revisions \in Nat
  BY <1>1, EscrowNumbers DEF Proposal!EscrowTypeOK, Proposal!Bond
<1>3. /\ bonds[j.p].revisions <= bonds'[j.p].revisions
      /\ bonds[j.p].state \in Ended => bonds'[j.p].state = bonds[j.p].state
  BY <1>1 DEF BondsGrow
<1>4. record[j.p] # Proposal!NoRecord =>
        /\ record'[j.p] # Proposal!NoRecord
        /\ record[j.p].resolverTxId => record'[j.p].resolverTxId
  BY <1>1 DEF RecordsGrow
<1>5. /\ j.step \in Proposal!Steps \ {"lock", "create"} => record'[j.p] # Proposal!NoRecord
      /\ j.step \in {"saveBound", "bind", "approve"} => record'[j.p].resolverTxId
  BY <1>4 DEF Backed, Proposal!Steps
<1>6. /\ j.step = "revise" => j.revisions < MAX_REVISIONS /\ j.revisions <= bonds'[j.p].revisions
      /\ j.step = "saveRevision" => j.revisions < bonds'[j.p].revisions
  BY <1>1, <1>2, <1>3 DEF Backed
<1>7. /\ j.step = "saveRejected" => bonds'[j.p].state = "DISPOSED"
      /\ j.step \in {"saveRefunded", "saveTimedOut"} => bonds'[j.p].state = "REFUNDED"
  BY <1>3 DEF Backed, Ended
<1>8. QED BY <1>5, <1>6, <1>7 DEF Backed

LEMMA NoRecordIsNone == Proposal!NoRecord \notin Proposal!Record
<1>1. \A r \in Proposal!Record : r.state # "NO RECORD"
  BY DEF Proposal!Record, Proposal!States
<1>2. QED BY <1>1 DEF Proposal!NoRecord

LEMMA RowIsARecord ==
    ASSUME Proposal!TypeOK, NEW p \in Proposals
    PROVE  /\ Known(p) <=> record[p] \in Proposal!Record
           /\ Known(p) => record[p].revisions \in Nat
<1>1. Proposal!NoRecord \notin Proposal!Record
  BY NoRecordIsNone
<1>2. record[p] \in Proposal!Record \cup {Proposal!NoRecord}
  BY DEF Proposal!TypeOK
<1>3. record[p] \in Proposal!Record => record[p].revisions \in Nat
  BY EscrowNumbers DEF Proposal!Record
<1>4. QED BY <1>1, <1>2, <1>3 DEF Known, Proposal!Known

LEMMA NewRecordIsARecord ==
    ASSUME NEW s \in Proposal!States
    PROVE  /\ Proposal!NewRecord(s) \in Proposal!Record
           /\ Proposal!NewRecord(s).state = s /\ Proposal!NewRecord(s).revisions = 0
<1>1. 0 \in 0 .. MAX_REVISIONS
  BY EscrowNumbers
<1>2. QED BY <1>1 DEF Proposal!NewRecord, Proposal!Record

(* A patch that is true of the bond and forgets no resolver.                 *)
TrueOf(patch, p) ==
    /\ patch \in Proposal!Record
    /\ Known(p) /\ record[p].resolverTxId => patch.resolverTxId
    /\ patch.state \in {"BOND_REFUNDED", "TIMED_OUT"} => bonds[p].state = "REFUNDED"
    /\ patch.state = "REJECTED" => bonds[p].state = "DISPOSED"
    /\ patch.revisions <= bonds[p].revisions
    /\ patch.state = "RESOLVER_FINALIZED" => patch.resolverTxId

LEMMA TrueSave ==
    ASSUME Proposal!TypeOK, \A p \in Proposals : BondTold(p), NEW p \in Proposals,
           NEW patch, TrueOf(patch, p), record' = [record EXCEPT ![p] = patch],
           bonds' = bonds, blockTime' = blockTime
    PROVE  /\ record' \in [Proposals -> Proposal!Record \cup {Proposal!NoRecord}]
           /\ \A q \in Proposals : BondTold(q)'
           /\ RecordsGrow
<1>1. record \in [Proposals -> Proposal!Record \cup {Proposal!NoRecord}]
  BY DEF Proposal!TypeOK
<1>2. record' \in [Proposals -> Proposal!Record \cup {Proposal!NoRecord}]
  BY <1>1 DEF TrueOf
<1>3. /\ record'[p] = patch /\ patch # Proposal!NoRecord
      /\ \A q \in Proposals : q # p => record'[q] = record[q]
  <2>1. patch # Proposal!NoRecord
    BY NoRecordIsNone DEF TrueOf
  <2>2. QED BY <1>1, <2>1
<1>4. RecordsGrow
  BY <1>3 DEF RecordsGrow, TrueOf, Known, Proposal!Known
<1>5. ASSUME NEW q \in Proposals PROVE BondTold(q)'
  <2>1. BondTold(q) /\ bonds'[q] = bonds[q] /\ (Proposal!Expired(q)' <=> Proposal!Expired(q))
    BY DEF Proposal!Expired
  <2>2. CASE q # p
    BY <1>3, <2>1, <2>2 DEF BondTold, Known, Proposal!Known
  <2>3. CASE q = p
    BY <1>3, <2>1, <2>3 DEF BondTold, TrueOf, Known, Proposal!Known
  <2>4. QED BY <2>2, <2>3
<1>6. QED BY <1>2, <1>4, <1>5

----------------------------------------------------------------------------
(* The inductive invariant of the proposals.                                 *)
ProposalInv ==
    /\ Proposal!TypeOK /\ Proposal!EscrowIsExact
    /\ \A p \in Proposals : BondTold(p)
    /\ \A w \in Callers : job[w] # Proposal!Idle => Backed(job[w], bonds, record)

(* What a step may do to the bonds and the records.                          *)
Rests == UNCHANGED <<bonds, held, returned, reserve, record>>
Calls(p) == BondCall(p) /\ CallIsBacked(p) /\ record' = record
Saves(p, patch) ==
    /\ TrueOf(patch, p) /\ record' = [record EXCEPT ![p] = patch]
    /\ UNCHANGED <<bonds, held, returned, reserve>>

LEMMA BooksStayRight ==
    ASSUME ProposalInv, blockTime' = blockTime,
           \/ Rests
           \/ \E p \in Proposals : Calls(p)
           \/ \E p \in Proposals : \E patch : Saves(p, patch)
    PROVE  /\ (Proposal!EscrowTypeOK)' /\ (Proposal!EscrowIsExact)'
           /\ record' \in [Proposals -> Proposal!Record \cup {Proposal!NoRecord}]
           /\ \A p \in Proposals : BondTold(p)'
           /\ BondsGrow /\ RecordsGrow
<1>1. Proposal!TypeOK /\ Proposal!EscrowTypeOK /\ Proposal!EscrowIsExact
      /\ \A p \in Proposals : BondTold(p)
  BY DEF ProposalInv, Proposal!TypeOK
<1>2. record \in [Proposals -> Proposal!Record \cup {Proposal!NoRecord}]
  BY <1>1 DEF Proposal!TypeOK
<1>3. \A p \in Proposals : bonds[p].revisions \in Nat
  BY <1>1, EscrowNumbers DEF Proposal!EscrowTypeOK, Proposal!Bond
<1>4. ASSUME UNCHANGED <<bonds, held, returned, reserve>>
      PROVE  (Proposal!EscrowTypeOK)' /\ (Proposal!EscrowIsExact)' /\ BondsGrow
  <2>1. (Proposal!EscrowTypeOK)'
    BY <1>1, <1>4 DEF Proposal!EscrowTypeOK
  <2>2. (Proposal!EscrowIsExact)'
    BY <1>1, <1>4 DEF Proposal!EscrowIsExact, Proposal!Locked
  <2>3. BondsGrow
    BY <1>3, <1>4 DEF BondsGrow
  <2>4. QED BY <2>1, <2>2, <2>3
<1>5. CASE Rests
  <2>1. UNCHANGED <<bonds, held, returned, reserve>> /\ record' = record
    BY <1>5 DEF Rests
  <2>2. \A p \in Proposals : BondTold(p)'
    BY <1>1, <2>1 DEF BondTold, Known, Proposal!Known, Proposal!Expired
  <2>3. RecordsGrow
    BY <2>1 DEF RecordsGrow
  <2>4. QED BY <1>2, <1>4, <2>1, <2>2, <2>3
<1>6. CASE \E p \in Proposals : Calls(p)
  <2>1. PICK p \in Proposals : BondCall(p) /\ CallIsBacked(p) /\ record' = record
    BY <1>6 DEF Calls
  <2>2. (Proposal!EscrowTypeOK)' /\ (Proposal!EscrowIsExact)'
    BY <1>1, <2>1, BondCallIsExact
  <2>3. Known(p) => record[p].revisions \in Nat
    BY <1>1, RowIsARecord
  <2>4. /\ \A q \in Proposals : q # p => bonds'[q] = bonds[q]
        /\ bonds[p].state \notin Ended
        /\ bonds[p].revisions <= bonds'[p].revisions
        /\ BondTold(p)'
    BY <1>1, <2>1, <2>3, BondCallOnBonds
  <2>5. BondsGrow
    BY <1>3, <2>4 DEF BondsGrow
  <2>6. ASSUME NEW q \in Proposals PROVE BondTold(q)'
    <3>1. CASE q = p
      BY <2>4, <3>1
    <3>2. CASE q # p
      BY <1>1, <2>1, <2>4, <3>2 DEF BondTold, Known, Proposal!Known, Proposal!Expired
    <3>3. QED BY <3>1, <3>2
  <2>7. RecordsGrow
    BY <2>1 DEF RecordsGrow
  <2>8. QED BY <1>2, <2>1, <2>2, <2>5, <2>6, <2>7
<1>7. CASE \E p \in Proposals : \E patch : Saves(p, patch)
  <2>0. PICK p \in Proposals : \E patch : Saves(p, patch)
    BY <1>7
  <2>1. PICK patch : Saves(p, patch)
    BY <2>0
  <2>2. UNCHANGED <<bonds, held, returned, reserve>>
    BY <2>1 DEF Saves
  <2>3. /\ record' \in [Proposals -> Proposal!Record \cup {Proposal!NoRecord}]
        /\ \A q \in Proposals : BondTold(q)'
        /\ RecordsGrow
    BY <1>1, <2>1, TrueSave DEF Saves
  <2>4. QED BY <1>4, <2>2, <2>3
<1>8. QED BY <1>5, <1>6, <1>7

LEMMA HandlersStayBacked ==
    ASSUME ProposalInv, (Proposal!EscrowTypeOK)', BondsGrow, RecordsGrow,
           NEW w \in Callers, job'[w] = job[w]
    PROVE  job'[w] # Proposal!Idle => Backed(job'[w], bonds', record')
<1>1. job[w] \in Proposal!Job \cup {Proposal!Idle}
      /\ (job[w] # Proposal!Idle => Backed(job[w], bonds, record)) /\ Proposal!EscrowTypeOK
  BY DEF ProposalInv, Proposal!TypeOK
<1>2. QED BY <1>1, BackedStaysBacked

(* A step of a handler, or of nobody, that leaves its worker with job j.     *)
LEMMA HandlerStep ==
    ASSUME ProposalInv, blockTime' = blockTime,
           \/ Rests
           \/ \E p \in Proposals : Calls(p)
           \/ \E p \in Proposals : \E patch : Saves(p, patch),
           \/ job' = job
           \/ \E w \in Callers, j \in Proposal!Job \cup {Proposal!Idle} :
                /\ job' = [job EXCEPT ![w] = j]
                /\ j # Proposal!Idle => Backed(j, bonds', record')
    PROVE  ProposalInv'
<1>1. /\ (Proposal!EscrowTypeOK)' /\ (Proposal!EscrowIsExact)'
      /\ record' \in [Proposals -> Proposal!Record \cup {Proposal!NoRecord}]
      /\ \A p \in Proposals : BondTold(p)'
      /\ BondsGrow /\ RecordsGrow
  BY BooksStayRight
<1>2. job \in [Callers -> Proposal!Job \cup {Proposal!Idle}]
  BY DEF ProposalInv, Proposal!TypeOK
<1>3. blockTime' <= MAX_TIME
  BY DEF ProposalInv, Proposal!TypeOK
<1>4. CASE job' = job
  <2>1. \A w \in Callers : job'[w] # Proposal!Idle => Backed(job'[w], bonds', record')
    BY <1>1, <1>4, HandlersStayBacked
  <2>2. QED BY <1>1, <1>2, <1>3, <1>4, <2>1 DEF ProposalInv, Proposal!TypeOK
<1>5. CASE \E w \in Callers, j \in Proposal!Job \cup {Proposal!Idle} :
             /\ job' = [job EXCEPT ![w] = j]
             /\ j # Proposal!Idle => Backed(j, bonds', record')
  <2>1. PICK w \in Callers, j \in Proposal!Job \cup {Proposal!Idle} :
          /\ job' = [job EXCEPT ![w] = j]
          /\ j # Proposal!Idle => Backed(j, bonds', record')
    BY <1>5
  <2>2. job' \in [Callers -> Proposal!Job \cup {Proposal!Idle}]
    BY <1>2, <2>1
  <2>3. ASSUME NEW v \in Callers
        PROVE  job'[v] # Proposal!Idle => Backed(job'[v], bonds', record')
    <3>1. CASE v = w
      BY <1>2, <2>1, <3>1
    <3>2. CASE v # w
      <4>1. job'[v] = job[v]
        BY <1>2, <2>1, <3>2
      <4>2. QED BY <1>1, <4>1, HandlersStayBacked
    <3>3. QED BY <3>1, <3>2
  <2>4. QED BY <1>1, <1>3, <2>2, <2>3 DEF ProposalInv, Proposal!TypeOK
<1>6. QED BY <1>4, <1>5

----------------------------------------------------------------------------
(* A handler starts: it loaded the record and checked it.                    *)
LEMMA StartIsBacked ==
    ASSUME ProposalInv, NEW w \in Callers, NEW p \in Proposals, NEW step \in Proposal!Steps,
           NEW revisions \in 0 .. MAX_REVISIONS,
           NEW baseMarket \in BaseMarkets \cup {Proposal!NoMarket},
           Proposal!Start(w, p, step, revisions, baseMarket),
           step \in {"lock"} \/ Known(p),
           step = "saveBound" => record[p].resolverTxId,
           step = "revise" => revisions < MAX_REVISIONS /\ revisions <= bonds[p].revisions,
           step \notin {"create", "bind", "approve", "saveRevision", "saveRejected",
                        "saveRefunded", "saveTimedOut"}
    PROVE  ProposalInv'
<1> DEFINE j == [p |-> p, step |-> step, revisions |-> revisions, baseMarket |-> baseMarket]
<1>1. UNCHANGED <<blockTime, bonds, held, returned, reserve, record>>
      /\ job' = [job EXCEPT ![w] = j]
  BY DEF Proposal!Start, Proposal!escrowVars
<1>2. j \in Proposal!Job \cup {Proposal!Idle}
  BY DEF Proposal!Job
<1>3. Backed(j, bonds, record)
  BY DEF Backed, Known, Proposal!Known
<1>4. Backed(j, bonds', record')
  BY <1>1, <1>3 DEF Backed
<1>5. QED
  <2> HIDE DEF j
  <2>1. Rests
    BY <1>1 DEF Rests
  <2>2. QED BY <1>1, <1>2, <1>4, <2>1, HandlerStep

LEMMA HandleKeepsProposalInv ==
    ASSUME ProposalInv, NEW w \in Callers, NEW p \in Proposals, Proposal!Handle(w, p)
    PROVE  ProposalInv'
<1>0. Proposal!NoMarket \in BaseMarkets \cup {Proposal!NoMarket} /\ 0 \in 0 .. MAX_REVISIONS
  BY EscrowNumbers
<1>1. CASE Proposal!BeginProposal(w, p)
  BY <1>0, <1>1, StartIsBacked DEF Proposal!BeginProposal, Proposal!Steps
<1>2. CASE \E d \in Proposal!Decisions : Proposal!ApplyAdmissibility(w, p, d)
  <2>1. Known(p)
    BY <1>2 DEF Proposal!ApplyAdmissibility, Known
  <2>2. CASE Proposal!Start(w, p, "deploy", 0, Proposal!NoMarket)
    BY <1>0, <2>1, <2>2, StartIsBacked DEF Proposal!Steps
  <2>3. CASE /\ record[p].revisions < MAX_REVISIONS
             /\ Proposal!Start(w, p, "revise", record[p].revisions, Proposal!NoMarket)
    <3>1. record[p].revisions \in 0 .. MAX_REVISIONS
      <4>1. record[p] \in Proposal!Record
        BY <2>1, RowIsARecord DEF ProposalInv
      <4>2. QED BY <4>1 DEF Proposal!Record
    <3>2. record[p].revisions <= bonds[p].revisions
      BY <2>1 DEF ProposalInv, BondTold
    <3>3. QED BY <1>0, <2>1, <2>3, <3>1, <3>2, StartIsBacked DEF Proposal!Steps
  <2>4. CASE Proposal!Start(w, p, "reject", 0, Proposal!NoMarket)
    BY <1>0, <2>1, <2>4, StartIsBacked DEF Proposal!Steps
  <2>5. QED BY <1>2, <2>2, <2>3, <2>4 DEF Proposal!ApplyAdmissibility
<1>3. CASE Proposal!MarkResolverFinalized(w, p)
  BY <1>0, <1>3, StartIsBacked DEF Proposal!MarkResolverFinalized, Proposal!Steps, Known
<1>4. CASE \E b \in BaseMarkets : Proposal!BindBaseMarket(w, p, b)
  <2>1. PICK b \in BaseMarkets : Proposal!BindBaseMarket(w, p, b)
    BY <1>4
  <2>2. Known(p) /\ record[p].resolverTxId
    BY <2>1 DEF Proposal!BindBaseMarket, ProposalInv, BondTold, Known
  <2>3. Proposal!Start(w, p, "saveBound", 0, b)
    BY <2>1 DEF Proposal!BindBaseMarket
  <2>4. QED BY <1>0, <2>2, <2>3, StartIsBacked DEF Proposal!Steps
<1>5. CASE Proposal!MarkAbuse(w, p)
  BY <1>0, <1>5, StartIsBacked DEF Proposal!MarkAbuse, Proposal!Steps, Known
<1>6. CASE Proposal!TimeoutProposal(w, p)
  BY <1>0, <1>6, StartIsBacked DEF Proposal!TimeoutProposal, Proposal!Steps, Known
<1>7. QED BY <1>1, <1>2, <1>3, <1>4, <1>5, <1>6 DEF Proposal!Handle

----------------------------------------------------------------------------
(* A handler goes on.                                                        *)
LEMMA HandlerWaits ==
    ASSUME ProposalInv, NEW w \in Callers, NEW step \in Proposal!Steps, Proposal!At(w, step)
    PROVE  /\ job[w] \in Proposal!Job /\ job[w].step = step /\ job[w].p \in Proposals
           /\ job[w].revisions \in 0 .. MAX_REVISIONS
           /\ job[w].baseMarket \in BaseMarkets \cup {Proposal!NoMarket}
           /\ Backed(job[w], bonds, record)
<1>1. job[w].step = step /\ job[w] # Proposal!Idle
  BY DEF Proposal!At, Proposal!Idle, Proposal!Steps
<1>2. job[w] \in Proposal!Job
  BY <1>1 DEF ProposalInv, Proposal!TypeOK
<1>3. QED BY <1>1, <1>2 DEF ProposalInv, Proposal!Job

(* An awaited call of the contract that was answered.                        *)
LEMMA CallIsSound ==
    ASSUME ProposalInv, NEW w \in Callers,
           NEW at \in Proposal!Steps, NEW next \in Proposal!Steps,
           Proposal!At(w, at), Proposal!GoTo(w, next), UNCHANGED <<blockTime, record>>,
           BondCall(job[w].p), CallIsBacked(job[w].p),
           Backed([job[w] EXCEPT !.step = next], bonds', record')
    PROVE  ProposalInv'
<1> DEFINE j == [job[w] EXCEPT !.step = next]
<1>1. job[w] \in Proposal!Job /\ job[w].p \in Proposals
  BY HandlerWaits
<1>2. j \in Proposal!Job \cup {Proposal!Idle}
  BY <1>1 DEF Proposal!Job
<1>3. job' = [job EXCEPT ![w] = j]
  BY DEF Proposal!GoTo
<1>4. Backed(j, bonds', record')
  OBVIOUS
<1>5. \E p \in Proposals : Calls(p)
  BY <1>1 DEF Calls
<1>6. QED
  <2> HIDE DEF j
  <2>1. QED BY <1>2, <1>3, <1>4, <1>5, HandlerStep

LEMMA CallKeepsProposalInv ==
    ASSUME ProposalInv, NEW w \in Callers,
           \/ Proposal!LockCall(w) \/ Proposal!RevisionCall(w) \/ Proposal!RejectCall(w)
           \/ Proposal!RetainCall(w) \/ Proposal!BindCall(w) \/ Proposal!ApproveCall(w)
           \/ Proposal!RefundCall(w)
    PROVE  ProposalInv'
<1> DEFINE p == job[w].p
           On(next) == [job[w] EXCEPT !.step = next]
<1> USE DEF Proposal!Call
<1>1. Proposal!EscrowTypeOK
  BY DEF ProposalInv, Proposal!TypeOK
<1>2. ASSUME NEW step \in Proposal!Steps, Proposal!At(w, step)
      PROVE  /\ p \in Proposals /\ Backed(job[w], bonds, record) /\ job[w].step = step
             /\ job[w].revisions \in Nat
             /\ bonds[p] \in Proposal!Bond /\ bonds[p].revisions \in Nat
             /\ job[w] \in Proposal!Job
  BY <1>1, <1>2, HandlerWaits, EscrowNumbers DEF Proposal!EscrowTypeOK, Proposal!Bond
<1>3. ASSUME NEW next \in Proposal!Steps, job[w] \in Proposal!Job
      PROVE  On(next).p = p /\ On(next).revisions = job[w].revisions /\ On(next).step = next
  BY <1>3 DEF Proposal!Job
<1>refunds. ASSUME Proposal!EscrowTypeOK, p \in Proposals,
              Proposal!Approve(p) \/ Proposal!TimeoutRefund(p)
       PROVE  bonds'[p].state = "REFUNDED" /\ BondCall(p)
  BY <1>refunds, CallsPay, PaymentEndsTheBond DEF Proposal!EscrowTypeOK, Proposal!Bond, BondCall
<1>disposes. ASSUME Proposal!EscrowTypeOK, p \in Proposals,
             Proposal!RejectOrdinary(p) \/ Proposal!RetainForAbuse(p)
      PROVE  bonds'[p].state = "DISPOSED" /\ ~Proposal!Approve(p) /\ BondCall(p)
  <2>1. bonds'[p].state = "DISPOSED"
    BY <1>disposes, CallsPay, PaymentEndsTheBond, EscrowNumbers DEF Proposal!EscrowTypeOK, Proposal!Bond
  <2>2. Proposal!Approve(p) => bonds'[p].state = "REFUNDED"
    BY <1>disposes, <1>refunds
  <2>3. QED BY <1>disposes, <2>1, <2>2 DEF BondCall
<1>4. CASE Proposal!LockCall(w)
  <2>1. "lock" \in Proposal!Steps /\ "create" \in Proposal!Steps
    BY DEF Proposal!Steps
  <2>2. Proposal!At(w, "lock") /\ Proposal!BoundedLock(p) /\ Proposal!GoTo(w, "create")
         /\ UNCHANGED <<blockTime, record>>
    BY <1>4 DEF Proposal!LockCall, Proposal!BoundedLock, Proposal!Lock
  <2>3. p \in Proposals /\ bonds[p].state = "ABSENT"
    BY <1>2, <2>1, <2>2 DEF Proposal!BoundedLock, Proposal!Lock
  <2>4. BondCall(p) /\ CallIsBacked(p)
    BY <2>2, <2>3 DEF BondCall, CallIsBacked, Proposal!Approve, Proposal!Locked
  <2>5. Backed(On("create"), bonds', record')
    BY <1>2, <1>3, <2>1, <2>2 DEF Backed
  <2>6. QED BY <2>1, <2>2, <2>4, <2>5, CallIsSound
<1>5. CASE Proposal!RevisionCall(w)
  <2>1. "revise" \in Proposal!Steps /\ "saveRevision" \in Proposal!Steps
    BY DEF Proposal!Steps
  <2>2. Proposal!At(w, "revise") /\ Proposal!RecordRevision(p) /\ Proposal!GoTo(w, "saveRevision")
         /\ UNCHANGED <<blockTime, record>>
    BY <1>5 DEF Proposal!RevisionCall
  <2>3. p \in Proposals /\ bonds[p].state = "LOCKED"
         /\ bonds' = [bonds EXCEPT ![p].revisions = @ + 1]
    BY <1>2, <2>1, <2>2 DEF Proposal!RecordRevision, Proposal!Locked
  <2>4. bonds'[p].state = "LOCKED" /\ bonds'[p].revisions = bonds[p].revisions + 1
    BY <1>1, <1>2, <2>1, <2>2, <2>3 DEF Proposal!EscrowTypeOK, Proposal!Bond
  <2>5. BondCall(p) /\ CallIsBacked(p)
    <3>1. ~Proposal!Approve(p)
      <4>1. Proposal!Approve(p) => bonds'[p].state = "REFUNDED"
        BY <1>1, <2>3, <1>refunds
      <4>2. QED BY <2>4, <4>1
    <3>2. QED BY <2>2, <3>1 DEF BondCall, CallIsBacked
  <2>6. Backed(On("saveRevision"), bonds', record')
    BY <1>2, <1>3, <2>1, <2>2, <2>4 DEF Backed
  <2>7. QED BY <2>1, <2>2, <2>5, <2>6, CallIsSound
<1>6. CASE Proposal!RejectCall(w)
  <2>1. "reject" \in Proposal!Steps /\ "saveRejected" \in Proposal!Steps
    BY DEF Proposal!Steps
  <2>2. Proposal!At(w, "reject") /\ Proposal!RejectOrdinary(p) /\ Proposal!GoTo(w, "saveRejected")
         /\ UNCHANGED <<blockTime, record>>
    BY <1>6 DEF Proposal!RejectCall
  <2>3. bonds'[p].state = "DISPOSED" /\ ~Proposal!Approve(p) /\ BondCall(p)
    BY <1>1, <1>2, <1>disposes, <2>1, <2>2
  <2>4. Backed(On("saveRejected"), bonds', record')
    BY <1>2, <1>3, <2>1, <2>2, <2>3 DEF Backed
  <2>5. QED BY <2>1, <2>2, <2>3, <2>4, CallIsSound DEF CallIsBacked
<1>7. CASE Proposal!RetainCall(w)
  <2>1. "retain" \in Proposal!Steps /\ "saveRejected" \in Proposal!Steps
    BY DEF Proposal!Steps
  <2>2. Proposal!At(w, "retain") /\ Proposal!RetainForAbuse(p) /\ Proposal!GoTo(w, "saveRejected")
         /\ UNCHANGED <<blockTime, record>>
    BY <1>7 DEF Proposal!RetainCall
  <2>3. bonds'[p].state = "DISPOSED" /\ ~Proposal!Approve(p) /\ BondCall(p)
    BY <1>1, <1>2, <1>disposes, <2>1, <2>2
  <2>4. Backed(On("saveRejected"), bonds', record')
    BY <1>2, <1>3, <2>1, <2>2, <2>3 DEF Backed
  <2>5. QED BY <2>1, <2>2, <2>3, <2>4, CallIsSound DEF CallIsBacked
<1>8. CASE Proposal!BindCall(w)
  <2>1. "bind" \in Proposal!Steps /\ "approve" \in Proposal!Steps
    BY DEF Proposal!Steps
  <2>2. Proposal!At(w, "bind") /\ Proposal!BindMarket(p, job[w].baseMarket)
         /\ Proposal!GoTo(w, "approve") /\ UNCHANGED <<blockTime, record>>
    BY <1>8 DEF Proposal!BindCall
  <2>3. job[w].baseMarket \in BaseMarkets \cup {Proposal!NoMarket}
    BY <2>1, <2>2, HandlerWaits
  <2>4. record[p] # Proposal!NoRecord /\ record[p].resolverTxId
    BY <1>2, <2>1, <2>2 DEF Backed
  <2>5. BondCall(p) /\ CallIsBacked(p)
    BY <2>2, <2>3, <2>4 DEF BondCall, CallIsBacked, Known, Proposal!Known
  <2>6. Backed(On("approve"), bonds', record')
    BY <1>2, <1>3, <2>1, <2>2, <2>4 DEF Backed
  <2>7. QED BY <2>1, <2>2, <2>5, <2>6, CallIsSound
<1>9. CASE Proposal!ApproveCall(w)
  <2>1. "approve" \in Proposal!Steps /\ "saveRefunded" \in Proposal!Steps
    BY DEF Proposal!Steps
  <2>2. Proposal!At(w, "approve") /\ Proposal!Approve(p) /\ Proposal!GoTo(w, "saveRefunded")
         /\ UNCHANGED <<blockTime, record>>
    BY <1>9 DEF Proposal!ApproveCall
  <2>3. bonds'[p].state = "REFUNDED" /\ BondCall(p)
    BY <1>1, <1>2, <1>refunds, <2>1, <2>2
  <2>4. record[p] # Proposal!NoRecord /\ record[p].resolverTxId
    BY <1>2, <2>1, <2>2 DEF Backed
  <2>5. CallIsBacked(p)
    BY <2>4 DEF CallIsBacked, Known, Proposal!Known
  <2>6. Backed(On("saveRefunded"), bonds', record')
    BY <1>2, <1>3, <2>1, <2>2, <2>3, <2>4 DEF Backed
  <2>7. QED BY <2>1, <2>2, <2>3, <2>5, <2>6, CallIsSound
<1>10. CASE Proposal!RefundCall(w)
  <2>1. "refund" \in Proposal!Steps /\ "saveTimedOut" \in Proposal!Steps
    BY DEF Proposal!Steps
  <2>2. Proposal!At(w, "refund") /\ Proposal!TimeoutRefund(p) /\ Proposal!GoTo(w, "saveTimedOut")
         /\ UNCHANGED <<blockTime, record>>
    BY <1>10 DEF Proposal!RefundCall
  <2>3. bonds'[p].state = "REFUNDED" /\ BondCall(p)
    BY <1>1, <1>2, <1>refunds, <2>1, <2>2
  <2>4. CallIsBacked(p)
    BY <2>2 DEF CallIsBacked, Proposal!TimeoutRefund
  <2>5. Backed(On("saveTimedOut"), bonds', record')
    BY <1>2, <1>3, <2>1, <2>2, <2>3 DEF Backed
  <2>6. QED BY <2>1, <2>2, <2>3, <2>4, <2>5, CallIsSound
<1>11. QED BY <1>4, <1>5, <1>6, <1>7, <1>8, <1>9, <1>10

(* A row that is saved: the patch is true of the bond.                       *)
LEMMA SaveIsSound ==
    ASSUME ProposalInv, NEW w \in Callers, job[w].p \in Proposals,
           NEW patch, TrueOf(patch, job[w].p), record' = [record EXCEPT ![job[w].p] = patch],
           UNCHANGED <<blockTime, bonds, held, returned, reserve>>,
           NEW j \in Proposal!Job \cup {Proposal!Idle}, job' = [job EXCEPT ![w] = j],
           j # Proposal!Idle => Backed(j, bonds', record')
    PROVE  ProposalInv'
<1>1. \E p \in Proposals : \E new : Saves(p, new)
  BY DEF Saves
<1>2. QED BY <1>1, HandlerStep

LEMMA SaveKeepsProposalInv ==
    ASSUME ProposalInv, NEW w \in Callers,
           \/ Proposal!CreateBonded(w) \/ Proposal!SaveDeploying(w) \/ Proposal!SaveRevision(w)
           \/ Proposal!SaveRejected(w) \/ Proposal!SaveFinalized(w) \/ Proposal!SaveBound(w)
           \/ Proposal!SaveRefunded(w) \/ Proposal!SaveTimedOut(w)
    PROVE  ProposalInv'
<1> DEFINE p == job[w].p
<1> USE DEF Proposal!Save, Proposal!Row, Proposal!Return, Proposal!escrowVars
<1>1. ASSUME NEW step \in Proposal!Steps, Proposal!At(w, step)
      PROVE  /\ job[w] \in Proposal!Job /\ job[w].step = step
             /\ p \in Proposals /\ Backed(job[w], bonds, record) /\ BondTold(p)
             /\ job[w].revisions \in 0 .. MAX_REVISIONS
             /\ job[w].baseMarket \in BaseMarkets \cup {Proposal!NoMarket}
             /\ bonds[p].revisions \in 0 .. MAX_REVISIONS
             /\ step \notin {"lock", "create"} => Known(p) /\ record[p] \in Proposal!Record
  <2>1. /\ job[w] \in Proposal!Job /\ job[w].step = step
        /\ p \in Proposals /\ Backed(job[w], bonds, record)
        /\ job[w].revisions \in 0 .. MAX_REVISIONS
        /\ job[w].baseMarket \in BaseMarkets \cup {Proposal!NoMarket}
    BY <1>1, HandlerWaits
  <2>2. BondTold(p)
    BY <2>1 DEF ProposalInv
  <2>3. bonds[p].revisions \in 0 .. MAX_REVISIONS
    BY <2>1 DEF ProposalInv, Proposal!TypeOK, Proposal!EscrowTypeOK, Proposal!Bond
  <2>4. step \notin {"lock", "create"} => Known(p)
    BY <1>1, <2>1 DEF Backed, Known, Proposal!Known
  <2>5. Known(p) => record[p] \in Proposal!Record
    BY <2>1, RowIsARecord DEF ProposalInv
  <2>6. QED BY <2>1, <2>2, <2>3, <2>4, <2>5
<1>2. Proposal!Idle \in Proposal!Job \cup {Proposal!Idle}
  OBVIOUS
(* The patches that change only the state.                                   *)
<1>3. ASSUME NEW s \in {"RESOLVER_DEPLOYING", "REJECTED", "BOND_REFUNDED", "TIMED_OUT"},
             NEW step \in Proposal!Steps \ {"lock", "create"}, Proposal!At(w, step),
             s = "REJECTED" => step = "saveRejected",
             s \in {"BOND_REFUNDED", "TIMED_OUT"} => step \in {"saveRefunded", "saveTimedOut"},
             record' = [record EXCEPT ![p] = [record[p] EXCEPT !.state = s]],
             UNCHANGED <<blockTime, bonds, held, returned, reserve>>,
             job' = [job EXCEPT ![w] = Proposal!Idle]
      PROVE  ProposalInv'
  <2> DEFINE patch == [record[p] EXCEPT !.state = s]
  <2>1. /\ p \in Proposals /\ Backed(job[w], bonds, record) /\ BondTold(p)
        /\ job[w].step = step /\ Known(p) /\ record[p] \in Proposal!Record
    BY <1>1, <1>3
  <2>2. /\ patch \in Proposal!Record /\ patch.state = s
        /\ patch.resolverTxId = record[p].resolverTxId /\ patch.revisions = record[p].revisions
    BY <2>1 DEF Proposal!Record, Proposal!States
  <2>3. TrueOf(patch, p)
    BY <1>3, <2>1, <2>2 DEF TrueOf, BondTold, Backed
  <2>4. QED
    <3> HIDE DEF patch
    <3>1. record' = [record EXCEPT ![p] = patch]
      BY <1>3 DEF patch
    <3>2. QED BY <1>2, <1>3, <2>1, <2>3, <3>1, SaveIsSound
<1>4. CASE Proposal!SaveDeploying(w)
  BY <1>3, <1>4 DEF Proposal!SaveDeploying, Proposal!Steps
<1>5. CASE Proposal!SaveRejected(w)
  BY <1>3, <1>5 DEF Proposal!SaveRejected, Proposal!Steps
<1>6. CASE Proposal!SaveRefunded(w)
  BY <1>3, <1>6 DEF Proposal!SaveRefunded, Proposal!Steps
<1>7. CASE Proposal!SaveTimedOut(w)
  BY <1>3, <1>7 DEF Proposal!SaveTimedOut, Proposal!Steps
<1>8. CASE Proposal!CreateBonded(w)
  <2> DEFINE patch == IF Proposal!Known(p) THEN record[p] ELSE Proposal!NewRecord("BONDED")
  <2>1. Proposal!At(w, "create") /\ "create" \in Proposal!Steps
    BY <1>8 DEF Proposal!CreateBonded, Proposal!Steps
  <2>2. p \in Proposals /\ BondTold(p) /\ bonds[p].revisions \in 0 .. MAX_REVISIONS
    BY <1>1, <2>1
  <2>3. TrueOf(patch, p)
    <3>1. CASE Known(p)
      <4>1. record[p] \in Proposal!Record /\ patch = record[p]
        BY <2>2, <3>1, RowIsARecord DEF ProposalInv, Known
      <4>2. QED BY <2>2, <3>1, <4>1 DEF TrueOf, BondTold
    <3>2. CASE ~Known(p)
      <4>1. patch = Proposal!NewRecord("BONDED")
        BY <3>2 DEF Known
      <4>2. patch \in Proposal!Record /\ patch.state = "BONDED" /\ patch.revisions = 0
        BY <4>1, NewRecordIsARecord DEF Proposal!States
      <4>3. QED BY <2>2, <3>2, <4>2 DEF TrueOf
    <3>3. QED BY <3>1, <3>2
  <2>4. QED
    <3> HIDE DEF patch
    <3>1. record' = [record EXCEPT ![p] = patch] /\ job' = [job EXCEPT ![w] = Proposal!Idle]
          /\ UNCHANGED <<blockTime, bonds, held, returned, reserve>>
      BY <1>8 DEF patch, Proposal!CreateBonded
    <3>2. QED BY <1>2, <2>2, <2>3, <3>1, SaveIsSound
<1>9. CASE Proposal!SaveRevision(w)
  <2> DEFINE patch == [record[p] EXCEPT !.revisions = job[w].revisions + 1,
                                        !.state = "REVISION_REQUIRED"]
  <2>1. Proposal!At(w, "saveRevision") /\ "saveRevision" \in Proposal!Steps
    BY <1>9 DEF Proposal!SaveRevision, Proposal!Steps
  <2>2. /\ p \in Proposals /\ Known(p) /\ record[p] \in Proposal!Record
        /\ job[w].revisions \in 0 .. MAX_REVISIONS /\ bonds[p].revisions \in 0 .. MAX_REVISIONS
        /\ job[w].revisions < bonds[p].revisions
    BY <1>1, <2>1 DEF Backed
  <2>3. /\ patch \in Proposal!Record /\ patch.state = "REVISION_REQUIRED"
        /\ patch.resolverTxId = record[p].resolverTxId
        /\ patch.revisions = job[w].revisions + 1
    <3>1. job[w].revisions + 1 \in 0 .. MAX_REVISIONS
      BY <2>2, EscrowNumbers
    <3>2. QED BY <2>2, <3>1 DEF Proposal!Record, Proposal!States
  <2>4. TrueOf(patch, p)
    BY <2>2, <2>3, EscrowNumbers DEF TrueOf
  <2>5. QED
    <3> HIDE DEF patch
    <3>1. record' = [record EXCEPT ![p] = patch] /\ job' = [job EXCEPT ![w] = Proposal!Idle]
          /\ UNCHANGED <<blockTime, bonds, held, returned, reserve>>
      BY <1>9 DEF patch, Proposal!SaveRevision
    <3>2. QED BY <1>2, <2>2, <2>4, <3>1, SaveIsSound
<1>10. CASE Proposal!SaveFinalized(w)
  <2> DEFINE patch == [record[p] EXCEPT !.state = "RESOLVER_FINALIZED", !.resolverTxId = TRUE]
  <2>1. Proposal!At(w, "finalize") /\ "finalize" \in Proposal!Steps
    BY <1>10 DEF Proposal!SaveFinalized, Proposal!Steps
  <2>2. p \in Proposals /\ Known(p) /\ record[p] \in Proposal!Record /\ BondTold(p)
    BY <1>1, <2>1
  <2>3. /\ patch \in Proposal!Record /\ patch.state = "RESOLVER_FINALIZED"
        /\ patch.resolverTxId /\ patch.revisions = record[p].revisions
    BY <2>2 DEF Proposal!Record, Proposal!States
  <2>4. TrueOf(patch, p)
    BY <2>2, <2>3 DEF TrueOf, BondTold
  <2>5. QED
    <3> HIDE DEF patch
    <3>1. record' = [record EXCEPT ![p] = patch] /\ job' = [job EXCEPT ![w] = Proposal!Idle]
          /\ UNCHANGED <<blockTime, bonds, held, returned, reserve>>
      BY <1>10 DEF patch, Proposal!SaveFinalized
    <3>2. QED BY <1>2, <2>2, <2>4, <3>1, SaveIsSound
<1>11. CASE Proposal!SaveBound(w)
  <2> DEFINE patch == [record[p] EXCEPT !.state = "BASE_BOUND", !.baseMarket = job[w].baseMarket]
             j == [job[w] EXCEPT !.step = "bind"]
  <2>1. Proposal!At(w, "saveBound") /\ "saveBound" \in Proposal!Steps
    BY <1>11 DEF Proposal!SaveBound, Proposal!Steps
  <2>2. /\ p \in Proposals /\ Known(p) /\ record[p] \in Proposal!Record /\ BondTold(p)
        /\ job[w] \in Proposal!Job /\ record[p].resolverTxId
        /\ job[w].baseMarket \in BaseMarkets \cup {Proposal!NoMarket}
    BY <1>1, <2>1 DEF Backed
  <2>3. /\ patch \in Proposal!Record /\ patch.state = "BASE_BOUND"
        /\ patch.resolverTxId = record[p].resolverTxId /\ patch.revisions = record[p].revisions
    BY <2>2 DEF Proposal!Record, Proposal!States
  <2>4. TrueOf(patch, p)
    BY <2>2, <2>3 DEF TrueOf, BondTold
  <2>5. j \in Proposal!Job \cup {Proposal!Idle} /\ j.step = "bind" /\ j.p = p
    BY <2>2 DEF Proposal!Job, Proposal!Steps
  <2>6. record' = [record EXCEPT ![p] = patch] /\ job' = [job EXCEPT ![w] = j]
         /\ UNCHANGED <<blockTime, bonds, held, returned, reserve>>
    BY <1>11 DEF Proposal!SaveBound, Proposal!GoTo
  <2>7. record'[p] = patch /\ patch # Proposal!NoRecord
    <3> HIDE DEF patch
    <3>1. record'[p] = patch
      BY <2>2, <2>6 DEF ProposalInv, Proposal!TypeOK
    <3>2. QED BY <2>3, <3>1, NoRecordIsNone
  <2>8. Backed(j, bonds', record')
    <3> HIDE DEF patch, j
    <3>1. QED BY <2>2, <2>3, <2>5, <2>7 DEF Backed
  <2>9. QED
    <3> HIDE DEF patch, j
    <3>1. QED BY <2>2, <2>4, <2>5, <2>6, <2>8, SaveIsSound
<1>12. QED BY <1>4, <1>5, <1>6, <1>7, <1>8, <1>9, <1>10, <1>11

----------------------------------------------------------------------------
LEMMA ProposalInitEstablishes == Proposal!Init => ProposalInv
<1> SUFFICES ASSUME Proposal!Init PROVE ProposalInv
  OBVIOUS
<1>1. /\ blockTime = 0 /\ bonds = [p \in Proposals |-> Proposal!NoBond] /\ held = 0
      /\ returned = [p \in Proposals |-> 0] /\ reserve = [p \in Proposals |-> 0]
      /\ record = [p \in Proposals |-> Proposal!NoRecord]
      /\ job = [w \in Callers |-> Proposal!Idle]
  BY DEF Proposal!Init, Proposal!EscrowInit
<1>2. Proposal!NoBond \in Proposal!Bond
  BY EscrowNumbers DEF Proposal!NoBond, Proposal!Bond, Proposal!BondStates
<1>3. Proposal!TypeOK
  BY <1>1, <1>2, EscrowNumbers DEF Proposal!TypeOK, Proposal!EscrowTypeOK
<1>4. Proposal!EscrowIsExact
  <2>1. InCustody = {}
    BY <1>1 DEF InCustody, Proposal!Locked, Proposal!NoBond
  <2>2. held = BOND * Cardinality(InCustody)
    BY <1>1, <2>1, FS_EmptySet, EscrowNumbers
  <2>3. \A p \in Proposals : PaidOut(p)
    BY <1>1 DEF PaidOut, Ended, Proposal!NoBond
  <2>4. QED BY <2>2, <2>3, EscrowIsExactIs
<1>5. \A p \in Proposals : BondTold(p)
  BY <1>1 DEF BondTold, Known, Proposal!Known, Proposal!NoBond
<1>6. QED BY <1>1, <1>3, <1>4, <1>5 DEF ProposalInv

LEMMA ProposalStepKeeps == ProposalInv /\ Proposal!Next => ProposalInv'
<1> SUFFICES ASSUME ProposalInv, Proposal!Next PROVE ProposalInv'
  OBVIOUS
<1>1. CASE \E w \in Callers, p \in Proposals : Proposal!Handle(w, p)
  BY <1>1, HandleKeepsProposalInv
<1>2. CASE \E w \in Callers : Proposal!Continue(w)
  BY <1>2, CallKeepsProposalInv, SaveKeepsProposalInv DEF Proposal!Continue
<1>3. CASE \E w \in Callers : Proposal!Crash(w)
  <2>1. PICK w \in Callers : Proposal!Crash(w)
    BY <1>3
  <2>2. Rests /\ blockTime' = blockTime /\ job' = [job EXCEPT ![w] = Proposal!Idle]
    BY <2>1 DEF Rests, Proposal!Crash, Proposal!Return, Proposal!escrowVars
  <2>3. QED BY <2>2, HandlerStep
<1>4. CASE \E p \in Proposals : Proposal!BeginUnchecked(p)
  <2>1. PICK p \in Proposals : Proposal!BeginUnchecked(p)
    BY <1>4
  <2> DEFINE patch == Proposal!NewRecord("PRECHECKED")
  <2>2. /\ ~Known(p) /\ record' = [record EXCEPT ![p] = patch]
        /\ UNCHANGED <<blockTime, bonds, held, returned, reserve, job>>
    BY <2>1 DEF Proposal!BeginUnchecked, Proposal!escrowVars, Known
  <2>3. patch \in Proposal!Record /\ patch.state = "PRECHECKED" /\ patch.revisions = 0
    BY NewRecordIsARecord DEF Proposal!States
  <2>4. bonds[p].revisions \in 0 .. MAX_REVISIONS
    BY DEF ProposalInv, Proposal!TypeOK, Proposal!EscrowTypeOK, Proposal!Bond
  <2>5. TrueOf(patch, p)
    BY <2>2, <2>3, <2>4 DEF TrueOf
  <2>6. QED
    <3> HIDE DEF patch
    <3>1. Saves(p, patch)
      BY <2>2, <2>5 DEF Saves
    <3>2. QED BY <2>2, <3>1, HandlerStep
<1>5. CASE \E p \in Proposals : Proposal!DirectLock(p) \/ Proposal!DirectRefund(p)
  <2>1. PICK p \in Proposals : Proposal!DirectLock(p) \/ Proposal!DirectRefund(p)
    BY <1>5
  <2>2. /\ Proposal!BoundedLock(p) \/ Proposal!TimeoutRefund(p)
        /\ UNCHANGED <<blockTime, record, job>>
    BY <2>1 DEF Proposal!DirectLock, Proposal!DirectRefund
  <2>3. BondCall(p)
    BY <2>2 DEF BondCall
  <2>4. CallIsBacked(p)
    BY <2>2 DEF CallIsBacked, Proposal!BoundedLock, Proposal!Lock, Proposal!Approve,
                Proposal!Locked, Proposal!TimeoutRefund
  <2>5. QED BY <2>2, <2>3, <2>4, HandlerStep DEF Calls
<1>6. CASE Proposal!Tick
  <2>1. /\ blockTime < MAX_TIME /\ blockTime' = blockTime + 1
        /\ UNCHANGED <<bonds, held, returned, reserve, record, job>>
    BY <1>6 DEF Proposal!Tick, Proposal!escrowVars
  <2>2. (Proposal!TypeOK)'
    BY <2>1, EscrowNumbers DEF ProposalInv, Proposal!TypeOK, Proposal!EscrowTypeOK
  <2>3. (Proposal!EscrowIsExact)'
    BY <2>1 DEF ProposalInv, Proposal!EscrowIsExact, Proposal!Locked
  <2>4. ASSUME NEW p \in Proposals PROVE BondTold(p)'
    <3>1. BondTold(p) /\ (Proposal!Expired(p) => Proposal!Expired(p)')
      <4>1. blockTime \in Nat /\ bonds[p].createdAt \in Nat
        BY DEF ProposalInv, Proposal!TypeOK, Proposal!EscrowTypeOK, Proposal!Bond
      <4>2. QED BY <2>1, <4>1, EscrowNumbers DEF ProposalInv, Proposal!Expired
    <3>2. QED BY <2>1, <3>1 DEF BondTold, Known, Proposal!Known
  <2>5. \A w \in Callers : job'[w] # Proposal!Idle => Backed(job'[w], bonds', record')
    BY <2>1 DEF ProposalInv
  <2>6. QED BY <2>2, <2>3, <2>4, <2>5 DEF ProposalInv
<1>7. QED BY <1>1, <1>2, <1>3, <1>4, <1>5, <1>6 DEF Proposal!Next

----------------------------------------------------------------------------
(* The inductive invariant of one resolution attempt on GenLayer: only who   *)
(* claimed the attempt is about to write, and nothing was written before;    *)
(* an outcome that somebody saw is the final one.                            *)
Attempt == [created : BOOLEAN, claimed : BOOLEAN, tx : Nat, attestable : BOOLEAN,
            lifecycle : {"READY", "SUBMITTED", "ACCEPTED", "FINALIZED", "FAILED"},
            outcome : GenLayer!Outcomes \cup {"none"}]
Chain == [sent : Nat, state : {"pending", "decided", "finalized"}, result : Readings \cup {"none"}]
Memory == [pc : {"idle", "claim", "write", "persist", "observe"},
           seen : Readings \cup {"none", "pending", "decided"}]

Writes(w) == worker[w].pc = "write"
IsFinal(outcome) == chain.state = "finalized" /\ chain.result = outcome

GenLayerInv ==
    /\ attempt \in Attempt /\ chain \in Chain /\ worker \in [Workers -> Memory]
    /\ chain.sent <= 1
    /\ ~attempt.claimed => chain.sent = 0 /\ \A w \in Workers : ~Writes(w)
    /\ \A w \in Workers : Writes(w) => chain.sent = 0
    /\ \A v, w \in Workers : Writes(v) /\ Writes(w) => v = w
    /\ \A w \in Workers : worker[w].seen \in GenLayer!Outcomes => IsFinal(worker[w].seen)
    /\ attempt.attestable => IsFinal(attempt.outcome) /\ attempt.outcome # "UNRESOLVED"

LEMMA GenLayerInitEstablishes == GenLayer!Init => GenLayerInv
BY DEF GenLayer!Init, GenLayerInv, Attempt, Chain, Memory, Writes, IsFinal, GenLayer!Idle,
       GenLayer!NoTx, GenLayer!Outcomes

(* A worker that goes on to pc, or back to rest, keeps or forgets what it saw. *)
LEMMA WorkerMoves ==
    ASSUME GenLayerInv, NEW w \in Workers, NEW pc \in {"idle", "claim", "write", "persist"},
           \/ worker' = [worker EXCEPT ![w].pc = pc]
           \/ pc = "idle" /\ worker' = [worker EXCEPT ![w] = GenLayer!Idle]
    PROVE  /\ worker' \in [Workers -> Memory]
           /\ \A v \in Workers : v # w => worker'[v] = worker[v]
           /\ worker'[w].pc = pc
           /\ \A v \in Workers : worker'[v].seen \in GenLayer!Outcomes =>
                                   worker'[v].seen = worker[v].seen
<1>1. worker \in [Workers -> Memory]
  BY DEF GenLayerInv
<1>2. CASE worker' = [worker EXCEPT ![w].pc = pc]
  BY <1>1, <1>2 DEF Memory
<1>3. CASE pc = "idle" /\ worker' = [worker EXCEPT ![w] = GenLayer!Idle]
  BY <1>1, <1>3 DEF Memory, GenLayer!Idle, GenLayer!Outcomes
<1>4. QED BY <1>2, <1>3

LEMMA GenLayerStepKeeps == GenLayerInv /\ GenLayer!Next => GenLayerInv'
<1> SUFFICES ASSUME GenLayerInv, GenLayer!Next PROVE GenLayerInv'
  OBVIOUS
<1>1. /\ attempt \in Attempt /\ chain \in Chain /\ worker \in [Workers -> Memory]
      /\ chain.sent <= 1 /\ chain.sent \in Nat
  BY DEF GenLayerInv, Chain
(* Steps that read and write no outcome.                                     *)
<1>2. ASSUME NEW w \in Workers, NEW pc \in {"idle", "claim"},
             \/ worker' = [worker EXCEPT ![w].pc = pc]
             \/ pc = "idle" /\ worker' = [worker EXCEPT ![w] = GenLayer!Idle],
             chain' = chain, attempt' \in Attempt,
             attempt'.claimed = attempt.claimed, attempt'.attestable = attempt.attestable,
             attempt'.outcome = attempt.outcome
      PROVE  GenLayerInv'
  <2>1. /\ worker' \in [Workers -> Memory]
        /\ \A v \in Workers : v # w => worker'[v] = worker[v]
        /\ worker'[w].pc = pc
        /\ \A v \in Workers : worker'[v].seen \in GenLayer!Outcomes =>
                                worker'[v].seen = worker[v].seen
    BY <1>2, WorkerMoves
  <2>2. \A v \in Workers : Writes(v)' => Writes(v) /\ v # w
    BY <1>2, <2>1 DEF Writes
  <2>3. QED BY <1>1, <1>2, <2>1, <2>2 DEF GenLayerInv, IsFinal
<1>3. ASSUME NEW w \in Workers, GenLayer!CreateIfAbsent(w) PROVE GenLayerInv'
  <2>1. attempt' = [attempt EXCEPT !.created = TRUE]
         /\ worker' = [worker EXCEPT ![w].pc = "claim"] /\ chain' = chain
    BY <1>3 DEF GenLayer!CreateIfAbsent, GenLayer!Goto
  <2>2. attempt' \in Attempt /\ attempt'.claimed = attempt.claimed
         /\ attempt'.attestable = attempt.attestable /\ attempt'.outcome = attempt.outcome
    BY <1>1, <2>1 DEF Attempt
  <2>3. QED BY <1>2, <2>1, <2>2
<1>4. ASSUME NEW w \in Workers, GenLayer!ClaimSubmission(w) PROVE GenLayerInv'
  <2>1. CASE attempt.claimed
    <3>1. worker' = [worker EXCEPT ![w] = GenLayer!Idle] /\ attempt' = attempt /\ chain' = chain
      BY <1>4, <2>1 DEF GenLayer!ClaimSubmission
    <3>2. QED BY <1>1, <1>2, <3>1
  <2>2. CASE ~attempt.claimed
    <3>1. attempt' = [attempt EXCEPT !.claimed = TRUE]
           /\ worker' = [worker EXCEPT ![w].pc = "write"] /\ chain' = chain
      BY <1>4, <2>2 DEF GenLayer!ClaimSubmission, GenLayer!Goto
    <3>2. attempt' \in Attempt /\ attempt'.claimed
           /\ attempt'.attestable = attempt.attestable /\ attempt'.outcome = attempt.outcome
      BY <1>1, <3>1 DEF Attempt
    <3>3. /\ worker' \in [Workers -> Memory]
          /\ \A v \in Workers : v # w => worker'[v] = worker[v]
          /\ \A v \in Workers : worker'[v].seen \in GenLayer!Outcomes =>
                                  worker'[v].seen = worker[v].seen
      BY <3>1, WorkerMoves
    <3>4. chain.sent = 0 /\ \A v \in Workers : Writes(v)' => v = w
      BY <2>2, <3>3 DEF GenLayerInv, Writes
    <3>5. QED BY <1>1, <3>1, <3>2, <3>3, <3>4 DEF GenLayerInv, IsFinal
  <2>3. QED BY <2>1, <2>2
<1>5. ASSUME NEW w \in Workers, GenLayer!WriteContract(w) PROVE GenLayerInv'
  <2>1. /\ Writes(w) /\ chain' = [chain EXCEPT !.sent = @ + 1]
        /\ worker' = [worker EXCEPT ![w].pc = "persist"] /\ attempt' = attempt
    BY <1>5 DEF GenLayer!WriteContract, GenLayer!Goto, GenLayer!At, Writes
  <2>2. chain.sent = 0 /\ attempt.claimed /\ \A v \in Workers : Writes(v) => v = w
    BY <1>1, <2>1 DEF GenLayerInv, Attempt
  <2>3. chain' \in Chain /\ chain'.sent = 1 /\ chain'.state = chain.state
         /\ chain'.result = chain.result
    BY <1>1, <2>1, <2>2 DEF Chain
  <2>4. /\ worker' \in [Workers -> Memory]
        /\ \A v \in Workers : v # w => worker'[v] = worker[v]
        /\ worker'[w].pc = "persist"
        /\ \A v \in Workers : worker'[v].seen \in GenLayer!Outcomes =>
                                worker'[v].seen = worker[v].seen
    BY <2>1, WorkerMoves
  <2>5. \A v \in Workers : ~Writes(v)'
    BY <2>2, <2>4 DEF Writes
  <2>6. QED BY <1>1, <2>1, <2>2, <2>3, <2>4, <2>5 DEF GenLayerInv, IsFinal
<1>6. ASSUME NEW w \in Workers, GenLayer!PersistSubmission(w) PROVE GenLayerInv'
  <2>1. attempt' = [attempt EXCEPT !.tx = chain.sent, !.lifecycle = "SUBMITTED"]
         /\ worker' = [worker EXCEPT ![w] = GenLayer!Idle] /\ chain' = chain
    BY <1>6 DEF GenLayer!PersistSubmission
  <2>2. attempt' \in Attempt /\ attempt'.claimed = attempt.claimed
         /\ attempt'.attestable = attempt.attestable /\ attempt'.outcome = attempt.outcome
    BY <1>1, <2>1 DEF Attempt
  <2>3. QED BY <1>2, <2>1, <2>2
<1>7. ASSUME NEW w \in Workers, GenLayer!Crash(w) PROVE GenLayerInv'
  BY <1>1, <1>2, <1>7 DEF GenLayer!Crash
<1>8. ASSUME NEW w \in Workers, GenLayer!GetTransaction(w) PROVE GenLayerInv'
  <2> DEFINE sees == IF chain.state = "finalized" THEN chain.result ELSE chain.state
  <2>1. /\ worker' = [worker EXCEPT ![w] = [pc |-> "observe", seen |-> sees]]
        /\ attempt' = attempt /\ chain' = chain
    BY <1>8 DEF GenLayer!GetTransaction
  <2>2. sees \in Readings \cup {"none", "pending", "decided"}
         /\ (sees \in GenLayer!Outcomes => IsFinal(sees))
    BY <1>1 DEF Chain, IsFinal, GenLayer!Outcomes
  <2>3. /\ worker' \in [Workers -> Memory]
        /\ \A v \in Workers : v # w => worker'[v] = worker[v]
        /\ worker'[w].pc = "observe" /\ worker'[w].seen = sees
    <3> HIDE DEF sees
    <3>1. QED BY <1>1, <2>1, <2>2 DEF Memory
  <2>4. \A v \in Workers : Writes(v)' => Writes(v)
    BY <2>3 DEF Writes
  <2>5. \A v \in Workers : worker'[v].seen \in GenLayer!Outcomes => IsFinal(worker'[v].seen)
    <3> HIDE DEF sees
    <3>1. QED BY <2>2, <2>3 DEF GenLayerInv
  <2>6. QED
    <3> HIDE DEF sees
    <3>1. QED BY <1>1, <2>1, <2>3, <2>4, <2>5 DEF GenLayerInv, IsFinal
<1>9. ASSUME NEW w \in Workers, GenLayer!PersistObservation(w) PROVE GenLayerInv'
  <2> DEFINE saw == worker[w].seen
  <2>1. worker' = [worker EXCEPT ![w] = GenLayer!Idle] /\ chain' = chain
    BY <1>9 DEF GenLayer!PersistObservation
  <2>2. CASE saw = "undecodable"
    <3>1. attempt' = attempt
      BY <1>9, <2>2 DEF GenLayer!PersistObservation
    <3>2. QED BY <1>1, <1>2, <2>1, <3>1
  <2>3. CASE saw # "undecodable"
    <3> DEFINE c == GenLayer!Classified(saw)
    <3>1. attempt' = [attempt EXCEPT !.lifecycle = c.lifecycle,
                        !.outcome = IF c.outcome = "none" THEN @ ELSE c.outcome,
                        !.attestable = c.attestable]
      BY <1>9, <2>3 DEF GenLayer!PersistObservation
    <3>2. /\ c.lifecycle \in {"SUBMITTED", "ACCEPTED", "FINALIZED", "FAILED"}
          /\ c.outcome \in GenLayer!Outcomes \cup {"none"} /\ c.attestable \in BOOLEAN
          /\ c.attestable => c.outcome = saw /\ saw \in GenLayer!Outcomes /\ saw # "UNRESOLVED"
      BY DEF GenLayer!Classified, GenLayer!Outcomes
    <3>3. /\ attempt' \in Attempt /\ attempt'.claimed = attempt.claimed
          /\ attempt'.attestable = c.attestable
          /\ c.attestable => attempt'.outcome = saw
      <4> HIDE DEF c
      <4>1. QED BY <1>1, <3>1, <3>2 DEF Attempt, GenLayer!Outcomes
    <3>4. attempt'.attestable => IsFinal(attempt'.outcome) /\ attempt'.outcome # "UNRESOLVED"
      <4> HIDE DEF c
      <4>1. QED BY <3>2, <3>3 DEF GenLayerInv
    <3>5. /\ worker' \in [Workers -> Memory]
          /\ \A v \in Workers : v # w => worker'[v] = worker[v]
          /\ worker'[w].pc = "idle"
          /\ \A v \in Workers : worker'[v].seen \in GenLayer!Outcomes =>
                                  worker'[v].seen = worker[v].seen
      BY <2>1, WorkerMoves
    <3>6. \A v \in Workers : Writes(v)' => Writes(v)
      BY <3>5 DEF Writes
    <3>7. QED
      <4> HIDE DEF c
      <4>1. QED BY <1>1, <2>1, <3>3, <3>4, <3>5, <3>6 DEF GenLayerInv, IsFinal
  <2>4. QED BY <2>2, <2>3
<1>10. CASE GenLayer!Decide
  <2>1. /\ chain.state = "pending" /\ chain' = [chain EXCEPT !.state = "decided"]
        /\ attempt' = attempt /\ worker' = worker
    BY <1>10 DEF GenLayer!Decide
  <2>2. chain' \in Chain /\ chain'.sent = chain.sent
    BY <1>1, <2>1 DEF Chain
  <2>3. QED BY <1>1, <2>1, <2>2 DEF GenLayerInv, IsFinal, Writes
<1>11. CASE GenLayer!Finalize
  <2>1. PICK r \in Readings :
          /\ chain.state = "decided"
          /\ chain' = [chain EXCEPT !.state = "finalized", !.result = r]
          /\ attempt' = attempt /\ worker' = worker
    BY <1>11 DEF GenLayer!Finalize
  <2>2. chain' \in Chain /\ chain'.sent = chain.sent
    BY <1>1, <2>1 DEF Chain
  <2>3. QED BY <1>1, <2>1, <2>2 DEF GenLayerInv, IsFinal, Writes
<1>12. QED
  BY <1>3, <1>4, <1>5, <1>6, <1>7, <1>8, <1>9, <1>10, <1>11 DEF GenLayer!Next, GenLayer!Step

----------------------------------------------------------------------------
(* The inductive invariant of the outbox: an intent that a dispatcher holds  *)
(* is claimed, and held by no other; what is to be marked was sent.          *)
RowStates == {"ABSENT", "PENDING", "CLAIMED", "DISPATCHED", "RETRY"}
Desk == [pc : {"idle", "load", "claim", "send", "mark", "retry"}, intent : Nat,
         rest : SUBSET Durable!Intents]
Sent(i, q, created) == q[i] > 0 \/ i \in created

OutboxInv ==
    /\ row \in [Durable!Intents -> RowStates]
    /\ due \in [Durable!Intents -> BOOLEAN] /\ queue \in [Durable!Intents -> Nat]
    /\ dispatcher \in [Dispatchers -> Desk]
    /\ \A d \in Dispatchers :
         dispatcher[d].pc # "idle" => dispatcher[d].intent \in Durable!Intents
    /\ \A d \in Dispatchers : \A i \in Durable!Intents : Durable!Holds(d, i) => row[i] = "CLAIMED"
    /\ \A i \in Durable!Intents : \A d, e \in Dispatchers :
         Durable!Holds(d, i) /\ Durable!Holds(e, i) => d = e
    /\ \A d \in Dispatchers : dispatcher[d].pc = "mark" => Sent(dispatcher[d].intent, queue, workflow)
    /\ \A i \in Durable!Intents : row[i] = "DISPATCHED" => Sent(i, queue, workflow)

LEMMA LeasesCountedAlike == \A S : Durable!Cardinality(S) = Cardinality(S)
BY DEF Durable!Cardinality, Cardinality

LEMMA OutboxInitEstablishes == Durable!Init => OutboxInv
BY DEF Durable!Init, OutboxInv, Durable!Idle, Desk, RowStates, Durable!Holds, Sent

(* What dispatcher d does next, having let go of what it held.               *)
LEMMA TakingUp ==
    ASSUME dispatcher \in [Dispatchers -> Desk], NEW d \in Dispatchers,
           NEW todo \in SUBSET Durable!Intents, Durable!Take(d, todo)
    PROVE  /\ dispatcher' \in [Dispatchers -> Desk]
           /\ \A e \in Dispatchers : e # d => dispatcher'[e] = dispatcher[e]
           /\ dispatcher'[d].pc \in {"idle", "load"}
           /\ dispatcher'[d].pc # "idle" => dispatcher'[d].intent \in Durable!Intents
<1>1. CASE todo = {} /\ dispatcher' = [dispatcher EXCEPT ![d] = Durable!Idle]
  BY <1>1 DEF Durable!Idle, Desk
<1>2. CASE \E i \in todo :
             dispatcher' = [dispatcher EXCEPT ![d] =
                              [pc |-> "load", intent |-> i, rest |-> todo \ {i}]]
  <2>1. PICK i \in todo :
          dispatcher' = [dispatcher EXCEPT ![d] =
                           [pc |-> "load", intent |-> i, rest |-> todo \ {i}]]
    BY <1>2
  <2>2. i \in Durable!Intents /\ i \in Nat /\ todo \ {i} \in SUBSET Durable!Intents
    BY BoundsAssumption DEF Durable!Intents
  <2>3. QED BY <2>1, <2>2 DEF Desk
<1>3. QED BY <1>1, <1>2 DEF Durable!Take

(* A step of dispatcher d alone, after which it holds nothing it did not     *)
(* hold, while the rows it holds no more may change.                         *)
LEMMA LettingGo ==
    ASSUME OutboxInv, NEW d \in Dispatchers,
           dispatcher' \in [Dispatchers -> Desk],
           \A e \in Dispatchers : e # d => dispatcher'[e] = dispatcher[e],
           dispatcher'[d].pc \in {"idle", "load", "claim"},
           dispatcher'[d].pc # "idle" => dispatcher'[d].intent \in Durable!Intents,
           row' \in [Durable!Intents -> RowStates], due' \in [Durable!Intents -> BOOLEAN],
           \A i \in Durable!Intents : row'[i] # row[i] => Durable!Holds(d, i),
           \A i \in Durable!Intents : row'[i] = "DISPATCHED" => Sent(i, queue, workflow),
           queue' = queue, workflow' = workflow
    PROVE  OutboxInv'
<1>1. \A e \in Dispatchers : \A i \in Durable!Intents :
        Durable!Holds(e, i)' => Durable!Holds(e, i) /\ e # d
  BY DEF Durable!Holds, Durable!Current
<1>2. \A e \in Dispatchers : \A i \in Durable!Intents :
        Durable!Holds(e, i)' => row'[i] = "CLAIMED"
  BY <1>1 DEF OutboxInv
<1>3. \A e \in Dispatchers : dispatcher'[e].pc = "mark" => Sent(dispatcher'[e].intent, queue, workflow)
  BY DEF OutboxInv
<1>4. \A e \in Dispatchers :
        dispatcher'[e].pc # "idle" => dispatcher'[e].intent \in Durable!Intents
  BY DEF OutboxInv
<1>5. QED
  BY <1>1, <1>2, <1>3, <1>4 DEF OutboxInv

LEMMA GoingTo ==
    ASSUME dispatcher \in [Dispatchers -> Desk], NEW d \in Dispatchers,
           NEW pc \in {"idle", "load", "claim", "send", "mark", "retry"}, Durable!Goto(d, pc)
    PROVE  /\ dispatcher' \in [Dispatchers -> Desk]
           /\ \A e \in Dispatchers : e # d => dispatcher'[e] = dispatcher[e]
           /\ dispatcher'[d].pc = pc /\ dispatcher'[d].intent = dispatcher[d].intent
BY DEF Durable!Goto, Desk

LEMMA Resting ==
    ASSUME OutboxInv, NEW d \in Dispatchers,
           dispatcher' = [dispatcher EXCEPT ![d] = Durable!Idle]
    PROVE  /\ dispatcher' \in [Dispatchers -> Desk]
           /\ \A e \in Dispatchers : e # d => dispatcher'[e] = dispatcher[e]
           /\ dispatcher'[d].pc = "idle"
BY DEF OutboxInv, Desk, Durable!Idle

(* Queue and scheduler: no dispatcher moves.                                 *)
LEMMA QueueKeepsOutboxInv ==
    ASSUME OutboxInv, NEW i \in Durable!Intents,
           Durable!Create(i) \/ Durable!TimePasses(i) \/ Durable!Deliver(i) \/ Durable!LoseAck(i)
    PROVE  OutboxInv'
<1>1. ASSUME row' \in [Durable!Intents -> RowStates], due' \in [Durable!Intents -> BOOLEAN],
             queue' \in [Durable!Intents -> Nat], dispatcher' = dispatcher,
             \A k \in Durable!Intents :
               row'[k] # row[k] => row[k] = "ABSENT" /\ row'[k] = "PENDING",
             \A k \in Durable!Intents : Sent(k, queue, workflow) => Sent(k, queue', workflow')
      PROVE  OutboxInv'
  <2>1. \A d \in Dispatchers, k \in Durable!Intents : Durable!Holds(d, k)' <=> Durable!Holds(d, k)
    BY <1>1 DEF Durable!Holds, Durable!Current
  <2>2. \A d \in Dispatchers, k \in Durable!Intents : Durable!Holds(d, k)' => row'[k] = "CLAIMED"
    BY <1>1, <2>1 DEF OutboxInv
  <2>3. \A k \in Durable!Intents : row'[k] = "DISPATCHED" => Sent(k, queue', workflow')
    BY <1>1 DEF OutboxInv
  <2>4. \A d \in Dispatchers : dispatcher'[d].pc = "mark" => Sent(dispatcher'[d].intent, queue', workflow')
    BY <1>1 DEF OutboxInv
  <2>5. QED BY <1>1, <2>1, <2>2, <2>3, <2>4 DEF OutboxInv
<1>2. /\ row \in [Durable!Intents -> RowStates] /\ due \in [Durable!Intents -> BOOLEAN]
      /\ queue \in [Durable!Intents -> Nat]
  BY DEF OutboxInv
<1>3. CASE Durable!Create(i)
  BY <1>1, <1>2, <1>3 DEF Durable!Create, RowStates, Sent
<1>4. CASE Durable!TimePasses(i)
  BY <1>1, <1>2, <1>4 DEF Durable!TimePasses, Sent
<1>5. CASE Durable!Deliver(i)
  <2>1. queue' \in [Durable!Intents -> Nat]
    BY <1>2, <1>5 DEF Durable!Deliver
  <2>2. \A k \in Durable!Intents : Sent(k, queue, workflow) => Sent(k, queue', workflow')
    BY <1>2, <1>5 DEF Durable!Deliver, Sent
  <2>3. QED BY <1>1, <1>2, <1>5, <2>1, <2>2 DEF Durable!Deliver
<1>6. CASE Durable!LoseAck(i)
  BY <1>1, <1>2, <1>6 DEF Durable!LoseAck, Sent
<1>7. QED BY <1>3, <1>4, <1>5, <1>6

LEMMA DispatcherKeepsOutboxInv ==
    ASSUME OutboxInv, NEW d \in Dispatchers,
           \/ Durable!Dispatch(d) \/ Durable!Reconcile(d) \/ Durable!DispatcherStep(d)
           \/ Durable!Throws(d) \/ Durable!Dies(d)
    PROVE  OutboxInv'
<1> USE DEF Durable!At, Durable!Current
<1>1. /\ row \in [Durable!Intents -> RowStates] /\ due \in [Durable!Intents -> BOOLEAN]
      /\ queue \in [Durable!Intents -> Nat] /\ dispatcher \in [Dispatchers -> Desk]
      /\ dispatcher[d].rest \in SUBSET Durable!Intents
      /\ dispatcher[d].pc # "idle" => dispatcher[d].intent \in Durable!Intents
      /\ \A i \in Durable!Intents : row[i] = "DISPATCHED" => Sent(i, queue, workflow)
  BY DEF OutboxInv, Desk
<1>2. ASSUME NEW todo \in SUBSET Durable!Intents, Durable!Take(d, todo),
             UNCHANGED <<row, due, queue, workflow>>
      PROVE  OutboxInv'
  BY <1>1, <1>2, TakingUp, LettingGo
<1>3. CASE Durable!Dispatch(d)
  BY <1>2, <1>3 DEF Durable!Dispatch
<1>4. CASE Durable!Reconcile(d)
  <2>1. {i \in Durable!Intents : Durable!Claimable(i)} \in SUBSET Durable!Intents
    OBVIOUS
  <2>2. QED BY <1>2, <1>4, <2>1 DEF Durable!Reconcile
<1>5. CASE Durable!Load(d)
  <2>1. CASE Durable!GoOn(d)
    BY <1>1, <1>2, <1>5, <2>1 DEF Durable!Load, Durable!GoOn
  <2>2. CASE Durable!Goto(d, "claim")
    BY <1>1, <1>5, <2>2, GoingTo, LettingGo DEF Durable!Load
  <2>3. QED BY <1>5, <2>1, <2>2 DEF Durable!Load
<1>6. CASE Durable!Claim(d)
  <2> DEFINE i == dispatcher[d].intent
  <2>1. i \in Durable!Intents /\ dispatcher[d].pc = "claim"
    BY <1>1, <1>6 DEF Durable!Claim
  <2>2. CASE ~Durable!Claimable(i)
    BY <1>1, <1>2, <1>6, <2>2 DEF Durable!Claim, Durable!GoOn
  <2>3. CASE Durable!Claimable(i)
    <3>1. /\ row[i] \in {"PENDING", "RETRY"} /\ row' = [row EXCEPT ![i] = "CLAIMED"]
          /\ due' = [due EXCEPT ![i] = FALSE] /\ Durable!Goto(d, "send")
          /\ queue' = queue /\ workflow' = workflow
      BY <1>6, <2>3 DEF Durable!Claim, Durable!Claimable
    <3>2. /\ dispatcher' \in [Dispatchers -> Desk]
          /\ \A e \in Dispatchers : e # d => dispatcher'[e] = dispatcher[e]
          /\ dispatcher'[d].pc = "send" /\ dispatcher'[d].intent = i
      BY <1>1, <3>1, GoingTo
    <3>3. /\ row' \in [Durable!Intents -> RowStates] /\ due' \in [Durable!Intents -> BOOLEAN]
          /\ row'[i] = "CLAIMED" /\ \A k \in Durable!Intents : k # i => row'[k] = row[k]
      BY <1>1, <2>1, <3>1 DEF RowStates
    <3>4. \A e \in Dispatchers : ~Durable!Holds(e, i)
      BY <2>1, <3>1 DEF OutboxInv
    <3>5. \A e \in Dispatchers, k \in Durable!Intents :
            Durable!Holds(e, k)' => (e = d /\ k = i) \/ (e # d /\ k # i /\ Durable!Holds(e, k))
      BY <3>2, <3>4 DEF Durable!Holds
    <3>6. /\ \A e \in Dispatchers, k \in Durable!Intents :
               Durable!Holds(e, k)' => row'[k] = "CLAIMED"
          /\ \A k \in Durable!Intents : \A e, f \in Dispatchers :
               Durable!Holds(e, k)' /\ Durable!Holds(f, k)' => e = f
      <4>1. \A e \in Dispatchers, k \in Durable!Intents :
              Durable!Holds(e, k)' => row'[k] = "CLAIMED"
        BY <3>3, <3>5 DEF OutboxInv
      <4>2. \A k \in Durable!Intents : \A e, f \in Dispatchers :
              Durable!Holds(e, k)' /\ Durable!Holds(f, k)' => e = f
        BY <3>5 DEF OutboxInv
      <4>3. QED BY <4>1, <4>2
    <3>7. \A e \in Dispatchers :
            /\ dispatcher'[e].pc # "idle" => dispatcher'[e].intent \in Durable!Intents
            /\ dispatcher'[e].pc = "mark" => Sent(dispatcher'[e].intent, queue, workflow)
      BY <2>1, <3>2 DEF OutboxInv
    <3>8. \A k \in Durable!Intents : row'[k] = "DISPATCHED" => Sent(k, queue, workflow)
      BY <1>1, <3>3
    <3>9. QED BY <1>1, <3>1, <3>2, <3>3, <3>6, <3>7, <3>8 DEF OutboxInv, Sent
  <2>4. QED BY <2>2, <2>3
<1>7. CASE Durable!Send(d)
  <2> DEFINE i == dispatcher[d].intent
  <2>1. /\ i \in Durable!Intents /\ dispatcher[d].pc = "send"
        /\ queue' = [queue EXCEPT ![i] = @ + 1] /\ Durable!Goto(d, "mark")
        /\ UNCHANGED <<row, due, workflow>>
    BY <1>1, <1>7 DEF Durable!Send
  <2>2. /\ dispatcher' \in [Dispatchers -> Desk]
        /\ \A e \in Dispatchers : e # d => dispatcher'[e] = dispatcher[e]
        /\ dispatcher'[d].pc = "mark" /\ dispatcher'[d].intent = i
    BY <1>1, <2>1, GoingTo
  <2>3. /\ queue' \in [Durable!Intents -> Nat] /\ Sent(i, queue', workflow')
        /\ \A k \in Durable!Intents : Sent(k, queue, workflow) => Sent(k, queue', workflow')
    BY <1>1, <2>1 DEF Sent
  <2>4. \A e \in Dispatchers, k \in Durable!Intents : Durable!Holds(e, k)' => Durable!Holds(e, k)
    BY <2>1, <2>2 DEF Durable!Holds
  <2>5. \A e \in Dispatchers :
          /\ dispatcher'[e].pc # "idle" => dispatcher'[e].intent \in Durable!Intents
          /\ dispatcher'[e].pc = "mark" => Sent(dispatcher'[e].intent, queue', workflow')
    BY <2>1, <2>2, <2>3 DEF OutboxInv
  <2>6. QED BY <1>1, <2>1, <2>2, <2>3, <2>4, <2>5 DEF OutboxInv
<1>8. CASE Durable!MarkDispatched(d)
  <2> DEFINE i == dispatcher[d].intent
  <2>1. /\ i \in Durable!Intents /\ dispatcher[d].pc = "mark"
        /\ row' = [row EXCEPT ![i] = "DISPATCHED"] /\ due' = [due EXCEPT ![i] = TRUE]
        /\ Durable!Take(d, dispatcher[d].rest) /\ queue' = queue /\ workflow' = workflow
    BY <1>1, <1>8 DEF Durable!MarkDispatched, Durable!GoOn
  <2>2. Durable!Holds(d, i) /\ Sent(i, queue, workflow)
    BY <2>1 DEF OutboxInv, Durable!Holds
  <2>3. /\ row' \in [Durable!Intents -> RowStates] /\ due' \in [Durable!Intents -> BOOLEAN]
        /\ \A k \in Durable!Intents : k # i => row'[k] = row[k]
    BY <1>1, <2>1 DEF RowStates
  <2>4. QED BY <1>1, <2>1, <2>2, <2>3, TakingUp, LettingGo
<1>9. CASE Durable!MarkRetry(d)
  <2> DEFINE i == dispatcher[d].intent
  <2>1. /\ i \in Durable!Intents /\ dispatcher[d].pc = "retry"
        /\ row' = [row EXCEPT ![i] = "RETRY"] /\ due' = [due EXCEPT ![i] = FALSE]
        /\ dispatcher' = [dispatcher EXCEPT ![d] = Durable!Idle]
        /\ queue' = queue /\ workflow' = workflow
    BY <1>1, <1>9 DEF Durable!MarkRetry
  <2>2. Durable!Holds(d, i)
    BY <2>1 DEF Durable!Holds
  <2>3. /\ row' \in [Durable!Intents -> RowStates] /\ due' \in [Durable!Intents -> BOOLEAN]
        /\ row'[i] = "RETRY" /\ \A k \in Durable!Intents : k # i => row'[k] = row[k]
    BY <1>1, <2>1 DEF RowStates
  <2>4. /\ \A k \in Durable!Intents : row'[k] # row[k] => Durable!Holds(d, k)
        /\ \A k \in Durable!Intents : row'[k] = "DISPATCHED" => Sent(k, queue, workflow)
    BY <1>1, <2>2, <2>3
  <2>5. QED BY <2>1, <2>3, <2>4, Resting, LettingGo
<1>10. CASE Durable!Dies(d)
  <2>1. dispatcher' = [dispatcher EXCEPT ![d] = Durable!Idle]
         /\ UNCHANGED <<row, due, queue, workflow>>
    BY <1>10 DEF Durable!Dies
  <2>2. QED BY <1>1, <2>1, Resting, LettingGo
<1>11. CASE Durable!Throws(d)
  <2>1. /\ dispatcher[d].pc \in {"send", "mark"} /\ Durable!Goto(d, "retry")
        /\ UNCHANGED <<row, due, queue, workflow>>
    BY <1>11 DEF Durable!Throws
  <2>2. /\ dispatcher' \in [Dispatchers -> Desk]
        /\ \A e \in Dispatchers : e # d => dispatcher'[e] = dispatcher[e]
        /\ dispatcher'[d].pc = "retry" /\ dispatcher'[d].intent = dispatcher[d].intent
    BY <1>1, <2>1, GoingTo
  <2>3. \A e \in Dispatchers, k \in Durable!Intents : Durable!Holds(e, k)' => Durable!Holds(e, k)
    BY <2>1, <2>2 DEF Durable!Holds
  <2>4. \A e \in Dispatchers :
          /\ dispatcher'[e].pc # "idle" => dispatcher'[e].intent \in Durable!Intents
          /\ dispatcher'[e].pc = "mark" => Sent(dispatcher'[e].intent, queue, workflow)
    BY <1>1, <2>1, <2>2 DEF OutboxInv
  <2>5. QED BY <1>1, <2>1, <2>2, <2>3, <2>4 DEF OutboxInv, Sent
<1>12. QED
  BY <1>3, <1>4, <1>5, <1>6, <1>7, <1>8, <1>9, <1>10, <1>11 DEF Durable!DispatcherStep

LEMMA OutboxStepKeeps == OutboxInv /\ Durable!Next => OutboxInv'
BY QueueKeepsOutboxInv, DispatcherKeepsOutboxInv DEF Durable!Next

LEMMA OneHolderAtMost ==
    ASSUME OutboxInv
    PROVE  Durable!OneLease
<1>1. ASSUME NEW i \in Durable!Intents
      PROVE  Durable!Cardinality({d \in Dispatchers : Durable!Holds(d, i)}) <= 1
  <2> DEFINE holders == {d \in Dispatchers : Durable!Holds(d, i)}
  <2>1. CASE holders = {}
    BY <2>1, LeasesCountedAlike, FS_EmptySet
  <2>2. CASE \E d \in holders : TRUE
    <3>1. PICK d \in holders : TRUE
      BY <2>2
    <3>2. holders = {d}
      BY <3>1 DEF OutboxInv
    <3>3. Cardinality(holders) = 1
      BY <3>2, FS_Singleton
    <3>4. QED
      BY <3>3, LeasesCountedAlike
  <2>3. QED BY <2>1, <2>2
<1>2. QED BY <1>1 DEF OutboxInv, Durable!OneLease, Sent

----------------------------------------------------------------------------
(* The schedule and the resolver contract, at any instant.                   *)

(* The two tables agree, in milliseconds and in seconds.                     *)
LEMMA TablesAgree ==
    ASSUME NEW a \in Schedule!Attempts
    PROVE  /\ a \in 0 .. 4 /\ Offset[a] \in Nat
           /\ Schedule!EVIDENCE_OFFSETS_MS[a + 1] = 1000 * Offset[a]
           /\ Schedule!EVIDENCE_OFFSETS_MS[a + 1] < Schedule!TERMINAL_DEADLINE_MS
<1>1. a \in 0 .. 4
  BY DEF Schedule!Attempts, LastAttempt
<1>2. Offset[a] = <<0, 1800, 14400, 86400, 259200>>[a + 1]
  BY <1>1 DEF Offset
<1>3. a = 0 \/ a = 1 \/ a = 2 \/ a = 3 \/ a = 4
  BY <1>1
<1>4. CASE a = 0
  BY <1>2, <1>4 DEF Schedule!EVIDENCE_OFFSETS_MS, Schedule!TERMINAL_DEADLINE_MS
<1>5. CASE a = 1
  BY <1>2, <1>5 DEF Schedule!EVIDENCE_OFFSETS_MS, Schedule!TERMINAL_DEADLINE_MS
<1>6. CASE a = 2
  BY <1>2, <1>6 DEF Schedule!EVIDENCE_OFFSETS_MS, Schedule!TERMINAL_DEADLINE_MS
<1>7. CASE a = 3
  BY <1>2, <1>7 DEF Schedule!EVIDENCE_OFFSETS_MS, Schedule!TERMINAL_DEADLINE_MS
<1>8. CASE a = 4
  BY <1>2, <1>8 DEF Schedule!EVIDENCE_OFFSETS_MS, Schedule!TERMINAL_DEADLINE_MS
<1>9. QED BY <1>1, <1>3, <1>4, <1>5, <1>6, <1>7, <1>8

LEMMA Seconds ==
    ASSUME NEW t \in Nat, NEW o \in Nat
    PROVE  t < 1000 * o <=> ~(t \div 1000 >= o)
OBVIOUS

LEMMA BackoffIsANumber ==
    ASSUME NEW k \in 0 .. 5
    PROVE  Schedule!TechnicalDelay(k) \in Nat
<1>1. Schedule!Len(Schedule!TECHNICAL_DELAYS_MS) = 5
  BY DEF Schedule!TECHNICAL_DELAYS_MS
<1>2. QED BY <1>1 DEF Schedule!TechnicalDelay, Schedule!Least, Schedule!TECHNICAL_DELAYS_MS

(* What the scheduler is asked about.                                        *)
ScheduleInv == now \in Nat /\ state \in Schedule!ScheduleStates

LEMMA ScheduleStateIs ==
    ASSUME ScheduleInv
    PROVE  /\ state.evidenceAttempt \in Schedule!Attempts
           /\ state.lastEvidenceOutcome \in {"UNRESOLVED", Schedule!NONE}
           /\ state.technicalAttempt \in 0 .. 5
           /\ state.lastTechnicalFailureAt \in Nat
           /\ state.failed \in BOOLEAN /\ state.finalizedSuccessfulTx \in BOOLEAN
           /\ state.terminalSettled \in BOOLEAN
           /\ state.lastEvidenceOutcome = "UNRESOLVED" => state.evidenceAttempt < 4
<1>1. Schedule!Len(Schedule!TECHNICAL_DELAYS_MS) = 5
  BY DEF Schedule!TECHNICAL_DELAYS_MS
<1>2. FailureTimes \subseteq Nat
  BY DEF FailureTimes
<1>3. QED BY <1>1, <1>2 DEF ScheduleInv, Schedule!ScheduleStates, LastAttempt

LEMMA NextAttemptIs ==
    ASSUME ScheduleInv
    PROVE  /\ Schedule!NextAttempt(state) \in Schedule!Attempts
           /\ IF state.lastEvidenceOutcome = "UNRESOLVED"
              THEN Schedule!NextAttempt(state) = state.evidenceAttempt + 1
              ELSE Schedule!NextAttempt(state) = state.evidenceAttempt
<1>1. Schedule!Len(Schedule!EVIDENCE_OFFSETS_MS) = 5
  BY DEF Schedule!EVIDENCE_OFFSETS_MS
<1>2. state.evidenceAttempt \in 0 .. 4
  BY ScheduleStateIs DEF Schedule!Attempts, LastAttempt
<1>3. QED
  BY <1>1, <1>2, ScheduleStateIs DEF Schedule!NextAttempt, Schedule!Least, Schedule!Attempts, LastAttempt

(* Before the next attempt every one is UNRESOLVED, from it on none is made. *)
LEMMA RecordUpToNext ==
    ASSUME ScheduleInv, NEW a \in Schedule!Attempts
    PROVE  /\ Schedule!NextAttempt(state) \in Nat /\ a \in Nat
           /\ Schedule!DescribedRecord(state)[a] =
                IF a < Schedule!NextAttempt(state) THEN "UNRESOLVED" ELSE Schedule!NONE
<1>1. state.evidenceAttempt \in 0 .. 4 /\ a \in 0 .. 4
  BY ScheduleStateIs DEF Schedule!Attempts, LastAttempt
<1>2. QED BY <1>1, NextAttemptIs DEF Schedule!DescribedRecord

LEMMA ResolverAcceptsNextOnly ==
    ASSUME ScheduleInv, NEW a \in Schedule!Attempts
    PROVE  Schedule!MayResolve(Schedule!DescribedRecord(state), a, now \div 1000)
             <=> a = Schedule!NextAttempt(state) /\ now >= Schedule!EVIDENCE_OFFSETS_MS[a + 1]
<1> DEFINE next == Schedule!NextAttempt(state)
           described == Schedule!DescribedRecord(state)
<1>1. next \in 0 .. 4 /\ a \in 0 .. 4 /\ now \in Nat /\ 0 .. 4 = Schedule!Attempts
  BY NextAttemptIs DEF Schedule!Attempts, LastAttempt, ScheduleInv
<1>2. \A b \in 0 .. 4 : described[b] = IF b < next THEN "UNRESOLVED" ELSE Schedule!NONE
  BY <1>1, RecordUpToNext
<1>3. ~Schedule!Resolved(described)
  BY <1>1, <1>2 DEF Schedule!Resolved, Schedule!Verdicts, Schedule!NONE
<1>4. now >= Schedule!EVIDENCE_OFFSETS_MS[a + 1] <=> now \div 1000 >= Offset[a]
  <2>1. Offset[a] \in Nat /\ Schedule!EVIDENCE_OFFSETS_MS[a + 1] = 1000 * Offset[a]
    BY TablesAgree
  <2>2. now < 1000 * Offset[a] <=> ~(now \div 1000 >= Offset[a])
    BY <1>1, <2>1, Seconds
  <2>3. QED BY <1>1, <2>1, <2>2
<1>5. (described[a] = Schedule!NONE /\ \A previous \in 0 .. a - 1 : described[previous] = "UNRESOLVED")
        <=> a = next
  <2>1. described[a] = Schedule!NONE <=> a >= next
    BY <1>1, <1>2 DEF Schedule!NONE
  <2>2. (\A previous \in 0 .. a - 1 : described[previous] = "UNRESOLVED") <=> a <= next
    <3>1. ASSUME a <= next, NEW previous \in 0 .. a - 1 PROVE described[previous] = "UNRESOLVED"
      BY <1>1, <1>2, <3>1
    <3>2. ASSUME a > next PROVE next \in 0 .. a - 1 /\ described[next] # "UNRESOLVED"
      <4>1. next \in 0 .. a - 1 /\ described[next] = Schedule!NONE
        BY <1>1, <1>2, <3>2
      <4>2. QED BY <4>1 DEF Schedule!NONE
    <3>3. QED BY <1>1, <3>1, <3>2
  <2>3. QED BY <1>1, <2>1, <2>2
<1>6. QED BY <1>3, <1>4, <1>5 DEF Schedule!MayResolve

LEMMA TheScheduleSuits ==
    ASSUME ScheduleInv
    PROVE  Schedule!SubmissionsAreAccepted /\ Schedule!WaitsOnlyWhileRefused /\ Schedule!DeadlineIsKept
<1> DEFINE next == Schedule!NextAttempt(state)
           opens == Schedule!EVIDENCE_OFFSETS_MS[next + 1]
           until == Schedule!Least(state.lastTechnicalFailureAt
                                     + Schedule!TechnicalDelay(state.technicalAttempt),
                                   Schedule!TERMINAL_DEADLINE_MS)
<1>1. /\ now \in Nat /\ next \in Schedule!Attempts /\ opens \in Nat
      /\ opens < Schedule!TERMINAL_DEADLINE_MS
      /\ state.failed \in BOOLEAN /\ state.finalizedSuccessfulTx \in BOOLEAN
      /\ state.terminalSettled \in BOOLEAN
  BY NextAttemptIs, TablesAgree, ScheduleStateIs DEF ScheduleInv
<1>2. until \in Nat /\ until <= Schedule!TERMINAL_DEADLINE_MS
  <2>1. state.lastTechnicalFailureAt + Schedule!TechnicalDelay(state.technicalAttempt) \in Nat
    BY ScheduleStateIs, BackoffIsANumber
  <2>2. QED BY <2>1 DEF Schedule!Least, Schedule!TERMINAL_DEADLINE_MS
<1>3. CASE state.terminalSettled
  <2>1. Schedule!Action.kind = "WAIT"
    BY <1>3 DEF Schedule!Action, Schedule!nextResolutionAction, Schedule!Wait
  <2>2. QED BY <1>3, <2>1 DEF Schedule!SubmissionsAreAccepted, Schedule!WaitsOnlyWhileRefused,
                             Schedule!DeadlineIsKept
<1>4. CASE ~state.terminalSettled /\ now >= Schedule!TERMINAL_DEADLINE_MS
  <2>1. Schedule!Action.kind = "EXPIRE_TO_VOID"
    BY <1>4 DEF Schedule!Action, Schedule!nextResolutionAction, Schedule!Do
  <2>2. QED BY <2>1 DEF Schedule!SubmissionsAreAccepted, Schedule!WaitsOnlyWhileRefused,
                       Schedule!DeadlineIsKept
<1>5. CASE ~state.terminalSettled /\ now < Schedule!TERMINAL_DEADLINE_MS
  <2>0. ~(now >= Schedule!TERMINAL_DEADLINE_MS)
    BY <1>1, <1>5 DEF Schedule!TERMINAL_DEADLINE_MS
  <2>1. CASE state.finalizedSuccessfulTx
    <3>1. Schedule!Action.kind = "REQUEST_ATTESTATIONS"
      BY <1>5, <2>0, <2>1 DEF Schedule!Action, Schedule!nextResolutionAction, Schedule!Do
    <3>2. QED BY <2>0, <3>1 DEF Schedule!SubmissionsAreAccepted, Schedule!WaitsOnlyWhileRefused,
                               Schedule!DeadlineIsKept
  <2>2. CASE ~state.finalizedSuccessfulTx /\ state.failed
    <3>1. Schedule!Action = IF now < until THEN Schedule!Wait(until)
                            ELSE Schedule!Do("RETRY_SAME_OPERATION", state.technicalAttempt)
      BY <1>5, <2>0, <2>2 DEF Schedule!Action, Schedule!nextResolutionAction, Schedule!RetryAction
    <3>2. /\ Schedule!Action.kind \in {"WAIT", "RETRY_SAME_OPERATION"}
          /\ Schedule!Action.kind = "WAIT" => now < Schedule!Action.until /\ Schedule!Action.until = until
      <4> HIDE DEF until
      <4>1. QED BY <3>1 DEF Schedule!Wait, Schedule!Do
    <3>3. QED BY <1>2, <2>0, <2>2, <3>2 DEF Schedule!SubmissionsAreAccepted,
              Schedule!WaitsOnlyWhileRefused, Schedule!DeadlineIsKept
  <2>3. CASE ~state.finalizedSuccessfulTx /\ ~state.failed
    <3>1. Schedule!Action = IF now < opens THEN Schedule!Wait(opens)
                            ELSE Schedule!Do("SUBMIT_EVIDENCE_ATTEMPT", next)
      BY <1>5, <2>0, <2>3 DEF Schedule!Action, Schedule!nextResolutionAction, Schedule!EvidenceAction
    <3>2. CASE now < opens
      <4>1. Schedule!Action.kind = "WAIT" /\ Schedule!Action.until = opens
        BY <3>1, <3>2 DEF Schedule!Wait
      <4>2. \A a \in Schedule!Attempts :
              ~Schedule!MayResolve(Schedule!DescribedRecord(state), a, now \div 1000)
        BY <1>1, <3>2, ResolverAcceptsNextOnly
      <4>3. opens <= Schedule!TERMINAL_DEADLINE_MS
        BY <1>1 DEF Schedule!TERMINAL_DEADLINE_MS
      <4> HIDE DEF opens
      <4>4. QED BY <2>0, <3>2, <4>1, <4>2, <4>3 DEF Schedule!SubmissionsAreAccepted,
                Schedule!WaitsOnlyWhileRefused, Schedule!DeadlineIsKept
    <3>3. CASE ~(now < opens)
      <4>1. Schedule!Action.kind = "SUBMIT_EVIDENCE_ATTEMPT" /\ Schedule!Action.attempt = next
        BY <3>1, <3>3 DEF Schedule!Do
      <4>2. Schedule!MayResolve(Schedule!DescribedRecord(state), next, now \div 1000)
        BY <1>1, <3>3, ResolverAcceptsNextOnly
      <4>3. QED BY <2>0, <4>1, <4>2 DEF Schedule!SubmissionsAreAccepted,
                Schedule!WaitsOnlyWhileRefused, Schedule!DeadlineIsKept
    <3>4. QED BY <3>2, <3>3
  <2>4. QED BY <1>1, <2>1, <2>2, <2>3
<1>6. QED
  <2>1. Schedule!TERMINAL_DEADLINE_MS \in Nat
    BY DEF Schedule!TERMINAL_DEADLINE_MS
  <2>2. QED BY <1>1, <1>3, <1>4, <1>5, <2>1

LEMMA InstantsAreNumbers == Instants \subseteq Nat
<1>1. \A e \in Edges : e \in Nat
  BY DEF Edges
<1>2. \A e \in Edges : {e, e + 1} \cup (IF e = 0 THEN {} ELSE {e - 1}) \subseteq Nat
  BY <1>1
<1>3. QED BY <1>2 DEF Instants

----------------------------------------------------------------------------
(* Projections: the read model.  A transaction logs one event or two, which  *)
(* projectEvents folds into what is shown.                                   *)

(* One step of the fold, from the last event back.                           *)
Last(s) == ReadModel!Max(s)
FoldTerm(base, events, it, s) ==
    IF s = {} THEN base ELSE ReadModel!projectEvent(it[s \ {Last(s)}], events[Last(s)])

LEMMA EventsAreFolded ==
    ASSUME NEW base, NEW events
    PROVE  ReadModel!projectEvents(base, events) =
             (CHOOSE it : it = [s \in SUBSET DOMAIN events |-> FoldTerm(base, events, it, s)])
               [DOMAIN events]
BY DEF ReadModel!projectEvents, ReadModel!FoldLeft, ReadModel!MapThenFoldSet, FoldTerm, Last

LEMMA LastIs == Last({1}) = 1 /\ Last({2}) = 2 /\ Last({1, 2}) = 2
<1>1. \A k \in {1, 2} : Last({k}) = k
  BY DEF Last, ReadModel!Max
<1>2. Last({1, 2}) = 2
  <2>1. 2 \in {1, 2} /\ \A y \in {1, 2} : 2 >= y
    OBVIOUS
  <2>2. \A x \in {1, 2} : (\A y \in {1, 2} : x >= y) => x = 2
    OBVIOUS
  <2>3. QED BY <2>1, <2>2 DEF Last, ReadModel!Max
<1>3. QED BY <1>1, <1>2

LEMMA OneEvent ==
    ASSUME NEW base, NEW e
    PROVE  ReadModel!projectEvents(base, <<e>>) = ReadModel!projectEvent(base, e)
<1> DEFINE Eq(it) == it = [s \in SUBSET {1} |-> FoldTerm(base, <<e>>, it, s)]
           it0 == [s \in SUBSET {1} |-> IF s = {} THEN base ELSE ReadModel!projectEvent(base, e)]
           it1 == CHOOSE it : Eq(it)
<1>1. DOMAIN <<e>> = {1} /\ <<e>>[1] = e
  OBVIOUS
<1>2. \A s \in SUBSET {1} : s = {} \/ s = {1}
  OBVIOUS
<1>3. {1} \ {1} = {}
  OBVIOUS
<1>4. Eq(it0)
  <2>1. \A s \in SUBSET {1} : it0[s] = FoldTerm(base, <<e>>, it0, s)
    BY <1>1, <1>2, <1>3, LastIs DEF FoldTerm
  <2>2. QED BY <2>1
<1>5. Eq(it1)
  <2> HIDE DEF Eq, it0
  <2>1. QED BY <1>4
<1>6. it1[{1}] = ReadModel!projectEvent(base, e)
  <2>1. it1[{1}] = FoldTerm(base, <<e>>, it1, {1}) /\ it1[{}] = FoldTerm(base, <<e>>, it1, {})
    <3> HIDE DEF it1
    <3>1. QED BY <1>5
  <2> HIDE DEF it1
  <2>2. it1[{}] = base
    BY <2>1 DEF FoldTerm
  <2>3. QED BY <1>1, <1>3, <2>1, <2>2, LastIs DEF FoldTerm
<1>7. QED BY <1>1, <1>6, EventsAreFolded

LEMMA TwoEvents ==
    ASSUME NEW base, NEW e, NEW f
    PROVE  ReadModel!projectEvents(base, <<e, f>>) =
             ReadModel!projectEvent(ReadModel!projectEvent(base, e), f)
<1> DEFINE one == ReadModel!projectEvent(base, e)
           Eq(it) == it = [s \in SUBSET {1, 2} |-> FoldTerm(base, <<e, f>>, it, s)]
           it0 == [s \in SUBSET {1, 2} |->
                     IF s = {} THEN base ELSE IF s = {1} THEN one
                     ELSE IF s = {2} THEN ReadModel!projectEvent(base, f)
                     ELSE ReadModel!projectEvent(one, f)]
           it1 == CHOOSE it : Eq(it)
<1>1. DOMAIN <<e, f>> = {1, 2} /\ <<e, f>>[1] = e /\ <<e, f>>[2] = f
  OBVIOUS
<1>2. \A s \in SUBSET {1, 2} : s = {} \/ s = {1} \/ s = {2} \/ s = {1, 2}
  OBVIOUS
<1>3. /\ {1} \ {1} = {} /\ {2} \ {2} = {} /\ {1, 2} \ {2} = {1}
      /\ {1} # {} /\ {2} # {} /\ {1} # {2} /\ {1, 2} # {} /\ {1, 2} # {1} /\ {1, 2} # {2}
  <2>1. 1 \in {1} /\ 2 \in {2} /\ 1 \notin {2} /\ 2 \notin {1} /\ 1 \in {1, 2} /\ 2 \in {1, 2}
    OBVIOUS
  <2>2. /\ {1} # {} /\ {2} # {} /\ {1} # {2} /\ {1, 2} # {} /\ {1, 2} # {1} /\ {1, 2} # {2}
    BY <2>1, Zenon
  <2>3. {1} \ {1} = {} /\ {2} \ {2} = {} /\ {1, 2} \ {2} = {1}
    OBVIOUS
  <2>4. QED BY <2>2, <2>3
<1>4. Eq(it0)
  <2> HIDE DEF one
  <2>1. ASSUME NEW s \in SUBSET {1, 2} PROVE it0[s] = FoldTerm(base, <<e, f>>, it0, s)
    <3>1. it0[{}] = base /\ it0[{1}] = one /\ it0[{2}] = ReadModel!projectEvent(base, f)
           /\ it0[{1, 2}] = ReadModel!projectEvent(one, f)
      BY <1>3
    <3> HIDE DEF it0
    <3>2. FoldTerm(base, <<e, f>>, it0, {}) = base
      BY DEF FoldTerm
    <3>3. FoldTerm(base, <<e, f>>, it0, {1}) = one
      BY <1>1, <1>3, <3>1, LastIs DEF FoldTerm, one
    <3>4. FoldTerm(base, <<e, f>>, it0, {2}) = ReadModel!projectEvent(base, f)
      BY <1>1, <1>3, <3>1, LastIs DEF FoldTerm
    <3>5. FoldTerm(base, <<e, f>>, it0, {1, 2}) = ReadModel!projectEvent(one, f)
      BY <1>1, <1>3, <3>1, LastIs DEF FoldTerm
    <3>6. QED BY <1>2, <3>1, <3>2, <3>3, <3>4, <3>5
  <2>2. QED BY <2>1
<1>5. Eq(it1)
  <2> HIDE DEF Eq, it0
  <2>1. QED BY <1>4
<1>6. it1[{1, 2}] = ReadModel!projectEvent(one, f)
  <2>1. \A s \in {{}, {1}, {1, 2}} : it1[s] = FoldTerm(base, <<e, f>>, it1, s)
    <3> HIDE DEF it1
    <3>1. \A s \in SUBSET {1, 2} : it1[s] = FoldTerm(base, <<e, f>>, it1, s)
      BY <1>5
    <3> HIDE DEF Eq
    <3>2. {} \in SUBSET {1, 2} /\ {1} \in SUBSET {1, 2} /\ {1, 2} \in SUBSET {1, 2}
      OBVIOUS
    <3>3. QED BY <3>1, <3>2
  <2> HIDE DEF it1
  <2>2. it1[{}] = base
    BY <2>1 DEF FoldTerm
  <2>3. it1[{1}] = one
    <3>1. it1[{1}] = FoldTerm(base, <<e, f>>, it1, {1})
      BY <2>1
    <3>2. QED BY <1>1, <1>3, <2>2, <3>1, LastIs DEF FoldTerm
  <2>4. it1[{1, 2}] = FoldTerm(base, <<e, f>>, it1, {1, 2})
    BY <2>1
  <2>5. QED BY <1>1, <1>3, <2>3, <2>4, LastIs DEF FoldTerm
<1>7. QED BY <1>1, <1>6, EventsAreFolded
MarketState == [engine : {"none", "POOL", "LMSR"}, bound : BOOLEAN,
                status : {"none", "FUNDING", "FAILED", "ACTIVE", "TERMINAL"},
                outcome : ReadModel!Outcomes \cup {"none"},
                total : [ReadModel!Sides -> Nat], fees : Nat, funding : Nat]
Addresses == {<<>>} \cup {ReadModel!AtMarket(i) : i \in Ids}
ShownMarket == [address : Addresses, engine : {"none", "POOL", "LMSR"},
                resolver : Ids \cup {ReadModel!Unknown}, active : BOOLEAN,
                total : [ReadModel!Sides -> Int], fees : Int, funding : Int,
                outcome : ReadModel!Outcomes \cup {ReadModel!Unknown}, settled : BOOLEAN]
Activity == {"unknown", "active", "inactive"}
Shown == [release : [ReadModel!Releases -> Activity], market : [Ids -> ShownMarket]]

(* A state knows a market, if at all, by the address it was created at.      *)
Placed(st) ==
    st \in Shown /\ \A i \in Ids : st.market[i].address \in {<<>>, ReadModel!AtMarket(i)}

LEMMA AddressesDiffer ==
    /\ \A i : ReadModel!AtMarket(i) # <<>> /\ ReadModel!AtVault(i) # <<>>
    /\ \A i, j : ReadModel!AtMarket(i) # ReadModel!AtVault(j)
    /\ \A i, j : ReadModel!AtMarket(i) = ReadModel!AtMarket(j) => i = j
BY DEF ReadModel!AtMarket, ReadModel!AtVault

LEMMA WhoIsAt ==
    ASSUME NEW st, Placed(st), NEW i \in Ids
    PROVE  /\ ReadModel!MarketsAt(st, ReadModel!AtVault(i)) = {}
           /\ st.market[i].address = ReadModel!AtMarket(i) =>
                ReadModel!MarketsAt(st, ReadModel!AtMarket(i)) = {i}
<1>1. \A j \in Ids : st.market[j].address # ReadModel!AtVault(i)
  BY AddressesDiffer DEF Placed
<1>2. \A j \in Ids : st.market[j].address = ReadModel!AtMarket(i) => j = i
  BY AddressesDiffer DEF Placed
<1>3. QED BY <1>1, <1>2 DEF ReadModel!MarketsAt

(* What an event makes of a state, if it changes one market.                 *)
Turns(st, i, m, next) ==
    next = [release |-> st.release, market |-> [st.market EXCEPT ![i] = m]]

LEMMA OneTurns ==
    ASSUME NEW st, Placed(st), NEW i \in Ids, NEW m
    PROVE  Turns(st, i, m, [st EXCEPT !.market = [j \in Ids |-> IF j = i THEN m ELSE st.market[j]]])
<1>1. [j \in Ids |-> IF j = i THEN m ELSE st.market[j]] = [st.market EXCEPT ![i] = m]
  BY DEF Placed, Shown
<1>2. QED BY <1>1 DEF Turns, Placed, Shown

LEMMA TradeIsShown ==
    ASSUME NEW st, Placed(st), NEW i \in Ids, NEW side \in ReadModel!Sides,
           st.market[i].address = ReadModel!AtMarket(i),
           NEW name \in {"Staked", "Bought", "Sold"},
           NEW e, e = ReadModel!Event(name, ReadModel!AtMarket(i), i, [side |-> side])
    PROVE  Turns(st, i, ReadModel!Trade(st.market[i], e), ReadModel!projectEvent(st, e))
<1>1. e.name = name /\ e.at = ReadModel!AtMarket(i)
  BY DEF ReadModel!Event
<1>2. ReadModel!projectEvent(st, e) = ReadModel!Change(st, e.at, LAMBDA x : ReadModel!Trade(x, e))
  BY <1>1 DEF ReadModel!projectEvent
<1>3. ReadModel!projectEvent(st, e) =
        [st EXCEPT !.market = [j \in Ids |-> IF j = i THEN ReadModel!Trade(st.market[i], e)
                                             ELSE st.market[j]]]
  BY <1>1, <1>2, WhoIsAt DEF ReadModel!Change
<1>4. QED
  BY <1>3, OneTurns

LEMMA FundingIsNotShown ==
    ASSUME NEW st, Placed(st), NEW i \in Ids, NEW e, e.at = ReadModel!AtVault(i),
           e.name \in {"Contributed", "Activated"}
    PROVE  ReadModel!projectEvent(st, e) = st
<1>1. \/ ReadModel!projectEvent(st, e) =
            ReadModel!Change(st, e.at, LAMBDA m : ReadModel!Contribution(m, e))
      \/ ReadModel!projectEvent(st, e) =
            ReadModel!Change(st, e.at, LAMBDA m : ReadModel!Activation(m, e))
  BY DEF ReadModel!projectEvent
<1>2. ReadModel!projectEvent(st, e) = [st EXCEPT !.market = [j \in Ids |-> st.market[j]]]
  BY <1>1, WhoIsAt DEF ReadModel!Change
<1>3. [j \in Ids |-> st.market[j]] = st.market
  BY DEF Placed, Shown
<1>4. QED BY <1>2, <1>3 DEF Placed, Shown

LEMMA ActivationIsShown ==
    ASSUME NEW st, Placed(st), NEW i \in Ids, NEW amount,
           st.market[i].address = ReadModel!AtMarket(i),
           NEW e, e = ReadModel!Event("Activated", ReadModel!AtMarket(i), i, [amount |-> amount])
    PROVE  Turns(st, i, ReadModel!Activation(st.market[i], e), ReadModel!projectEvent(st, e))
<1>1. e.name = "Activated" /\ e.at = ReadModel!AtMarket(i)
  BY DEF ReadModel!Event
<1>2. ReadModel!projectEvent(st, e) =
        ReadModel!Change(st, e.at, LAMBDA m : ReadModel!Activation(m, e))
  BY <1>1 DEF ReadModel!projectEvent
<1>3. ReadModel!projectEvent(st, e) =
        [st EXCEPT !.market = [j \in Ids |-> IF j = i THEN ReadModel!Activation(st.market[i], e)
                                             ELSE st.market[j]]]
  BY <1>1, <1>2, WhoIsAt DEF ReadModel!Change
<1>4. QED BY <1>3, OneTurns

LEMMA SettlementIsShown ==
    ASSUME NEW st, Placed(st), NEW i \in Ids, NEW outcome, NEW fee,
           st.market[i].address = ReadModel!AtMarket(i),
           NEW e, e = ReadModel!Event("Settled", ReadModel!AtMarket(i), i,
                                      [outcome |-> outcome, fee |-> fee])
    PROVE  Turns(st, i, ReadModel!Settlement(st.market[i], e), ReadModel!projectEvent(st, e))
<1>1. e.name = "Settled" /\ e.at = ReadModel!AtMarket(i)
  BY DEF ReadModel!Event
<1>2. ReadModel!projectEvent(st, e) =
        ReadModel!Change(st, e.at, LAMBDA m : ReadModel!Settlement(m, e))
  BY <1>1 DEF ReadModel!projectEvent
<1>3. ReadModel!projectEvent(st, e) =
        [st EXCEPT !.market = [j \in Ids |-> IF j = i THEN ReadModel!Settlement(st.market[i], e)
                                             ELSE st.market[j]]]
  BY <1>1, <1>2, WhoIsAt DEF ReadModel!Change
<1>4. QED BY <1>3, OneTurns

LEMMA ConsumptionIsShown ==
    ASSUME NEW st, Placed(st), NEW i \in Ids, NEW outcome,
           st.market[i].address = ReadModel!AtMarket(i),
           NEW e, e = ReadModel!Event("ResolutionConsumed", <<"gateway">>, i,
                                      [market |-> ReadModel!AtMarket(i), outcome |-> outcome])
    PROVE  Turns(st, i, ReadModel!Consumption(st.market[i], e), ReadModel!projectEvent(st, e))
<1>1. e.name = "ResolutionConsumed" /\ e.arg.market = ReadModel!AtMarket(i)
  BY DEF ReadModel!Event
<1>2. ReadModel!projectEvent(st, e) =
        ReadModel!Change(st, e.arg.market, LAMBDA m : ReadModel!Consumption(m, e))
  BY <1>1 DEF ReadModel!projectEvent
<1>3. ReadModel!projectEvent(st, e) =
        [st EXCEPT !.market = [j \in Ids |-> IF j = i THEN ReadModel!Consumption(st.market[i], e)
                                             ELSE st.market[j]]]
  BY <1>1, <1>2, WhoIsAt DEF ReadModel!Change
<1>4. QED BY <1>3, OneTurns

(* The gateway binds a market before its factory creates it: nothing is      *)
(* known of it yet.                                                          *)
LEMMA CreationIsShown ==
    ASSUME NEW st, Placed(st), NEW i \in Ids, NEW engine \in ReadModel!Releases,
           st.market[i] = ReadModel!Absent,
           NEW e, e = ReadModel!Event("MarketRegistered", <<"gateway">>, i,
                                      [market |-> ReadModel!AtMarket(i)]),
           NEW f, f = ReadModel!Event(ReadModel!CreatedBy(engine), <<"factory">>, i,
                                      [market |-> ReadModel!AtMarket(i)])
    PROVE  /\ ReadModel!projectEvent(st, e) = st
           /\ Turns(st, i, ReadModel!NewMarket(ReadModel!AtMarket(i), engine),
                    ReadModel!projectEvent(st, f))
<1>1. e.name = "MarketRegistered" /\ e.id = i
  BY DEF ReadModel!Event
<1>2. f.name = ReadModel!CreatedBy(engine) /\ f.id = i /\ f.arg.market = ReadModel!AtMarket(i)
  BY DEF ReadModel!Event
<1>3. ReadModel!projectEvent(st, e) = st
  <2>1. ReadModel!projectEvent(st, e) = [st EXCEPT !.market[i] = st.market[i]]
    BY <1>1 DEF ReadModel!projectEvent
  <2>2. QED BY <2>1 DEF Placed, Shown
<1>4. /\ f.name \in {"POOLCreated", "LMSRCreated"}
      /\ (IF f.name = "POOLCreated" THEN "POOL" ELSE "LMSR") = engine
  BY <1>2 DEF ReadModel!CreatedBy, ReadModel!Releases
<1>5. ReadModel!projectEvent(st, f) =
        [st EXCEPT !.market[i] = ReadModel!NewMarket(ReadModel!AtMarket(i), engine)]
  BY <1>2, <1>4 DEF ReadModel!projectEvent
<1>6. QED BY <1>3, <1>5 DEF Turns, Placed, Shown

LEMMA ReleasesAreShown ==
    ASSUME NEW st, Placed(st), NEW r \in ReadModel!Releases, NEW active \in BOOLEAN,
           NEW e, e.id = r, e.arg.active = active
    PROVE  /\ e.name = "ReleaseRegistered" =>
                ReadModel!projectEvent(st, e) = [st EXCEPT !.release[r] = "active"]
           /\ e.name = "ReleaseActivationChanged" /\ st.release[r] # ReadModel!Unknown =>
                ReadModel!projectEvent(st, e) =
                  [st EXCEPT !.release[r] = IF active THEN "active" ELSE "inactive"]
<1>1. CASE e.name = "ReleaseRegistered"
  BY <1>1 DEF ReadModel!projectEvent
<1>2. CASE e.name = "ReleaseActivationChanged" /\ st.release[r] # ReadModel!Unknown
  BY <1>2 DEF ReadModel!projectEvent
<1>3. QED BY <1>1, <1>2

LEMMA OthersAreNotShown ==
    ASSUME NEW st, NEW e, e.name \in {"FailedFundingWithdrawn", "Redeemed", "TerminalWithdrawn"}
    PROVE  ReadModel!projectEvent(st, e) = st
BY DEF ReadModel!projectEvent

----------------------------------------------------------------------------
(* What is shown of a market is what it is.                                  *)
Agree(i, m, p) ==
    /\ m = ReadModel!NoMarket => p = ReadModel!Absent
    /\ m # ReadModel!NoMarket =>
         /\ p.address = ReadModel!AtMarket(i) /\ p.engine = m.engine /\ p.fees = m.fees
         /\ p.active <=> m.status = "ACTIVE"
         /\ p.settled <=> m.status = "TERMINAL"
         /\ m.status \in {"FUNDING", "ACTIVE"} => p.total = m.total
         /\ m.status = "ACTIVE" => p.funding = m.funding

ReadModelInv ==
    /\ release \in [ReadModel!Releases -> Activity] /\ market \in [Ids -> MarketState]
    /\ Placed(shown) /\ shown.release = release
    /\ \A i \in Ids : Agree(i, market[i], shown.market[i])

LEMMA TheProjectionFollows ==
    ASSUME ReadModelInv
    PROVE  ReadModel!ProjectionFollowsBase
<1>1. ASSUME NEW i \in Ids, market[i] # ReadModel!NoMarket
      PROVE  shown.market[i] # ReadModel!Absent
  <2>1. shown.market[i].address # <<>>
    BY <1>1, AddressesDiffer DEF ReadModelInv, Agree
  <2>2. QED BY <2>1 DEF ReadModel!Absent, ReadModel!NewMarket
<1>2. QED
  BY <1>1 DEF ReadModelInv, Agree, ReadModel!ProjectionFollowsBase

LEMMA OneMarketMoves ==
    ASSUME ReadModelInv, NEW i \in Ids, NEW m \in MarketState, NEW p \in ShownMarket,
           p.address = ReadModel!AtMarket(i), m # ReadModel!NoMarket, Agree(i, m, p),
           market' = [market EXCEPT ![i] = m], Turns(shown, i, p, shown'), release' = release
    PROVE  ReadModelInv'
<1>1. shown' = [release |-> shown.release, market |-> [shown.market EXCEPT ![i] = p]]
  BY DEF Turns
<1>2. shown \in Shown /\ shown.market \in [Ids -> ShownMarket]
  BY DEF ReadModelInv, Placed, Shown
<1>3. /\ shown'.market[i] = p /\ shown'.release = shown.release
      /\ \A j \in Ids : j # i => shown'.market[j] = shown.market[j]
  BY <1>1, <1>2
<1>4. shown' \in Shown
  BY <1>1, <1>2 DEF Shown
<1>5. Placed(shown')
  BY <1>3, <1>4 DEF ReadModelInv, Placed
<1>6. /\ market' \in [Ids -> MarketState] /\ market'[i] = m
      /\ \A j \in Ids : j # i => market'[j] = market[j]
  BY DEF ReadModelInv
<1>7. \A j \in Ids : Agree(j, market'[j], shown'.market[j])
  BY <1>3, <1>6 DEF ReadModelInv
<1>8. QED BY <1>3, <1>5, <1>6, <1>7 DEF ReadModelInv

LEMMA TurnsTwice ==
    ASSUME NEW st, Placed(st), NEW i \in Ids, NEW p \in ShownMarket,
           p.address = ReadModel!AtMarket(i), NEW q, NEW mid, NEW next,
           Turns(st, i, p, mid)
    PROVE  /\ Placed(mid) /\ mid.market[i] = p
           /\ Turns(mid, i, q, next) => Turns(st, i, q, next)
<1>1. mid = [release |-> st.release, market |-> [st.market EXCEPT ![i] = p]]
       /\ st.market \in [Ids -> ShownMarket] /\ st.release \in [ReadModel!Releases -> Activity]
  BY DEF Turns, Placed, Shown
<1>2. mid.market[i] = p /\ mid.release = st.release
      /\ mid.market \in [Ids -> ShownMarket]
      /\ \A j \in Ids : j # i => mid.market[j] = st.market[j]
  BY <1>1
<1>3. mid \in Shown
  BY <1>1, <1>2 DEF Shown
<1>4. Placed(mid)
  BY <1>2, <1>3 DEF Placed
<1>5. [mid.market EXCEPT ![i] = q] = [st.market EXCEPT ![i] = q]
  BY <1>1, <1>2
<1>6. QED BY <1>2, <1>4, <1>5 DEF Turns

(* A market that lives, and what is known of it.                             *)
LEMMA LivingMarket ==
    ASSUME ReadModelInv, NEW i \in Ids,
           market[i].engine \in ReadModel!Releases \/ market[i].bound \/ market[i].status # "none"
    PROVE  /\ market[i] \in MarketState /\ shown.market[i] \in ShownMarket /\ Placed(shown)
           /\ market[i] # ReadModel!NoMarket
           /\ shown.market[i].address = ReadModel!AtMarket(i)
           /\ Agree(i, market[i], shown.market[i])
<1>1. market[i] # ReadModel!NoMarket
  BY DEF ReadModel!NoMarket, ReadModel!Releases
<1>2. QED BY <1>1 DEF ReadModelInv, Agree, Placed, Shown

LEMMA OneMarketRests ==
    ASSUME ReadModelInv, NEW i \in Ids, NEW m \in MarketState,
           market[i] # ReadModel!NoMarket, m # ReadModel!NoMarket,
           Agree(i, m, shown.market[i]),
           market' = [market EXCEPT ![i] = m], shown' = shown, release' = release
    PROVE  ReadModelInv'
<1>1. shown \in Shown /\ shown.market[i] \in ShownMarket
       /\ shown.market[i].address = ReadModel!AtMarket(i)
  BY DEF ReadModelInv, Placed, Shown, Agree
<1>2. Turns(shown, i, shown.market[i], shown')
  BY <1>1 DEF Turns, Shown
<1>3. QED BY <1>1, <1>2, OneMarketMoves

LEMMA TradingIsFollowed ==
    ASSUME ReadModelInv, NEW i \in Ids, NEW side \in ReadModel!Sides,
           ReadModel!Stake(i, side) \/ ReadModel!Buy(i, side) \/ ReadModel!Sell(i, side),
           shown' = ReadModel!projectEvents(shown, logged')
    PROVE  ReadModelInv'
<1> DEFINE m(name) == [market[i] EXCEPT
                         !.total[side] = IF name = "Sold" THEN @ - 1 ELSE @ + 1,
                         !.fees = IF name = "Staked" THEN @ ELSE @ + 1]
           e(name) == ReadModel!Event(name, ReadModel!AtMarket(i), i, [side |-> side])
<1>1. market[i].status = "ACTIVE" /\ market[i].engine \in ReadModel!Releases /\ release' = release
  BY DEF ReadModel!Stake, ReadModel!Buy, ReadModel!Sell, ReadModel!Lives, ReadModel!Releases
<1>2. /\ market[i] \in MarketState /\ shown.market[i] \in ShownMarket /\ Placed(shown)
      /\ shown.market[i].address = ReadModel!AtMarket(i)
      /\ Agree(i, market[i], shown.market[i]) /\ market[i] # ReadModel!NoMarket
  BY <1>1, LivingMarket
<1>3. PICK name \in {"Staked", "Bought", "Sold"} :
        /\ logged' = <<e(name)>> /\ (name = "Sold" => market[i].total[side] > 0)
        /\ market' = [market EXCEPT ![i] = m(name)]
  <2>0. market \in [Ids -> MarketState]
    BY DEF ReadModelInv
  <2>1. CASE ReadModel!Stake(i, side)
    BY <1>2, <2>0, <2>1 DEF ReadModel!Stake, ReadModel!Emit, MarketState
  <2>2. CASE ReadModel!Buy(i, side)
    BY <1>2, <2>0, <2>2 DEF ReadModel!Buy, ReadModel!Emit, MarketState
  <2>3. CASE ReadModel!Sell(i, side)
    BY <1>2, <2>0, <2>3 DEF ReadModel!Sell, ReadModel!Emit, MarketState
  <2>4. QED BY <2>1, <2>2, <2>3
<1> DEFINE p == ReadModel!Trade(shown.market[i], e(name))
<1>4. m(name) \in MarketState /\ m(name).status = "ACTIVE"
  <2>1. /\ market[i].total \in [ReadModel!Sides -> Nat] /\ market[i].total[side] \in Nat
        /\ market[i].fees \in Nat
    BY <1>2 DEF MarketState
  <2>2. (IF name = "Sold" THEN market[i].total[side] - 1 ELSE market[i].total[side] + 1) \in Nat
    BY <1>3, <2>1
  <2>3. [market[i].total EXCEPT ![side] = IF name = "Sold" THEN @ - 1 ELSE @ + 1]
           \in [ReadModel!Sides -> Nat]
    BY <2>1, <2>2
  <2>4. (IF name = "Staked" THEN market[i].fees ELSE market[i].fees + 1) \in Nat
    BY <2>1
  <2>5. QED BY <1>1, <1>2, <2>3, <2>4 DEF MarketState
<1>5. e(name).name = name /\ e(name).arg.side = side
  BY DEF ReadModel!Event
<1>6. p \in ShownMarket /\ p.address = ReadModel!AtMarket(i)
  <2> HIDE DEF e
  <2>1. /\ shown.market[i].total \in [ReadModel!Sides -> Int] /\ shown.market[i].fees \in Int
        /\ shown.market[i].total[side] \in Int
    BY <1>2 DEF ShownMarket
  <2>2. [shown.market[i].total EXCEPT ![side] = IF name = "Sold" THEN @ - 1 ELSE @ + 1]
           \in [ReadModel!Sides -> Int]
    BY <2>1
  <2>3. (IF name = "Staked" THEN shown.market[i].fees ELSE shown.market[i].fees + 1) \in Int
    BY <2>1
  <2>4. p = [shown.market[i] EXCEPT
               !.total = [shown.market[i].total EXCEPT ![side] = IF name = "Sold" THEN @ - 1 ELSE @ + 1],
               !.fees = IF name = "Staked" THEN shown.market[i].fees ELSE shown.market[i].fees + 1]
    BY <1>2, <1>5 DEF ReadModel!Trade
  <2> HIDE DEF p
  <2>5. QED BY <1>2, <2>2, <2>3, <2>4 DEF ShownMarket
<1>7. Agree(i, m(name), p)
  <2> HIDE DEF e
  <2>1. /\ p.address = ReadModel!AtMarket(i) /\ p.engine = m(name).engine
        /\ p.fees = m(name).fees /\ p.active /\ ~p.settled /\ p.funding = m(name).funding
    BY <1>1, <1>2, <1>5, <1>6 DEF ReadModel!Trade, ShownMarket, MarketState, Agree
  <2>2. p.total = m(name).total
    BY <1>1, <1>2, <1>5, <1>6 DEF ReadModel!Trade, ShownMarket, MarketState, Agree
  <2>3. m(name) # ReadModel!NoMarket
    BY <1>4 DEF ReadModel!NoMarket
  <2>4. QED BY <1>4, <2>1, <2>2, <2>3 DEF Agree
<1>8. Turns(shown, i, p, shown')
  <2>1. shown' = ReadModel!projectEvent(shown, e(name))
    BY <1>3, OneEvent
  <2>2. QED BY <1>2, <2>1, TradeIsShown
<1>9. m(name) # ReadModel!NoMarket
  BY <1>4 DEF ReadModel!NoMarket
<1>10. QED
  <2> HIDE DEF m, p
  <2>1. QED BY <1>1, <1>3, <1>4, <1>6, <1>7, <1>8, <1>9, OneMarketMoves

LEMMA CreationIsFollowed ==
    ASSUME ReadModelInv, NEW i \in Ids, NEW engine \in ReadModel!Releases,
           ReadModel!Create(i, engine), shown' = ReadModel!projectEvents(shown, logged')
    PROVE  ReadModelInv'
<1> DEFINE m == [ReadModel!NoMarket EXCEPT !.engine = engine, !.bound = TRUE,
                   !.status = IF engine = "POOL" THEN "ACTIVE" ELSE "FUNDING"]
           p == ReadModel!NewMarket(ReadModel!AtMarket(i), engine)
           e == ReadModel!Event("MarketRegistered", <<"gateway">>, i,
                                [market |-> ReadModel!AtMarket(i)])
           f == ReadModel!Event(ReadModel!CreatedBy(engine), <<"factory">>, i,
                                [market |-> ReadModel!AtMarket(i)])
<1>1. /\ market' = [market EXCEPT ![i] = m] /\ release' = release /\ logged' = <<e, f>>
      /\ market[i] = ReadModel!NoMarket
  BY DEF ReadModel!Create, ReadModel!Emit
<1>2. Placed(shown) /\ shown.market[i] = ReadModel!Absent
  BY <1>1 DEF ReadModelInv, Agree
<1>3. Turns(shown, i, p, shown')
  <2>1. shown' = ReadModel!projectEvent(ReadModel!projectEvent(shown, e), f)
    <3> HIDE DEF e, f
    <3>1. QED BY <1>1, TwoEvents
  <2>2. QED BY <1>2, <2>1, CreationIsShown
<1>4. m \in MarketState /\ m # ReadModel!NoMarket
  BY DEF MarketState, ReadModel!NoMarket, ReadModel!Releases
<1>5. p \in ShownMarket /\ p.address = ReadModel!AtMarket(i)
  BY DEF ShownMarket, ReadModel!NewMarket, ReadModel!Releases, Addresses
<1>6. Agree(i, m, p)
  <2>1. engine \in {"POOL", "LMSR"}
    BY DEF ReadModel!Releases
  <2>2. p.total = m.total /\ p.fees = m.fees /\ p.engine = m.engine /\ p.funding = m.funding
    BY DEF ReadModel!NewMarket, ReadModel!NoMarket
  <2>3. (p.active <=> m.status = "ACTIVE") /\ (p.settled <=> m.status = "TERMINAL")
    BY <2>1 DEF ReadModel!NewMarket, ReadModel!NoMarket
  <2>4. QED BY <1>4, <1>5, <2>2, <2>3 DEF Agree
<1>7. QED
  <2> HIDE DEF m, p
  <2>1. QED BY <1>1, <1>3, <1>4, <1>5, <1>6, OneMarketMoves

LEMMA FundingIsFollowed ==
    ASSUME ReadModelInv, NEW i \in Ids,
           ReadModel!Contribute(i) \/ ReadModel!WithdrawFailedFunding(i)
             \/ ReadModel!WithdrawTerminal(i)
             \/ \E side \in ReadModel!Sides : ReadModel!Redeem(i, side),
           shown' = ReadModel!projectEvents(shown, logged')
    PROVE  ReadModelInv'
<1>1. market[i].engine \in ReadModel!Releases /\ release' = release
  BY DEF ReadModel!Contribute, ReadModel!WithdrawFailedFunding, ReadModel!WithdrawTerminal,
         ReadModel!Redeem, ReadModel!Lives, ReadModel!Releases
<1>2. /\ market[i] \in MarketState /\ shown.market[i] \in ShownMarket /\ Placed(shown)
      /\ shown.market[i].address = ReadModel!AtMarket(i)
      /\ Agree(i, market[i], shown.market[i]) /\ market[i] # ReadModel!NoMarket
      /\ market \in [Ids -> MarketState]
  BY <1>1, LivingMarket DEF ReadModelInv
<1>3. PICK m \in MarketState :
        /\ market' = [market EXCEPT ![i] = m] /\ m.engine = market[i].engine
        /\ m.fees = market[i].fees
        /\ \/ m.status = market[i].status /\ m.status = "FUNDING" /\ m.total = market[i].total
           \/ m.status = market[i].status /\ m.status = "TERMINAL"
           \/ m.status = "FAILED" /\ market[i].status = "FUNDING"
  <2>1. CASE ReadModel!Contribute(i)
    <3>1. [market[i] EXCEPT !.funding = @ + 1] \in MarketState
      BY <1>2 DEF MarketState
    <3>2. market' = [market EXCEPT ![i] = [market[i] EXCEPT !.funding = @ + 1]]
      BY <1>2, <2>1 DEF ReadModel!Contribute
    <3>3. QED BY <1>2, <2>1, <3>1, <3>2 DEF ReadModel!Contribute, ReadModel!Lives, MarketState
  <2>2. CASE ReadModel!WithdrawFailedFunding(i)
    <3>1. [market[i] EXCEPT !.status = "FAILED", !.funding = 0] \in MarketState
      BY <1>2 DEF MarketState
    <3>2. market' = [market EXCEPT ![i] = [market[i] EXCEPT !.status = "FAILED", !.funding = 0]]
      BY <1>2, <2>2 DEF ReadModel!WithdrawFailedFunding
    <3>3. QED BY <1>2, <2>2, <3>1, <3>2
              DEF ReadModel!WithdrawFailedFunding, ReadModel!Lives, MarketState
  <2>3. CASE ReadModel!WithdrawTerminal(i)
    <3>1. [market[i] EXCEPT !.funding = 0] \in MarketState
      BY <1>2 DEF MarketState
    <3>2. market' = [market EXCEPT ![i] = [market[i] EXCEPT !.funding = 0]]
      BY <1>2, <2>3 DEF ReadModel!WithdrawTerminal
    <3>3. QED BY <1>2, <2>3, <3>1, <3>2 DEF ReadModel!WithdrawTerminal, ReadModel!Lives, MarketState
  <2>4. ASSUME NEW side \in ReadModel!Sides, ReadModel!Redeem(i, side)
        PROVE  \E m \in MarketState :
                 /\ market' = [market EXCEPT ![i] = m] /\ m.engine = market[i].engine
                 /\ m.fees = market[i].fees
                 /\ m.status = market[i].status /\ m.status = "TERMINAL"
    <3>1. [market[i] EXCEPT !.total[side] = @ - 1] \in MarketState
      <4>1. /\ market[i].total \in [ReadModel!Sides -> Nat] /\ market[i].total[side] \in Nat
            /\ market[i].total[side] > 0
        BY <1>2, <2>4 DEF MarketState, ReadModel!Redeem
      <4>2. [market[i].total EXCEPT ![side] = @ - 1] \in [ReadModel!Sides -> Nat]
        BY <4>1
      <4>3. QED BY <1>2, <4>2 DEF MarketState
    <3>2. market' = [market EXCEPT ![i] = [market[i] EXCEPT !.total[side] = @ - 1]]
      BY <1>2, <2>4 DEF ReadModel!Redeem
    <3>3. QED BY <1>2, <2>4, <3>1, <3>2 DEF ReadModel!Redeem, ReadModel!Lives, MarketState
  <2>5. QED BY <2>1, <2>2, <2>3, <2>4
<1>4. shown' = shown
  <2>1. PICK e :
          /\ logged' = <<e>>
          /\ \/ e.name \in {"FailedFundingWithdrawn", "Redeemed", "TerminalWithdrawn"}
             \/ e.name = "Contributed" /\ e.at = ReadModel!AtVault(i)
    <3>1. \A name, at, arg : /\ ReadModel!Event(name, at, i, arg).name = name
                             /\ ReadModel!Event(name, at, i, arg).at = at
      BY DEF ReadModel!Event
    <3>2. CASE ReadModel!Contribute(i)
      BY <3>1, <3>2 DEF ReadModel!Contribute, ReadModel!Emit
    <3>3. CASE ReadModel!WithdrawFailedFunding(i)
      BY <3>1, <3>3 DEF ReadModel!WithdrawFailedFunding, ReadModel!Emit
    <3>4. CASE ReadModel!WithdrawTerminal(i)
      BY <3>1, <3>4 DEF ReadModel!WithdrawTerminal, ReadModel!Emit
    <3>5. CASE \E side \in ReadModel!Sides : ReadModel!Redeem(i, side)
      BY <3>1, <3>5 DEF ReadModel!Redeem, ReadModel!Emit
    <3>6. QED BY <3>2, <3>3, <3>4, <3>5
  <2>2. shown' = ReadModel!projectEvent(shown, e)
    BY <2>1, OneEvent
  <2>3. QED BY <1>2, <2>1, <2>2, FundingIsNotShown, OthersAreNotShown
<1>5. m # ReadModel!NoMarket /\ Agree(i, m, shown.market[i])
  BY <1>1, <1>2, <1>3 DEF Agree, ReadModel!NoMarket, ReadModel!Releases
<1>6. QED
  BY <1>1, <1>2, <1>3, <1>4, <1>5, OneMarketRests

LEMMA ActivationIsFollowed ==
    ASSUME ReadModelInv, NEW i \in Ids, ReadModel!Activate(i),
           shown' = ReadModel!projectEvents(shown, logged')
    PROVE  ReadModelInv'
<1> DEFINE m == [market[i] EXCEPT !.status = "ACTIVE"]
           e == ReadModel!Event("Activated", ReadModel!AtMarket(i), i, [amount |-> market[i].funding])
           f == ReadModel!Event("Activated", ReadModel!AtVault(i), i, [amount |-> market[i].funding])
           p == ReadModel!Activation(shown.market[i], e)
           mid == ReadModel!projectEvent(shown, e)
<1>1. /\ market[i].status = "FUNDING" /\ market[i].engine \in ReadModel!Releases
      /\ release' = release /\ logged' = <<e, f>>
  BY DEF ReadModel!Activate, ReadModel!Lives, ReadModel!Emit, ReadModel!Releases
<1>2. /\ market[i] \in MarketState /\ shown.market[i] \in ShownMarket /\ Placed(shown)
      /\ shown.market[i].address = ReadModel!AtMarket(i)
      /\ Agree(i, market[i], shown.market[i]) /\ market[i] # ReadModel!NoMarket
      /\ market \in [Ids -> MarketState]
  BY <1>1, LivingMarket DEF ReadModelInv
<1>3. market' = [market EXCEPT ![i] = m]
  BY <1>2 DEF ReadModel!Activate
<1>4. m \in MarketState /\ m # ReadModel!NoMarket
  BY <1>1, <1>2 DEF MarketState, ReadModel!NoMarket
<1>5. e.arg.amount = market[i].funding /\ f.name = "Activated" /\ f.at = ReadModel!AtVault(i)
  BY DEF ReadModel!Event
<1>6. p \in ShownMarket /\ p.address = ReadModel!AtMarket(i)
  <2> HIDE DEF e
  <2>1. market[i].funding \in Int
    BY <1>2 DEF MarketState
  <2>2. p = [shown.market[i] EXCEPT !.active = TRUE, !.funding = market[i].funding]
    BY <1>5 DEF ReadModel!Activation
  <2> HIDE DEF p
  <2>3. QED BY <1>2, <2>1, <2>2 DEF ShownMarket
<1>7. Agree(i, m, p)
  <2> HIDE DEF e
  <2>1. QED BY <1>1, <1>2, <1>4, <1>5, <1>6
            DEF Agree, ReadModel!Activation, ShownMarket, MarketState
<1>8. Turns(shown, i, p, mid)
  BY <1>2, ActivationIsShown
<1>9. Placed(mid)
  <2> HIDE DEF p, mid
  <2>1. QED BY <1>2, <1>6, <1>8, TurnsTwice
<1>10. shown' = mid
  <2>1. shown' = ReadModel!projectEvent(mid, f)
    <3> HIDE DEF e, f
    <3>1. QED BY <1>1, TwoEvents
  <2>2. QED
    <3> HIDE DEF mid, f
    <3>1. QED BY <1>5, <1>9, <2>1, FundingIsNotShown
<1>11. QED
  <2> HIDE DEF m, p, mid
  <2>1. QED BY <1>1, <1>3, <1>4, <1>6, <1>7, <1>8, <1>10, OneMarketMoves

(* Whether the gateway says so or nobody has, a settled market is shown as   *)
(* settled.                                                                  *)
LEMMA SettlementIsFollowed ==
    ASSUME ReadModelInv, NEW i \in Ids,
           ReadModel!ExpireToVoid(i) \/ \E o \in ReadModel!Outcomes : ReadModel!SubmitResolution(i, o),
           shown' = ReadModel!projectEvents(shown, logged')
    PROVE  ReadModelInv'
<1> DEFINE m(o) == [market[i] EXCEPT !.status = "TERMINAL", !.outcome = o,
                                     !.fees = @ + ReadModel!FeeOf(i, o)]
           f(o) == ReadModel!Event("ResolutionConsumed", <<"gateway">>, i,
                                   [market |-> ReadModel!AtMarket(i), outcome |-> o])
<1>1. market[i].status = "ACTIVE" /\ release' = release
  BY DEF ReadModel!ExpireToVoid, ReadModel!SubmitResolution
<1>2. /\ market[i] \in MarketState /\ shown.market[i] \in ShownMarket /\ Placed(shown)
      /\ shown.market[i].address = ReadModel!AtMarket(i)
      /\ Agree(i, market[i], shown.market[i]) /\ market[i] # ReadModel!NoMarket
      /\ market \in [Ids -> MarketState]
  BY <1>1, LivingMarket DEF ReadModelInv
<1>3. PICK final \in ReadModel!Outcomes :
        /\ market' = [market EXCEPT ![i] = m(final)]
        /\ \/ logged' = <<ReadModel!Settled(i, final)>>
           \/ \E o \in ReadModel!Outcomes : logged' = <<ReadModel!Settled(i, final), f(o)>>
  <2>1. CASE ReadModel!ExpireToVoid(i)
    BY <1>2, <2>1 DEF ReadModel!ExpireToVoid, ReadModel!Settle, ReadModel!Emit, ReadModel!Outcomes
  <2>2. ASSUME NEW o \in ReadModel!Outcomes, ReadModel!SubmitResolution(i, o)
        PROVE  \E final \in ReadModel!Outcomes :
                 /\ market' = [market EXCEPT ![i] = m(final)]
                 /\ logged' = <<ReadModel!Settled(i, final), f(o)>>
    <3>1. ReadModel!Verdict(i, o) \in ReadModel!Outcomes
      BY DEF ReadModel!Verdict, ReadModel!Outcomes
    <3>2. logged' = <<ReadModel!Settled(i, ReadModel!Verdict(i, o)), f(o)>>
      BY <2>2 DEF ReadModel!SubmitResolution, ReadModel!Emit
    <3>3. market' = [market EXCEPT ![i] = m(ReadModel!Verdict(i, o))]
      BY <1>2, <2>2 DEF ReadModel!SubmitResolution, ReadModel!Settle
    <3>4. QED BY <3>1, <3>2, <3>3
  <2>3. QED BY <2>1, <2>2
<1> DEFINE e == ReadModel!Settled(i, final)
           p == ReadModel!Settlement(shown.market[i], e)
           mid == ReadModel!projectEvent(shown, e)
<1>4. ReadModel!FeeOf(i, final) \in Nat
  BY DEF ReadModel!FeeOf
<1>5. m(final) \in MarketState /\ m(final).status = "TERMINAL" /\ m(final) # ReadModel!NoMarket
  <2>1. market[i].fees + ReadModel!FeeOf(i, final) \in Nat
    BY <1>2, <1>4 DEF MarketState
  <2>2. m(final) \in MarketState /\ m(final).status = "TERMINAL"
    BY <1>2, <2>1 DEF MarketState
  <2>3. QED BY <2>2 DEF ReadModel!NoMarket
<1>6. e.arg.outcome = final /\ e.arg.fee = ReadModel!FeeOf(i, final)
  BY DEF ReadModel!Settled, ReadModel!Event
<1>7. p \in ShownMarket /\ p.address = ReadModel!AtMarket(i)
  <2> HIDE DEF e
  <2>1. shown.market[i].fees + ReadModel!FeeOf(i, final) \in Int
    BY <1>2, <1>4 DEF ShownMarket
  <2>2. p = [shown.market[i] EXCEPT !.active = FALSE, !.settled = TRUE, !.outcome = final,
                                    !.fees = @ + ReadModel!FeeOf(i, final)]
    BY <1>6 DEF ReadModel!Settlement
  <2> HIDE DEF p
  <2>3. QED BY <1>2, <2>1, <2>2 DEF ShownMarket
<1>8. Agree(i, m(final), p) /\ p.settled /\ ~p.active
  <2> HIDE DEF e
  <2>1. p.engine = m(final).engine /\ p.fees = m(final).fees /\ p.settled /\ ~p.active
    BY <1>1, <1>2, <1>4, <1>6 DEF ReadModel!Settlement, ShownMarket, MarketState, Agree
  <2>2. QED BY <1>5, <1>7, <2>1 DEF Agree
<1>9. Turns(shown, i, p, mid)
  BY <1>2, SettlementIsShown DEF ReadModel!Settled
<1>10. Placed(mid) /\ mid.market[i] = p
  <2> HIDE DEF p, mid
  <2>1. QED BY <1>2, <1>7, <1>9, TurnsTwice
<1>11. CASE logged' = <<e>>
  <2>1. shown' = mid
    BY <1>11, OneEvent
  <2>2. QED
    <3> HIDE DEF m, p, mid
    <3>1. QED BY <1>1, <1>3, <1>5, <1>7, <1>8, <1>9, <2>1, OneMarketMoves
<1>12. ASSUME NEW o \in ReadModel!Outcomes, logged' = <<e, f(o)>>
       PROVE  ReadModelInv'
  <2> DEFINE q == ReadModel!Consumption(p, f(o))
  <2>1. shown' = ReadModel!projectEvent(mid, f(o))
    <3> HIDE DEF e, f
    <3>1. QED BY <1>12, TwoEvents
  <2>2. f(o).arg.outcome = o
    BY DEF ReadModel!Event
  <2>3. q \in ShownMarket /\ q.address = ReadModel!AtMarket(i)
    <3> HIDE DEF f, p
    <3>1. QED BY <1>7, <2>2 DEF ReadModel!Consumption, ShownMarket
  <2>4. Agree(i, m(final), q)
    <3> HIDE DEF f, p
    <3>1. QED BY <1>5, <1>7, <1>8, <2>2, <2>3 DEF ReadModel!Consumption, ShownMarket, Agree
  <2>5. Turns(mid, i, q, shown')
    <3> HIDE DEF p, mid
    <3>1. QED BY <1>7, <1>10, <2>1, ConsumptionIsShown
  <2>6. Turns(shown, i, q, shown')
    <3> HIDE DEF p, mid, q
    <3>1. QED BY <1>2, <1>7, <1>9, <2>5, TurnsTwice
  <2>7. QED
    <3> HIDE DEF m, q
    <3>1. QED BY <1>1, <1>3, <1>5, <2>3, <2>4, <2>6, OneMarketMoves
<1>13. QED BY <1>3, <1>11, <1>12

LEMMA ReleasesAreFollowed ==
    ASSUME ReadModelInv, NEW r \in ReadModel!Releases,
           ReadModel!RegisterRelease(r)
             \/ \E active \in BOOLEAN : ReadModel!SetReleaseActive(r, active),
           shown' = ReadModel!projectEvents(shown, logged')
    PROVE  ReadModelInv'
<1>1. Placed(shown) /\ shown \in Shown /\ shown.release = release /\ market' = market
  BY DEF ReadModelInv, Placed, ReadModel!RegisterRelease, ReadModel!SetReleaseActive
<1>2. PICK word \in Activity : /\ shown' = [shown EXCEPT !.release[r] = word]
                               /\ release' = [release EXCEPT ![r] = word]
  <2>1. CASE ReadModel!RegisterRelease(r)
    <3> DEFINE e == ReadModel!Event("ReleaseRegistered", <<"registry">>, r, [active |-> TRUE])
    <3>1. logged' = <<e>> /\ release' = [release EXCEPT ![r] = "active"]
      BY <2>1 DEF ReadModel!RegisterRelease, ReadModel!Emit
    <3>2. shown' = ReadModel!projectEvent(shown, e)
      BY <3>1, OneEvent
    <3>3. e.id = r /\ e.arg.active = TRUE /\ e.name = "ReleaseRegistered"
      BY DEF ReadModel!Event
    <3> HIDE DEF e
    <3>4. shown' = [shown EXCEPT !.release[r] = "active"]
      BY <1>1, <3>2, <3>3, ReleasesAreShown
    <3>5. QED BY <3>1, <3>4 DEF Activity
  <2>2. ASSUME NEW active \in BOOLEAN, ReadModel!SetReleaseActive(r, active)
        PROVE  \E word \in Activity : /\ shown' = [shown EXCEPT !.release[r] = word]
                                      /\ release' = [release EXCEPT ![r] = word]
    <3> DEFINE e == ReadModel!Event("ReleaseActivationChanged", <<"registry">>, r, [active |-> active])
               word == IF active THEN "active" ELSE "inactive"
    <3>1. /\ logged' = <<e>> /\ release' = [release EXCEPT ![r] = word]
          /\ shown.release[r] # ReadModel!Unknown
      BY <1>1, <2>2 DEF ReadModel!SetReleaseActive, ReadModel!Emit, ReadModel!Unknown
    <3>2. shown' = ReadModel!projectEvent(shown, e)
      BY <3>1, OneEvent
    <3>3. e.id = r /\ e.arg.active = active /\ e.name = "ReleaseActivationChanged"
      BY DEF ReadModel!Event
    <3> HIDE DEF e
    <3>4. shown' = [shown EXCEPT !.release[r] = word]
      BY <1>1, <3>1, <3>2, <3>3, ReleasesAreShown
    <3>5. word \in Activity
      BY DEF Activity
    <3>6. QED BY <3>1, <3>4, <3>5
  <2>3. QED BY <2>1, <2>2
<1>3. /\ shown'.market = shown.market /\ shown'.release = release'
      /\ release' \in [ReadModel!Releases -> Activity]
  BY <1>1, <1>2 DEF ReadModelInv, Shown
<1>4. Placed(shown')
  BY <1>1, <1>2, <1>3 DEF Placed, Shown
<1>5. QED BY <1>1, <1>3, <1>4 DEF ReadModelInv

LEMMA ReadModelInit == ReadModel!ProjectionInit => ReadModelInv
<1> SUFFICES ASSUME ReadModel!ProjectionInit PROVE ReadModelInv
  OBVIOUS
<1> USE DEF ReadModel!ProjectionInit, ReadModel!Init
<1>1. release \in [ReadModel!Releases -> Activity]
  BY DEF Activity
<1>2. market \in [Ids -> MarketState]
  BY DEF MarketState, ReadModel!NoMarket
<1>3. shown.release = release
  BY DEF ReadModel!Empty, ReadModel!Unknown
<1>4. ReadModel!Absent \in ShownMarket /\ ReadModel!Absent.address = <<>>
  BY DEF ReadModel!Absent, ReadModel!NewMarket, ShownMarket, Addresses
<1>5. Placed(shown)
  BY <1>1, <1>3, <1>4 DEF Placed, Shown, ReadModel!Empty
<1>6. \A i \in Ids : Agree(i, market[i], shown.market[i])
  BY DEF Agree, ReadModel!Empty
<1>7. QED BY <1>1, <1>2, <1>3, <1>5, <1>6 DEF ReadModelInv

LEMMA ReadModelStepKeeps == ReadModelInv /\ ReadModel!ProjectionNext => ReadModelInv'
<1> SUFFICES ASSUME ReadModelInv, ReadModel!ProjectionNext PROVE ReadModelInv'
  OBVIOUS
<1>1. ReadModel!Next /\ shown' = ReadModel!projectEvents(shown, logged')
  BY DEF ReadModel!ProjectionNext
<1>2. ASSUME NEW r \in ReadModel!Releases,
             ReadModel!RegisterRelease(r) \/ \E a \in BOOLEAN : ReadModel!SetReleaseActive(r, a)
      PROVE  ReadModelInv'
  BY <1>1, <1>2, ReleasesAreFollowed
<1>3. ASSUME NEW i \in Ids, NEW e \in ReadModel!Releases, ReadModel!Create(i, e)
      PROVE  ReadModelInv'
  BY <1>1, <1>3, CreationIsFollowed
<1>4. ASSUME NEW i \in Ids, NEW s \in ReadModel!Sides,
             ReadModel!Stake(i, s) \/ ReadModel!Buy(i, s) \/ ReadModel!Sell(i, s)
      PROVE  ReadModelInv'
  BY <1>1, <1>4, TradingIsFollowed
<1>5. ASSUME NEW i \in Ids,
             ReadModel!Contribute(i) \/ ReadModel!WithdrawFailedFunding(i)
               \/ ReadModel!WithdrawTerminal(i)
               \/ \E s \in ReadModel!Sides : ReadModel!Redeem(i, s)
      PROVE  ReadModelInv'
  BY <1>1, <1>5, FundingIsFollowed
<1>6. ASSUME NEW i \in Ids, ReadModel!Activate(i) PROVE ReadModelInv'
  BY <1>1, <1>6, ActivationIsFollowed
<1>7. ASSUME NEW i \in Ids,
             ReadModel!ExpireToVoid(i)
               \/ \E o \in ReadModel!Outcomes : ReadModel!SubmitResolution(i, o)
      PROVE  ReadModelInv'
  BY <1>1, <1>7, SettlementIsFollowed
<1>8. QED
  BY <1>1, <1>2, <1>3, <1>4, <1>5, <1>6, <1>7 DEF ReadModel!Next

----------------------------------------------------------------------------
(* Side by side: what one part does leaves the others' invariants alone.     *)
LEMMA PartsAtRest ==
    /\ ProposalInv /\ UNCHANGED proposalVars => ProposalInv'
    /\ OutboxInv /\ UNCHANGED outboxVars => OutboxInv'
    /\ GenLayerInv /\ UNCHANGED genlayerVars => GenLayerInv'
    /\ ReadModelInv /\ UNCHANGED baseVars => ReadModelInv'
<1>1. ProposalInv /\ UNCHANGED proposalVars => ProposalInv'
  <2> SUFFICES ASSUME ProposalInv, UNCHANGED proposalVars PROVE ProposalInv'
    OBVIOUS
  <2>1. Rests /\ blockTime' = blockTime /\ job' = job
    BY DEF proposalVars, Rests
  <2>2. QED BY <2>1, HandlerStep
<1>2. OutboxInv /\ UNCHANGED outboxVars => OutboxInv'
  BY DEF OutboxInv, outboxVars, Durable!Holds, Durable!Current
<1>3. GenLayerInv /\ UNCHANGED genlayerVars => GenLayerInv'
  BY DEF GenLayerInv, genlayerVars, Writes, IsFinal
<1>4. ReadModelInv /\ UNCHANGED baseVars => ReadModelInv'
  BY DEF ReadModelInv, baseVars, Placed
<1>5. QED BY <1>1, <1>2, <1>3, <1>4

(* The schedule's states are consulted only while the schedule is at work.   *)
Consulted == part = "schedule" => ScheduleInv

LEMMA ConsultedKept == Spec => []Consulted
<1>1. Init => Consulted
  BY InstantsAreNumbers DEF Init, Consulted, ScheduleInv, Schedule!Init
<1>2. Consulted /\ [Next]_vars => Consulted'
  <2> SUFFICES ASSUME Consulted, [Next]_vars PROVE Consulted'
    OBVIOUS
  <2>1. CASE ScheduleWorks /\ Schedule!Next
    BY <2>1, InstantsAreNumbers
       DEF ScheduleWorks, Schedule!Next, Schedule!Tick, Consulted, ScheduleInv
  <2>2. CASE UNCHANGED <<part, scheduleVars>>
    BY <2>2 DEF scheduleVars, Consulted, ScheduleInv
  <2>3. QED
    BY <2>1, <2>2 DEF Next, vars, OutboxWorks, GenLayerWorks, ReadModelWorks, ProposalWorks
<1>3. QED BY <1>1, <1>2, PTL DEF Spec

LEMMA PartsKept == Spec => [](ProposalInv /\ OutboxInv /\ GenLayerInv /\ ReadModelInv)
<1> DEFINE Inv == ProposalInv /\ OutboxInv /\ GenLayerInv /\ ReadModelInv
<1>1. Init => Inv
  BY ProposalInitEstablishes, OutboxInitEstablishes, GenLayerInitEstablishes, ReadModelInit DEF Init
<1>2. Inv /\ [Next]_vars => Inv'
  <2> SUFFICES ASSUME ProposalInv, OutboxInv, GenLayerInv, ReadModelInv, [Next]_vars
               PROVE  ProposalInv' /\ OutboxInv' /\ GenLayerInv' /\ ReadModelInv'
    OBVIOUS
  <2>1. CASE UNCHANGED vars
    BY <2>1, PartsAtRest DEF vars
  <2>2. CASE ScheduleWorks /\ Schedule!Next
    BY <2>2, PartsAtRest DEF ScheduleWorks
  <2>3. CASE OutboxWorks /\ Durable!Next
    BY <2>3, PartsAtRest, OutboxStepKeeps DEF OutboxWorks
  <2>4. CASE GenLayerWorks /\ GenLayer!Next
    BY <2>4, PartsAtRest, GenLayerStepKeeps DEF GenLayerWorks
  <2>5. CASE ReadModelWorks /\ ReadModel!ProjectionNext
    BY <2>5, PartsAtRest, ReadModelStepKeeps DEF ReadModelWorks
  <2>6. CASE ProposalWorks /\ Proposal!Next
    BY <2>6, PartsAtRest, ProposalStepKeeps DEF ProposalWorks
  <2>7. QED BY <2>1, <2>2, <2>3, <2>4, <2>5, <2>6 DEF Next
<1>3. QED BY <1>1, <1>2, PTL DEF Spec

(* However many workers, retries, crashes and stale saves there are: a       *)
(* record that says how its bond ended is right about the chain, and counts  *)
(* no revision that the contract has not counted (proposal-workflow.ts).     *)
THEOREM RecordsAreTrue == Spec => []RecordTellsTheDisposition
<1>1. ProposalInv => RecordTellsTheDisposition
  <2> SUFFICES ASSUME ProposalInv PROVE RecordTellsTheDisposition
    OBVIOUS
  <2>1. \A p \in Proposals : BondTold(p)
    BY DEF ProposalInv
  <2>2. QED
    BY <2>1 DEF RecordTellsTheDisposition, Proposal!RecordTellsTheDisposition,
                Proposal!RevisionsNeverAhead, BondTold, Known
<1>2. QED BY <1>1, PartsKept, PTL

(* Before its timeout a bond returns only behind a finalized resolver and a  *)
(* bound market; the escrow holds a bond for each proposal still locked, and *)
(* each bond that left was paid out whole, once (ProposalBondEscrow.sol).    *)
THEOREM BondsPaidRight == Spec => []BondsArePaidRight
<1>1. ProposalInv => BondsArePaidRight
  <2> SUFFICES ASSUME ProposalInv PROVE BondsArePaidRight
    OBVIOUS
  <2>1. \A p \in Proposals : BondTold(p)
    BY DEF ProposalInv
  <2>2. Proposal!EscrowIsExact
    BY DEF ProposalInv
  <2>3. Proposal!RefundNeedsFinalizedResolver
    BY <2>1 DEF Proposal!RefundNeedsFinalizedResolver, BondTold, Known
  <2>4. QED BY <2>2, <2>3 DEF BondsArePaidRight
<1>2. QED BY <1>1, PartsKept, PTL

(* Whatever dispatchers list, load, fail, die and come back with, one at     *)
(* most holds an intent and what is marked was sent; one transaction at most *)
(* is sent to GenLayer for an attempt, and what may be attested is what the  *)
(* final transaction decided (durable-intents.ts, genlayer-lifecycle.ts).    *)
THEOREM SentOnce == Spec => []NothingIsSentTwice
<1>1. OutboxInv /\ GenLayerInv => NothingIsSentTwice
  <2> SUFFICES ASSUME OutboxInv, GenLayerInv PROVE NothingIsSentTwice
    OBVIOUS
  <2>1. Durable!OneLease
    BY OneHolderAtMost
  <2>2. GenLayer!OneSubmission
    BY DEF GenLayerInv, GenLayer!OneSubmission, IsFinal
  <2>3. QED BY <2>1, <2>2 DEF NothingIsSentTwice
<1>2. QED BY <1>1, PartsKept, PTL

(* At every instant the scheduler may be asked at: an attempt it submits is  *)
(* one the resolver contract accepts, while it waits for evidence the        *)
(* contract would refuse every attempt, and no wait outlasts the terminal    *)
(* deadline (resolution-schedule.ts, market_resolver.py).                    *)
THEOREM ScheduleSuits == Spec => []ScheduleSuitsTheResolver
<1>1. Consulted => ScheduleSuitsTheResolver
  BY TheScheduleSuits DEF Consulted, ScheduleSuitsTheResolver
<1>2. QED BY <1>1, ConsultedKept, PTL

(* However many markets, and whatever is done with them in whatever order:   *)
(* folding their events, one after the other, gives the releases, and for    *)
(* each market its engine, phase and fees and, while it trades, its totals   *)
(* and its funding (projections.ts, over the contracts' events).             *)
THEOREM ProjectionFollows == Spec => []ProjectionFollowsBase
<1>1. ReadModelInv => ProjectionFollowsBase
  BY TheProjectionFollows DEF ProjectionFollowsBase
<1>2. QED BY <1>1, PartsKept, PTL

----------------------------------------------------------------------------
(* What one step may do to one bond: it moves on and never back; what was    *)
(* noted stays; it is paid when it ends, whole, out of nothing paid before;  *)
(* it is refunded when it has expired or is bound to a market, and split     *)
(* only when its revisions are used up.                                      *)
BondGoesOn(p) ==
    /\ bonds'[p].state # bonds[p].state =>
         <<bonds[p].state, bonds'[p].state>> \in
           {<<"ABSENT", "LOCKED">>, <<"LOCKED", "REFUNDED">>, <<"LOCKED", "DISPOSED">>}
    /\ bonds[p].state # "ABSENT" =>
         /\ bonds'[p].createdAt = bonds[p].createdAt
         /\ bonds[p].revisions <= bonds'[p].revisions
         /\ bonds[p].baseMarket # Proposal!NoMarket => bonds'[p].baseMarket = bonds[p].baseMarket
    /\ bonds[p].state \in Ended => bonds'[p] = bonds[p]
    /\ <<returned'[p], reserve'[p]>> # <<returned[p], reserve[p]>> =>
         /\ bonds[p].state = "LOCKED" /\ bonds'[p].state \in Ended
         /\ returned[p] + reserve[p] = 0 /\ returned'[p] + reserve'[p] = BOND
    /\ bonds[p].state = "LOCKED" /\ bonds'[p].state = "REFUNDED" =>
         Proposal!Expired(p) \/ bonds[p].baseMarket # Proposal!NoMarket
    /\ bonds[p].state = "LOCKED" /\ bonds'[p].state = "DISPOSED" /\ returned'[p] # 0 =>
         bonds[p].revisions = MAX_REVISIONS

LEMMA BondThatRests ==
    ASSUME Proposal!EscrowTypeOK, NEW p \in Proposals, bonds'[p] = bonds[p],
           returned'[p] = returned[p], reserve'[p] = reserve[p]
    PROVE  BondGoesOn(p)
<1>1. bonds[p].revisions \in Nat
  BY EscrowNumbers DEF Proposal!EscrowTypeOK, Proposal!Bond
<1>2. QED BY <1>1 DEF BondGoesOn, Ended

(* The payments: which call makes which, and what it had to find.            *)
LEMMA PaymentIsDue ==
    ASSUME Proposal!EscrowTypeOK, NEW p \in Proposals,
           \/ Proposal!Approve(p) \/ Proposal!RejectOrdinary(p)
           \/ Proposal!RetainForAbuse(p) \/ Proposal!TimeoutRefund(p)
    PROVE  \E a, r :
             /\ Pays(p, a, r)
             /\ r = 0 => Proposal!Expired(p) \/ bonds[p].baseMarket # Proposal!NoMarket
             /\ a # 0 /\ r # 0 => bonds[p].revisions = MAX_REVISIONS
<1>1. bonds[p].revisions \in 0 .. MAX_REVISIONS
  BY DEF Proposal!EscrowTypeOK, Proposal!Bond
<1>2. CASE Proposal!Approve(p) \/ Proposal!TimeoutRefund(p)
  <2>1. Pays(p, BOND, 0)
    BY <1>2, CallsPay
  <2>2. Proposal!Expired(p) \/ bonds[p].baseMarket # Proposal!NoMarket
    BY <1>2 DEF Proposal!Approve, Proposal!TimeoutRefund
  <2>3. QED BY <2>1, <2>2
<1>3. CASE Proposal!RejectOrdinary(p)
  <2>1. Pays(p, BOND \div 2, BOND \div 2) /\ BOND \div 2 # 0
    BY <1>3, CallsPay, EscrowNumbers
  <2>2. bonds[p].revisions = MAX_REVISIONS
    BY <1>1, <1>3, EscrowNumbers DEF Proposal!RejectOrdinary
  <2>3. QED BY <2>1, <2>2
<1>4. CASE Proposal!RetainForAbuse(p)
  <2>1. Pays(p, 0, BOND) /\ BOND # 0
    BY <1>4, CallsPay, EscrowNumbers
  <2>2. QED BY <2>1
<1>5. QED BY <1>2, <1>3, <1>4

LEMMA BondCallGoesOn ==
    ASSUME Proposal!EscrowTypeOK, Proposal!EscrowIsExact, NEW p \in Proposals, BondCall(p)
    PROVE  \A q \in Proposals : BondGoesOn(q)
<1>1. /\ bonds \in [Proposals -> Proposal!Bond]
      /\ returned \in [Proposals -> Nat] /\ reserve \in [Proposals -> Nat]
  BY DEF Proposal!EscrowTypeOK
<1>2. bonds[p].revisions \in Nat /\ bonds[p] \in Proposal!Bond
  BY <1>1, EscrowNumbers DEF Proposal!Bond
<1>3. CASE Proposal!BoundedLock(p)
  <2>1. /\ bonds[p].state = "ABSENT"
        /\ bonds' = [bonds EXCEPT ![p] = [Proposal!NoBond EXCEPT !.createdAt = blockTime,
                                                                 !.state = "LOCKED"]]
        /\ returned' = returned /\ reserve' = reserve
    BY <1>3 DEF Proposal!BoundedLock, Proposal!Lock
  <2>2. bonds'[p].state = "LOCKED"
    BY <1>1, <2>1 DEF Proposal!NoBond
  <2>3. BondGoesOn(p)
    BY <1>1, <2>1, <2>2 DEF BondGoesOn, Ended
  <2>4. ASSUME NEW q \in Proposals, q # p PROVE BondGoesOn(q)
    <3>1. bonds'[q] = bonds[q] /\ returned'[q] = returned[q] /\ reserve'[q] = reserve[q]
      BY <1>1, <2>1, <2>4
    <3>2. QED BY <3>1, BondThatRests
  <2>5. QED BY <2>3, <2>4
<1>4. CASE \/ Proposal!RecordRevision(p)
           \/ \E b \in BaseMarkets \cup {Proposal!NoMarket} : Proposal!BindMarket(p, b)
  <2>1. /\ bonds[p].state = "LOCKED" /\ returned' = returned /\ reserve' = reserve
        /\ \/ bonds' = [bonds EXCEPT ![p].revisions = @ + 1]
           \/ /\ bonds[p].baseMarket = Proposal!NoMarket
              /\ \E b : bonds' = [bonds EXCEPT ![p].baseMarket = b]
    BY <1>4 DEF Proposal!RecordRevision, Proposal!BindMarket, Proposal!Locked
  <2>2. /\ bonds'[p].state = "LOCKED" /\ bonds'[p].createdAt = bonds[p].createdAt
        /\ bonds[p].revisions <= bonds'[p].revisions
        /\ bonds[p].baseMarket # Proposal!NoMarket => bonds'[p].baseMarket = bonds[p].baseMarket
    <3>1. CASE bonds' = [bonds EXCEPT ![p].revisions = @ + 1]
      BY <1>1, <1>2, <3>1, <2>1 DEF Proposal!Bond
    <3>2. CASE /\ bonds[p].baseMarket = Proposal!NoMarket
               /\ \E b : bonds' = [bonds EXCEPT ![p].baseMarket = b]
      <4>1. PICK b : bonds' = [bonds EXCEPT ![p].baseMarket = b]
        BY <3>2
      <4>2. QED BY <1>1, <1>2, <2>1, <3>2, <4>1 DEF Proposal!Bond
    <3>3. QED BY <2>1, <3>1, <3>2
  <2>3. BondGoesOn(p)
    BY <2>1, <2>2 DEF BondGoesOn, Ended
  <2>4. ASSUME NEW q \in Proposals, q # p PROVE BondGoesOn(q)
    <3>1. bonds'[q] = bonds[q] /\ returned'[q] = returned[q] /\ reserve'[q] = reserve[q]
      BY <1>1, <2>1, <2>4
    <3>2. QED BY <3>1, BondThatRests
  <2>5. QED BY <2>3, <2>4
<1>5. CASE \/ Proposal!Approve(p) \/ Proposal!RejectOrdinary(p)
           \/ Proposal!RetainForAbuse(p) \/ Proposal!TimeoutRefund(p)
  <2>1. PICK a, r :
          /\ Pays(p, a, r)
          /\ r = 0 => Proposal!Expired(p) \/ bonds[p].baseMarket # Proposal!NoMarket
          /\ a # 0 /\ r # 0 => bonds[p].revisions = MAX_REVISIONS
    BY <1>5, PaymentIsDue
  <2>2. /\ bonds' = [bonds EXCEPT ![p].state = IF r = 0 THEN "REFUNDED" ELSE "DISPOSED"]
        /\ returned' = [returned EXCEPT ![p] = @ + a]
        /\ reserve' = [reserve EXCEPT ![p] = @ + r]
        /\ a + r = BOND /\ a \in Nat /\ r \in Nat
    BY <2>1, PaymentEndsTheBond
  <2>3. bonds[p].state = "LOCKED" /\ returned[p] = 0 /\ reserve[p] = 0
    <3>1. bonds[p].state = "LOCKED"
      BY <2>1 DEF Pays, Proposal!Locked
    <3>2. PaidOut(p)
      BY EscrowIsExactIs
    <3>3. QED BY <3>1, <3>2 DEF PaidOut, Ended
  <2>4. /\ bonds'[p] = [bonds[p] EXCEPT !.state = IF r = 0 THEN "REFUNDED" ELSE "DISPOSED"]
        /\ returned'[p] = a /\ reserve'[p] = r
    BY <1>1, <2>2, <2>3
  <2>5. /\ bonds'[p].state = (IF r = 0 THEN "REFUNDED" ELSE "DISPOSED")
        /\ bonds'[p].createdAt = bonds[p].createdAt
        /\ bonds'[p].revisions = bonds[p].revisions
        /\ bonds'[p].baseMarket = bonds[p].baseMarket
    BY <1>2, <2>4 DEF Proposal!Bond
  <2>6. BondGoesOn(p)
    BY <1>2, <2>1, <2>2, <2>3, <2>4, <2>5 DEF BondGoesOn, Ended
  <2>7. ASSUME NEW q \in Proposals, q # p PROVE BondGoesOn(q)
    <3>1. bonds'[q] = bonds[q] /\ returned'[q] = returned[q] /\ reserve'[q] = reserve[q]
      BY <1>1, <2>2, <2>7
    <3>2. QED BY <3>1, BondThatRests
  <2>8. QED BY <2>6, <2>7
<1>6. QED BY <1>3, <1>4, <1>5 DEF BondCall

(* Nobody touches the escrow but by a call of the contract.                  *)
LEMMA OnlyCallsMoveBonds ==
    ASSUME ProposalInv, Proposal!Next
    PROVE  \/ UNCHANGED <<bonds, held, returned, reserve>>
           \/ \E p \in Proposals : BondCall(p)
<1>1. CASE \E w \in Callers, p \in Proposals : Proposal!Handle(w, p)
  <2>1. PICK w \in Callers, p \in Proposals : Proposal!Handle(w, p)
    BY <1>1
  <2>2. QED
    BY <2>1 DEF Proposal!Handle, Proposal!BeginProposal, Proposal!ApplyAdmissibility,
                Proposal!MarkResolverFinalized, Proposal!BindBaseMarket, Proposal!MarkAbuse,
                Proposal!TimeoutProposal, Proposal!Start, Proposal!escrowVars
<1>2. CASE \E w \in Callers : Proposal!Continue(w)
  <2>1. PICK w \in Callers : Proposal!Continue(w)
    BY <1>2
  <2>2. CASE \/ Proposal!LockCall(w) \/ Proposal!RevisionCall(w) \/ Proposal!RejectCall(w)
             \/ Proposal!RetainCall(w) \/ Proposal!BindCall(w) \/ Proposal!ApproveCall(w)
             \/ Proposal!RefundCall(w)
    <3>1. \E at \in Proposal!Steps : Proposal!At(w, at)
      BY <2>2 DEF Proposal!LockCall, Proposal!RevisionCall, Proposal!RejectCall,
                  Proposal!RetainCall, Proposal!BindCall, Proposal!ApproveCall,
                  Proposal!RefundCall, Proposal!Call, Proposal!Steps
    <3>2. job[w].p \in Proposals /\ job[w].baseMarket \in BaseMarkets \cup {Proposal!NoMarket}
      BY <3>1, HandlerWaits
    <3>3. BondCall(job[w].p)
      BY <2>2, <3>2
         DEF Proposal!LockCall, Proposal!RevisionCall, Proposal!RejectCall, Proposal!RetainCall,
             Proposal!BindCall, Proposal!ApproveCall, Proposal!RefundCall, Proposal!Call, BondCall
    <3>4. QED BY <3>2, <3>3
  <2>3. CASE \/ Proposal!CreateBonded(w) \/ Proposal!SaveDeploying(w) \/ Proposal!SaveRevision(w)
             \/ Proposal!SaveRejected(w) \/ Proposal!SaveFinalized(w) \/ Proposal!SaveBound(w)
             \/ Proposal!SaveRefunded(w) \/ Proposal!SaveTimedOut(w)
    BY <2>3 DEF Proposal!CreateBonded, Proposal!SaveDeploying, Proposal!SaveRevision,
                Proposal!SaveRejected, Proposal!SaveFinalized, Proposal!SaveBound,
                Proposal!SaveRefunded, Proposal!SaveTimedOut, Proposal!Save, Proposal!escrowVars
  <2>4. QED BY <2>1, <2>2, <2>3 DEF Proposal!Continue
<1>3. CASE \/ \E w \in Callers : Proposal!Crash(w)
           \/ \E p \in Proposals : Proposal!BeginUnchecked(p)
           \/ Proposal!Tick
  BY <1>3 DEF Proposal!Crash, Proposal!BeginUnchecked, Proposal!Tick, Proposal!escrowVars
<1>4. CASE \E p \in Proposals : Proposal!DirectLock(p) \/ Proposal!DirectRefund(p)
  BY <1>4 DEF Proposal!DirectLock, Proposal!DirectRefund, BondCall
<1>5. QED BY <1>1, <1>2, <1>3, <1>4 DEF Proposal!Next

LEMMA BondsGoOn ==
    ASSUME ProposalInv, [Next]_vars
    PROVE  \A p \in Proposals : BondGoesOn(p)
<1>1. Proposal!EscrowTypeOK /\ Proposal!EscrowIsExact
  BY DEF ProposalInv, Proposal!TypeOK
<1>2. \/ UNCHANGED <<bonds, held, returned, reserve>>
      \/ \E p \in Proposals : BondCall(p)
  <2>1. CASE ProposalWorks /\ Proposal!Next
    BY <2>1, OnlyCallsMoveBonds
  <2>2. CASE UNCHANGED proposalVars
    BY <2>2 DEF proposalVars
  <2>3. QED
    BY <2>1, <2>2 DEF Next, vars, ScheduleWorks, OutboxWorks, GenLayerWorks, ReadModelWorks
<1>3. CASE UNCHANGED <<bonds, held, returned, reserve>>
  BY <1>1, <1>3, BondThatRests
<1>4. CASE \E p \in Proposals : BondCall(p)
  BY <1>1, <1>4, BondCallGoesOn
<1>5. QED BY <1>2, <1>3, <1>4

(* Whoever calls the escrow, in whatever order and however often, after      *)
(* whatever crashes: a bond is locked once and ends once, is paid in that    *)
(* step alone and whole, is refunded when bound to a market or expired, and  *)
(* split in halves only when its revisions are used up; its market and its   *)
(* age are never rewritten (ProposalBondEscrow.sol, proposal-workflow.ts).   *)
THEOREM BondsLiveOnce == Spec => [][\A p \in Proposals : BondGoesOn(p)]_vars
<1>1. ProposalInv /\ [Next]_vars => [\A p \in Proposals : BondGoesOn(p)]_vars
  BY BondsGoOn
<1>2. QED BY <1>1, PartsKept, PTL DEF Spec

=============================================================================
