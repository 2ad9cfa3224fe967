------------------------- MODULE ProposalBondEscrow -------------------------
(***************************************************************************)
(* ProposalBondEscrow.sol: custody of the fixed bond of each proposal.     *)
(* Every operator below is one call of the contract, enabled exactly when  *)
(* the call does not revert.                                               *)
(***************************************************************************)
EXTENDS Integers, FiniteSets

CONSTANTS Proposals,      \* proposal identifiers
          BaseMarkets,    \* market addresses a bond may be bound to
          BOND,           \* 2 USDC
          MAX_REVISIONS,  \* 2
          TIMEOUT         \* INFRASTRUCTURE_TIMEOUT, 96 hours

NoMarket == "no market"    \* address(0)

VARIABLES now,        \* block.timestamp
          bonds,      \* the contract's mapping
          held,       \* USDC in the contract
          returned,   \* USDC each proposal's proposer got back
          reserve     \* USDC each proposal paid to the protocol reserve

escrowVars == <<bonds, held, returned, reserve>>

BondStates == {"ABSENT", "LOCKED", "REFUNDED", "DISPOSED"}
Bond == [baseMarket : BaseMarkets \cup {NoMarket}, createdAt : Nat,
         revisions : 0 .. MAX_REVISIONS, state : BondStates]
NoBond == [baseMarket |-> NoMarket, createdAt |-> 0, revisions |-> 0, state |-> "ABSENT"]

EscrowTypeOK ==
    /\ now \in Nat
    /\ bonds \in [Proposals -> Bond]
    /\ held \in Nat
    /\ returned \in [Proposals -> Nat]
    /\ reserve \in [Proposals -> Nat]

EscrowInit ==
    /\ now = 0
    /\ bonds = [p \in Proposals |-> NoBond]
    /\ held = 0
    /\ returned = [p \in Proposals |-> 0]
    /\ reserve = [p \in Proposals |-> 0]

Locked(p)  == bonds[p].state = "LOCKED"
Expired(p) == now >= bonds[p].createdAt + TIMEOUT

\* Mutant: the transfer to the reserve is missing.
Pay_ProposerOnly(p, proposerAmount, reserveAmount) ==
    /\ bonds' = [bonds EXCEPT ![p].state = IF reserveAmount = 0 THEN "REFUNDED" ELSE "DISPOSED"]
    /\ proposerAmount <= held
    /\ held' = held - proposerAmount
    /\ returned' = [returned EXCEPT ![p] = @ + proposerAmount]
    /\ UNCHANGED reserve

(* _pay: the state changes first, then the two transfers.                  *)
Pay(p, proposerAmount, reserveAmount) ==
    /\ bonds' = [bonds EXCEPT ![p].state = IF reserveAmount = 0 THEN "REFUNDED" ELSE "DISPOSED"]
    /\ proposerAmount + reserveAmount <= held
    /\ held' = held - (proposerAmount + reserveAmount)
    /\ returned' = [returned EXCEPT ![p] = @ + proposerAmount]
    /\ reserve' = [reserve EXCEPT ![p] = @ + reserveAmount]

Lock(p) ==
    /\ bonds[p].state = "ABSENT"
    /\ held' = held + BOND
    /\ bonds' = [bonds EXCEPT ![p] = [NoBond EXCEPT !.createdAt = now, !.state = "LOCKED"]]
    /\ UNCHANGED <<returned, reserve>>

\* Mutant: revisions are counted without a limit.
RecordRevision_NoLimit(p) ==
    /\ Locked(p)
    /\ bonds' = [bonds EXCEPT ![p].revisions = @ + 1]
    /\ UNCHANGED <<held, returned, reserve>>

RecordRevision(p) ==
    /\ Locked(p) /\ bonds[p].revisions < MAX_REVISIONS
    /\ bonds' = [bonds EXCEPT ![p].revisions = @ + 1]
    /\ UNCHANGED <<held, returned, reserve>>

BindMarket(p, baseMarket) ==
    /\ Locked(p) /\ bonds[p].baseMarket = NoMarket
    /\ bonds' = [bonds EXCEPT ![p].baseMarket = baseMarket]
    /\ UNCHANGED <<held, returned, reserve>>

Approve(p) ==
    /\ Locked(p) /\ bonds[p].baseMarket # NoMarket
    /\ Pay(p, BOND, 0)

RejectOrdinary(p) ==
    /\ Locked(p) /\ bonds[p].revisions >= MAX_REVISIONS
    /\ Pay(p, BOND \div 2, BOND \div 2)

RetainForAbuse(p) ==
    /\ Locked(p)
    /\ Pay(p, 0, BOND)

\* Mutant: a bound market holds the refund back.
TimeoutRefund_Unbound(p) ==
    Locked(p) /\ Expired(p) /\ bonds[p].baseMarket = NoMarket /\ Pay(p, BOND, 0)

TimeoutRefund(p) ==
    /\ Locked(p) /\ Expired(p)
    /\ Pay(p, BOND, 0)

(***************************************************************************)
(* The contract holds one bond for each proposal still locked, and each    *)
(* bond that left was paid out whole: to the proposer, to the reserve, or  *)
(* half to each, and never more than once.                                 *)
(***************************************************************************)
EscrowIsExact ==
    /\ held = BOND * Cardinality({p \in Proposals : Locked(p)})
    /\ \A p \in Proposals :
         CASE bonds[p].state = "REFUNDED" -> returned[p] = BOND /\ reserve[p] = 0
           [] bonds[p].state = "DISPOSED" -> /\ returned[p] + reserve[p] = BOND
                                             /\ returned[p] \in {0, BOND \div 2}
           [] OTHER -> returned[p] = 0 /\ reserve[p] = 0
=============================================================================
