-------------------------- MODULE MCArcSettlement --------------------------
(* The settlement pipeline (ArcSettlement) with names of its own, so that it *)
(* can stand beside the other parts of the Arc application.                  *)
EXTENDS Naturals

CONSTANTS Ticks, Verdicts, MaxUpsets

VARIABLES settledMarket, settlement, worker, stamp, indexer, settledArc, genlayer, upsets

P == INSTANCE ArcSettlement WITH market <- settledMarket, arc <- settledArc

ASSUME SettlementAssumption == Verdicts \subseteq P!Outcomes /\ MaxUpsets \in Nat

SettlementSpec == P!Spec

(* A proposal on Arc is GenLayer's verdict for this very contract.           *)
ProposalsCarryTheVerdict == P!ProposalsCarryTheVerdict

(* A settlement in flight is worked on until it leaves.                      *)
NoSettlementIsForgotten == P!NoSettlementIsForgotten

(* A final market's row comes to say so, but for a status the indexer passed *)
(* over the event of.                                                        *)
FinalityIsMirrored == P!FinalityIsMirrored
=============================================================================
