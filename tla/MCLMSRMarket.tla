---------------------------- MODULE MCLMSRMarket ----------------------------
(***************************************************************************)
(* Small instances of LMSRMarket.  The tables are LMSRMarket._cost,        *)
(* computed with the contract's own fixed-point exp and ln, for up to four *)
(* shares on each side.  With b = 2 units, and the funding target of 2     *)
(* that goes with it, the quantities span the market's whole range.  With  *)
(* b = 48000 units and a target of 36599 they are the smallest holdings of *)
(* a large market, where exp errs by more than a share costs.              *)
(***************************************************************************)
EXTENDS LMSRMarket, TLC

CONSTANTS mkt, vlt, tre, a1, a2

TheMarket == {mkt}

CostTable ==
    LET rows == << <<1, 1, 2, 3, 4>>, <<1, 2, 2, 3, 4>>, <<2, 2, 3, 3, 4>>,
                   <<3, 3, 3, 4, 4>>, <<4, 4, 4, 4, 5>> >>
    IN  [y \in Quantities |-> [n \in Quantities |-> rows[y + 1][n + 1]]]

FineTable ==
    LET rows == << <<1, 0, 1, 1, 2>>, <<0, 2, 1, 2, 2>>, <<1, 1, 3, 2, 3>>,
                   <<1, 2, 2, 4, 3>>, <<2, 2, 3, 3, 5>> >>
    IN  [y \in Quantities |-> [n \in Quantities |-> 33270 + rows[y + 1][n + 1]]]
=============================================================================
