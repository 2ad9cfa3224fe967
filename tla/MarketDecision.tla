--------------------------- MODULE MarketDecision ---------------------------
(***************************************************************************)
(* What the resolution machinery promises for one market: the resolver     *)
(* reaches at most one verdict, the market is decided once, before the     *)
(* deadline by that verdict and after it as VOID, and it is decided in the *)
(* end.  A market with stake on one side only is decided VOID.             *)
(***************************************************************************)
CONSTANT Undecided
VARIABLES verdict, decision, oneSided, expired
decisionVars == <<verdict, decision, oneSided, expired>>

Init ==
    /\ verdict = Undecided
    /\ decision = Undecided
    /\ oneSided \in BOOLEAN
    /\ expired = FALSE

Decide ==
    /\ verdict = Undecided
    /\ verdict' \in {"YES", "NO", "VOID"}
    /\ UNCHANGED <<decision, oneSided, expired>>

Settle ==
    /\ decision = Undecided /\ verdict # Undecided /\ ~expired
    /\ decision' = IF oneSided THEN "VOID" ELSE verdict
    /\ UNCHANGED <<verdict, oneSided, expired>>

PassDeadline ==
    /\ ~expired /\ expired' = TRUE
    /\ UNCHANGED <<verdict, decision, oneSided>>

Expire ==
    /\ decision = Undecided /\ expired
    /\ decision' = "VOID"
    /\ UNCHANGED <<verdict, oneSided, expired>>

Next == Decide \/ Settle \/ PassDeadline \/ Expire

SafeSpec == Init /\ [][Next]_decisionVars

Spec == SafeSpec /\ WF_decisionVars(PassDeadline) /\ WF_decisionVars(Expire)
=============================================================================
