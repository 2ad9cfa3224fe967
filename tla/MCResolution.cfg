\* Three transactions, two attempts, a quorum of two out of three watchers, one
\* of which is faulty.
CONSTANTS
    t1 = t1
    t2 = t2
    t3 = t3
    h1 = h1
    h2 = h2
    f1 = f1
    Txs = {t1, t2, t3}
    Honest = {h1, h2}
    Faulty = {f1}
    Outsider = outsider
    THRESHOLD = 2
    LastAttempt = 1
    Offset <- MCOffset
    AVAILABLE = 1
    DEADLINE = 3
    MaxTime = 3
SPECIFICATION FairSpec
\* the market is decided and nothing is left to do
CHECK_DEADLOCK FALSE
INVARIANTS
  SignaturesStayTrue
  OutcomeIsTheVerdict
  VerdictEndsTheRecord
PROPERTIES
  ImplementsDecision
