SPECIFICATION Spec
CONSTANTS
  Workers = {w1, w2}
  Reconcilers = {r1}
  Decisions = {"APPROVED"}
  None = None
  ProposalId = ProposalId
  INTENT_EXTERNAL_IDS = {ProposalId}
  GIVES_UP = FALSE
  POLLS = 0
  MAX_TXS = 1
  MAX_QUEUED = 1
  MAX_FAILURES = 0
CHECK_DEADLOCK FALSE
INVARIANTS
  FollowsATransaction
