SPECIFICATION FairSpec
CONSTANTS
  Workers = {w1, w2}
  Reconcilers = {r1}
  Decisions = {"APPROVED", "REJECTED"}
  None = None
  ProposalId = ProposalId
  INTENT_EXTERNAL_IDS = {None, ProposalId}
  GIVES_UP = FALSE
  POLLS = 1
  MAX_TXS = 2
  MAX_QUEUED = 1
  MAX_FAILURES = 2
CHECK_DEADLOCK FALSE
INVARIANTS
  AtMostOneSubmission
  DecisionIsTheAssessment
  OperationIsNeverAbandoned
PROPERTIES
  AssessmentClosesOperation
