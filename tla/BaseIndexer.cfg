SPECIFICATION FairSpec
CONSTANTS
  Workers = {w1, w2}
  DEPLOYMENT_BLOCK = 1
  BATCH_SIZE = 2
  CONFIRMATIONS = 1
  REORG_DEPTH = 1
  GENESIS_HEIGHT = 2
  MAX_HEIGHT = 5
  MAX_REORGS = 1
  MAX_FAILURES = 2
CHECK_DEADLOCK FALSE
INVARIANTS
  IndexIsSound
PROPERTIES
  CursorOnlyAdvances
  CatchesUp
