\* A window of three blocks, batches of two, two reorganisations of any depth.
SPECIFICATION IdxFairSpec
CHECK_DEADLOCK FALSE
CONSTANTS
  Forks = {f, g}
  Txs = {x}
  NoTx = noTx
  FINALITY_WINDOW = 3
  BATCH_SIZE = 2
  MaxHeight = 4
  MaxReorgs = 2
INVARIANTS
  IdxTypeOK
  CursorIsTopOfStore
PROPERTIES
  HealthyMeansCanonical
  OnlyOrphansAreDropped
  DeepReorgsFailClosed
  CatchesUp
