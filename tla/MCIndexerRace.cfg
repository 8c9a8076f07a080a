\* A reorganisation may fall between the reads of one cycle.
SPECIFICATION IdxSpec
CHECK_DEADLOCK FALSE
CONSTANTS
  Forks = {f, g}
  Txs = {x}
  NoTx = noTx
  FINALITY_WINDOW = 2
  BATCH_SIZE = 2
  MaxHeight = 3
  MaxReorgs = 2
INVARIANTS
  StoredBlocksAreAChain
