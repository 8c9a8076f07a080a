\* The registry call may revert after a fee was sent.
SPECIFICATION Spec
SYMMETRY Symmetry
CHECK_DEADLOCK FALSE
CONSTANTS
  Accounts = {a1, a2, a3, a4}
  Deployer = deployer
  Escrow = escrow
  ZeroAddress = zeroAddress
  Signers = {tee, other}
  ExtensionIds = {65536}
  RemoteActionIds = {i1, i2}
  NoActionId = noAction
  RegistryReverted = reverted
  ResultNonces = {n1, n2}
  ZeroNonce = zeroNonce
  LotAmounts = {0, 2}
  QuoteCaps = {0, 3}
  Quotes = {0, 1, 3, 4}
  InstructionFees = {0, 1}
  InitialBalance = 3
  MIN_QUOTE_DURATION = 1
  MAX_QUOTE_DURATION = 2
  RESOLUTION_DURATION = 2
  MAX_PROVIDERS = 2
  MaxRfqs = 1
  MaxTime = 6
INVARIANTS
  NoNativeCurrencyRetained
