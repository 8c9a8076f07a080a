\* Two requests that share accounts, the registry ids and the nonces.
SPECIFICATION IndexedSpec
SYMMETRY Symmetry
CHECK_DEADLOCK FALSE
CONSTANTS
  Accounts = {a1, a2, a3}
  Deployer = deployer
  Escrow = escrow
  ZeroAddress = zeroAddress
  Signers = {tee}
  ExtensionIds = {65536}
  RemoteActionIds = {i1}
  NoActionId = noAction
  RegistryReverted = reverted
  ResultNonces = {n1, n2}
  ZeroNonce = zeroNonce
  LotAmounts = {1}
  QuoteCaps = {2}
  Quotes = {0, 1}
  InstructionFees = {0}
  InitialBalance = 4
  MIN_QUOTE_DURATION = 1
  MAX_QUOTE_DURATION = 1
  RESOLUTION_DURATION = 1
  MAX_PROVIDERS = 1
  MaxRfqs = 2
  MaxTime = 4
INVARIANTS
  EscrowBacksDeposits
  ClaimsNeverExceedDeposits
  PositionsFollowOutcomes
  OutcomesAreUniquelyBound
  RowsMirrorContract
  OnlyRepeatedIdsWedge
  PortfoliosShowClaimables
