\* One request, every outcome and every claim order, under fairness (no symmetry).
SPECIFICATION FairSpec
CHECK_DEADLOCK FALSE
CONSTANTS
  Accounts = {a1, a2, a3}
  Deployer = deployer
  Escrow = escrow
  ZeroAddress = zeroAddress
  Signers = {tee, other}
  ExtensionIds = {65536}
  RemoteActionIds = {i1}
  NoActionId = noAction
  RegistryReverted = reverted
  ResultNonces = {n1}
  ZeroNonce = zeroNonce
  LotAmounts = {0, 2}
  QuoteCaps = {0, 3}
  Quotes = {0, 1, 3, 4}
  InstructionFees = {0, 1}
  InitialBalance = 3
  MIN_QUOTE_DURATION = 1
  MAX_QUOTE_DURATION = 2
  RESOLUTION_DURATION = 2
  MAX_PROVIDERS = 2
  MaxRfqs = 1
  MaxTime = 6
INVARIANTS
  TypeOK
  EntitlementsExhaustDeposits
  ClosedPaysEveryParticipant
  InstructionStaysCurrent
  CancelledHasNoQuotes
PROPERTIES
  EntitlementsAreFinal
  ImplementsEscrow
  EveryDepositReturns
