SPECIFICATION DrillSpec
CONSTANTS
  Accounts <- MCAccounts
  Quotes <- MCQuotes
  Seller = Seller
  ProviderA = ProviderA
  ProviderB = ProviderB
  Passerby = Passerby
  Deployer = Deployer
  Escrow = Escrow
  ZeroAddress = ZeroAddress
  TeeKey = TeeKey
  DeployerKey = DeployerKey
  Signers = {TeeKey, DeployerKey}
  ExtensionIds = {1}
  RemoteActionIds = {action1, action2}
  NoActionId = NoActionId
  RegistryReverted = RegistryReverted
  ResultNonces = {nonce1, nonce2}
  ZeroNonce = ZeroNonce
  Unreadable = Unreadable
  LotAmounts = {1}
  QuoteCaps = {3, 5}
  InstructionFees = {0}
  InitialBalance = 5
  MIN_QUOTE_DURATION = 1
  MAX_QUOTE_DURATION = 2
  RESOLUTION_DURATION = 1
  MAX_PROVIDERS = 2
  MaxRfqs = 2
  MaxTime = 5
  lotAmount = 1
  quoteCap = 5
  sellerMinimum = 2
  quoteA = 3
  quoteB = 4
  quoteDuration = 2
  PasserbyCaps = {3}
  PasserbyQuote = 2
INVARIANTS TradesHonourSeals LedgerTellsOneRequest FullLedgerMeansPaid
SYMMETRY Interchangeable
CHECK_DEADLOCK FALSE
