\* Three requests of any kind to either entry, with crashes and an unreliable node.
SPECIFICATION EitherFairSpec
CHECK_DEADLOCK FALSE
CONSTANTS
  s1 = s1
  p1 = p1
  p2 = p2
  Addresses = {s1, p1, p2}
  ZeroAddress = zeroAddress
  Unreadable = unreadable
  MAX_PROVIDERS = 2
  MaxRequests = 3
  Instructions <- MCInstructions
INVARIANTS
  ExtTypeOK
  WorkIsServedInOrder
  StateReadsAreExact
  TradesAreGenuine
  FaultFreeAnswersAreBest
PROPERTIES
  EveryRequestIsAnswered
