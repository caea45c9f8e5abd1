CONSTANTS
  MaxHosts = 17
  RangeLimit = 12
  Deadline = 4
  MaxDelay = 2
  MaxAttempt = 1
  Configs <- MCConfigs
  Answers <- MCAnswers
SPECIFICATION SetupSpec
INVARIANTS TypeOK OnePairPerRound FullCover ExpansionExact RetryBounds AddressesUsable SignalEndsSetup
CHECK_DEADLOCK FALSE
