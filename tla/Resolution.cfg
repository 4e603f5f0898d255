SPECIFICATION SdkSpec
CONSTANTS
  FinalRecords <- SdkFinalRecords
  Requests <- SdkRequests
  NumFixtures = 2
  NumOwners = 1
  NumMints = 1
  Amounts = {}
  MintAmounts = {}
  InitialBalance = 1
  MAX_U64 = 2
  MAX_U16 = 1
  MILLIS_PER_DAY = 2
  MaxTime = 1
  Records <- SdkRecords
  MaxCommits = 3
  Payloads <- SdkPayloads
  Strategies <- ResolutionStrategies
CHECK_DEADLOCK FALSE
INVARIANTS
  OutcomeProved
  VerdictIsCommitted
  VerdictCoversResolve
