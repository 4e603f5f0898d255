SPECIFICATION FairScriptSpec
CONSTANTS
  Fixture = 1
  FinalRecord <- FullTime
  MaxRuns = 3
  MaxCrashes = 1
  MaxGiven = 1
  CLOSE_DELAY = 2
  FUNDING = 2
  STAKE1 = 2
  STAKE2 = 1
  NumFixtures = 1
  NumOwners = 7
  NumMints = 4
  Amounts = {1}
  MintAmounts = {1}
  InitialBalance = 0
  MAX_U64 = 20
  MAX_U16 = 1
  MILLIS_PER_DAY = 2
  MaxTime = 2
  Records <- ScriptRecords
  MaxCommits = 2
  Payloads <- OthersPayloads
  Strategies <- OthersStrategies
CHECK_DEADLOCK FALSE
INVARIANTS
  RejectionsHold
  WinnerTakesPot
  TokensConserved
PROPERTIES
  RerunsEnd
