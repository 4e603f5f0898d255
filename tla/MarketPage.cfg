SPECIFICATION PageSpec
CONSTANTS
  Page = 1
  Wallets = {1}
  MaxReads = 2
  MaxSent = 2
  NumFixtures = 1
  NumOwners = 2
  NumMints = 1
  Amounts = {1}
  MintAmounts = {}
  InitialBalance = 2
  MAX_U64 = 4
  MAX_U16 = 0
  MILLIS_PER_DAY = 2
  MaxTime = 1
  Records <- HomeWin
  MaxCommits = 1
  Payloads <- HomeWinPayloads
  Strategies <- HomeWinStrategies
CONSTRAINT RivalStakesOnce
CHECK_DEADLOCK FALSE
INVARIANTS
  OffersAreHonoured
  LockedBetsKeepSide
