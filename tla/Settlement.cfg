SPECIFICATION FairFlowSpec
CONSTANTS
  Tabs = {t1}
  MaxFeed = 3
  Entries <- FeedEntries
  NumFixtures = 1
  NumOwners = 1
  NumMints = 1
  Amounts = {}
  MintAmounts = {}
  InitialBalance = 1
  MAX_U64 = 1
  MAX_U16 = 1
  MILLIS_PER_DAY = 2
  MaxTime = 1
  Records <- FeedRecords
  MaxCommits = 3
  Payloads <- OthersPayloads
  Strategies <- OthersStrategies
CHECK_DEADLOCK FALSE
INVARIANTS
  SentProofsAreAccepted
  PanelAgreesWithOnlyFinal
PROPERTIES
  FinalisedMarketSettles
