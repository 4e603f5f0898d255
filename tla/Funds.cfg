SPECIFICATION FairSpec
CONSTANTS
  NumFixtures = 1
  NumOwners = 3
  NumMints = 1
  Amounts = {0, 1, 2}
  MintAmounts = {}
  InitialBalance = 3
  MAX_U64 = 9
  MAX_U16 = 0
  MILLIS_PER_DAY = 2
  MaxTime = 1
  Records <- FundsRecords
  MaxCommits = 1
  Payloads <- FundsPayloads
  Strategies <- FundsStrategies
CHECK_DEADLOCK FALSE
INVARIANTS
  TypeOK
  AccountsAgree
  PoolsMatchPositions
  EscrowExact
  Solvency
  DustBound
  ClaimNeverFails
  WinnerNeverLoses
PROPERTIES
  FundsMoveOnlyAsPromised
  ResolvedIsFinal
  PositionsOnlyGrow
  KeepsPromise
  EveryStakeGetsItsDue
