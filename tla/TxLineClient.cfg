SPECIFICATION FairFixturesSpec
CONSTANTS
  back1 = back1
  ahead1 = ahead1
  back2 = back2
  ahead2 = ahead2
  Calls = {back1, ahead1, back2, ahead2}
  MaxTokens = 2
  Loads = {1, 2}
  CallsOf <- SnapshotsOf
  List = list
  Pages = {list, page}
CHECK_DEADLOCK FALSE
INVARIANTS
  TypeOK
  RenewalIsLive
  RetriesWithNewerJwt
  NamesOrReason
PROPERTIES
  JwtNeverGoesBack
  PageHears
