SPECIFICATION FairSpec
CONSTANTS
  c1 = c1
  c2 = c2
  NoCall = NoCall
  Call <- MCCall
  Limit = 2
  Estimates <- MCEstimates
  Amounts <- MCAmounts
INVARIANTS
  OneStory
  AccountingIsTrue
  LimitHolds
PROPERTIES
  NotedIsBooked
  HoldsEnd
