SPECIFICATION MarketSpec
CONSTANTS
  Cycles = {c1, c2}
  Ingestors = {i1, i2}
  MaxAge = 1
  MaxRetries = 0
  MaxTries = 2
  Review <- MCReview
  Keys <- MCKeys
  Scenes <- MCScenes
INVARIANT FreshIsExplained WorkIsAccountedFor
PROPERTY FeedRecovers
CHECK_DEADLOCK FALSE
