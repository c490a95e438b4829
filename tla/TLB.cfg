SPECIFICATION FairSpec
CONSTANTS
  Builds = {TRUE, FALSE}
  nSlaves = 2
  p0 = p0
  p1 = p1
  p2 = p2
  Pages = {p0, p1, p2}
  Denied <- OwnPages
  NoPage = NoPage
  nWays = 2
INVARIANT FirstLookupAnswersIt
INVARIANT MissOnlyIfFlushed
PROPERTY EveryRequestAnswered
