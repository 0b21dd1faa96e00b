SPECIFICATION FeedbackSpec
CONSTANTS
  p = p
  f = f
  q = q
  Project <- MCProject
  Scope <- MCScope
  Key <- MCKey
  Concurrency = 2
  Reserved = 1
  MaxGeneration = 3
  MaxRoundTrips = 3
  MaxRestarts = 1
INVARIANTS SpinnerStops EveryEpisodeWarned BurstsSettle EventsAreSettled
