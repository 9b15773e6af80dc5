\* Two requests walk two providers; the breaker opens after two failures.
SPECIFICATION FairSpec
CONSTANTS
  NumProviders = 2
  Requests = {r1, r2}
  MaxFailures = 2
  Cooldown = 2
  MaxTime = 4
  Cancels = TRUE
INVARIANTS TypeOK OpensAfterConsecutiveFailures LockoutIsBounded FailsOverInOrder
PROPERTY EveryRequestEnds
