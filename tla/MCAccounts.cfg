SPECIFICATION FairSpec
CONSTANTS
  r1 = r1
  r2 = r2
  Requests = {r1, r2}
  MaxAttempts = 2
  Window = 2
  MaxFaults = 1
INVARIANT TypeOK GuessesBounded
PROPERTY LockEnds FlagsSurviveSaves
