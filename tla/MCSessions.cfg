SPECIFICATION FairSpec
CONSTANTS
  ana = ana
  Users = {ana}
  r1 = r1
  r2 = r2
  Requests = {r1, r2}
  Nobody = Nobody
  MaxTokens = 2
  MaxFaults = 1
INVARIANT TypeOK SpentIsRefused HeldIsStored
PROPERTY StaleCopiesEnd
CHECK_DEADLOCK FALSE
