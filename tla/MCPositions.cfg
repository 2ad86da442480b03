SPECIFICATION FairSpec
CONSTANTS
  d1 = d1
  d2 = d2
  h1 = h1
  h2 = h2
  Devices = {d1, d2}
  Trackers = {d1}
  Handlers = {h1, h2}
  Nobody = Nobody
  MaxTime = 2
  Window = 2
  MaxFaults = 1
  MaxRestarts = 1
INVARIANT TypeOK CopiesAgree
PROPERTY ShownAgain UpdatesKeepComing
