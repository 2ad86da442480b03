SPECIFICATION FairSpec
CONSTANTS
  i1 = i1
  i2 = i2
  v1 = v1
  v2 = v2
  u1 = u1
  u2 = u2
  r1 = r1
  r2 = r2
  Imeis = {i1, i2}
  Vehicles = {v1}
  Users = {u1, u2}
  Here = Here
  There = There
  Peered = {Here}
  Requests = {r1, r2}
  NoVehicle = NoVehicle
  NoUser = NoUser
  MaxInstalls = 2
  MaxStarts = 4
  MaxFaults = 1
  TTL = 2
INVARIANT TypeOK PeersDisjoint DoublesOverlap ReportsAreTrue
PROPERTY OutdatedOwnerEnds
CHECK_DEADLOCK FALSE
