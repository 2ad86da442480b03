SPECIFICATION Spec
CONSTANTS
  v1 = v1
  v2 = v2
  r1 = r1
  w1 = w1
  w2 = w2
  r2 = r2
  NoRoute = NoRoute
  Vehicles = {v1}
  Routes = {r1, r2}
  Workers = {w1}
  Reports <- CrossingReports
  InitialLaps <- EmptyTable
  Fares <- MCFares
  AllowedLap <- MCAllowed
  MaxStop <- MCMaxStop
  MaxSpeed <- MCMaxSpeed
  MinLap = 1
  DefaultStop = 2
  SpeedCooldown = 2
  MovingSpeed = 5
  Tolerance = 1
  Overlap = FALSE
  InOrder = TRUE
  MaxReports = 4
  MaxFaults = 0
  MaxReassign = 1
INVARIANT ChargedAsDriven
CHECK_DEADLOCK FALSE
