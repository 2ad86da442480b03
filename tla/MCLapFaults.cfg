SPECIFICATION Spec
CONSTANTS
  v1 = v1
  v2 = v2
  r1 = r1
  w1 = w1
  w2 = w2
  r2 = r2
  NoRoute = NoRoute
  Vehicles = {v1, v2}
  Routes = {r2}
  Workers = {w1, w2}
  Reports <- FaultReports
  InitialLaps <- EmptyOrEither
  Fares <- MCFares
  AllowedLap <- MCAllowed
  MaxStop <- MCMaxStop
  MaxSpeed <- MCMaxSpeed
  MinLap = 1
  DefaultStop = 2
  SpeedCooldown = 2
  MovingSpeed = 5
  Tolerance = 1
  Overlap = FALSE
  InOrder = FALSE
  MaxReports = 3
  MaxFaults = 1
  MaxReassign = 1
INVARIANT TypeOK OneOpenLap OneChargePerLap OneLateFinePerLap SettledOnlyWhenFinished
PROPERTY FinishedLapsFrozen
CHECK_DEADLOCK FALSE
SYMMETRY Symmetry
