SPECIFICATION Spec
CONSTANTS
  Speeds <- MCSpeeds
  Delays <- MCDelays
  MovingSpeed = 5
  MinStop = 3
  MaxGap = 10
  MinShown = 1
  MaxPositions = 5
CHECK_DEADLOCK FALSE
INVARIANT TypeOK EventsInOrder MovesAreDriven HistoryAsDefined
