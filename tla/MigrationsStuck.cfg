\* A database of the desktop application, one death.
CONSTANTS
  Processes = {p1}
  Nobody = Nobody
  FirstVersion = 0
  MaxCrashes = 1
SPECIFICATION LiveSpec
PROPERTIES UpgradeEnds
CHECK_DEADLOCK FALSE
