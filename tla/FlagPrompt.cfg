SPECIFICATION Spec
CONSTANTS
  NoEngine = NoEngine
  NoOne = NoOne
  Logins = {operator}
  Admins = {}
  People = {ann, bob}
  Gates = {g1, g2}
  DualControl = TRUE
  DualMode = "parameter"
  MaxAge = 4
  MaxWait = 0
  MaxClock = 7
  MaxEpoch = 6
PROPERTIES ReconciledCutover NamedDualControl
CHECK_DEADLOCK FALSE
SYMMETRY NameSymmetry
