SPECIFICATION Spec
CONSTANTS
  NoEngine = NoEngine
  NoOne = NoOne
  Logins = {operator, admin}
  Admins = {admin}
  People = {ann}
  Gates = {g1}
  DualControl = TRUE
  DualMode = "database"
  MaxAge = 3
  MaxWait = 1
  MaxClock = 7
  MaxEpoch = 6
INVARIANTS TypeOK ConstraintsNeverFire
PROPERTIES IndependentApproval EpochFencesRouting EngineChangeAuthorised
CHECK_DEADLOCK FALSE
