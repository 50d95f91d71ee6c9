CONSTANTS
  DEPARTMENT_COUNT = 6
  PRIORITY_COUNT = 3
  VehicleCount = 2
SPECIFICATION Spec
INVARIANTS StartupTypeOK FailedStartReleases KnownSecondDeletions TasksFindEverything
CHECK_DEADLOCK FALSE
