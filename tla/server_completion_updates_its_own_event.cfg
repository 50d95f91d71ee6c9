CONSTANTS
  d1 = d1
  None = None
  Departments <- MCDepartments
  Templates <- MCTemplates
  MAX_EVENT_RETRIES = 1
  SocketCapacity = 1
  SERVER_TX_QUEUE_LENGTH = 1
  DatabaseMayFail = FALSE
  UintRange = 8
  MaxEvents = 2
  MaxRuns = 2
SPECIFICATION Spec
PROPERTY CompletionUpdatesItsOwnEvent
CHECK_DEADLOCK FALSE
