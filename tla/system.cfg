CONSTANTS
  d1 = d1
  None = None
  Departments <- MCDepartments
  VehicleCount = 1
  ProcessingTimes <- MCProcessingTimes
  Templates <- MCTemplates
  MaxEvents = 2
  Events <- MCEvents
  Arrivals <- MCArrivals
  MAX_EVENT_RETRIES = 1
  SocketCapacity = 1
  DEPARTMENT_QUEUE_LENGTH = 1
  CLIENT_RX_QUEUE_LENGTH = 1
  SERVER_TX_QUEUE_LENGTH = 1
  DatabaseMayFail = FALSE
  UintRange = 8
SPECIFICATION SystemSpec
INVARIANTS StatisticsBalance RecordedOutcomeIsReported StatisticsAgree
PROPERTIES ImplementsClient ImplementsServer EveryEventComesToRest
