CONSTANTS
  d1 = d1
  None = None
  Departments <- MCDepartments
  VehicleCount = 1
  ProcessingTimes <- MCProcessingTimes
  Events <- MCHighAndLow
  Arrivals <- MCArrivals
  MAX_EVENT_RETRIES = 1
  SocketCapacity = 1
  DEPARTMENT_QUEUE_LENGTH = 1
  CLIENT_RX_QUEUE_LENGTH = 1
SPECIFICATION ClientSpec
INVARIANTS ClientTypeOK EventConserved AckThenOneCompletion StatisticsBalance
PROPERTIES ImplementsLifecycle ImplementsDepartment EveryEventLeaves
