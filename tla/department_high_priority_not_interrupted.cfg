CONSTANTS
  d1 = d1
  None = None
  Departments <- MCDepartments
  VehicleCount = 2
  ProcessingTimes <- MCProcessingTimes
  Arrivals <- MCHighAndLow
  MAX_EVENT_RETRIES = 1
  SocketCapacity = 1
  DEPARTMENT_QUEUE_LENGTH = 1
  CLIENT_RX_QUEUE_LENGTH = 1
SPECIFICATION Spec
PROPERTY HighPriorityNotInterrupted
