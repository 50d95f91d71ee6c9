CONSTANTS
  p = p
  c1 = c1
  c2 = c2
  xListEnd = xListEnd
  Tasks <- MCTasks
  Calls <- MCCalls
  TickRange = 8
  MaxAge = 2
  OverflowRange = 2
  uxLength = 1
SPECIFICATION Spec
INVARIANTS KernelTypeOK DelayedListEmptyAtSwitch DelayEndsOnTime WokenOnTime NoLostWakeup
PROPERTIES ImplementsBlockingQueue BoundedCallReturns
