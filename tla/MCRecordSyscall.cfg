SPECIFICATION Spec
CONSTANTS
  Tasks <- MCTasks
  CallsOf <- MCCallsOf
  HandlerCalls <- MCHandlerCalls
  ScratchSizes <- MCScratchSizes
  Writable <- MCWritable
  Results <- MCResults
  RrMasks <- MCRrMasks
  MaxInterrupts = 1
  MaxWrites = 1
INVARIANTS ReplaySame Transparent
CHECK_DEADLOCK FALSE
