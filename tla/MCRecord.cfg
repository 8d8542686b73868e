SPECIFICATION MCSpec
CONSTANTS
  Tasks = {1, 2, 3}
  MaxFd = 4
  Limit = 3
  MaxCalls = 3
  Odd = {}
  Tracers = {"w"}
  Requests <- MCRequests
  TraceExit = {"A"}
  MaxSteps = 5
INVARIANTS SpecialIsTraced MonitorsAreReal OwnFdsKept
PROPERTIES ExitReported WaiterWoken NoStarvation
VIEW View
CHECK_DEADLOCK FALSE
