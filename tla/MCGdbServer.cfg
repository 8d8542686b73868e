SPECIFICATION Spec
CONSTANTS
  Tasks = {"A", "B", "X"}
  NoTask = "none"
  Group <- MCGroup
  Split = FALSE
  Trace <- MCTrace
  Debuggee = "d"
  Start = 0
  Packets <- MCPackets
  Symbols <- MCSymbols
  KeepListening = TRUE
  MaxPackets = 4
  MaxResumes = 2
  MaxInts = 1
  MaxConnects = 2
  Mortal = {"restart"}
  MaxDiverted = 1
  Odd = {}
INVARIANT InStep
PROPERTIES Answered
CHECK_DEADLOCK FALSE
