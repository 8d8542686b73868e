SPECIFICATION MCSpec
CONSTANTS
  Tasks = {"A", "B"}
  Code <- MCCode
  Syscalls = {"clone", "write", "exit"}
  Branches = {"a2"}
  ReadOnly = {"clone"}
  Traces <- MCTraces
  FirstTasks = {"A"}
  UserAddrs = {}
  Debugged = {"elsewhere"}
  MaxStray = 0
  MaxClones = 0
  Entry = "start"
  Summaries <- MCSummaries
  OldSymbol <- MCOldSymbol
  NewFunctions = {"fun_f", "fun_g", "fun_h"}
  Live <- MCLive
  MetadataOutput = FALSE
  Patches <- MCPatches
  Layouts <- UserPages
  Limit = 12
  None = None
INVARIANTS CompleteAtTarget LinesFound SlotIsFree
PROPERTIES  RetiredAtItsPoint ReplayEnds  LiveInOwnVersion MuplayEndsAfterHit
