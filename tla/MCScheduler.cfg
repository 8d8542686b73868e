\* Two threads of one process and one of another, with changing priorities,
\* and chaos mode: random priorities and high-priority-only intervals.
SPECIFICATION Spec
CONSTANTS
  N = 3
  Group <- TwoThreads
  Initial <- FirstTask
  Priorities <- TwoPriorities
  MaxSlice = 3
  ChaosModes = {TRUE, FALSE}
  always_switch = FALSE
INVARIANTS EveryTaskIsInOne NoEventLost
PROPERTIES HighestPriorityRuns
