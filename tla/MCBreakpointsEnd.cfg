SPECIFICATION MCSpec
CONSTANTS
  Addr = {0, 1, 2, 3}
  Byte = {"0xCC", "x"}
  breakpoint_insn = "0xCC"
  BpAddrs = {1, 2}
  Writes <- EndingWrites
  MaxRefs = 2
  OddWatches = {}
  OddMaps = {}
  MapRanges <- MCMapRanges
INVARIANT Armed
CHECK_DEADLOCK FALSE
