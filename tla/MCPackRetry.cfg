SPECIFICATION MCSpec
CONSTANTS
  NumThreads = 2
  BlockSize = 2
  MaxBytes = 11
  WriteSizes = {3, 5}
  UINT64_MAX = 1000
  CanFail = TRUE
PROPERTY PackAlwaysCompletes
