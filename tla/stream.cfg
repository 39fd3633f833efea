SPECIFICATION FairSpec
CONSTANTS
  MaxBytes = 4
  MaxLen = 3
  BufSize = 2
  IntMax = 16
INVARIANTS TypeOK Contiguous OutWhileCached
PROPERTIES SendMeansSent FifoSpec EventuallySent
