\* Liveness: every request and message, nothing dies.
SPECIFICATION FairSpec
CONSTANTS
  Rows <- TwoRows
  ChunkOf <- TwoChunkOf
  RegOf <- TwoRegOf
  Quality <- TwoQuality
  Chunks = {0}
  Regs = {"CAA"}
  NoReg = "none"
  NoRow = 0
  FileKinds = {"rows", "headerOnly", "invalid"}
  Contested = {}
  Faults = {"store", "publish"}
  Runs = {"s1", "s2"}
  ServiceRuns = {"s1", "s2"}
  ToolRuns = {}
  Overlap = TRUE
  Requests = {"q1", "q2", "q3"}
  Archives = {TRUE, FALSE}
  LOAD_ATTEMPTS = 2
  MaxConcurrency = 1
PROPERTIES
  ProcessingEnds
  PublishedIsDecided
CHECK_DEADLOCK FALSE
