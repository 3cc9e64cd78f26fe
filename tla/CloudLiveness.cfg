\* One execution of two chunks, started although the API process may have died.
SPECIFICATION FairSpec
CONSTANTS
  Rows <- ThreeRows
  ChunkOf <- ThreeChunkOf
  RegOf <- ThreeRegOf
  Quality <- ThreeQuality
  Chunks = {0, 1}
  Regs = {"CAA"}
  NoReg = "none"
  NoRow = 0
  FileKinds = {"rows", "invalid"}
  Contested = {}
  Faults = {"store", "publish", "crash"}
  Runs = {"e1"}
  Requests = {"q1", "q2", "q3"}
  Archives = {TRUE, FALSE}
  LoadAttempts = 2
  AggregateAttempts = 2
  MapConcurrency = 2
INVARIANTS
  MapResultAccountsForFile
PROPERTIES
  ProcessingEnds
  PublishedIsDecided
CHECK_DEADLOCK FALSE
