\* One chunk of two fails in a row stage.
SPECIFICATION Spec
CONSTANTS
  Rows <- ThreeRows
  ChunkOf <- ThreeChunkOf
  RegOf <- ThreeRegOf
  Quality <- ThreeQuality
  Chunks = {0, 1}
  Regs = {"CAA"}
  NoReg = "none"
  NoRow = 0
  FileKinds = {"rows"}
  Contested = {}
  Faults = {"store"}
  Runs = {"e1"}
  Requests = {"q1"}
  Archives = {FALSE}
  LoadAttempts = 2
  AggregateAttempts = 2
  MapConcurrency = 1
INVARIANTS
  FailedChunkGivesPartial
CHECK_DEADLOCK FALSE
