\* Two overlapping executions of one chunk; the database may fail at any await.
SPECIFICATION Spec
CONSTANTS
  Rows <- TwoRows
  ChunkOf <- TwoChunkOf
  RegOf <- TwoRegOf
  Quality <- TwoQuality
  Chunks = {0}
  Regs = {"CAA"}
  NoReg = "none"
  NoRow = 0
  FileKinds = {"rows"}
  Contested = {"CAA"}
  Faults = {"db"}
  Runs = {"s1", "t1"}
  ServiceRuns = {"s1"}
  ToolRuns = {"t1"}
  Overlap = TRUE
  Requests = {"q1"}
  Archives = {FALSE}
  LOAD_ATTEMPTS = 2
  MaxConcurrency = 1
INVARIANTS
  TypeOK
  LoadedChunksAreAccounted
  CompletedListsEveryRow
PROPERTIES
  ImplementsLifecycle
CHECK_DEADLOCK FALSE
