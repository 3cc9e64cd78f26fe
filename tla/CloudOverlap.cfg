\* Two executions of one redelivered message; the database may fail at any await.
SPECIFICATION Spec
CONSTANTS
  Rows <- TwoRows
  ChunkOf <- TwoChunkOf
  RegOf <- TwoRegOf
  Quality <- TwoQuality
  Chunks = {0}
  Regs = {"CAA"}
  NoReg = "none"
  NoRow = 0
  FileKinds = {"rows", "headerOnly", "invalid"}
  Contested = {"CAA"}
  Faults = {"db"}
  Runs = {e1, e2}
  Requests = {"q1"}
  Archives = {FALSE}
  LoadAttempts = 2
  AggregateAttempts = 2
  MapConcurrency = 1
SYMMETRY Executions
INVARIANTS
  TypeOK
PROPERTIES
  ImplementsLifecycle
CHECK_DEADLOCK FALSE
