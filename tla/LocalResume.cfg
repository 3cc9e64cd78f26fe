\* A crash between any two steps, then a rerun that resumes: two chunks, every kind of file.
SPECIFICATION Spec
CONSTANTS
  Rows <- ThreeRows
  ChunkOf <- ThreeChunkOf
  RegOf <- ThreeRegOf
  Quality <- ThreeQuality
  Chunks = {0, 1}
  Regs = {"CAA"}
  NoReg = "none"
  NoRow = 0
  FileKinds = {"rows", "headerOnly", "invalid"}
  Contested = {"CAA"}
  Faults = {"crash", "store"}
  Runs = {"s1", "t1"}
  ServiceRuns = {"s1"}
  ToolRuns = {"t1"}
  Overlap = FALSE
  Requests = {"q1"}
  Archives = {FALSE}
  LOAD_ATTEMPTS = 2
  MaxConcurrency = 2
INVARIANTS
  ResumeSkipsLoadedChunks
  CountsMatchDatabase
PROPERTIES
  FailedNoticeIsTrue
CHECK_DEADLOCK FALSE
