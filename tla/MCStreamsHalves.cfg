SPECIFICATION PathSpec
CONSTANTS
  Types = {NAME, ORG}
  Values = {a, b}
  Procs = {g1, g2, g3}
  NoEntity = NoEntity
  MaxLines = 5
  MaxSize = 2
  Paths <- TwoPaths
  Body = "content"
  Streams <- TwoStreams
  Window = 8
  Calls = {"o1", "a1", "a2"}
  Anthropic = {"a1", "a2"}
  Whole = 1
  Asking = {r1, r2}
  Asked = {x, y}
  FailureThreshold = 2
  Cooldown = 2
  CacheTTL = 2
  CacheSize = 1
  BufferSize = 2
  BatchSize = 2
  MaxEvents = 5
  TextLength = 3
  MaxFound = 3
  PassageLength = 8
  ChunkSize = 4
  Margin = 3
  ContextWindow = 1
  Bytes = {1, 2}
  MaxTerm = 3
  MaxTerms = 3
  MaxText = 5
  Payloads <- Loads
  MaxValueBytes = 2
INVARIANT NoHalfEmitted
CHECK_DEADLOCK FALSE
