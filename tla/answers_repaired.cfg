SPECIFICATION AnsweringSpec
CONSTANTS
  d1 = d1
  d2 = d2
  Document = {d1, d2}
  Chunk <- SomeChunks
  Queries <- SomeQueries
  Role = {"EMPLOYEE"}
  Scale = 10000
  Threshold = 5500
  TopK = 2
  TopN = 2
INVARIANT RedactedIsRedacted
CHECK_DEADLOCK FALSE
