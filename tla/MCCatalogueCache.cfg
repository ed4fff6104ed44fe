SPECIFICATION Spec
CONSTANTS
  p1 = p1
  p2 = p2
  r1 = r1
  r2 = r2
  Process <- MCProcess
  Request <- MCRequest
  HomeOf <- MCHomeOf
  NChunk = 1
  MaxWrite = 2
  MaxGen = 3
  Faults = {"valkey", "evict", "crash"}
SYMMETRY Symmetric
INVARIANTS
  TypeOK
  StoredAfterItsGeneration
  AnswersAreFresh
PROPERTIES
  ImplementsReads
