CONSTANTS
  t1 = t1
  t2 = t2
  t3 = t3
  r1 = r1
  r2 = r2
  r3 = r3
  q1 = q1
  w1 = w1
  w2 = w2
  w3 = w3
  v1 = v1
  Threads <- MCThreads
  ReadGuards <- MCReadGuards
  WriteGuards <- MCWriteGuards
  By <- MCBy
  Id <- GrpcIds
SPECIFICATION Spec
INVARIANTS Exclusive
CHECK_DEADLOCK FALSE
