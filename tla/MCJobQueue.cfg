CONSTANTS
  Workers = {w1, w2}
  Helpers = {h1}
  Queues = {q1}
  OneOffs = {o1}
  Jobs = {j1, j2, j3}
  None = None
SPECIFICATION FairSpec
INVARIANTS IndInv
PROPERTIES SerialExecution PostedJobsRun
