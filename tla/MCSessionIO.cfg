SPECIFICATION FairSpec
CONSTANTS
  Apps = {a1, a2}
  Msgs = {m1, m2}
  None = None
INVARIANTS IndInv NoCrash KeptAlive InOrder Listening
PROPERTIES Sent Reclaimed
CHECK_DEADLOCK FALSE
