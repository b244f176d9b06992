\* One miner against a session that fails by a read error and reconnects (Spectre).
CONSTANTS
  m1 = m1
  Miners = {m1}
  Sides = {"user"}
  Protocol = "spectre"
  Causes = {"readError"}
  MaxFound = 2
  MaxJobs = 2
  MaxSessions = 2
SPECIFICATION FairSpec
INVARIANTS
  JoinedThreadIsAwake
PROPERTIES
  ImplementsPermits
  LostConnectionIsRetried
\* The bounds end a run: no more jobs, shares or sessions.
CHECK_DEADLOCK FALSE
