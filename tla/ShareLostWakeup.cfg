\* The same with the Dero session, which notifies once, without the mutex.
CONSTANTS
  m1 = m1
  Miners = {m1}
  Sides = {"user"}
  Protocol = "dero"
  Causes = {"readError"}
  MaxFound = 1
  MaxJobs = 2
  MaxSessions = 2
SPECIFICATION FairSpec
PROPERTIES
  LostConnectionIsRetried
CHECK_DEADLOCK FALSE
