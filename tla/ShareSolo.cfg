\* One mining thread, no dev-fee connection, a pool connection that lasts (Xelis).
CONSTANTS
  m1 = m1
  Miners = {m1}
  Sides = {"user"}
  Protocol = "xelis"
  Causes = {}
  MaxFound = 4
  MaxJobs = 4
  MaxSessions = 1
SPECIFICATION Spec
INVARIANTS
  SoloInv
  SentInOrder
PROPERTIES
  ImplementsMailbox
\* The bounds end a run: no more jobs, shares or sessions.
CHECK_DEADLOCK FALSE
