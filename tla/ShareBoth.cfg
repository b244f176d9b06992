\* Two miners, both sides, while both connections last (Xelis).
CONSTANTS
  m1 = m1
  m2 = m2
  Miners = {m1, m2}
  Sides = {"user", "dev"}
  Protocol = "xelis"
  Causes = {}
  MaxFound = 2
  MaxJobs = 2
  MaxSessions = 1
SYMMETRY MinerSymmetry
SPECIFICATION Spec
INVARIANTS
  TypeOK
  SubmitExclusion
  ReadyHeldWhileSending
  NoExtraSubmission
PROPERTIES
  EvaluationIsStable
  ImplementsPermits
\* The bounds end a run: no more jobs, shares or sessions.
CHECK_DEADLOCK FALSE
