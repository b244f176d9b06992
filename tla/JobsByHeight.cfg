\* Spectre: the height is recorded after the job was decoded.
CONSTANTS
  Miners = {m1}
  Pools = {"user"}
  Protocols = {"spectre"}
  MaxJobs = 2
  MaxCounter = 0
SPECIFICATION Spec
INVARIANTS
  UserShareNamesItsJob
\* The pools stop sending at the bound.
CHECK_DEADLOCK FALSE
