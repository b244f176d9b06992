\* Every protocol, both sides.
CONSTANTS
  Sides = {"user", "dev"}
  Protocols = {"spectre", "xelis", "getwork", "rx0", "xatum", "dero"}
  JobTimeout = 2
SPECIFICATION FairSpec
INVARIANTS
  TypeOK
  FreshJob
  ConnectedIsServed
  PacketsExclude
PROPERTIES
  EndedIsRetried
  ReadErrorIsNoticed
  PacketLockIsReleased
\* A session that returns connected stops its side for good.
CHECK_DEADLOCK FALSE
