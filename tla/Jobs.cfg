\* Every protocol, one miner, both pools, changes of difficulty.
CONSTANTS
  Miners = {m1}
  Pools = {"user", "dev"}
  Protocols = {"spectre", "xelis", "getwork", "rx0", "dero"}
  MaxJobs = 2
  MaxCounter = 1
SPECIFICATION FairSpec
INVARIANTS
  TypeOK
  DecodedShareNamesItsJob
  
  DecodedBeforeShare
PROPERTIES
  MiningContinues
\* The pools stop sending at the bound.
CHECK_DEADLOCK FALSE
