\* One miner, both sides, the user by stratum or solo, two seeds.
CONSTANTS
  Miners = {m1}
  Modes = {"stratum", "solo"}
  UserSeeds = {1, 2}
  DevSeeds = {1}
  MaxCounter = 1
SPECIFICATION FairSpec
INVARIANTS
  TypeOK
  JobHasDataset
  
  DatasetIsComing
PROPERTIES
  HashingGoesOn
