\* Two threads; the threads' own counters run over, the shared ones are raced and reset.
CONSTANTS
  Protocols = {"dero", "rx0", "xelis", "spectre", "astrix"}
  Threads = {1, 3}
  TidSize = 4
  CounterSize = 4
  Batch = 2
  MaxOwn = 6
  MaxShared = 2
SPECIFICATION Spec
INVARIANTS
  TypeOK
  NoSharedNonce
  NewNonceEachTime
