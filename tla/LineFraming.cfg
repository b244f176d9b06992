\* Every way to cut five messages into reads, any of whose handlers may throw.
CONSTANTS
  Protocols = {"xelis", "rx0", "spectre"}
  MaxMessages = 5
SPECIFICATION Spec
INVARIANTS
  TypeOK
  HandledInOrder
  OnlyCutMessagesAreLost
  CutMessagesAreJoined
PROPERTIES
  ImplementsChannel
CHECK_DEADLOCK FALSE
