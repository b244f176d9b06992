\* With the broadcast server and a window of two entries, for up to four hashes.
CONSTANTS
  Broadcast = TRUE
  Window = 1
  MaxHashes = 4
SPECIFICATION Spec
INVARIANTS
  TypeOK
  CountedOnce
PROPERTY RateComesBack
CHECK_DEADLOCK FALSE
