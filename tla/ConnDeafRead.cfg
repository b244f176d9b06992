\* RX0, both sides: the dev's jobs keep the user's dead session going.
CONSTANTS
  Sides = {"user", "dev"}
  Protocols = {"rx0"}
  JobTimeout = 1
SPECIFICATION FairSpec
PROPERTIES
  BrokenLinkIsReplaced
