CONSTANTS
  Threads <- TwoThreads
  Entities <- TwoEntities
  Gateway = "gateway"
  IdSpace = 3
  None = None
  Registered <- EdgeSystem
  Plans <- Shared
  MaxFaults = 2
SPECIFICATION FairSpec
INVARIANTS IdsDifferUnlessRaced RecordedWasAccepted PropertiesKept OwnUuidUnlessOverlap
PROPERTIES AtMostOneReply CallsEnd
CHECK_DEADLOCK FALSE
