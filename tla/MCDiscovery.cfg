CONSTANTS
  Scripts <- CommandScripts
  Stoppers = {"thread", "unload"}
  Separator = "space"
  MaxBeacons = 2
  LastCount = 3
  Types <- DeviceTypes
  Dcc <- TwoDccs
  Unsafe <- UnsafeNames
  None = None
  Plans <- DiscoveryPlans
  MaxMessages = 2
SPECIFICATION DiscFairSpec
INVARIANTS RecordedIsComplete NoRecordLost
PROPERTIES EndsUnlessLost StopperNotStuck MessagesEnd
CHECK_DEADLOCK FALSE
