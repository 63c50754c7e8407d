CONSTANTS
  Stoppers = {"thread"}
  Scripts <- ListScript
  Separator = "comma"
SPECIFICATION FairSpec
PROPERTIES EndsUnlessLost
CHECK_DEADLOCK FALSE
