CONSTANTS
  Users <- TwoUsers
  Messages = {"m1", "m2", "m3"}
  QueueSize = 2
  Plans <- MqttPlans
  None = None
  MaxSent = 2
SPECIFICATION FairSpec
INVARIANTS ConnectedWasAccepted ClosedStaysClosed Resubscribed
PROPERTIES ReturnedIsSent
CHECK_DEADLOCK FALSE
