\* Room for every event, one lost connection: the client is the only bottleneck.
CONSTANTS
  belt = belt
  Text = Text
  Blank = Blank
  Absent = Absent
  Assets = {belt}
  Numbers = {1, 2}
  EventCap = 4
  CommandCap = 2
  RequestCap = 1
  SpeedLimit = 1
  Messages <- AlarmMessages
  CommandTopic <- MCCommandTopic
  MaxMessages = 2
  MaxOutages = 1
SPECIFICATION FairSpec
PROPERTIES
  KeepsPolling
CHECK_DEADLOCK FALSE
