\* Channels that fill up, one lost connection, the owner free to stop or drop.
CONSTANTS
  belt = belt
  Text = Text
  Blank = Blank
  Absent = Absent
  Assets = {belt}
  Numbers = {1, 2}
  EventCap = 1
  CommandCap = 1
  RequestCap = 1
  SpeedLimit = 1
  Messages <- MixedMessages
  CommandTopic <- MCCommandTopic
  MaxMessages = 3
  MaxOutages = 1
SPECIFICATION FairSpec
INVARIANTS
  EventsInOrder
  ModelsAgree
  
  
PROPERTIES
  DeliversUnlessJammed
  StopReturnsUnlessBlocked
CHECK_DEADLOCK FALSE
