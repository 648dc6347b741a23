SPECIFICATION FairSpec
CONSTANTS
  Socket = {s1, s2, s3}
  Topic = {0, 1, 2, chat}
  HeartbeatFailLimit = 2
  MaxFaults = 1
  MaxAgents = 2
  InitialAgents = {1}
  PageTopic = {chat}
  MaxMoves = 3
  None = None
INVARIANTS TypeOK ServerHearsTheScreen NeverStuck OpenIsBacked ChoiceStands LoggedOutIsAnonymous
PROPERTIES NoTokenReturns Settles
CHECK_DEADLOCK FALSE
