SPECIFICATION FairSpec
CONSTANTS
  Agent = {x, y, z}
  AutoAgents = {x}
  AiAgents = {x}
  Request = {r1, r2, r3}
  MaxRequests = 3
  MaxFaults = 1
  None = None
INVARIANTS TypeOK MatchCreatedOnce
PROPERTIES KeepsIntroduction MutualSwipesMatch MatchIsAnnounced
CHECK_DEADLOCK FALSE
