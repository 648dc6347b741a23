SPECIFICATION Spec
CONSTANTS
  Agent = {x, y}
  AutoAgents = {}
  AiAgents = {}
  Request = {r1}
  MaxRequests = 3
  MaxFaults = 0
  None = None
INVARIANT MatchIsMutual
CHECK_DEADLOCK FALSE
