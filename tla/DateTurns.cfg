SPECIFICATION Spec
CONSTANTS
  Match = {m1}
  Date = {d1}
  Request = {r1}
  Outcome = {o1}
  MaxMessages = 3
  MaxRequests = 2
  MaxFaults = 0
  None = None
INVARIANT SpeakersAlternate
CHECK_DEADLOCK FALSE
