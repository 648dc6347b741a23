SPECIFICATION FairSpec
CONSTANTS
  Match = {m1, m2}
  Date = {d1, d2}
  Request = {r1, r2}
  Outcome = {o1}
  MaxMessages = 3
  MaxRequests = 4
  MaxFaults = 1
  None = None
INVARIANTS TypeOK AtMostOneLateMessage WithinBudget AnnouncedIsCommitted WaitingIsSilent SpeakersTakeTurns
PROPERTIES KeepsPromise ConversationEnds EndIsAnnounced
CHECK_DEADLOCK FALSE
