SPECIFICATION FairSpec
CONSTANTS
  Date = {d1, d2}
  Rater = {p1}
  Agent = {g1}
  Stars = {2, 5}
  Request = {r1, r2}
  AcquaintanceDates = 1
  ColleagueDates = 3
  PartnerDates = 10
  MinPoints = 2
  MaxRatings = 4
  MaxFaults = 1
  None = None
INVARIANTS TypeOK TierFollowsDates BadgeWriteUnreachable RowIsOneReading NewAgentHasNoComposite
PROPERTIES RatingIsStored
CHECK_DEADLOCK FALSE
