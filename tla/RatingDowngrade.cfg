SPECIFICATION Spec
CONSTANTS
  Date = {d1}
  Rater = {p1}
  Agent = {g1}
  Stars = {5}
  Request = {r1}
  AcquaintanceDates = 1
  ColleagueDates = 3
  PartnerDates = 10
  MinPoints = 5
  MaxRatings = 4
  MaxFaults = 1
  None = None
PROPERTY StoredTierNeverDrops
CHECK_DEADLOCK FALSE
