SPECIFICATION FairSpec
CONSTANTS
  Mine = {a1, a2}
  Other = {b1}
  None = None
  MaxDates = 1
  MaxCalls = 2
  MaxMoves = 4
INVARIANTS TypeOK NamesThePartner RatesOnlyEnded MatchExists DoneMeansRated
PROPERTIES AnswersStayHome DoneLeaves
CHECK_DEADLOCK FALSE
