SPECIFICATION Spec
CONSTANTS
  Agent = {a1, a2}
  None = None
  Versions = 1
  MaxCalls = 2
  MaxMoves = 5
SYMMETRY Symmetry
INVARIANTS TypeOK EditsStayHome FreshIsTrue CardShowsProfile
PROPERTIES AnswersStayOnForm
CHECK_DEADLOCK FALSE
