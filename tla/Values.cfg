SPECIFICATION MCSpec
CONSTANTS
  IntLimit = 4
  CharLimit = 4
  Ints <- MCInts
  Halves <- MCHalves
  Chars = {0, 1, 3}
  Texts = {"s"}
  MaxOperators = 2
  Absent = Absent
  Exception = Exception
  Ended = Ended
  Variables = {"x", "y"}
  Assignments <- MCAssignments
  Headers <- MCHeaders
  MaxStatements = 6
  MaxDepth = 2
INVARIANTS
  OneMeaning
  TypeIsKept
  CompoundMeansOperator
  AnswersAreMeant
  SureReadsHold
CHECK_DEADLOCK FALSE
