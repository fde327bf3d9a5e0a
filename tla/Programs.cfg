SPECIFICATION MCSpec
CONSTANTS
  Globals = {"g"}
  Locals = {"x", "d"}
  Members = {"m", "e"}
  Captured = {"c"}
  Chars = {"d", "e"}
  Modulus = 3
  NumObjects = 10
  MaxPending = 2
  MaxStatements = 3
  CallNames <- AllNames
  CallFamilies <- AllFamilies
  ImplicitConstructors <- Constructors
INVARIANTS
  ReadsLastWrite
  NumbersAreNotShared
  LoopsFollowTheSource
  SlotsAreCounted
  BestIsChosen
  ArgumentsSuit
  SpecialisationsAreMeant
CHECK_DEADLOCK FALSE
