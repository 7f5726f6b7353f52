SPECIFICATION Spec
CONSTANT MaxUlong = 7
CHECK_DEADLOCK FALSE
INVARIANTS TypeOK LookupRight ListsTheRange
PROPERTY WalkReturns
