SPECIFICATION Spec
CONSTANTS
  g1 = g1
  g2 = g2
  Group = {g1, g2}
  NoGroup = NoGroup
  Limit <- LimitsMissing
  MaxNum = 2
  Protect <- Both
INVARIANTS TypeOK ToldHolds
PROPERTY ProtectedNeedsLogin
