SPECIFICATION FairSpec
CONSTANTS
  a = a
  ab = ab
  c = c
  Dir = {a, ab, c}
  Within <- WithinValue
  Lister = {l1}
  NoRecurse = {TRUE, FALSE}
  MaxChanges = 2
INVARIANTS TypeOK ListedOnce 
PROPERTY ListEnds
