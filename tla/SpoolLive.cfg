SPECIFICATION FairSpec
CONSTANTS
  Session = {p1, p2, r1}
  Poster = {p1, p2}
  Loader = {p2, r1}
  Msg = {m1, m2}
  NoMsg = NoMsg
  Faults <- Crashes
  InfoAtStart = TRUE
  Filtering = TRUE
INVARIANT SpamStaysOut
PROPERTY OperationsEnd
