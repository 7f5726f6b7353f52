SPECIFICATION Spec
CONSTANTS
  Session = {p1, p2, r1}
  Poster = {p1, p2}
  Loader = {r1}
  Msg = {m1, m2}
  NoMsg = NoMsg
  Faults <- NoFaults
  InfoAtStart = TRUE
  Filtering = TRUE
PROPERTY FilterDecides
