SPECIFICATION Spec
CONSTANTS
  Session = {p1, p2, r1}
  Poster = {p1, p2}
  Loader = {r1}
  Msg = {m1, m2, m3}
  NoMsg = NoMsg
  Faults <- WholeInfo
  InfoAtStart = FALSE
  Filtering = FALSE
SYMMETRY Symmetry
INVARIANTS AckedAnnounced LoadCoversAcked UnwrittenUnannounced
PROPERTIES AckedNumberNotReused ImplementsStore
