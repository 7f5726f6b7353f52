SPECIFICATION Spec
CONSTANTS
  Daemon = d
  Session = {s1, s2}
  Rotator = {}
  Ofd = {1, 2, 3}
  MaxFiles = 3
  MaxLogSize = 1
  MaxRefused = 2
  Faults <- NoFaults
PROPERTIES RotatesLargeOnly
