SPECIFICATION Spec
CONSTANTS
  Daemon = d
  Session = {s1}
  Rotator = {r}
  Ofd = {1, 2, 3}
  MaxFiles = 3
  MaxLogSize = 1
  MaxRefused = 2
  Faults <- EveryFault
INVARIANTS TypeOK LogBounded NameComesBack LockHasWorker
PROPERTIES MessageInCurrentLog
