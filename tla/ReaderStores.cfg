SPECIFICATION Spec
CONSTANTS
  Articles <- Ways
  LineWidth = 3
  MayHangUp = TRUE
CHECK_DEADLOCK FALSE
INVARIANTS TypeOK StoredAsMeant OverviewRight LoadsIffNamed FoundById
  SentAsReceived RefusedExactly MailedWhole
