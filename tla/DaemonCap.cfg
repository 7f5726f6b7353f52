SPECIFICATION FairSpec
CONSTANTS
  MaxClients = 4
  ReapLimit = 100
INVARIANTS TypeOK MaxClientsHold NeverUndercounts
PROPERTY ZombiesReaped
