SPECIFICATION Spec
CONSTANTS
  MaxClients = 3
  ReapLimit = 100
PROPERTY RefusedOnlyWhenFull
