SPECIFICATION FairSpec
CONSTANTS
  Kinds <- MCKinds
  Configurations <- MCConfigurations
  MaxCommands = 4
  MaxRestarts = 1
INVARIANTS TypeOK AgreesAtRest ShownIsConfigured HealthGoesWithFault
PROPERTIES AbortsAndResetsEnd ImplementsSubDevice
CHECK_DEADLOCK FALSE
