SPECIFICATION FairSpec
CONSTANTS
  Kinds <- MCKinds
  Configurations <- MCConfigurations
  MaxCommands = 2
  MaxRestarts = 0
PROPERTY ConfigurationsEnd
CHECK_DEADLOCK FALSE
