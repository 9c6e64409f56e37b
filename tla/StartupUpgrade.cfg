CONSTANTS
  NoDb = NoDb
  MaxWrites = 2
  MaxCrashes = 2
  MaxFaults = 2
SPECIFICATION Spec
INVARIANTS
  BusinessDataSurvives
  ServesMigratedOnly
  MigrationIsCovered
PROPERTIES
  ClosesExactly
  RefinesDurableStore
  
