SPECIFICATION Spec
CONSTANTS
  Scenarios = {catalog, payment}
  Gated = catalog
  MaxBatches = 2
  MaxMarred = 2
INVARIANTS FixtureTellsTruth FixtureIsSealed LabIsLeftAsFound
PROPERTY EveryScenarioReported
CHECK_DEADLOCK FALSE
