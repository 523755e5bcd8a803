\* The compose file's three services, one event, two faults, downs and downgrades.
SPECIFICATION DeploymentSpec
CONSTANTS
  Publishers = {"outbox-publisher"}
  Messages = {m1}
  MaxCrashes = 2
INVARIANTS
  NothingDropped
  SchemaBeforeServing
  NoPartialSchema
  RetriesAreWired
PROPERTIES
  FailuresAreRaces
  NobodyWaitsForever
