SPECIFICATION ServerSpec
CONSTANTS
  Ups = {i1, up}
  Downs = {down}
  LastVersion = 2
  Requires <- RefersToPrevious
  Indexed = {1}
  MaxMigrationFaults = 1
  SkipMigrations = {}
  Daemons = {outbox, projector}
  Projector = projector
  Requests = {http}
  Rpcs = {stream}
  Instances = {i1}
  MaxServerFaults = 1
INVARIANTS
  ServerTypeOK
  RecordMatchesSchema
  AppliedWithoutGap
  DaemonsKeepTheirPools
  CallsKeepTheirPool
PROPERTIES
  RollbackLeavesNothing
  ShutdownCompletes
  EveryInstanceServes
