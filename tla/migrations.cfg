SPECIFICATION Spec
CONSTANT Databases <- MCDatabases
INVARIANTS
  MigrationsSucceed
  EntitiesFit
