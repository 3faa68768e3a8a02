SPECIFICATION Spec
CONSTANTS
    database = database
    config = config
    Migrators = {"service", "installer"}
    Files <- SomeFiles
    Schedules <- SomeSchedules
    LastVersion = 2
    Keep = 1
    MaxBackups <- SomeBackups
    MaxEdits = 3
    MaxCrashes = 1
INVARIANTS TypeOK BackupIsConsistent MarkerIsInstalled WrittenOnce MigratedWhole
CHECK_DEADLOCK FALSE
