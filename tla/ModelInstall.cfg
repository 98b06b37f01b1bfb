SPECIFICATION InstallSpec
CONSTANTS
    Revision = {"r1", "r2"}
    File = {"config", "weights"}
    FilesOf <- MCFilesOf
    Chunks <- MCChunks
    Weights = {"weights"}
    Fetchers = {"hub", "raw", "local"}
    MaxInstalls = 2
    MaxRestarts = 1
INVARIANTS
    CleanInstallIsWhole
    InstalledIsOnDisk
PROPERTIES
    InstallsSettle
CHECK_DEADLOCK FALSE
