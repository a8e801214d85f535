SPECIFICATION MCSpec
CONSTANTS
    Files <- MCFiles
    Holds <- MCHolds
    Builds = {1, 2}
    Broken = 0
    Exe = "reclass"
    Configs = {"default", "own"}
    Default = "default"
    Accepts <- MCAccepts
    MaxEnqueued = 2
    Shipped = {"shipped.so"}
    NoWorker = 99
    MaxEvents = 5
INVARIANTS PluginsSound WorkerBacksStatus InstalledIsWhole
PROPERTIES ComesBack ReloadKeeps
CHECK_DEADLOCK FALSE
