CONSTANTS
    MaxWorkers = 2
    ReadyTimeout = TRUE
    None = None
SPECIFICATION Spec
PROPERTY CrashReported
\* The master stops spawning after MaxWorkers workers; it then waits.
CHECK_DEADLOCK FALSE
