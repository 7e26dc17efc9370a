SPECIFICATION Spec
CONSTANTS
    Service = {overall}
    Overall = overall
    Reported = {}
    Watcher = {w1}
    NULL = NULL
INVARIANT WatcherIsUpToDate
CHECK_DEADLOCK FALSE
