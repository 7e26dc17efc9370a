SPECIFICATION Spec
CONSTANTS
    Service = {overall, tenants}
    Overall = overall
    Reported = {tenants}
    Watcher = {w1}
    NULL = NULL
INVARIANTS TypeOK  NoSenderWaits 
PROPERTIES MutexReleased ShutdownEnds
CHECK_DEADLOCK FALSE
