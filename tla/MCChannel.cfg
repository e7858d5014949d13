SPECIFICATION SuiteSpec
CONSTANTS
    Parts = {"rconn", "relay", "in_band", "failover", "vconn", "waiting"}
    Xid = {m1}
    PROBE = PROBE
    PROBE_INTERVAL = 2
    MAX_BACKOFF = 3
    QUESTION_SECS = 2
    QUEUE_LIMIT = 2
    QUEUE_BOUND = 2
INVARIANTS RconnSound DeliveredInOrder
PROPERTIES ConnectsAgain Drained ReachesController FindsController
     NothingMissed
CHECK_DEADLOCK FALSE
