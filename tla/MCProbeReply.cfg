SPECIFICATION SuiteSpec
CONSTANTS
    Parts = {"rconn"}
    Xid = {m1}
    PROBE = PROBE
    PROBE_INTERVAL = 2
    MAX_BACKOFF = 4
    QUESTION_SECS = 2
    QUEUE_LIMIT = 2
    QUEUE_BOUND = 2
PROPERTY ProbeReplyEndsIdle
CHECK_DEADLOCK FALSE
