SPECIFICATION SuiteSpec
CONSTANTS
    Parts = {"relay"}
    Xid = {m1}
    PROBE = PROBE
    PROBE_INTERVAL = 2
    MAX_BACKOFF = 3
    QUESTION_SECS = 2
    QUEUE_LIMIT = 2
    QUEUE_BOUND = 2
INVARIANT RateLimited
CHECK_DEADLOCK FALSE
