SPECIFICATION Spec
CONSTANTS
    Switch = {1, 2, 3}
    Root = 1
    Ports <- HostTriangle
    HOST = HOST
    LinkDown = {}
    NonSdn = {3}
    Outcomes = {"ok", "add_fails", "ip_fails"}
    Repetido = {FALSE}
    MAX_ELEMENTS = 2
    LIFETIME = 0
    Waves = 2
    SlowNetwork = TRUE
INVARIANTS InBandTree NoFalseLinks
CHECK_DEADLOCK FALSE
