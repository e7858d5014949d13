SPECIFICATION Spec
CONSTANTS
    Switch = {1, 2, 3}
    Root = 1
    Ports <- Line
    HOST = HOST
    LinkDown = {}
    NonSdn = {2}
    Outcomes = {"ok"}
    Repetido = {FALSE}
    MAX_ELEMENTS = 3
    LIFETIME = 1
    Waves = 1
    SlowNetwork = FALSE
INVARIANTS PassedOn
CHECK_DEADLOCK FALSE
