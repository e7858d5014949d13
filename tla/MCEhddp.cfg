SPECIFICATION Spec
CONSTANTS
    Switch = {1, 2, 3, 4}
    Root = 1
    Ports <- RootRing
    HOST = HOST
    LinkDown = {}
    NonSdn = {3}
    Outcomes = {"ok"}
    Repetido = {FALSE}
    MAX_ELEMENTS = 4
    LIFETIME = 2
    Waves = 2
    SlowNetwork = FALSE
INVARIANTS OnceDownOnceUp 
CHECK_DEADLOCK FALSE
