SPECIFICATION Spec
CONSTANTS
    Switch = {1, 2, 3, 4, 5}
    Root = 1
    Ports <- Hybrid
    HOST = HOST
    LinkDown = {}
    NonSdn = {3, 4, 5}
    Outcomes = {"ok"}
    Repetido = {FALSE}
    MAX_ELEMENTS = 6
    LIFETIME = 1
    Waves = 2
    SlowNetwork = FALSE
PROPERTIES AllAttach ExplorationsEnd
CHECK_DEADLOCK FALSE
