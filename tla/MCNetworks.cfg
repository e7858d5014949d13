SPECIFICATION SuiteSpec
CONSTANTS
    Parts = {"mac_table", "stp", "wire", "onos"}
    MAC = {m1, m2}
    Port = {1, 2}
    NumSec = {7}
    Lifetime = {1, 2}
    MaxElements = 3
    Addr = {a1, a2, a3}
    NULL = NULL
INVARIANT ControllerReads
PROPERTIES  LinksComeBack ListsAreTables
