SPECIFICATION SuiteSpec
CONSTANTS
    Parts = {"remotes", "meters", "ports", "arp_path"}
    Remote = {c1, c2, c3}
    NoRemote = NoRemote
    GEN_MODULUS = 4
    AsyncConfig <- TwoConfigs
    DefaultConfig <- AllReasons
    TXQ_LIMIT = 1
    MeterMods <- MCMeterMods
    Second = 4
    Word = 32
    Sizes = {1, 3}
    Marks = {1, 2}
    Periods = {3, 4, 5}
    MaxClock = 12
    MaxBurst = 3
    Interfaces = {"eth1", "eth2", "tap"}
    PortLists <- MCPortLists
    LocalPorts <- MCLocalPorts
    PortRequests <- MCPortRequests
    DP_MAX_PORTS = 3
    OFPP_LOCAL = 100
    OFPP_ANY = 101
    OFPQ_ALL = 102
    Slicing = 2
    MaxPackets = 1
    Switches = {1, 2, 3}
    Peer <- MCPeer
    Ends <- MCEnds
    Hosts <- MCHosts
    Asked <- MCAsked
    LT_TIME = 0
    MaxRequests = 1
    MaxTicks = 1
    MaxFloods = 2
INVARIANTS
    AtMostOneMaster  
    MeterExact PortsAsReported 
PROPERTY RoleChangesHaveACause
SYMMETRY RemoteSymmetry
