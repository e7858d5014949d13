SPECIFICATION SuiteSpec
CONSTANTS
    Parts = {"table_refs", "flow_table", "features", "requests"}
    ANY = ANY
    Flow <- MCFlow
    Array <- MCArray
    Group <- MCGroup
    Meter <- MCMeter
    BucketLists <- MCBucketLists
    FlowInstructions <- MCFlowInstructions
    Bands <- MCBands
    GROUP_TABLE_MAX_ENTRIES = 3
    GROUP_TABLE_MAX_BUCKETS = 4
    DEFAULT_MAX_METER = 1
    METER_TABLE_MAX_BANDS = 1
    Garbage <- MCGarbage
    WORD = 8
    FREE = FREE
INVARIANTS
    NoStaleFlowRefs ForwardedGroupsExist GroupsLoopFree  OneRequestInForce
PROPERTIES FlowTableExact 
CONSTRAINT Defined
