\* Two groups, refreshes, restarts of the host and failures of the file.
SPECIFICATION Spec
CONSTANTS
    None = None
    Mac = {a, b}
    FanCounts <- MCFanCounts
    Values <- MCValues
INVARIANTS
    OnlyTheLastSaid
    AskedIsHandedOver
    FileHoldsMemory
PROPERTIES
    GivenOnceGivenAlways
