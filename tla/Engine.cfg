\* Two groups, driven one after the other.
SPECIFICATION EngineSpec
CONSTANTS
    None = None
    ours = ours
    theirs = theirs
    here = here
    there = there
    elsewhere = elsewhere
    fan = fan
    tall = tall
    strip = strip
    Mac = {1, 2}
    Identity = {here}
    Shape = {fan}
    Duty = {10, 30, 100}
    Reported = {100}
    Percent = {10, 30, 100}
    Master <- MCMaster
    Home = ours
    OwnerOf <- MCOwnerOf
    FanShapes = {fan}
    Prepare <- MCPrepare
    Acks <- MCAcks
    OfflineAfter = 1
    ForgetAfter = 2
    AckWindow = 0
    Keepalive = 1
    Lapses = {1}
    Agree = 2
    MaxUnack = 0
    first = first
    swapped = swapped
    moved = moved
    Asked = {10}
    FloorPercent = 30
    FailsafePercent = 100
    PollFailures = 1
    Interval = 1
    RetryFirst = 1
    RetryMax = 1
    Pairing = {first}
    MasterOf <- MCMasterOf
    ChannelOf <- MCChannelOf
    MaxRequests = 1
INVARIANTS
    AlarmIsFullSpeed
    GroupsAreListedOnce
PROPERTIES
    KeepsPromise
CHECK_DEADLOCK FALSE
