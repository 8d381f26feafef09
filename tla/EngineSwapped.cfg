\* The dongle is swapped for another during an outage.
SPECIFICATION EngineSpec
CONSTANTS
    None = None
    ours = ours
    theirs = theirs
    here = here
    there = there
    elsewhere = elsewhere
    fan = fan
    tall = tall
    strip = strip
    Mac = {1}
    Identity = {here}
    Shape = {fan}
    Duty <- MCTwoDuties
    Reported <- MCTwoDuties
    Percent <- MCPercent
    Master <- MCMaster
    Home = ours
    OwnerOf <- MCOwnerOf
    FanShapes = {fan}
    Prepare <- MCPrepare
    Acks <- MCAcks
    OfflineAfter = 3
    ForgetAfter = 4
    AckWindow = 1
    Keepalive = 1
    Lapses = {1}
    Agree = 2
    MaxUnack = 0
    first = first
    swapped = swapped
    moved = moved
    Asked = {10}
    FloorPercent = 30
    FailsafePercent = 100
    PollFailures = 2
    Interval = 1
    RetryFirst = 1
    RetryMax = 2
    Pairing = {first, swapped}
    MasterOf <- MCMasterOf
    ChannelOf <- MCChannelOf
    MaxRequests = 1
INVARIANTS
    GroupsBelongToDongle
CHECK_DEADLOCK FALSE
