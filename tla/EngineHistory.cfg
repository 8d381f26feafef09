\* One group, uneven ticks, outages long enough for a full scan, hosts that ask and release.
SPECIFICATION HSpec
CONSTANTS
    None = None
    ours = ours
    theirs = theirs
    here = here
    there = there
    elsewhere = elsewhere
    fan = fan
    tall = tall
    strip = strip
    Mac = {1}
    Identity = {here}
    Shape = {fan}
    Duty <- MCTwoDuties
    Reported <- MCTwoDuties
    Percent <- MCPercent
    Master <- MCMaster
    Home = ours
    OwnerOf <- MCOwnerOf
    FanShapes = {fan}
    Prepare <- MCPrepare
    Acks <- MCAcks
    OfflineAfter = 5
    ForgetAfter = 6
    AckWindow = 1
    Keepalive = 2
    Lapses = {1, 2}
    Agree = 2
    MaxUnack = 0
    first = first
    swapped = swapped
    moved = moved
    Asked = {10}
    FloorPercent = 30
    FailsafePercent = 100
    PollFailures = 3
    Interval = 2
    RetryFirst = 2
    RetryMax = 7
    Pairing = {first, moved}
    MasterOf <- MCMasterOf
    ChannelOf <- MCChannelOf
    MaxRequests = 2
INVARIANTS
    PromiseInv
    LastRequestCounts
    FirstFormOnce
    TargetsHaveReasons
PROPERTIES
    FullSpeedBeforeClosing
    RetriesAreSpaced
CHECK_DEADLOCK FALSE
