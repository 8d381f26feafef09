\* One group, a dongle known by its contract only: what the worker's own progress brings about.
SPECIFICATION LiveSpec
CONSTANTS
    None = None
    ours = ours
    theirs = theirs
    here = here
    there = there
    elsewhere = elsewhere
    fan = fan
    tall = tall
    strip = strip
    Mac = {1}
    Identity = {here}
    Shape = {fan}
    Duty <- MCTwoDuties
    Reported <- MCTwoDuties
    Percent <- MCPercent
    Master <- MCMaster
    Home = ours
    OwnerOf <- MCOwnerOf
    FanShapes = {fan}
    Prepare <- MCPrepare
    Acks <- MCAcks
    OfflineAfter = 3
    ForgetAfter = 4
    AckWindow = 1
    Keepalive = 1
    Lapses = {1}
    Agree = 2
    MaxUnack = 0
    first = first
    swapped = swapped
    moved = moved
    Asked = {10}
    FloorPercent = 30
    FailsafePercent = 100
    PollFailures = 2
    Interval = 2
    RetryFirst = 1
    RetryMax = 2
    Pairing = {first, moved}
    MasterOf <- MCMasterOf
    ChannelOf <- MCChannelOf
    MaxRequests = 1
PROPERTIES
    KeepsEngine
    StopEnds
    RequestsAreTaken
    RetriesGoOn
    DutiesArrive
CHECK_DEADLOCK FALSE
