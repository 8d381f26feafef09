\* Three devices that come, go quiet, return and are forgotten, driven or not.
SPECIFICATION Spec
CONSTANTS
    None = None
    ours = ours
    theirs = theirs
    here = here
    there = there
    elsewhere = elsewhere
    fan = fan
    tall = tall
    strip = strip
    Mac = {1, 2, 3}
    Identity = {here, there}
    Shape = {fan}
    Duty = {30}
    Reported = {30}
    Percent = {30}
    Master <- MCMaster
    Home = ours
    OwnerOf <- MCOwnerOf
    FanShapes = {fan}
    Prepare <- MCPrepare
    Acks <- MCAcks
    OfflineAfter = 0
    ForgetAfter = 2
    AckWindow = 0
    Keepalive = 0
    Lapses = {1}
    Agree = 2
    MaxUnack = 0
INVARIANTS
    OrderInv
PROPERTIES
    PlacesAreKept
    ForgottenWhenSilent
