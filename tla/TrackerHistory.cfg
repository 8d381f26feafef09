\* One device whose records may be garbled, driven and released.
SPECIFICATION HSpec
CONSTANTS
    None = None
    ours = ours
    theirs = theirs
    here = here
    there = there
    elsewhere = elsewhere
    fan = fan
    tall = tall
    strip = strip
    Mac = {1}
    Identity = {here, there, elsewhere}
    Shape <- MCDevices
    Duty <- MCReported
    Reported <- MCReported
    Percent <- MCAsked
    Master <- MCMaster
    Home = ours
    OwnerOf <- MCOwnerOf
    FanShapes <- MCFans
    Prepare <- MCCommand
    Acks <- MCMatches
    OfflineAfter = 1
    ForgetAfter = 3
    AckWindow = 0
    Keepalive = 1
    Lapses = {1}
    Agree = 3
    MaxUnack = 1
INVARIANTS
    AgreementIsHeeded
    WireHoldsTarget
    AcksAreNear
    TargetsReadAsAsked
PROPERTIES
    ChangesAreAgreed
