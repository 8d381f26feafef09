\* Any transfer may fail, answers come early, late or never.
SPECIFICATION Spec
CONSTANTS
    None = None
    Channel = {2, 8}
    Default = 8
    Others <- MCOthers
    Attempts = 2
    TxReads = 2
    RxReads = 4
    RecordsPerPage = 2
    MaxPages = 2
    Reports = {0, 3}
    Frames = 2
    MaxAir = 1
INVARIANTS
    SteadyDevicesAreHeard
PROPERTIES
    AnsweredOnItsChannel
    RepliesAreThisPolls
    CallsReturn
    KeepsLink
