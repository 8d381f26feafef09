\* One group, two failure texts, ticks that start late and overrun.
SPECIFICATION LiveSpec
CONSTANTS
    None = None
    Tick = 3
    Interval = 3
    Late = 1
    Work <- MCWork
    Mac = {a}
    Target = {t1, t2}
    Beat = beat
    Poll = poll
    RepeatEvery = 6
    ChangeEvery = 6
INVARIANTS
    LinesAreTrue
    SkipsAreSingle
PROPERTIES
    LinesAreWholeAndSpaced
    HeldIsTold
CHECK_DEADLOCK FALSE
