SPECIFICATION MCSpec
CONSTANTS
    Subjects = {s1}
    MaxGen = 2
    RegistryMax = 8
    None = None
    NoStart = NoStart
    Starts = {r1, r2}
    Stops = {t1, t2}
CHECK_DEADLOCK FALSE
INVARIANTS PinsAccountable ReaderSafe
PROPERTIES PinStepsSound PinsRemovalCompletes StartsAndStopsEnd
