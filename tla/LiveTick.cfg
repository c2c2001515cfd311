SPECIFICATION Spec
CONSTANTS
    i1 = i1
    i2 = i2
    Instances <- MCInstances
    LiveFrom <- MCLiveFrom
    MaxTime = 3
    Offsets = {1}
    Closes <- MCCloses
    MonthOf <- MCMonthOf
    StaleLimit = 1
    Deadline = 2
    PeakWindow = 1
    MaxFaults = 1
INVARIANTS
    TypeOK
    DeadlineSpaced
    RepeatedOnlyBehind
    SentIsRecorded
CHECK_DEADLOCK FALSE
