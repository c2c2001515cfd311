SPECIFICATION Spec
CONSTANTS
    MaxBar = 3
    MonthOf <- MCMonthOf
    Missing = {2}
    Ranges <- MCRanges
    StartNow = 3
    MaxJobs = 2
    MaxFaults = 1
    MaxStops = 1
    MaxCLI = 1
INVARIANTS
    TypeOK
    SuccessIsComplete
PROPERTIES
    StoredBarsKept
    JobEnds
CHECK_DEADLOCK FALSE
