SPECIFICATION FairSpec
CONSTANTS
    Timers = {"once1", "once2", "every2"}
    Interval <- MCInterval
    MaxDelay = 3
    MaxLate = 2
    Off = Off
INVARIANTS
    TypeOK
    Armed
PROPERTIES
    DueRuns
