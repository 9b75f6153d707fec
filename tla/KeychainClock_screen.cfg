SPECIFICATION FairSpec
CONSTANTS
    MaxTime = 5
    BuildEpoch = 2
    MaxNudge = 1
    Interval = 1
PROPERTY NoClockIsShown
