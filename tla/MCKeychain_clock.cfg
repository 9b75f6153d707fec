SPECIFICATION FairSpec
CONSTANTS
    MaxTime = 5
    BuildEpoch = 2
    MaxNudge = 1
    Interval = 1
    Base = 4
    Width = 2
    MacBytes = 5
    Offsets = 2
    Mac <- MCMac
    Digits = 2
    Step = 4
INVARIANTS
    TypeOK
    CodesMoveForward
    ClockInv
    RestartKeepsTrust
    ShownCodeWorks
    CodesExpire
PROPERTY CodesGoAway
