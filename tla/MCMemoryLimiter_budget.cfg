SPECIFICATION MemorySpec
CONSTANTS
    Request = {r1, r2, r3}
    Device = {d1}
    Ip = {ip1}
    Code = {"code2"}
    Otp <- MCOtp
    Step = 2
    Minute = 1
    MaxLag = 1
    Attempts = 1
    IpAttempts = 2
    StartTime = 2
    MaxTime = 5
    Hour = 3
    FailuresPerHour = 2
    GlobalPerHour = 1
SYMMETRY Symmetry
INVARIANTS
    BudgetHolds
    GuessesPerStep
    AlertsCapped
    GuessingIsNoticed
    StoresAgree
