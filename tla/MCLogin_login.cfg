SPECIFICATION FairSpec
CONSTANTS
    Request = {r1, r2}
    Device = {d1}
    Ip = {ip1}
    Code = {"code1", "code2"}
    Otp <- MCOtp
    Step = 2
    Minute = 1
    MaxLag = 1
    Attempts = 2
    IpAttempts = 2
    StartTime = 2
    MaxTime = 10
INVARIANTS
    TypeOK
    OneLoginPerCounter
    ClaimInv
PROPERTIES
    ImplementsOneTimeLogin
    EveryRequestAnswered
