SPECIFICATION Spec
CONSTANTS
    Conn = {c1, c2}
    Message <- MCMessage
    MaxRequest = 1
    DrainLimit = 1
    Sink = 1
    MaxInFlight = 1
    Nothing = Nothing
INVARIANTS
    TypeOK
    SlotsCounted
PROPERTIES
    RepliesArrive
    ConnectionAdvances
    
    ConnectionsEnd
    ImplementsVerifierService
