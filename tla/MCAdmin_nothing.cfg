SPECIFICATION Spec
CONSTANTS
    Id = {a1, a2, d1}
    Key <- MCKey
    Label = {"label1"}
    Request = {r1, r2}
    Admins = {a1, a2}
    Initial = {a1, a2}
    MaxTries = 2
INVARIANT NothingWasChanged
