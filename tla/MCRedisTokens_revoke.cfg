SPECIFICATION Spec
CONSTANTS
    Call = {p1, p2}
    Device = {d1, d2}
    Token = {t1, t2, t3}
    MaxTokens = 1
    TokenTtl = 2
SYMMETRY Symmetry
INVARIANT RevokedStopsWorking
