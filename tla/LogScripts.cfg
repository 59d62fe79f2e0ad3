SPECIFICATION Spec
CONSTANTS
    a = a
    b = b
    l = l
    Vehicles = {a, b}
    Leaders = {l}
    Pauses = {0, 1}
    MaxLines = 6
SYMMETRY Symmetry
INVARIANTS
    TypeOK
    NoKeyError
    TimesFitTheLog
    ScriptsAgree
    LeadersCountOnce
CHECK_DEADLOCK FALSE
