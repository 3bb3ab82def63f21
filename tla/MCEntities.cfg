SPECIFICATION Spec
CONSTANTS
    c1 = c1
    c2 = c2
    a = a
    b = b
    v1 = v1
    v2 = v2
    MaxEdict = 1
    Classes = {c1, c2}
    Serials = {1}
    Names = {a, b}
    Values = {v1, v2}
    PropNames <- MCPropNames
    MaxIndex = 2
SYMMETRY MCSymmetry
INVARIANTS
    IsMap
    NoneMissing
    FollowsServer
