SPECIFICATION Spec
CONSTANTS
    a = a
    d1 = d1  d2 = d2  d3 = d3  d4 = d4  d5 = d5
    h1 = h1  h2 = h2  h3 = h3
    Users = {a}
    Ids = {d1, d2, d3, d4, d5}
    Handlers <- MCHandlers
    Max = 2
SYMMETRY MCSymmetry
INVARIANTS TypeOK LimitBounded
