SPECIFICATION Spec
CONSTANTS
    a = a  b = b  c = c  r1 = r1  r2 = r2
    General = General
    NoUser = NoUser
    Users = {a, b, c}
    Rooms = {r1, r2}
    Requests = {t1, t2}
    InitMembers <- PairRoom
    Inputs <- CreateInputs
    Deletable = {a}
SYMMETRY RequestSymmetry
INVARIANTS NoForeignAccess FlagFitsRoom
PROPERTY Refines
