SPECIFICATION Spec
CONSTANTS
    a = a  b = b  c = c  r1 = r1  r2 = r2
    General = General
    NoUser = NoUser
    Users = {a, b, c}
    Rooms = {r1}
    Requests = {t1, t2, t3}
    InitMembers <- PairRoom
    Inputs <- GrowInputs
    Deletable = {a}
SYMMETRY RequestSymmetry
INVARIANTS TypeOK NoForeignAccess AcceptedIsMember OnlyByInvitation FlagFitsRoom
PROPERTY Refines
